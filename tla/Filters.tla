------------------------------ MODULE Filters ------------------------------
(***************************************************************************)
(* Events, and the filters of a subscription (the JSON objects of a REQ    *)
(* message, services/client.go and services/auxfun.go).                    *)
(*                                                                         *)
(* A filter is a Go map: "given" are the keys it has, the other fields     *)
(* their values.  Lists are sets, except where the code cuts them off.     *)
(***************************************************************************)
EXTENDS Integers, Sequences, FiniteSets

CONSTANTS Ids, Pubkeys, Kinds, Times,
          Malformed     \* list items that are not 64 hex digits

ASSUME FilterAssumption == Times \subseteq Nat /\ 0 \in Times

TagKeys == {"#e", "#p",
            "#d",       \* a list under any other letter
            "#bad"}     \* any other letter with something that is no list
Lists   == {"authors", "ids", "kinds"}
Window  == {"since", "until"}

Filter == [given : SUBSET (Lists \cup Window \cup TagKeys \cup {"limit"}),
           authors : SUBSET (Pubkeys \cup Malformed), kinds : SUBSET Kinds,
           ids : SUBSET (Ids \cup Malformed), e : SUBSET (Ids \cup Malformed),
           p : SUBSET (Pubkeys \cup Malformed),
           since : Times, until : Times, limit : Nat]

(* refs are the values of the event's e tags, marks those of its p tags.   *)
Event == [id : Ids, pubkey : Pubkeys, kind : Kinds, at : Times,
          refs : SUBSET Ids, marks : SUBSET Pubkeys]

(* What a subscription accepts; a filter that fails ends the REQ.          *)
validateSubsFilters(f) ==
    /\ (f.authors \cup f.ids \cup f.e \cup f.p) \cap Malformed = {}
    /\ "kinds" \in f.given => f.kinds # {}

TagsOf(f) == f.given \cap TagKeys
(* parseFilter and fetchData look at one of the tag keys, the first that   *)
(* the iteration over the map produces, to see whether there are tags.     *)
MayHaveTags(f) == IF TagsOf(f) = {} THEN {FALSE}
                  ELSE {k # "#bad" : k \in TagsOf(f)}

-----------------------------------------------------------------------------
(* What nip-01, quoted in the comments of filterMatchSingle and fetchData, *)
(* says of a filter: all of its conditions hold of the event.              *)

Holds(key, f, ev) ==
    \/ key = "authors" /\ ev.pubkey \in f.authors
    \/ key = "ids"     /\ ev.id \in f.ids
    \/ key = "kinds"   /\ ev.kind \in f.kinds
    \/ key = "#e"      /\ f.e \cap ev.refs # {}
    \/ key = "#p"      /\ f.p \cap ev.marks # {}
    \/ key = "since"   /\ f.since <= ev.at
    \/ key = "until"   /\ ev.at <= f.until
Matches(f, ev) == \A key \in f.given \ {"limit"} : Holds(key, f, ev)

(* Strictly inside its window, where all readings of it agree.             *)
Inside(f, ev) == /\ "since" \in f.given => f.since < ev.at
                 /\ "until" \in f.given => ev.at < f.until
=============================================================================

---------------------------- MODULE FilterMatch ----------------------------
(***************************************************************************)
(* parseFilter (services/defs.go) and filterMatchSingle                    *)
(* (services/auxfun.go): whether a new event is sent to a subscriber.      *)
(***************************************************************************)
EXTENDS Filters

(* The bits of fltState, as a set, for the order in which the map happens  *)
(* to be iterated.                                                         *)
parseFilter(f) ==
    {(f.given \cap (Lists \cup Window)) \cup (IF t THEN {"tags"} ELSE {}) :
        t \in MayHaveTags(f)}

(* The cases that jump to RESULT for a match and fall out of the switch,   *)
(* which is to RESULT as well, for none: they send every event, although   *)
(* the comment above the function has all the conditions of a filter met.  *)
FallOut == {{"authors"}, {"ids"}, {"kinds"}, {"since"}, {"until"}, {"tags"},
            {"since", "until"}, {"kinds", "since", "until"}}

(* #e is looked up in the event's id and #p in its author.                 *)
filterMatchSingle(st, f, ev) ==
    LET ar == ev.pubkey \in f.authors
        kr == ev.kind \in f.kinds
        tr == \/ "#e" \in f.given /\ ev.id \in f.e
              \/ "#p" \in f.given /\ ev.pubkey \in f.p
    IN  \/ st \in FallOut
        \/ st = {"authors", "kinds"} /\ ar /\ kr
        \/ st = {"authors", "kinds", "since"} /\ ar /\ kr /\ ev.at > f.since
        \/ st = {"kinds", "since"} /\ kr /\ ev.at > f.since
        \/ st = {"kinds", "tags"} /\ kr /\ tr
        \/ st = {"kinds", "tags", "since"} /\ kr /\ tr /\ ev.at > f.since
        \/ st = {"tags", "since", "until"} /\ tr /\ ev.at > f.since
                                           /\ ev.at < f.until
=============================================================================

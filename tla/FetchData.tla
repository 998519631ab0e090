----------------------------- MODULE FetchData -----------------------------
(***************************************************************************)
(* The initial query of a filter: fetchData (services/client.go) and the   *)
(* queries of the repository (internal/data/firestoredb/nostr-repo.go).    *)
(*                                                                         *)
(* A query is a set of possible results, sequences of documents: the order *)
(* of documents of the same second, the order of a map's keys and the      *)
(* point where reading them fails are not determined.                      *)
(***************************************************************************)
EXTENDS Filters

CONSTANTS DefaultLimit, MaxLimit,   \* default_limit_value, and 5000
          Short,          \* the hex strings below 2^64: 48 leading zeros
          AuthorsCut, KindsCut      \* 10 and 3 list items at most

ASSUME LimitAssumption == /\ {DefaultLimit, MaxLimit} \subseteq Nat \ {0}
                          /\ {AuthorsCut, KindsCut} \subseteq Nat

SE == INSTANCE SequencesExt

max_events(f) == IF "limit" \notin f.given THEN DefaultLimit
                 ELSE IF f.limit = 0 \/ f.limit > MaxLimit THEN MaxLimit
                 ELSE f.limit

(* The first n items of a list, whichever they are.                        *)
Cut(S, n) == {T \in SUBSET S : Cardinality(T) = IF Cardinality(S) <= n
                                                THEN Cardinality(S) ELSE n}

(* The condition is absent, or 0: no bound.  Both bounds are exclusive.    *)
Since(f) == IF "since" \in f.given THEN f.since ELSE 0
Until(f) == IF "until" \in f.given THEN f.until ELSE 0
Between(f, d) == /\ Since(f) > 0 => d.at > Since(f)
                 /\ Until(f) > 0 => d.at < Until(f)

Choices(D, n) == {s \in SE!SetToAllKPermutations(D) : Len(s) <= n}

(* MUTANT: the limit is not passed on to the database. *)
MutLastN(D, n) ==
    {s \in Choices(D, Cardinality(D)) :
        \A i \in 1..Len(s) : \A d \in D :
            d \notin {s[k] : k \in 1..i} => d.at <= s[i].at}
(* OrderBy("CreatedAt", Desc).Limit(n).  When reading fails, the loop ends *)
(* and the method returns what it has: a prefix.                           *)
LastN(D, n) ==
    {s \in Choices(D, n) :
        \A i \in 1..Len(s) : \A d \in D :
            d \notin {s[k] : k \in 1..i} => d.at <= s[i].at}

(* A query that found nothing is an error, of the whole REQ.               *)
Error    == {[ok |-> FALSE, res |-> <<>>]}
Found(S) == {[ok |-> s # <<>>, res |-> s] : s \in S}
NoQuery  == {[ok |-> TRUE, res |-> <<>>]}

GetEvents(f, D) == Found(LastN({d \in D : Between(f, d)}, max_events(f)))

MaxKinds == 30

GetEventsByKinds(f, D) ==
    UNION {Found(LastN({d \in D : d.kind \in K /\ Between(f, d)}, max_events(f))) :
              K \in Cut(f.kinds, MaxKinds)}

(* No order is asked for here.  The authors that survive are those that    *)
(* ParseUint can parse, in 64 bits.                                        *)
GetEventsBtAuthorsAndKinds(f, D) ==
    UNION {UNION {Found(Choices({d \in D : /\ d.pubkey \in A /\ d.kind \in K
                                           /\ Between(f, d)}, max_events(f))) :
                     K \in Cut(f.kinds, KindsCut)} :
              A \in Cut(f.authors \cap Short, AuthorsCut)}

(* The switch of fetchData; t: it saw tags.                                *)
QueryCase(f, t) ==
    LET lists == (f.given \cap Lists) \cup (IF t THEN {"tags"} ELSE {})
    IN  CASE lists \in {{"authors"}, {"ids"}, {"kinds"}, {"tags"}} ->
                CHOOSE x \in lists : TRUE
          [] lists = {} /\ "limit" \in f.given -> "limit"
          [] OTHER -> IF Since(f) > 0 THEN "window"
                      ELSE IF lists = {"authors", "kinds"} THEN "authors and kinds"
                      ELSE "none"

(* checkAndConvertFilterLists wants a []string, and a filter that comes    *)
(* from JSON has none: authors, ids and #e alone are always an error.      *)
fetchData(f, t, D) ==
    LET c == QueryCase(f, t)
    IN  CASE c \in {"authors", "ids"} -> Error
          [] c = "kinds" -> GetEventsByKinds(f, D)
          [] c = "tags" -> IF "#e" \in f.given THEN Error ELSE NoQuery
          [] c = "limit" -> Found(LastN(D, max_events(f)))
          [] c = "window" -> GetEvents(f, D)
          [] c = "authors and kinds" -> GetEventsBtAuthorsAndKinds(f, D)
          [] OTHER -> NoQuery

(* The message that is sent: every event is decoded into the same map,     *)
(* which therefore holds the last one, in all the places.                  *)
Batch(s) == [i \in 1..Len(s) |-> s[Len(s)]]
=============================================================================

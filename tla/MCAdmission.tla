---------------------------- MODULE MCAdmission ----------------------------
(* Instances of Admission for TLC.                                         *)
EXTENDS Admission, TLC

CONSTANTS a1, a2, w1, s1, s2, s3

Lists == [program |-> {}, database |-> {w1}]
Alike == Permutations(Slots)

(* Requests arrive in their order: of one address up to a limit of two, of *)
(* one address and a program that is started again, of two addresses that  *)
(* are listed at once, or of a white-listed one.                           *)
Used == {r \in Requests : at[r] # "new"}
From(S) == {ip[r] : r \in Used} \subseteq S
InOrder == \A r, x \in Requests : r < x /\ at[x] # "new" => at[r] # "new"
Window == /\ From({a1}) /\ RateLimitMax = 2 /\ blackDB = {} /\ starts <= 1
          /\ \A r \in Requests : at[r] # "listing"
Again == /\ From({a1}) /\ RateLimitMax = 1 /\ blackDB \subseteq {a1} /\ now <= 1
         /\ Cardinality(Used) <= 3
Two   == /\ From({a1, a2}) /\ RateLimitMax = 1 /\ now = 0 /\ starts <= 1
         /\ saved \subseteq {a1, a2} /\ (Used = {} => saved = {}) /\ raced = {}
Whites == /\ From({w1}) /\ RateLimitMax = 1 /\ now = 0 /\ blackDB = {}
          /\ Cardinality(Used) <= 3
OneTopic == InOrder /\ (Window \/ Again \/ Two \/ Whites)
=============================================================================

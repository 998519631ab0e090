------------------------------- MODULE FsPool -------------------------------
(***************************************************************************)
(* The pool of Firestore clients (pkg/fspool/fspool.go).  It is a map from *)
(* the address of a client to the client; who asks gets the address of a   *)
(* copy, which shares the connection with the client in the map.           *)
(***************************************************************************)
EXTENDS Integers, FiniteSets

CONSTANT Slots             \* the clients of the pool, 128

VARIABLES closed,          \* those whose connection was closed
          busy             \* busy_clients, without repetitions

fspool == <<closed, busy>>

PoolInit == closed = {} /\ busy = {}

(* The address of a copy is not the address of what it was copied from:    *)
(* a client that is handed out is never found among the busy ones.         *)
Copy(s) == <<"copy", s>>
containsMA(s) == s \in busy

(* main releases two of the clients, and needs one more.                   *)
ASSUME ClientsAssumption == /\ IsFiniteSet(Slots) /\ Cardinality(Slots) > 2
                            /\ \A s \in Slots : Copy(s) \notin Slots

(* MUTANT: the key of the map is noted instead of the copy. *)
MutGetClient(s) == ~containsMA(s) /\ busy' = busy \cup {s}
(* Any client, as a map is iterated in any order.  (The list is appended   *)
(* to without the lock: of two calls at once, one may be lost.  What is    *)
(* on it makes no difference to what is handed out.)                       *)
GetClient(s) == ~containsMA(s) /\ busy' = busy \cup {Copy(s)}

(* Get and release, with a use in between, by a single goroutine.          *)
ReleaseClient(s) == closed' = closed \cup {s} /\ busy' = busy \ {Copy(s)}

(* Some client can be had, and used.                                       *)
Serves == \E s \in Slots : ~containsMA(s) /\ s \notin closed
=============================================================================

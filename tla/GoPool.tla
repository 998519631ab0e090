------------------------------- MODULE GoPool -------------------------------
(***************************************************************************)
(* The pool of goroutines (pkg/gopool/gopool.go): workers are started when *)
(* tasks are scheduled, up to a limit, and then take tasks from a queue    *)
(* for ever.                                                               *)
(*                                                                         *)
(* The select of schedule takes any of its cases that is ready: a place in *)
(* the queue, a new worker, the timeout.  A worker is started with its     *)
(* task; the token it holds in "sem" comes back only when it ends, which   *)
(* it never does, as nobody closes "work".                                 *)
(***************************************************************************)
EXTENDS Integers, Sequences, FiniteSets

CONSTANTS Tasks,
          NoWorker, Waiting,     \* a token that is not used, an idle worker
          Size, Queue, Spawn     \* the parameters of NewPool

(* NewPool panics otherwise, and main sees to it that the queue and the    *)
(* workers are not zero.                                                   *)
ASSUME PoolAssumption == /\ {Size, Queue, Spawn} \subseteq Nat \ {0}
                         /\ Spawn <= Size
                         /\ NoWorker # Waiting /\ Tasks \cap {NoWorker, Waiting} = {}

VARIABLES work,      \* the queue
          worker     \* what the workers do

pool == <<work, worker>>
Workers == 1..Size

(* The workers with a token in sem.                                        *)
Started == {w \in Workers : worker[w] # NoWorker}

PoolInit ==
    /\ work = <<>>
    /\ worker = [w \in Workers |-> IF w <= Spawn THEN Waiting ELSE NoWorker]

(* The two ways to schedule a task t, for a caller that leaves the workers *)
(* in the state ws.                                                        *)
(* MUTANT: one more task than the queue holds. *)
MutEnqueue(t, ws) ==
    /\ Len(work) <= Queue
    /\ work' = Append(work, t) /\ worker' = ws
Enqueue(t, ws) ==
    /\ Len(work) < Queue
    /\ work' = Append(work, t) /\ worker' = ws
Start(t, ws) ==
    /\ Cardinality(Started) < Size
    /\ LET w == Cardinality(Started) + 1 IN worker' = [ws EXCEPT ![w] = t]
    /\ UNCHANGED work
schedule(t, ws) == Enqueue(t, ws) \/ Start(t, ws)

(* for task := range p.work                                                *)
Take(w) ==
    /\ worker[w] = Waiting /\ work # <<>>
    /\ worker' = [worker EXCEPT ![w] = Head(work)] /\ work' = Tail(work)

(* The task returns.                                                       *)
Returned(w) == [worker EXCEPT ![w] = Waiting]

-----------------------------------------------------------------------------

(* No more tasks wait than the queue holds, and the workers that were      *)
(* started are the first ones.                                             *)
PoolTypeOK ==
    /\ work \in Seq(Tasks) /\ Len(work) <= Queue
    /\ worker \in [Workers -> Tasks \cup {NoWorker, Waiting}]
    /\ Started = 1..Cardinality(Started) /\ Spawn <= Cardinality(Started)

(* Where a task is.                                                        *)
Queued(t)  == \E i \in 1..Len(work) : work[i] = t
Running(t) == \E w \in Workers : worker[w] = t

(* A task that was scheduled once is run once: it never waits twice, nor   *)
(* waits while it runs, nor has two workers.                               *)
RunOnce(T) == \A t \in T :
    /\ ~(Queued(t) /\ Running(t))
    /\ \A i, j \in 1..Len(work) : work[i] = t /\ work[j] = t => i = j
    /\ \A v, w \in Workers : worker[v] = t /\ worker[w] = t => v = w
=============================================================================

--------------------------- MODULE SessionProofs ---------------------------
(***************************************************************************)
(* Proofs about Session, for any number of requests, addresses, names and  *)
(* workers: its five invariants.                                           *)
(*                                                                         *)
(* They support each other.  A client is not shared because Remove works   *)
(* on a request that has ended, and on each once; that a request ends once *)
(* is what HandledOnce says of the pool; that Remove takes the right entry *)
(* from the ledger is so because the fields of a client that is not shared *)
(* are those of its request, by when the goroutine puts the key together.  *)
(***************************************************************************)
EXTENDS Session, FiniteSetTheorems, TLAPS

-----------------------------------------------------------------------------
(* The pool of goroutines: what its steps do to a queue q and to workers   *)
(* ws that are in order.  Fit is PoolTypeOK and RunOnce, said of any queue *)
(* and any workers, as a task is scheduled within another one for the      *)
(* workers as they are when that one has returned.                         *)

In(q, t)  == \E i \in 1..Len(q) : q[i] = t
By(ws, t) == \E w \in Workers : ws[w] = t
Begun(ws) == {w \in Workers : ws[w] # NoWorker}

Typed(q, ws) == /\ q \in Seq(Tasks) /\ Len(q) <= Queue
                /\ ws \in [Workers -> Tasks \cup {NoWorker, Waiting}]
First(ws) == \E k \in Spawn..Size : Begun(ws) = 1..k
Once(q, ws) == \A t \in Tasks :
    /\ ~(In(q, t) /\ By(ws, t))
    /\ \A i, j \in 1..Len(q) : q[i] = t /\ q[j] = t => i = j
    /\ \A v, w \in Workers : ws[v] = t /\ ws[w] = t => v = w
Fit(q, ws) == Typed(q, ws) /\ First(ws) /\ Once(q, ws)

(* NewPool's parameters.                                                   *)
LEMMA Parameters ==
    /\ Size \in Nat /\ Queue \in Nat /\ Spawn \in Nat /\ 0 < Spawn /\ Spawn <= Size
    /\ NoWorker \notin Tasks /\ Waiting \notin Tasks /\ NoWorker # Waiting
BY PoolAssumption

(* A set 1..k has k elements.                                              *)
LEMMA FirstCount ==
    ASSUME NEW ws, NEW k \in Spawn..Size, Begun(ws) = 1..k
    PROVE  Cardinality(Begun(ws)) = k
BY Parameters, FS_Interval

LEMMA FitMeans == Fit(work, worker) <=> PoolTypeOK /\ RunOnce(Tasks)
<1>1. Once(work, worker) <=> RunOnce(Tasks)
      BY DEF Once, RunOnce, In, By, Queued, Running
<1>2. Begun(worker) = Started BY DEF Begun, Started
<1>3. ASSUME Fit(work, worker) PROVE PoolTypeOK
  <2>1. PICK k \in Spawn..Size : Started = 1..k BY <1>2, <1>3 DEF Fit, First
  <2>2. Cardinality(Started) = k BY <1>2, <2>1, FirstCount
  <2> QED BY <1>3, <2>1, <2>2, Parameters DEF Fit, Typed, PoolTypeOK
<1>4. ASSUME PoolTypeOK PROVE Typed(work, worker) /\ First(worker)
  <2>1. Started \subseteq 1..Size /\ IsFiniteSet(1..Size) /\ Cardinality(1..Size) = Size
        BY Parameters, FS_Interval DEF Started, Workers
  <2>2. Cardinality(Started) \in Nat /\ Cardinality(Started) <= Size
        BY <2>1, FS_Subset, FS_CardinalityType
  <2> QED BY <1>2, <1>4, <2>2, Parameters DEF PoolTypeOK, Typed, First
<1> QED BY <1>1, <1>3, <1>4 DEF Fit

(* NewPool.                                                                *)
LEMMA FitInit ==
    ASSUME PoolInit PROVE Fit(work, worker) /\ \A t \in Tasks : ~In(work, t) /\ ~By(worker, t)
<1>1. work = <<>> /\ Len(work) = 0 /\ \A w \in Workers : worker[w] \notin Tasks
      BY Parameters DEF PoolInit
<1>2. Begun(worker) = 1..Spawn BY Parameters DEF PoolInit, Begun, Workers
<1>3. Typed(work, worker) BY <1>1, Parameters DEF PoolInit, Typed
<1>4. First(worker) BY <1>2, Parameters DEF First
<1>5. Once(work, worker) BY <1>1 DEF Once, In
<1> QED BY <1>1, <1>3, <1>4, <1>5 DEF Fit, In, By

(* A task that is nowhere yet is put into the queue.                       *)
LEMMA FitEnqueue ==
    ASSUME NEW q, NEW ws, Fit(q, ws), NEW t \in Tasks,
           ~In(q, t), ~By(ws, t), Len(q) < Queue
    PROVE  /\ Fit(Append(q, t), ws)
           /\ \A x : In(Append(q, t), x) <=> In(q, x) \/ x = t
<1> DEFINE s == Append(q, t)
<1>1. q \in Seq(Tasks) BY DEF Fit, Typed
<1>2. /\ Len(q) \in Nat /\ s \in Seq(Tasks) /\ Len(s) = Len(q) + 1
      /\ s[Len(q) + 1] = t /\ \A i \in 1..Len(q) : s[i] = q[i]
      BY <1>1
<1> HIDE DEF s
<1>3. ASSUME NEW i \in 1..Len(s)
      PROVE  \/ i \in 1..Len(q) /\ s[i] = q[i]
             \/ i = Len(s) /\ s[i] = t
      BY <1>2
<1>4. \A x : In(s, x) <=> In(q, x) \/ x = t BY <1>2, <1>3 DEF In
<1>5. Typed(s, ws) BY <1>2, Parameters DEF Fit, Typed
<1>6. Once(s, ws)
  <2> SUFFICES ASSUME NEW x \in Tasks
               PROVE  /\ ~(In(s, x) /\ By(ws, x))
                      /\ \A i, j \in 1..Len(s) : s[i] = x /\ s[j] = x => i = j
                      /\ \A v, w \in Workers : ws[v] = x /\ ws[w] = x => v = w
      BY DEF Once
  <2>1. ~(In(s, x) /\ By(ws, x)) BY <1>4 DEF Fit, Once
  <2>2. ASSUME NEW i \in 1..Len(s), NEW j \in 1..Len(s), s[i] = x, s[j] = x
        PROVE  i = j
        BY <1>3, <2>2 DEF Fit, Once, In
  <2> QED BY <2>1, <2>2 DEF Fit, Once
<1> QED BY <1>4, <1>5, <1>6 DEF Fit, s

(* A task that is nowhere yet is started, by a worker of its own.          *)
LEMMA FitStart ==
    ASSUME NEW q, NEW ws, Fit(q, ws), NEW t \in Tasks,
           ~In(q, t), ~By(ws, t), Cardinality(Begun(ws)) < Size
    PROVE  LET new == [ws EXCEPT ![Cardinality(Begun(ws)) + 1] = t]
           IN  Fit(q, new) /\ \A x \in Tasks : By(new, x) <=> By(ws, x) \/ x = t
<1>1. PICK k \in Spawn..Size : Begun(ws) = 1..k BY DEF Fit, First
<1> DEFINE n == k + 1
           new == [ws EXCEPT ![n] = t]
<1>2. Cardinality(Begun(ws)) + 1 = n /\ n \in Spawn..Size
      BY <1>1, FirstCount, Parameters
<1>3. n \in Workers /\ n \notin Begun(ws) BY <1>1, <1>2, Parameters DEF Workers
<1>4. ws[n] = NoWorker BY <1>3 DEF Begun
<1>5. ws \in [Workers -> Tasks \cup {NoWorker, Waiting}] BY DEF Fit, Typed
<1>6. new[n] = t /\ \A w \in Workers \ {n} : new[w] = ws[w] BY <1>3, <1>5
<1>7. Typed(q, new) BY <1>5 DEF Fit, Typed
<1> HIDE DEF new
<1>8. Begun(new) = 1..n
  <2>1. \A w \in Workers : w \in Begun(new) <=> w \in Begun(ws) \/ w = n
        BY <1>3, <1>6, Parameters DEF Begun
  <2>2. Begun(new) = Begun(ws) \cup {n} BY <1>3, <2>1 DEF Begun
  <2> QED BY <1>1, <2>2, Parameters
<1>9. \A x \in Tasks : By(new, x) <=> By(ws, x) \/ x = t
      BY <1>3, <1>4, <1>6, Parameters DEF By
<1>10. Once(q, new)
  <2> SUFFICES ASSUME NEW x \in Tasks
               PROVE  /\ ~(In(q, x) /\ By(new, x))
                      /\ \A i, j \in 1..Len(q) : q[i] = x /\ q[j] = x => i = j
                      /\ \A v, w \in Workers : new[v] = x /\ new[w] = x => v = w
      BY DEF Once
  <2>1. ~(In(q, x) /\ By(new, x)) BY <1>9 DEF Fit, Once
  <2>2. ASSUME NEW v \in Workers, NEW w \in Workers, new[v] = x, new[w] = x
        PROVE  v = w
        BY <1>6, <2>2 DEF Fit, Once, By
  <2> QED BY <2>1, <2>2 DEF Fit, Once
<1>11. Fit(q, new) BY <1>2, <1>7, <1>8, <1>10 DEF Fit, First
<1> QED BY <1>2, <1>9, <1>11 DEF new

(* An idle worker takes the first task of the queue.                       *)
LEMMA FitTake ==
    ASSUME NEW q, NEW ws, Fit(q, ws), NEW w \in Workers, ws[w] = Waiting, q # <<>>
    PROVE  LET new == [ws EXCEPT ![w] = Head(q)]
           IN  /\ Fit(Tail(q), new)
               /\ \A x \in Tasks : In(Tail(q), x) \/ By(new, x) <=> In(q, x) \/ By(ws, x)
<1> DEFINE t == Head(q)
           s == Tail(q)
           new == [ws EXCEPT ![w] = t]
<1>1. q \in Seq(Tasks) /\ ws \in [Workers -> Tasks \cup {NoWorker, Waiting}]
      BY DEF Fit, Typed
<1>2. /\ Len(q) \in Nat /\ Len(q) >= 1 /\ t = q[1] /\ t \in Tasks
      /\ s \in Seq(Tasks) /\ Len(s) = Len(q) - 1
      /\ \A i \in 1..Len(s) : s[i] = q[i + 1]
      BY <1>1
<1>3. new[w] = t /\ \A v \in Workers \ {w} : new[v] = ws[v] BY <1>1
<1>4. Typed(s, new) BY <1>1, <1>2, Parameters DEF Fit, Typed
<1> HIDE DEF t, s, new
<1>5. Begun(new) = Begun(ws) BY <1>2, <1>3, Parameters DEF Begun
<1>6. First(new) BY <1>5 DEF Fit, First
<1>7. \A x \in Tasks : By(new, x) <=> By(ws, x) \/ x = t
      BY <1>3, Parameters DEF By
<1>8. \A x : In(q, x) <=> In(s, x) \/ x = t
  <2>1. ASSUME NEW i \in 1..Len(q) PROVE i = 1 \/ (i - 1 \in 1..Len(s) /\ s[i - 1] = q[i])
        BY <1>2
  <2>2. ASSUME NEW i \in 1..Len(s) PROVE i + 1 \in 1..Len(q) /\ s[i] = q[i + 1]
        BY <1>2
  <2>3. 1 \in 1..Len(q) BY <1>2
  <2> QED BY <1>2, <2>1, <2>2, <2>3 DEF In
<1>9. ~In(s, t)
  <2> SUFFICES ASSUME NEW i \in 1..Len(s), s[i] = t PROVE FALSE BY DEF In
  <2>1. i + 1 \in 1..Len(q) /\ 1 \in 1..Len(q) /\ q[i + 1] = t /\ q[1] = t BY <1>2
  <2>2. i + 1 = 1 BY <1>2, <2>1 DEF Fit, Once
  <2> QED BY <2>2
<1>10. ~By(ws, t) BY <1>2, <1>8 DEF Fit, Once
<1>11. Once(s, new)
  <2> SUFFICES ASSUME NEW x \in Tasks
               PROVE  /\ ~(In(s, x) /\ By(new, x))
                      /\ \A i, j \in 1..Len(s) : s[i] = x /\ s[j] = x => i = j
                      /\ \A u, v \in Workers : new[u] = x /\ new[v] = x => u = v
      BY DEF Once
  <2>1. ~(In(s, x) /\ By(new, x)) BY <1>7, <1>8, <1>9 DEF Fit, Once
  <2>2. ASSUME NEW i \in 1..Len(s), NEW j \in 1..Len(s), s[i] = x, s[j] = x
        PROVE  i = j
    <3>1. /\ i + 1 \in 1..Len(q) /\ q[i + 1] = x
          /\ j + 1 \in 1..Len(q) /\ q[j + 1] = x
          BY <1>2, <2>2
    <3>2. i + 1 = j + 1 BY <3>1 DEF Fit, Once
    <3> QED BY <3>2
  <2>3. ASSUME NEW u \in Workers, NEW v \in Workers, new[u] = x, new[v] = x
        PROVE  u = v
        BY <1>3, <1>10, <2>3 DEF Fit, Once, By
  <2> QED BY <2>1, <2>2, <2>3
<1>12. Fit(s, new) BY <1>4, <1>6, <1>11 DEF Fit
<1> QED BY <1>7, <1>8, <1>12 DEF t, s, new

(* A worker's task returns: it is nowhere any more.                        *)
LEMMA FitReturn ==
    ASSUME NEW q, NEW ws, Fit(q, ws), NEW w \in Workers,
           NEW t \in Tasks, ws[w] = t
    PROVE  LET new == [ws EXCEPT ![w] = Waiting]
           IN  /\ Fit(q, new) /\ Begun(new) = Begun(ws) /\ ~In(q, t)
               /\ \A x \in Tasks : By(new, x) <=> By(ws, x) /\ x # t
<1> DEFINE new == [ws EXCEPT ![w] = Waiting]
<1>1. ws \in [Workers -> Tasks \cup {NoWorker, Waiting}] BY DEF Fit, Typed
<1>2. new[w] = Waiting /\ \A v \in Workers \ {w} : new[v] = ws[v] BY <1>1
<1>3. Typed(q, new) BY <1>1 DEF Fit, Typed
<1> HIDE DEF new
<1>4. Begun(new) = Begun(ws) BY <1>2, Parameters DEF Begun
<1>5. \A x \in Tasks : By(new, x) <=> By(ws, x) /\ x # t
      BY <1>2, Parameters DEF By, Fit, Once
<1>6. Once(q, new) BY <1>2, <1>5, Parameters DEF Fit, Once
<1>7. ~In(q, t) BY DEF Fit, Once, By
<1> QED BY <1>3, <1>4, <1>5, <1>6, <1>7 DEF Fit, First, new

(* The pool takes a task that is nowhere yet, for workers ws.              *)
LEMMA FitSchedule ==
    ASSUME NEW ws, Fit(work, ws), Begun(ws) = Started, NEW t \in Tasks,
           ~In(work, t), ~By(ws, t), schedule(t, ws)
    PROVE  /\ Fit(work', worker')
           /\ \A x \in Tasks :
                 In(work', x) \/ By(worker', x) <=> In(work, x) \/ By(ws, x) \/ x = t
<1>1. CASE Enqueue(t, ws)
      BY <1>1, FitEnqueue DEF Enqueue
<1>2. CASE Start(t, ws)
      BY <1>2, FitStart DEF Start
<1> QED BY <1>1, <1>2 DEF schedule

-----------------------------------------------------------------------------
(* The invariant.                                                          *)

Steps == {"idle", "conn", "client", "ledger", "count", "clear"}

(* What the goroutine Remove holds, and what waits for it: requests that   *)
(* have ended, each once.                                                  *)
Removing ==
    /\ rm \in [pc : Steps, req : Requests \cup {NoKey}, key : Keys \cup {NoKey}]
    /\ rm.pc # "idle" => rm.req \in Requests
    /\ rm.pc \in {"conn", "client"} => at[rm.req] = "ended"
    /\ rm.pc \in {"ledger", "count", "clear"} => at[rm.req] = "returned"
    /\ rm.pc \in {"conn", "client", "ledger"} => rm.key = key[rm.req]
    /\ \A i \in 1..Len(clientCH) :
        /\ at[clientCH[i]] = "ended" /\ (rm.pc # "idle" => clientCH[i] # rm.req)
        /\ \A j \in 1..Len(clientCH) : clientCH[i] = clientCH[j] => i = j

(* The objects a request has, and when.                                    *)
Early == {"new", "upgraded"}
Having == \A r \in Requests :
    /\ at[r] \in Early => cl[r] = NoClient
    /\ at[r] \notin Early => cl[r] \in made \cap Clients
    /\ cn[r] # NoConn => cn[r] \in made \cap Conns
    /\ at[r] \notin {"new", "returned", "gone"} /\ ~(rm.pc = "client" /\ rm.req = r)
          => cn[r] # NoConn
    /\ at[r] # "new" => ip[r] \in IPs

(* The address of a client that a request, the ledger or the broadcaster   *)
(* knows.                                                                  *)
Fields ==
    /\ cname \in [Clients -> Names \cup {NoKey}] /\ cip \in [Clients -> IPs \cup {NoKey}]
    /\ {wired, sub, authed} \subseteq [Clients -> BOOLEAN]
    /\ bc \in Clients \cup {NoClient} /\ (bc # NoClient => cip[bc] \in IPs)
    /\ \A r \in Requests : at[r] \notin Early \cup {"got"} => cip[cl[r]] \in IPs
    /\ \A k \in DOMAIN ledger : ledger[k] \in Clients /\ cip[ledger[k]] \in IPs

(* The fields of a client are those of the request that uses it.           *)
Keyed == {"registered", "greeted", "accepted", "unserved", "ended"}
Named == \A r \in Requests :
    /\ at[r] \in Keyed \cup {"filled", "dropped"} => cip[cl[r]] = ip[r]
    /\ at[r] \in Keyed => key[r] = <<cname[cl[r]], cip[cl[r]]>> /\ key[r] \in Keys
    /\ at[r] \notin Keyed \cup {"returned", "gone"} => key[r] = NoKey

(* EntriesHeld, also while a client is removed.                            *)
Alive == \A k \in DOMAIN ledger : \E r \in Requests :
    /\ key[r] = k /\ cl[r] = ledger[k]
    /\ Holds(r) \/ (rm.pc = "ledger" /\ rm.req = r)

(* The requests that should be counted for an address are finitely many.   *)
Counting(a) == {r \in Requests :
    /\ ip[r] = a /\ at[r] \notin {"new", "upgraded", "gone"}
    /\ ~(rm.pc = "clear" /\ rm.req = r)}
Counted == \A a \in IPs : IsFiniteSet(Counting(a))

(* What does not depend on the pool.                                       *)
Shapes ==
    /\ at \in [Requests -> Stages] /\ ip \in [Requests -> IPs \cup {NoKey}]
    /\ cl \in [Requests -> Clients \cup {NoClient}]
    /\ cn \in [Requests -> Conns \cup {NoConn}]
    /\ key \in [Requests -> Keys \cup {NoKey}]
    /\ clpool \subseteq made \cap Clients /\ wspool \subseteq made \cap Conns
    /\ DOMAIN ledger \subseteq Keys /\ \A k \in DOMAIN ledger : ledger[k] \in made
    /\ count \in [IPs -> Nat] /\ off \subseteq IPs
    /\ clientCH \in Seq(Requests) /\ Len(clientCH) <= ChCap
Created == \A o \in made \cap Clients : \E r \in Requests : cl[r] = o

Core == /\ Shapes /\ Created /\ NoSharing /\ IPCounted
        /\ Removing /\ Having /\ Fields /\ Named /\ Alive /\ Counted

(* HandledOnce, for the pool in order.                                     *)
Outer(r) == <<"HandleClient", r>>
Inner(r) == <<"ReceiveMsg", r>>
Busy(t)  == In(work, t) \/ By(worker, t)
Handled == \A r \in Requests :
    /\ ~(Busy(Outer(r)) /\ Busy(Inner(r)))
    /\ Busy(Outer(r)) \/ Busy(Inner(r)) <=> at[r] = "accepted"

IInv == Fit(work, worker) /\ Handled /\ Core

(* NoKey is no key.                                                        *)
LEMMA NoKeyIsNone == NoKey \notin Keys
<1> SUFFICES ASSUME NoKey \in Keys PROVE FALSE OBVIOUS
<1>1. PICK n \in Names, a \in IPs : NoKey = <<n, a>> BY DEF Keys
<1>2. Len(NoKey) = 0 /\ Len(<<n, a>>) = 2 BY DEF NoKey
<1> QED BY <1>1, <1>2

LEMMA TasksOf ==
    /\ \A r \in Requests : Outer(r) \in Tasks
    /\ \A r \in Requests : Inner(r) \in Tasks
    /\ \A r, x : Outer(r) # Inner(x)
    /\ \A r, x : Outer(r) = Outer(x) => r = x
    /\ \A r, x : Inner(r) = Inner(x) => r = x
BY SessionAssumption DEF Outer, Inner

(* Handled, said of both states with the tasks of one request.             *)
HandledAt(x) == /\ ~(Busy(Outer(x)) /\ Busy(Inner(x)))
                /\ Busy(Outer(x)) \/ Busy(Inner(x)) <=> at[x] = "accepted"
LEMMA HandledEach == /\ Handled <=> \A x \in Requests : HandledAt(x)
                     /\ Handled' <=> \A x \in Requests : HandledAt(x)'
BY DEF Handled, HandledAt

LEMMA IInvMeans ==
    ASSUME IInv PROVE TypeOK /\ NoSharing /\ EntriesHeld /\ IPCounted /\ HandledOnce
<1>1. PoolTypeOK /\ RunOnce(Tasks) BY FitMeans DEF IInv
<1>2. TypeOK BY <1>1 DEF TypeOK, IInv, Core, Shapes, Created
<1>3. EntriesHeld BY DEF IInv, Core, Alive, EntriesHeld
<1>4. \A t : Busy(t) <=> Queued(t) \/ Running(t)
      BY DEF Busy, In, By, Queued, Running
<1>5. HandledOnce BY <1>1, <1>4 DEF HandledOnce, IInv, Handled, Outer, Inner
<1> QED BY <1>2, <1>3, <1>5 DEF IInv, Core

LEMMA InitIInv == Init => IInv
<1> SUFFICES ASSUME Init PROVE IInv OBVIOUS
<1> USE DEF Init
<1>1. Fit(work, worker) /\ \A t \in Tasks : ~Busy(t) BY FitInit DEF Busy
<1>2. Handled BY <1>1, TasksOf DEF Handled
<1>3. Shapes BY SessionAssumption DEF Shapes, Stages
<1>4. Created /\ NoSharing /\ Having /\ Fields /\ Named /\ Alive
      BY SessionAssumption DEF Created, NoSharing, Having, Fields, Named, Alive,
         Early, Keyed, Holds
<1>5. Removing BY DEF Removing, Idle, Steps
<1>6. \A a \in IPs : Counting(a) = {} BY DEF Counting
<1>7. Counted BY <1>6, FS_EmptySet DEF Counted
<1>8. IPCounted BY <1>6, FS_EmptySet DEF IPCounted, Counting
<1> QED BY <1>1, <1>2, <1>3, <1>4, <1>5, <1>7, <1>8 DEF IInv, Core

-----------------------------------------------------------------------------
(* The pool.                                                               *)

(* The pool is left alone, and no request is accepted or ends.             *)
LEMMA PoolAside ==
    ASSUME IInv, UNCHANGED pool,
           \A r \in Requests : at[r] = "accepted" <=> at'[r] = "accepted"
    PROVE  Fit(work', worker') /\ Handled'
BY DEF IInv, Handled, Busy, In, By, pool, Workers

LEMMA PoolAccept ==
    ASSUME IInv, NEW r \in Requests, Accept(r)
    PROVE  Fit(work', worker') /\ Handled'
<1>1. /\ at[r] = "greeted" /\ schedule(Outer(r), worker)
      /\ at' = [at EXCEPT ![r] = "accepted"] /\ at \in [Requests -> Stages]
      BY DEF Accept, Goto, Outer, IInv, Core, Shapes
<1>2. ~Busy(Outer(r)) /\ ~Busy(Inner(r))
      BY <1>1, HandledEach DEF IInv, HandledAt
<1>3. /\ Fit(work', worker')
      /\ \A x \in Tasks : In(work', x) \/ By(worker', x) <=> Busy(x) \/ x = Outer(r)
      BY <1>1, <1>2, TasksOf, FitSchedule DEF IInv, Busy, Begun, Started
<1>4. \A x \in Tasks : Busy(x)' <=> Busy(x) \/ x = Outer(r)
      BY <1>3 DEF Busy, In, By
<1>5. ASSUME NEW x \in Requests PROVE HandledAt(x)'
  <2>1. HandledAt(x) BY HandledEach DEF IInv
  <2>2. /\ Outer(x) \in Tasks /\ Inner(x) \in Tasks
        /\ Inner(x) # Outer(r) /\ (Outer(x) = Outer(r) <=> x = r)
        BY TasksOf
  <2>3. (Busy(Outer(x))' <=> Busy(Outer(x)) \/ x = r) /\ (Busy(Inner(x))' <=> Busy(Inner(x)))
        BY <1>4, <2>2
  <2>4. (at[x] = "accepted")' <=> x = r \/ at[x] = "accepted" BY <1>1
  <2> QED BY <1>2, <2>1, <2>3, <2>4 DEF HandledAt
<1> QED BY <1>3, <1>5, HandledEach

LEMMA PoolTake ==
    ASSUME IInv, NEW w \in Workers, TakeTask(w)
    PROVE  Fit(work', worker') /\ Handled'
<1>1. /\ worker[w] = Waiting /\ work # <<>> /\ at' = at
      /\ worker' = [worker EXCEPT ![w] = Head(work)] /\ work' = Tail(work)
      BY DEF TakeTask, Take, request
<1>2. /\ Fit(work', worker')
      /\ \A x \in Tasks : In(work', x) \/ By(worker', x) <=> Busy(x)
      BY <1>1, FitTake DEF IInv, Busy
<1>3. \A x \in Tasks : Busy(x)' <=> Busy(x) BY <1>2 DEF Busy, In, By
<1>4. ASSUME NEW x \in Requests PROVE HandledAt(x)'
  <2>1. HandledAt(x) BY HandledEach DEF IInv
  <2>2. (Busy(Outer(x))' <=> Busy(Outer(x))) /\ (Busy(Inner(x))' <=> Busy(Inner(x)))
        BY <1>3, TasksOf
  <2> QED BY <1>1, <2>1, <2>2 DEF HandledAt
<1> QED BY <1>2, <1>4, HandledEach

LEMMA PoolHandle ==
    ASSUME IInv, NEW w \in Workers, HandleClient(w)
    PROVE  Fit(work', worker') /\ Handled'
<1>1. PICK r \in Requests : /\ worker[w] = Outer(r) /\ at' = at
                            /\ schedule(Inner(r), Returned(w))
      BY DEF HandleClient, Outer, Inner, request
<1> DEFINE ws == Returned(w)
<1>2. Outer(r) \in Tasks /\ Inner(r) \in Tasks /\ Outer(r) # Inner(r)
      BY <1>1, TasksOf
<1>3. /\ Fit(work, ws) /\ Begun(ws) = Begun(worker) /\ ~In(work, Outer(r))
      /\ \A x \in Tasks : By(ws, x) <=> By(worker, x) /\ x # Outer(r)
      BY <1>1, <1>2, FitReturn DEF IInv, Returned
<1>4. Busy(Outer(r)) BY <1>1 DEF Busy, By
<1>5. ~Busy(Inner(r)) BY <1>1, <1>4, HandledEach DEF IInv, HandledAt
<1> HIDE DEF ws
<1>6. ~In(work, Inner(r)) /\ ~By(ws, Inner(r)) BY <1>2, <1>3, <1>5 DEF Busy
<1>7. schedule(Inner(r), ws) /\ Begun(ws) = Started
      BY <1>1, <1>3 DEF ws, Begun, Started
<1>8. /\ Fit(work', worker')
      /\ \A x \in Tasks : In(work', x) \/ By(worker', x)
                            <=> In(work, x) \/ By(ws, x) \/ x = Inner(r)
      BY <1>2, <1>3, <1>6, <1>7, FitSchedule
<1>9. \A x \in Tasks : Busy(x)' <=> (Busy(x) /\ x # Outer(r)) \/ x = Inner(r)
      BY <1>3, <1>8 DEF Busy, In, By
<1>10. ASSUME NEW x \in Requests PROVE HandledAt(x)'
  <2>1. HandledAt(x) BY HandledEach DEF IInv
  <2>2. /\ Outer(x) \in Tasks /\ Inner(x) \in Tasks
        /\ Inner(x) # Outer(r) /\ Outer(x) # Inner(r)
        /\ (Outer(x) = Outer(r) <=> x = r) /\ (Inner(x) = Inner(r) <=> x = r)
        BY <1>1, TasksOf
  <2>3. /\ Busy(Outer(x))' <=> Busy(Outer(x)) /\ x # r
        /\ Busy(Inner(x))' <=> Busy(Inner(x)) \/ x = r
        BY <1>9, <2>2
  <2> QED BY <1>1, <1>4, <2>1, <2>3 DEF HandledAt
<1> QED BY <1>8, <1>10, HandledEach

LEMMA PoolEnd ==
    ASSUME IInv, NEW w \in Workers, EndReceive(w)
    PROVE  Fit(work', worker') /\ Handled'
<1>1. PICK r \in Requests :
          /\ worker[w] = Inner(r) /\ at' = [at EXCEPT ![r] = "ended"]
          /\ worker' = Returned(w) /\ work' = work
      BY DEF EndReceive, Goto, Inner
<1>2. Inner(r) \in Tasks BY <1>1, TasksOf
<1>3. /\ Fit(work', worker') /\ ~In(work, Inner(r))
      /\ \A x \in Tasks : By(worker', x) <=> By(worker, x) /\ x # Inner(r)
      BY <1>1, <1>2, FitReturn DEF IInv, Returned
<1>4. \A x \in Tasks : Busy(x)' <=> Busy(x) /\ x # Inner(r)
      BY <1>1, <1>3 DEF Busy, In, By
<1>5. Busy(Inner(r)) BY <1>1 DEF Busy, By
<1>6. at \in [Requests -> Stages] BY DEF IInv, Core, Shapes
<1>7. ASSUME NEW x \in Requests PROVE HandledAt(x)'
  <2>1. HandledAt(x) BY HandledEach DEF IInv
  <2>2. /\ Outer(x) \in Tasks /\ Inner(x) \in Tasks
        /\ Outer(x) # Inner(r) /\ (Inner(x) = Inner(r) <=> x = r)
        BY <1>1, TasksOf
  <2>3. /\ Busy(Outer(x))' <=> Busy(Outer(x))
        /\ Busy(Inner(x))' <=> Busy(Inner(x)) /\ x # r
        BY <1>4, <2>2
  <2>4. at'[x] = IF x = r THEN "ended" ELSE at[x] BY <1>1, <1>6
  <2> QED BY <1>5, <2>1, <2>3, <2>4 DEF HandledAt
<1> QED BY <1>3, <1>7, HandledEach

(* Who is served was accepted.                                             *)
LEMMA ServedAccepted ==
    ASSUME IInv, NEW r \in Requests, By(worker, Inner(r))
    PROVE  at[r] = "accepted"
BY DEF IInv, Handled, Busy
-----------------------------------------------------------------------------
(* The rest: steps of connman and of the handling.                         *)

LEMMA StutterCore ==
    ASSUME Core, UNCHANGED <<request, pools, fields, tables, remove, bc>>
    PROVE  Core'
<1> USE DEF Core, request, pools, fields, tables, remove
<1>1. Shapes' /\ Created' BY DEF Shapes, Created
<1>2. NoSharing' BY DEF NoSharing, Holds
<1>3. IPCounted' /\ Counted' BY DEF IPCounted, Counted, Counting
<1>4. Removing' BY DEF Removing
<1>5. Having' /\ Fields' /\ Named' BY DEF Having, Fields, Named
<1>6. Alive' BY DEF Alive, Holds
<1> QED BY <1>1, <1>2, <1>3, <1>4, <1>5, <1>6

(* A registered connection is greeted, accepted or not served.             *)
LEMMA MoveCore ==
    ASSUME Core, NEW r \in Requests, at[r] \in {"registered", "greeted"},
           NEW s \in {"greeted", "accepted", "unserved"}, at' = [at EXCEPT ![r] = s],
           UNCHANGED <<ip, cl, cn, key, pools, fields, tables, remove, bc>>
    PROVE  Core'
<1> USE DEF Core, pools, fields, tables, remove
<1>1. at'[r] = s /\ \A x \in Requests \ {r} : at'[x] = at[x] BY DEF Shapes
<1>2. \A x \in Requests : Holds(x)' <=> Holds(x) BY <1>1 DEF Holds
<1>3. Shapes' /\ Created' BY DEF Shapes, Created, Stages
<1>4. NoSharing' BY <1>2 DEF NoSharing
<1>5. \A a \in IPs : Counting(a)' = Counting(a) BY <1>1 DEF Counting
<1>6. IPCounted' /\ Counted' BY <1>5 DEF IPCounted, Counted, Counting
<1>7. Removing' BY <1>1 DEF Removing, Shapes
<1>8. Having' BY <1>1 DEF Having, Early
<1>9. Fields' BY <1>1 DEF Fields, Early
<1>10. Named' BY <1>1 DEF Named, Keyed
<1>11. Alive' BY <1>2 DEF Alive
<1> QED BY <1>3, <1>4, <1>6, <1>7, <1>8, <1>9, <1>10, <1>11

LEMMA UpgradeCore ==
    ASSUME Core, NEW r \in Requests, Upgrade(r)
    PROVE  Core'
<1> USE DEF Core
<1>1. PICK c \in Gettable(wspool, Conns) :
          /\ cn' = [cn EXCEPT ![r] = c]
          /\ wspool' = wspool \ {c} /\ made' = made \cup {c}
      BY DEF Upgrade
<1>2. /\ at[r] = "new" /\ at' = [at EXCEPT ![r] = "upgraded"]
      /\ \E a \in IPs : ip' = [ip EXCEPT ![r] = a]
      /\ UNCHANGED <<cl, key, clpool, cname, cip, wired, sub, authed,
                     ledger, count, off, clientCH, rm, bc>>
      BY DEF Upgrade, Goto, fields, tables, remove
<1>3. c \in Conns /\ (c \in wspool \/ c \notin made)
      BY <1>1, SMT DEF Gettable, Shapes
<1>4. /\ at'[r] = "upgraded" /\ cn'[r] = c /\ ip'[r] \in IPs
      /\ \A x \in Requests \ {r} : at'[x] = at[x] /\ cn'[x] = cn[x] /\ ip'[x] = ip[x]
      BY <1>1, <1>2, <1>3 DEF Shapes
<1>5. \A x \in Requests : Holds(x)' <=> Holds(x) BY <1>2, <1>4 DEF Holds
<1>6. Shapes' BY <1>1, <1>2, <1>3 DEF Shapes, Stages
<1>7. Created' BY <1>1, <1>2, <1>3, SessionAssumption DEF Created
<1>8. NoSharing'
  <2>1. \A x \in Requests : cn[x] # c
        BY <1>3, SessionAssumption DEF NoSharing, Having
  <2> QED BY <1>1, <1>2, <1>4, <1>5, <2>1 DEF NoSharing
<1>9. \A a \in IPs : Counting(a)' = Counting(a) BY <1>2, <1>4 DEF Counting
<1>10. IPCounted' /\ Counted' BY <1>2, <1>9 DEF IPCounted, Counted, Counting
<1>11. Removing' BY <1>2, <1>4 DEF Removing, Shapes
<1>12. Having' BY <1>1, <1>2, <1>3, <1>4, SessionAssumption DEF Having, Early
<1>13. Fields' BY <1>2, <1>4 DEF Fields, Early
<1>14. Named' BY <1>2, <1>4 DEF Named, Keyed
<1>15. Alive' BY <1>2, <1>5 DEF Alive
<1> QED BY <1>6, <1>7, <1>8, <1>10, <1>11, <1>12, <1>13, <1>14, <1>15

LEMMA GetClientCore ==
    ASSUME Core, NEW r \in Requests, GetClient(r)
    PROVE  Core'
<1> USE DEF Core
<1>1. PICK o \in Gettable(clpool, Clients) :
          /\ cl' = [cl EXCEPT ![r] = o]
          /\ clpool' = clpool \ {o} /\ made' = made \cup {o}
      BY DEF GetClient
<1>2. /\ at[r] = "upgraded" /\ at' = [at EXCEPT ![r] = "got"]
      /\ count' = [count EXCEPT ![ip[r]] = @ + 1] /\ ip[r] \in IPs
      /\ UNCHANGED <<ip, cn, key, wspool, cname, cip, wired, sub, authed,
                     ledger, off, clientCH, rm, bc>>
      BY DEF GetClient, Goto, fields, remove, Having
<1>3. o \in Clients /\ (o \in clpool \/ o \notin made)
      BY <1>1, SMT DEF Gettable, Shapes
<1>4. /\ at'[r] = "got" /\ cl'[r] = o
      /\ \A x \in Requests \ {r} : at'[x] = at[x] /\ cl'[x] = cl[x]
      BY <1>1, <1>2, <1>3 DEF Shapes
<1>5. \A x \in Requests \ {r} : Holds(x)' <=> Holds(x) BY <1>4 DEF Holds
<1>6. Shapes' BY <1>1, <1>2, <1>3 DEF Shapes, Stages
<1>7. cl[r] = NoClient /\ ~Holds(r) /\ key[r] = NoKey
      BY <1>2 DEF Having, Early, Holds, Named, Keyed
<1>8. Created' BY <1>1, <1>3, <1>4, <1>7, SessionAssumption DEF Created
<1>9. NoSharing'
  <2>1. ASSUME NEW x \in Requests \ {r}, Holds(x) PROVE cl[x] # o
        BY <1>3, <2>1 DEF NoSharing, Having, Holds, Early
  <2> QED BY <1>1, <1>2, <1>4, <1>5, <2>1 DEF NoSharing
<1>10. \A a \in IPs \ {ip[r]} : Counting(a)' = Counting(a) /\ count'[a] = count[a]
       BY <1>2, <1>4 DEF Counting, Shapes
<1>11. rm.pc = "clear" => rm.req # r BY <1>2 DEF Removing
<1>12. Counting(ip[r])' = Counting(ip[r]) \cup {r} /\ r \notin Counting(ip[r])
       BY <1>2, <1>4, <1>11 DEF Counting
<1>13. /\ IsFiniteSet(Counting(ip[r]))'
       /\ Cardinality(Counting(ip[r])') = Cardinality(Counting(ip[r])) + 1
       BY <1>2, <1>12, FS_AddElement DEF Counted
<1>14. count'[ip[r]] = count[ip[r]] + 1 BY <1>2 DEF Shapes
<1>15. Counted' BY <1>2, <1>10, <1>13 DEF Counted
<1>16. IPCounted' BY <1>2, <1>10, <1>13, <1>14 DEF IPCounted, Counting
<1>17. Removing' BY <1>2, <1>4 DEF Removing, Shapes
<1>18. Having' BY <1>1, <1>2, <1>3, <1>4 DEF Having, Early
<1>19. Fields' BY <1>2, <1>4 DEF Fields, Early
<1>20. Named' BY <1>2, <1>4 DEF Named, Keyed
<1>21. Alive'
  <2>1. \A k \in DOMAIN ledger : k # NoKey BY NoKeyIsNone DEF Shapes
  <2> QED BY <1>2, <1>4, <1>5, <1>7, <2>1 DEF Alive
<1> QED BY <1>6, <1>8, <1>9, <1>15, <1>16, <1>17, <1>18, <1>19, <1>20, <1>21

LEMMA FillCore ==
    ASSUME Core, NEW r \in Requests, Fill(r)
    PROVE  Core'
<1> USE DEF Core
<1> DEFINE o == cl[r]
<1>1. /\ at[r] = "got" /\ at' = [at EXCEPT ![r] = "filled"]
      /\ cip' = [cip EXCEPT ![o] = ip[r]]
      /\ wired' = [wired EXCEPT ![o] = TRUE] /\ authed' = [authed EXCEPT ![o] = FALSE]
      /\ UNCHANGED <<ip, cl, cn, key, clpool, wspool, made, cname, sub,
                     ledger, count, off, clientCH, rm, bc>>
      BY DEF Fill, Goto, pools, tables, remove
<1>2. o \in Clients /\ ip[r] \in IPs BY <1>1 DEF Having, Early
<1>3. /\ at'[r] = "filled" /\ cip'[o] = ip[r]
      /\ \A x \in Requests \ {r} : at'[x] = at[x]
      /\ \A p \in Clients \ {o} : cip'[p] = cip[p]
      BY <1>1, <1>2 DEF Shapes, Fields
<1>4. \A x \in Requests : Holds(x)' <=> Holds(x) BY <1>1, <1>3 DEF Holds
<1>5. ASSUME NEW x \in Requests \ {r}, Holds(x) PROVE cl[x] # o
      BY <1>1, <1>5 DEF NoSharing, Holds
<1>6. Shapes' /\ Created' BY <1>1 DEF Shapes, Created, Stages
<1>7. NoSharing' BY <1>1, <1>4 DEF NoSharing
<1>8. \A a \in IPs : Counting(a)' = Counting(a) BY <1>1, <1>3 DEF Counting
<1>9. IPCounted' /\ Counted' BY <1>1, <1>8 DEF IPCounted, Counted, Counting
<1>10. Removing' BY <1>1, <1>3 DEF Removing, Shapes
<1>11. Having' BY <1>1, <1>3 DEF Having, Early
<1>12. Fields'
  <2>1. \A p \in Clients : cip'[p] \in IPs \/ cip'[p] = cip[p] BY <1>2, <1>3
  <2>2. \A x \in Requests : at[x] \notin Early => cl[x] \in Clients BY DEF Having
  <2> QED BY <1>1, <1>2, <1>3, <2>1, <2>2 DEF Fields, Early
<1>13. Named'
  <2>1. \A x \in Requests : at[x] \in Keyed \cup {"filled", "dropped"}
                            => Holds(x) /\ cl[x] \in Clients
        BY DEF Keyed, Holds, Having, Early
  <2> QED BY <1>1, <1>3, <1>5, <2>1 DEF Named, Keyed
<1>14. Alive' BY <1>1, <1>4 DEF Alive
<1> QED BY <1>6, <1>7, <1>9, <1>10, <1>11, <1>12, <1>13, <1>14

LEMMA AddCore ==
    ASSUME Core, NEW r \in Requests, Add(r)
    PROVE  Core'
<1> USE DEF Core
<1> DEFINE o == cl[r]
<1>1. PICK n \in Names :
          LET k == <<n, cip[o]>> IN
          /\ cname' = [cname EXCEPT ![o] = n]
          /\ \/ /\ k \notin DOMAIN ledger
                /\ ledger' = [x \in DOMAIN ledger \cup {k} |->
                                 IF x = k THEN o ELSE ledger[x]]
                /\ key' = [key EXCEPT ![r] = k] /\ Goto(r, "registered")
             \/ Goto(r, "dropped") /\ UNCHANGED <<ledger, key>>
      BY DEF Add
<1> DEFINE k == <<n, cip[o]>>
<1>2. /\ at[r] = "filled"
      /\ UNCHANGED <<ip, cl, cn, clpool, wspool, made, cip, wired, sub, authed,
                     count, off, clientCH, rm, bc>>
      BY DEF Add, pools, remove
<1>3. /\ o \in Clients /\ o \in made /\ cip[o] \in IPs /\ cip[o] = ip[r]
      /\ key[r] = NoKey /\ Holds(r)
      BY <1>2 DEF Having, Early, Fields, Named, Keyed, Holds
<1>4. k \in Keys /\ k[1] = n /\ k[2] = cip[o] BY <1>1, <1>3 DEF Keys
<1>5. cname'[o] = n /\ \A p \in Clients \ {o} : cname'[p] = cname[p]
      BY <1>1, <1>3 DEF Fields
<1>6. \/ /\ at' = [at EXCEPT ![r] = "registered"] /\ key' = [key EXCEPT ![r] = k]
         /\ DOMAIN ledger' = DOMAIN ledger \cup {k} /\ ledger'[k] = o
         /\ \A x \in DOMAIN ledger : x # k /\ ledger'[x] = ledger[x]
      \/ at' = [at EXCEPT ![r] = "dropped"] /\ UNCHANGED <<ledger, key>>
      BY <1>1 DEF Goto
<1> HIDE DEF k
<1>7. /\ (at'[r] = "registered" /\ key'[r] = k) \/ (at'[r] = "dropped" /\ key'[r] = NoKey)
      /\ \A x \in Requests \ {r} : at'[x] = at[x] /\ key'[x] = key[x]
  <2>1. at \in [Requests -> Stages] /\ key \in [Requests -> Keys \cup {NoKey}] BY DEF Shapes
  <2>2. CASE at' = [at EXCEPT ![r] = "registered"] /\ key' = [key EXCEPT ![r] = k]
        BY <2>1, <2>2
  <2>3. CASE at' = [at EXCEPT ![r] = "dropped"] /\ key' = key
        BY <1>3, <2>1, <2>3
  <2> QED BY <1>6, <2>2, <2>3
<1>8. \A x \in Requests : Holds(x)' <=> Holds(x) BY <1>2, <1>7 DEF Holds
<1>9. ASSUME NEW x \in Requests \ {r}, Holds(x) PROVE cl[x] # o
      BY <1>3, <1>9 DEF NoSharing
<1>10. Shapes'
  <2>1. at' \in [Requests -> Stages] /\ key' \in [Requests -> Keys \cup {NoKey}]
        BY <1>4, <1>6 DEF Shapes, Stages
  <2>2. DOMAIN ledger' \subseteq Keys /\ \A x \in DOMAIN ledger' : ledger'[x] \in made
        BY <1>3, <1>4, <1>6 DEF Shapes
  <2> QED BY <1>2, <2>1, <2>2 DEF Shapes
<1>11. Created' BY <1>2 DEF Created
<1>12. NoSharing' BY <1>2, <1>8 DEF NoSharing
<1>13. \A a \in IPs : Counting(a)' = Counting(a) BY <1>2, <1>7 DEF Counting
<1>14. IPCounted' /\ Counted' BY <1>2, <1>13 DEF IPCounted, Counted, Counting
<1>15. Removing' BY <1>2, <1>7 DEF Removing, Shapes
<1>16. Having' BY <1>2, <1>7 DEF Having, Early
<1>17. Fields'
  <2>1. cname' \in [Clients -> Names \cup {NoKey}] BY <1>1, <1>3 DEF Fields
  <2>2. \A x \in DOMAIN ledger' : ledger'[x] \in Clients /\ cip[ledger'[x]] \in IPs
        BY <1>3, <1>6 DEF Fields
  <2>3. \A x \in Requests : at'[x] \notin Early \cup {"got"} => cip[cl[x]] \in IPs
        BY <1>3, <1>7 DEF Fields
  <2> QED BY <1>2, <2>1, <2>2, <2>3 DEF Fields
<1>18. Named'
  <2>1. \A x \in Requests : at[x] \in Keyed \cup {"filled", "dropped"}
                            => Holds(x) /\ cl[x] \in Clients
        BY DEF Keyed, Holds, Having, Early
  <2>2. k = <<cname'[o], cip[o]>> BY <1>5 DEF k
  <2> QED BY <1>2, <1>3, <1>4, <1>5, <1>7, <1>9, <2>1, <2>2 DEF Named, Keyed
<1>19. Alive'
  <2> SUFFICES ASSUME NEW x \in DOMAIN ledger'
               PROVE  \E y \in Requests :
                         /\ key'[y] = x /\ cl[y] = ledger'[x]
                         /\ Holds(y) \/ (rm.pc = "ledger" /\ rm.req = y)
      BY <1>2, <1>8 DEF Alive
  <2>1. CASE x \in DOMAIN ledger
    <3>1. PICK y \in Requests : /\ key[y] = x /\ cl[y] = ledger[x]
                                /\ Holds(y) \/ (rm.pc = "ledger" /\ rm.req = y)
          BY <2>1 DEF Alive
    <3>2. y # r BY <1>3, <2>1, <3>1, NoKeyIsNone DEF Shapes
    <3> QED BY <1>6, <1>7, <2>1, <3>1, <3>2
  <2>2. CASE x \notin DOMAIN ledger
    <3>1. x = k /\ ledger'[k] = o /\ key' = [key EXCEPT ![r] = k] BY <1>6, <2>2
    <3>2. key'[r] = k BY <3>1 DEF Shapes
    <3> QED BY <1>3, <3>1, <3>2
  <2> QED BY <2>1, <2>2
<1> QED BY <1>10, <1>11, <1>12, <1>14, <1>15, <1>16, <1>17, <1>18, <1>19

LEMMA EndReceiveCore ==
    ASSUME IInv, NEW w \in Workers, EndReceive(w)
    PROVE  Core'
<1> USE DEF IInv, Core
<1>1. PICK r \in Requests :
          /\ worker[w] = Inner(r) /\ Len(clientCH) < ChCap
          /\ clientCH' = Append(clientCH, r) /\ at' = [at EXCEPT ![r] = "ended"]
          /\ UNCHANGED <<ip, cl, cn, key, clpool, wspool, made, cname, cip, wired,
                         sub, authed, ledger, count, off, rm, bc>>
      BY DEF EndReceive, Goto, Inner, pools, fields, tables
<1>2. at[r] = "accepted" BY <1>1, ServedAccepted DEF By
<1>3. at'[r] = "ended" /\ \A x \in Requests \ {r} : at'[x] = at[x] BY <1>1 DEF Shapes
<1>4. \A x \in Requests : Holds(x)' <=> Holds(x) BY <1>1, <1>2, <1>3 DEF Holds
<1>5. /\ Len(clientCH) \in Nat /\ Len(clientCH') = Len(clientCH) + 1
      /\ clientCH' \in Seq(Requests) /\ clientCH'[Len(clientCH) + 1] = r
      /\ \A i \in 1..Len(clientCH) : clientCH'[i] = clientCH[i]
      BY <1>1 DEF Shapes
<1>6. Shapes'
  <2>1. Len(clientCH') <= ChCap BY <1>1, <1>5, SessionAssumption
  <2> QED BY <1>1, <1>5, <2>1 DEF Shapes, Stages
<1>7. Created' BY <1>1 DEF Created
<1>8. NoSharing' BY <1>1, <1>4 DEF NoSharing
<1>9. \A a \in IPs : Counting(a)' = Counting(a) BY <1>1, <1>2, <1>3 DEF Counting
<1>10. IPCounted' /\ Counted' BY <1>1, <1>9 DEF IPCounted, Counted, Counting
<1>11. Removing'
  <2>1. rm.pc # "idle" => rm.req # r BY <1>2 DEF Removing, Steps
  <2>2. \A i \in 1..Len(clientCH) : clientCH[i] # r BY <1>2 DEF Removing
  <2>3. \A i \in 1..Len(clientCH') : \/ i \in 1..Len(clientCH) /\ clientCH'[i] = clientCH[i]
                                     \/ i = Len(clientCH) + 1 /\ clientCH'[i] = r
        BY <1>5
  <2>4. ASSUME NEW i \in 1..Len(clientCH')
        PROVE  /\ at'[clientCH'[i]] = "ended" /\ (rm.pc # "idle" => clientCH'[i] # rm.req)
               /\ \A j \in 1..Len(clientCH') : clientCH'[i] = clientCH'[j] => i = j
    <3>1. \/ i \in 1..Len(clientCH) /\ clientCH'[i] = clientCH[i]
          \/ i = Len(clientCH) + 1 /\ clientCH'[i] = r
          BY <2>3
    <3>2. ASSUME NEW j \in 1..Len(clientCH'), clientCH'[i] = clientCH'[j] PROVE i = j
          BY <2>2, <2>3, <3>1, <3>2 DEF Removing
    <3>3. at'[clientCH'[i]] = "ended"
      <4>1. ASSUME NEW x \in 1..Len(clientCH) PROVE at'[clientCH[x]] = "ended"
            BY <1>3, <2>2 DEF Removing, Shapes
      <4> QED BY <1>3, <3>1, <4>1
    <3>4. rm.pc # "idle" => clientCH'[i] # rm.req BY <2>1, <3>1 DEF Removing
    <3> QED BY <3>2, <3>3, <3>4
  <2>5. /\ rm.pc \in {"conn", "client"} => at'[rm.req] = "ended"
        /\ rm.pc \in {"ledger", "count", "clear"} => at'[rm.req] = "returned"
        BY <1>3, <2>1 DEF Removing
  <2> QED BY <1>1, <2>4, <2>5 DEF Removing
<1>12. Having' BY <1>1, <1>2, <1>3 DEF Having, Early
<1>13. Fields' BY <1>1, <1>2, <1>3 DEF Fields, Early
<1>14. Named' BY <1>1, <1>2, <1>3 DEF Named, Keyed
<1>15. Alive' BY <1>1, <1>4 DEF Alive
<1> QED BY <1>6, <1>7, <1>8, <1>10, <1>11, <1>12, <1>13, <1>14, <1>15

LEMMA SubscribeCore ==
    ASSUME Core, NEW r \in Requests, Subscribe(r) \/ Unsubscribe(r)
    PROVE  Core'
<1> USE DEF Core
<1>1. UNCHANGED <<request, pools, cname, cip, wired, authed, tables, remove, bc>>
      BY DEF Subscribe, Unsubscribe
<1> USE <1>1 DEF request, pools, tables, remove
<1>2. Shapes' /\ Created' BY DEF Shapes, Created
<1>3. NoSharing' BY DEF NoSharing, Holds
<1>4. IPCounted' /\ Counted' BY DEF IPCounted, Counted, Counting
<1>5. Removing' BY DEF Removing
<1>6. Having' /\ Named' BY DEF Having, Named
<1>7. Fields'
  <2>1. {wired', sub', authed'} \subseteq [Clients -> BOOLEAN]
    <3>1. wired' \in [Clients -> BOOLEAN] /\ authed' \in [Clients -> BOOLEAN]
          BY DEF Fields
    <3>2. sub \in [Clients -> BOOLEAN] BY DEF Fields
    <3>3. sub' = [sub EXCEPT ![cl[r]] = TRUE] \/ sub' = [sub EXCEPT ![cl[r]] = FALSE]
          BY DEF Subscribe, Unsubscribe
    <3>4. sub' \in [Clients -> BOOLEAN] BY <3>2, <3>3
    <3> QED BY <3>1, <3>4
  <2> QED BY <2>1 DEF Fields
<1>8. Alive' BY DEF Alive, Holds
<1> QED BY <1>2, <1>3, <1>4, <1>5, <1>6, <1>7, <1>8

LEMMA AuthenticateCore ==
    ASSUME IInv, NEW r \in Requests, Authenticate(r)
    PROVE  Core'
<1> USE DEF IInv, Core
<1> DEFINE a == cip[cl[r]]
<1>1. /\ authed' = [authed EXCEPT ![cl[r]] = TRUE]
      /\ count' = [count EXCEPT ![a] = @ + 1] /\ off' = off \cup {a}
      /\ UNCHANGED <<at, ip, cl, cn, key, clpool, wspool, made, cname, cip, wired,
                     sub, ledger, clientCH, rm, bc>>
      BY DEF Authenticate, request, pools, remove
<1>2. at[r] = "accepted"
      BY ServedAccepted DEF Authenticate, Served, Running, By, Inner
<1>3. a \in IPs BY <1>2 DEF Named, Keyed, Having
<1> HIDE DEF a
<1>4. count' \in [IPs -> Nat] /\ \A b \in IPs \ {a} : count'[b] = count[b]
      BY <1>1, <1>3 DEF Shapes
<1>5. Shapes' /\ Created' BY <1>1, <1>3, <1>4 DEF Shapes, Created
<1>6. NoSharing' BY <1>1 DEF NoSharing, Holds
<1>7. \A b \in IPs : Counting(b)' = Counting(b) BY <1>1 DEF Counting
<1>8. IPCounted' /\ Counted' BY <1>1, <1>4, <1>7 DEF IPCounted, Counted, Counting
<1>9. Removing' BY <1>1 DEF Removing
<1>10. Having' /\ Named' BY <1>1 DEF Having, Named
<1>11. Fields' BY <1>1 DEF Fields
<1>12. Alive' BY <1>1 DEF Alive, Holds
<1> QED BY <1>5, <1>6, <1>8, <1>9, <1>10, <1>11, <1>12

-----------------------------------------------------------------------------
(* The rest: the goroutine Remove, and eviction.                           *)

(* Which step Remove is at matters to these parts in few of its steps.     *)
LEMMA RmTakeCore ==
    ASSUME Core, RmTake
    PROVE  Core'
<1> USE DEF Core
<1> DEFINE r == Head(clientCH)
<1>1. /\ rm.pc = "idle" /\ clientCH # <<>> /\ clientCH' = Tail(clientCH)
      /\ rm' = [pc |-> "conn", req |-> r, key |-> <<cname[cl[r]], cip[cl[r]]>>]
      /\ UNCHANGED <<at, ip, cl, cn, key, clpool, wspool, made, cname, cip, wired,
                     sub, authed, ledger, count, off, bc>>
      BY DEF RmTake, request, pools, fields, tables
<1>2. /\ Len(clientCH) \in Nat /\ 1 \in 1..Len(clientCH) /\ r = clientCH[1]
      /\ r \in Requests /\ clientCH' \in Seq(Requests) /\ Len(clientCH') = Len(clientCH) - 1
      /\ \A i \in 1..Len(clientCH') : i + 1 \in 1..Len(clientCH)
                                      /\ clientCH'[i] = clientCH[i + 1]
      BY <1>1 DEF Shapes
<1> HIDE DEF r
<1>3. at[r] = "ended" BY <1>2 DEF Removing
<1>4. rm'.key = key[r] /\ key[r] \in Keys /\ rm'.pc = "conn" /\ rm'.req = r
      BY <1>1, <1>2, <1>3 DEF Named, Keyed
<1>5. Shapes' /\ Created'
  <2>1. Len(clientCH') <= ChCap BY <1>2, SessionAssumption DEF Shapes
  <2> QED BY <1>1, <1>2, <2>1 DEF Shapes, Created
<1>6. NoSharing' BY <1>1 DEF NoSharing, Holds
<1>7. \A a \in IPs : Counting(a)' = Counting(a) BY <1>1, <1>4 DEF Counting
<1>8. IPCounted' /\ Counted' BY <1>1, <1>7 DEF IPCounted, Counted, Counting
<1>9. Removing'
  <2>1. rm' \in [pc : Steps, req : Requests \cup {NoKey}, key : Keys \cup {NoKey}]
        BY <1>1, <1>2, <1>4 DEF Steps
  <2>2. ASSUME NEW i \in 1..Len(clientCH')
        PROVE  /\ at[clientCH'[i]] = "ended" /\ clientCH'[i] # r
               /\ \A j \in 1..Len(clientCH') : clientCH'[i] = clientCH'[j] => i = j
    <3>1. at[clientCH'[i]] = "ended" BY <1>2 DEF Removing
    <3>2. clientCH'[i] # r BY <1>2 DEF Removing
    <3>3. ASSUME NEW j \in 1..Len(clientCH'), clientCH'[i] = clientCH'[j] PROVE i = j
      <4>1. /\ i + 1 \in 1..Len(clientCH) /\ j + 1 \in 1..Len(clientCH)
            /\ clientCH[i + 1] = clientCH[j + 1]
            BY <1>2, <3>3
      <4>2. i + 1 = j + 1 BY <4>1 DEF Removing
      <4> QED BY <4>2
    <3> QED BY <3>1, <3>2, <3>3
  <2> QED BY <1>1, <1>2, <1>3, <1>4, <2>1, <2>2 DEF Removing
<1>10. Having' BY <1>1, <1>4 DEF Having
<1>11. Fields' /\ Named' BY <1>1 DEF Fields, Named
<1>12. Alive' BY <1>1, <1>4 DEF Alive, Holds
<1> QED BY <1>5, <1>6, <1>8, <1>9, <1>10, <1>11, <1>12

(* A step of Remove that changes none of what it has read.                 *)
LEMMA RmNext ==
    ASSUME Removing, NEW pc \in Steps, Then(pc)
    PROVE  /\ rm' \in [pc : Steps, req : Requests \cup {NoKey}, key : Keys \cup {NoKey}]
           /\ rm'.pc = pc /\ rm'.req = rm.req /\ rm'.key = rm.key
BY DEF Removing, Then

LEMMA RmConnCore ==
    ASSUME Core, RmConn
    PROVE  Core'
<1> USE DEF Core
<1> DEFINE r == rm.req
           c == cn[r]
<1>1. /\ rm.pc = "conn" /\ Then("client")
      /\ wspool' = wspool \cup {c} /\ cn' = [cn EXCEPT ![r] = NoConn]
      /\ UNCHANGED <<at, ip, cl, key, clpool, made, cname, cip, wired, sub, authed,
                     ledger, count, off, clientCH, bc>>
      BY DEF RmConn, fields, tables
<1>2. /\ rm' \in [pc : Steps, req : Requests \cup {NoKey}, key : Keys \cup {NoKey}]
      /\ rm'.pc = "client" /\ rm'.req = r /\ rm'.key = rm.key
      BY <1>1, RmNext DEF Steps
<1>3. r \in Requests /\ at[r] = "ended" BY <1>1 DEF Removing
<1>4. c # NoConn /\ c \in made \cap Conns BY <1>1, <1>3 DEF Having
<1>5. cn'[r] = NoConn /\ \A x \in Requests \ {r} : cn'[x] = cn[x]
      BY <1>1, <1>3 DEF Shapes
<1>6. Shapes' /\ Created' BY <1>1, <1>4 DEF Shapes, Created
<1>7. NoSharing'
  <2>1. \A x \in Requests : Holds(x)' <=> Holds(x) BY <1>1 DEF Holds
  <2>2. \A x \in Requests \ {r} : cn[x] # c BY <1>3, <1>4 DEF NoSharing
  <2> QED BY <1>1, <1>5, <2>1, <2>2 DEF NoSharing
<1>8. \A a \in IPs : Counting(a)' = Counting(a) BY <1>1, <1>2 DEF Counting
<1>9. IPCounted' /\ Counted' BY <1>1, <1>8 DEF IPCounted, Counted, Counting
<1>10. Removing' BY <1>1, <1>2 DEF Removing
<1>11. Having' BY <1>1, <1>2, <1>5 DEF Having
<1>12. Fields' /\ Named' BY <1>1 DEF Fields, Named
<1>13. Alive' BY <1>1, <1>2 DEF Alive, Holds
<1> QED BY <1>6, <1>7, <1>9, <1>10, <1>11, <1>12, <1>13

LEMMA RmClientCore ==
    ASSUME Core, RmClient
    PROVE  Core'
<1> USE DEF Core
<1>0. PICK r \in Requests : r = rm.req BY DEF RmClient, Removing
<1> DEFINE o == cl[r]
<1>1. /\ rm.pc = "client" /\ Then("ledger")
      /\ clpool' = clpool \cup {o} /\ at' = [at EXCEPT ![r] = "returned"]
      /\ UNCHANGED <<ip, cl, cn, key, wspool, made, cname, cip, wired, sub, authed,
                     ledger, count, off, clientCH, bc>>
      BY <1>0 DEF RmClient, Client, Goto, fields, tables
<1>2. /\ rm' \in [pc : Steps, req : Requests \cup {NoKey}, key : Keys \cup {NoKey}]
      /\ rm'.pc = "ledger" /\ rm'.req = r /\ rm'.key = rm.key
      BY <1>0, <1>1, RmNext DEF Steps
<1>3. r \in Requests /\ at[r] = "ended" BY <1>0, <1>1 DEF Removing
<1>4. o \in made \cap Clients /\ Holds(r) BY <1>3 DEF Having, Early, Holds
<1>5. at'[r] = "returned" /\ \A x \in Requests \ {r} : at'[x] = at[x]
      BY <1>1, <1>3 DEF Shapes
<1>6. ~Holds(r)' /\ \A x \in Requests \ {r} : Holds(x)' <=> Holds(x)
      BY <1>5 DEF Holds
<1>7. Shapes' /\ Created' BY <1>1, <1>4 DEF Shapes, Created, Stages
<1>8. NoSharing'
  <2>1. \A x \in Requests \ {r} : Holds(x) => cl[x] # o BY <1>3, <1>4 DEF NoSharing
  <2> QED BY <1>1, <1>6, <2>1 DEF NoSharing
<1>9. \A a \in IPs : Counting(a)' = Counting(a) BY <1>0, <1>1, <1>2, <1>3, <1>5 DEF Counting
<1>10. IPCounted' /\ Counted' BY <1>1, <1>9 DEF IPCounted, Counted, Counting
<1>11. Removing'
  <2>1. \A i \in 1..Len(clientCH) : clientCH[i] # r /\ clientCH[i] \in Requests
        BY <1>0, <1>1 DEF Removing, Shapes
  <2> QED BY <1>0, <1>1, <1>2, <1>3, <1>5, <2>1 DEF Removing
<1>12. Having' BY <1>0, <1>1, <1>2, <1>3, <1>5 DEF Having, Early
<1>13. Fields' BY <1>1, <1>3, <1>5 DEF Fields, Early
<1>14. Named' BY <1>1, <1>5 DEF Named, Keyed
<1>15. Alive'
  <2> SUFFICES ASSUME NEW k \in DOMAIN ledger
               PROVE  \E x \in Requests : /\ key[x] = k /\ cl[x] = ledger[k]
                                          /\ Holds(x)' \/ x = r
      BY <1>1, <1>2 DEF Alive
  <2>1. PICK x \in Requests : /\ key[x] = k /\ cl[x] = ledger[k]
                              /\ Holds(x) \/ (rm.pc = "ledger" /\ rm.req = x)
        BY DEF Alive
  <2> QED BY <1>1, <1>6, <2>1
<1> QED BY <1>7, <1>8, <1>10, <1>11, <1>12, <1>13, <1>14, <1>15

LEMMA RmLedgerCore ==
    ASSUME Core, RmLedger
    PROVE  Core'
<1> USE DEF Core
<1> DEFINE r == rm.req
<1>1. /\ rm.pc = "ledger" /\ Then("count") /\ ledger' = Without(rm.key)
      /\ UNCHANGED <<at, ip, cl, cn, key, clpool, wspool, made, cname, cip, wired,
                     sub, authed, count, off, clientCH, bc>>
      BY DEF RmLedger, request, pools, fields
<1>2. /\ rm' \in [pc : Steps, req : Requests \cup {NoKey}, key : Keys \cup {NoKey}]
      /\ rm'.pc = "count" /\ rm'.req = r /\ rm'.key = rm.key
      BY <1>1, RmNext DEF Steps
<1>3. /\ r \in Requests /\ rm.key = key[r] BY <1>1 DEF Removing
<1>4. /\ DOMAIN ledger' = DOMAIN ledger \ {rm.key}
      /\ \A k \in DOMAIN ledger' : ledger'[k] = ledger[k]
      BY <1>1 DEF Without
<1>5. Shapes' /\ Created' BY <1>1, <1>4 DEF Shapes, Created
<1>6. NoSharing' BY <1>1 DEF NoSharing, Holds
<1>7. \A a \in IPs : Counting(a)' = Counting(a) BY <1>1, <1>2 DEF Counting
<1>8. IPCounted' /\ Counted' BY <1>1, <1>7 DEF IPCounted, Counted, Counting
<1>9. Removing' BY <1>1, <1>2 DEF Removing
<1>10. Having' BY <1>1, <1>2 DEF Having
<1>11. Fields' BY <1>1, <1>4 DEF Fields
<1>12. Named' BY <1>1 DEF Named
<1>13. Alive' BY <1>1, <1>3, <1>4 DEF Alive, Holds
<1> QED BY <1>5, <1>6, <1>8, <1>9, <1>10, <1>11, <1>12, <1>13

(* A count that is decreased is a number again, and exact if it was.       *)
LEMMA LessOf ==
    ASSUME Shapes, NEW a \in IPs, count' = Less(a)
    PROVE  /\ count' \in [IPs -> Nat]
           /\ \A b \in IPs \ {a} : count'[b] = count[b]
           /\ count[a] > 0 => count'[a] = count[a] - 1
BY DEF Shapes, Less

LEMMA RmCountCore ==
    ASSUME Core, RmCount
    PROVE  Core'
<1> USE DEF Core
<1>0. PICK r \in Requests : r = rm.req BY DEF RmCount, Removing
<1>1. /\ rm.pc = "count" /\ Then("clear") /\ count' = Less(cip[cl[r]])
      /\ off' = IF cip[cl[r]] = ip[r] THEN off ELSE off \cup {cip[cl[r]], ip[r]}
      /\ UNCHANGED <<at, ip, cl, cn, key, clpool, wspool, made, cname, cip, wired,
                     sub, authed, ledger, clientCH, bc>>
      BY <1>0 DEF RmCount, Client, request, pools, fields
<1>2. /\ rm' \in [pc : Steps, req : Requests \cup {NoKey}, key : Keys \cup {NoKey}]
      /\ rm'.pc = "clear" /\ rm'.req = r /\ rm'.key = rm.key
      BY <1>0, <1>1, RmNext DEF Steps
<1>3. at[r] = "returned" BY <1>0, <1>1 DEF Removing
<1>4. PICK a \in IPs, p \in IPs : a = cip[cl[r]] /\ p = ip[r]
      BY <1>3 DEF Fields, Early, Having
<1>5. /\ count' \in [IPs -> Nat] /\ \A b \in IPs \ {a} : count'[b] = count[b]
      /\ count[a] > 0 => count'[a] = count[a] - 1
      BY <1>1, <1>4, LessOf
<1>6. Shapes' /\ Created' BY <1>1, <1>4, <1>5 DEF Shapes, Created
<1>7. NoSharing' BY <1>1 DEF NoSharing, Holds
<1>8. \A b \in IPs \ {p} : Counting(b)' = Counting(b) BY <1>0, <1>1, <1>2, <1>4 DEF Counting
<1>9. Counting(p)' = Counting(p) \ {r} /\ r \in Counting(p)
      BY <1>0, <1>1, <1>2, <1>3, <1>4 DEF Counting
<1>10. /\ IsFiniteSet(Counting(p)) /\ IsFiniteSet(Counting(p)')
       /\ Cardinality(Counting(p)') = Cardinality(Counting(p)) - 1
       BY <1>4, <1>9, FS_RemoveElement DEF Counted
<1>11. Counted' BY <1>1, <1>8, <1>10 DEF Counted
<1>12. IPCounted'
  <2> SUFFICES ASSUME NEW b \in IPs, b \notin off'
               PROVE  count'[b] = Cardinality(Counting(b)')
      BY DEF IPCounted, Counting
  <2>1. b \notin off /\ (b = p => a = b) BY <1>1, <1>4
  <2>2. count[b] = Cardinality(Counting(b)) BY <2>1 DEF IPCounted, Counting
  <2>3. CASE b # p
    <3>1. a # b BY <1>1, <1>4, <2>3
    <3> QED BY <1>5, <1>8, <2>2, <2>3, <3>1
  <2>4. CASE b = p
    <3>1. a = b BY <2>1, <2>4
    <3>2. Cardinality(Counting(b)) \in Nat /\ Cardinality(Counting(b)) # 0
          BY <1>9, <1>10, <2>4, FS_CardinalityType, FS_EmptySet
    <3> QED BY <1>5, <1>10, <2>2, <2>4, <3>1, <3>2
  <2> QED BY <2>3, <2>4
<1>13. Removing' BY <1>0, <1>1, <1>2 DEF Removing
<1>14. Having' BY <1>1, <1>2 DEF Having
<1>15. Fields' /\ Named' BY <1>1 DEF Fields, Named
<1>16. Alive' BY <1>1, <1>2 DEF Alive, Holds
<1> QED BY <1>6, <1>7, <1>11, <1>12, <1>13, <1>14, <1>15, <1>16

LEMMA RmClearCore ==
    ASSUME Core, RmClear
    PROVE  Core'
<1> USE DEF Core
<1> DEFINE r == rm.req
<1>1. /\ rm.pc = "clear" /\ rm' = Idle
      /\ wired' = [wired EXCEPT ![cl[r]] = FALSE] /\ at' = [at EXCEPT ![r] = "gone"]
      /\ UNCHANGED <<ip, cl, cn, key, clpool, wspool, made, cname, cip, sub, authed,
                     ledger, count, off, clientCH, bc>>
      BY DEF RmClear, Client, Goto, pools, tables
<1>2. /\ rm' \in [pc : Steps, req : Requests \cup {NoKey}, key : Keys \cup {NoKey}]
      /\ rm'.pc = "idle"
      BY <1>1 DEF Idle, Steps
<1>3. r \in Requests /\ at[r] = "returned" BY <1>1 DEF Removing
<1>4. at'[r] = "gone" /\ \A x \in Requests \ {r} : at'[x] = at[x]
      BY <1>1, <1>3 DEF Shapes
<1>5. \A x \in Requests : Holds(x)' <=> Holds(x) BY <1>3, <1>4 DEF Holds
<1>6. Shapes' /\ Created' BY <1>1 DEF Shapes, Created, Stages
<1>7. NoSharing' BY <1>1, <1>5 DEF NoSharing
<1>8. \A a \in IPs : Counting(a)' = Counting(a) BY <1>1, <1>2, <1>3, <1>4 DEF Counting
<1>9. IPCounted' /\ Counted' BY <1>1, <1>8 DEF IPCounted, Counted, Counting
<1>10. Removing'
  <2>1. \A i \in 1..Len(clientCH) : clientCH[i] # r /\ clientCH[i] \in Requests
        BY <1>1 DEF Removing, Shapes
  <2> QED BY <1>1, <1>2, <1>4, <2>1 DEF Removing
<1>11. Having' BY <1>1, <1>2, <1>3, <1>4 DEF Having, Early
<1>12. Fields' BY <1>1, <1>3, <1>4 DEF Fields, Early
<1>13. Named' BY <1>1, <1>3, <1>4 DEF Named, Keyed
<1>14. Alive' BY <1>1, <1>5 DEF Alive
<1> QED BY <1>6, <1>7, <1>9, <1>10, <1>11, <1>12, <1>13, <1>14

(* What is under a key is taken from the ledger, and the count of an       *)
(* address decreased, which is no more exact.                              *)
LEMMA EvictCore ==
    ASSUME Core, NEW k, NEW a \in IPs, ledger' = Without(k), count' = Less(a),
           off' = off \cup {a}, bc' = bc \/ bc' = NoClient,
           UNCHANGED <<request, pools, fields, remove>>
    PROVE  Core'
<1> USE DEF Core, request, pools, fields, remove
<1>1. /\ DOMAIN ledger' = DOMAIN ledger \ {k}
      /\ \A x \in DOMAIN ledger' : ledger'[x] = ledger[x]
      BY DEF Without
<1>2. count' \in [IPs -> Nat] /\ \A b \in IPs \ {a} : count'[b] = count[b]
      BY LessOf
<1>3. Shapes' /\ Created' BY <1>1, <1>2 DEF Shapes, Created
<1>4. NoSharing' BY DEF NoSharing, Holds
<1>5. \A b \in IPs : Counting(b)' = Counting(b) BY DEF Counting
<1>6. IPCounted' /\ Counted' BY <1>2, <1>5 DEF IPCounted, Counted, Counting
<1>7. Removing' BY DEF Removing
<1>8. Having' /\ Named' BY DEF Having, Named
<1>9. Fields' BY <1>1 DEF Fields
<1>10. Alive' BY <1>1 DEF Alive, Holds
<1> QED BY <1>3, <1>4, <1>6, <1>7, <1>8, <1>9, <1>10

LEMMA BcFindCore ==
    ASSUME Core, BcFind
    PROVE  Core'
<1> USE DEF Core, BcFind, request, pools, fields, tables, remove
<1>1. Shapes' /\ Created' BY DEF Shapes, Created
<1>2. NoSharing' BY DEF NoSharing, Holds
<1>3. IPCounted' /\ Counted' BY DEF IPCounted, Counted, Counting
<1>4. Removing' BY DEF Removing
<1>5. Having' /\ Named' BY DEF Having, Named
<1>6. Fields' BY DEF Fields
<1>7. Alive' BY DEF Alive, Holds
<1> QED BY <1>1, <1>2, <1>3, <1>4, <1>5, <1>6, <1>7

-----------------------------------------------------------------------------
(* Every step.                                                             *)

LEMMA ConnmanStep ==
    ASSUME IInv, NEW r \in Requests, Connman(r) \/ TimeOut(r)
    PROVE  IInv'
<1> USE DEF IInv
<1>1. \A s \in Stages : at' = [at EXCEPT ![r] = s] =>
          at'[r] = s /\ \A x \in Requests \ {r} : at'[x] = at[x]
      BY DEF Core, Shapes
<1>2. CASE Upgrade(r)
      BY <1>1, <1>2, UpgradeCore, PoolAside DEF Upgrade, Goto, Stages
<1>3. CASE GetClient(r)
      BY <1>1, <1>3, GetClientCore, PoolAside DEF GetClient, Goto, Stages
<1>4. CASE Fill(r)
      BY <1>1, <1>4, FillCore, PoolAside DEF Fill, Goto, Stages
<1>5. CASE Add(r)
      BY <1>1, <1>5, AddCore, PoolAside DEF Add, Goto, Stages
<1>6. CASE Greet(r)
      BY <1>1, <1>6, MoveCore, PoolAside DEF Greet, Goto, Stages
<1>7. CASE Accept(r)
      BY <1>7, MoveCore, PoolAccept DEF Accept, Goto
<1>8. CASE TimeOut(r)
      BY <1>1, <1>8, MoveCore, PoolAside DEF TimeOut, Goto, Stages
<1> QED BY <1>2, <1>3, <1>4, <1>5, <1>6, <1>7, <1>8 DEF Connman

LEMMA WorkerStep ==
    ASSUME IInv, NEW w \in Workers, Worker(w) \/ EndReceive(w)
    PROVE  IInv'
<1> USE DEF IInv
<1>1. CASE TakeTask(w) BY <1>1, PoolTake, StutterCore DEF TakeTask
<1>2. CASE HandleClient(w)
  <2>1. UNCHANGED <<request, pools, fields, tables, remove, bc>>
        BY <1>2 DEF HandleClient
  <2> QED BY <1>2, <2>1, PoolHandle, StutterCore
<1>3. CASE EndReceive(w) BY <1>3, PoolEnd, EndReceiveCore
<1> QED BY <1>1, <1>2, <1>3 DEF Worker

LEMMA RemoveStep ==
    ASSUME IInv, Remove
    PROVE  IInv'
<1> USE DEF IInv
<1>1. CASE RmTake BY <1>1, RmTakeCore, PoolAside DEF RmTake, request
<1>2. CASE RmConn BY <1>2, RmConnCore, PoolAside DEF RmConn
<1>3. CASE RmClient
  <2>1. /\ rm.req \in Requests /\ at[rm.req] = "ended"
        /\ at' = [at EXCEPT ![rm.req] = "returned"] /\ at \in [Requests -> Stages]
        BY <1>3 DEF RmClient, Goto, Core, Removing, Shapes
  <2>2. \A r \in Requests : at[r] = "accepted" <=> at'[r] = "accepted" BY <2>1
  <2> QED BY <1>3, <2>2, RmClientCore, PoolAside DEF RmClient
<1>4. CASE RmLedger BY <1>4, RmLedgerCore, PoolAside DEF RmLedger, request
<1>5. CASE RmCount BY <1>5, RmCountCore, PoolAside DEF RmCount, request
<1>6. CASE RmClear
  <2>1. /\ rm.req \in Requests /\ at[rm.req] = "returned"
        /\ at' = [at EXCEPT ![rm.req] = "gone"] /\ at \in [Requests -> Stages]
        BY <1>6 DEF RmClear, Goto, Core, Removing, Shapes
  <2>2. \A r \in Requests : at[r] = "accepted" <=> at'[r] = "accepted" BY <2>1
  <2> QED BY <1>6, <2>2, RmClearCore, PoolAside DEF RmClear
<1> QED BY <1>1, <1>2, <1>3, <1>4, <1>5, <1>6 DEF Remove

LEMMA EvictStep ==
    ASSUME IInv, BcFind \/ BcEvict \/ MonitorEvicts
    PROVE  IInv'
<1> USE DEF IInv
<1>1. CASE BcFind BY <1>1, BcFindCore, PoolAside DEF BcFind, request
<1>2. CASE BcEvict
  <2>1. cip[bc] \in IPs BY <1>2 DEF BcEvict, Core, Fields
  <2>2. Core' BY <1>2, <2>1, EvictCore DEF BcEvict
  <2> QED BY <1>2, <2>2, PoolAside DEF BcEvict, request
<1>3. CASE MonitorEvicts
  <2>1. PICK k \in DOMAIN ledger :
            /\ ledger' = Without(k) /\ count' = Less(cip[ledger[k]])
            /\ off' = off \cup {cip[ledger[k]]}
        BY <1>3 DEF MonitorEvicts
  <2>2. cip[ledger[k]] \in IPs BY <2>1 DEF Core, Fields
  <2>3. Core' BY <1>3, <2>1, <2>2, EvictCore DEF MonitorEvicts
  <2> QED BY <1>3, <2>3, PoolAside DEF MonitorEvicts, request
<1> QED BY <1>1, <1>2, <1>3

LEMMA NextIInv == IInv /\ [Next]_vars => IInv'
<1> SUFFICES ASSUME IInv, [Next]_vars PROVE IInv' OBVIOUS
<1> USE DEF IInv
<1>1. CASE UNCHANGED vars
      BY <1>1, StutterCore, PoolAside DEF vars, request
<1>2. ASSUME NEW r \in Requests, Connman(r) \/ TimeOut(r) PROVE IInv'
      BY <1>2, ConnmanStep
<1>3. ASSUME NEW r \in Requests, Subscribe(r) \/ Unsubscribe(r) PROVE IInv'
      BY <1>3, SubscribeCore, PoolAside DEF Subscribe, Unsubscribe, request
<1>4. ASSUME NEW r \in Requests, Authenticate(r) PROVE IInv'
      BY <1>4, AuthenticateCore, PoolAside DEF Authenticate, request
<1>5. ASSUME NEW w \in Workers, Worker(w) \/ EndReceive(w) PROVE IInv'
      BY <1>5, WorkerStep
<1>6. CASE Remove BY <1>6, RemoveStep
<1>7. CASE BcFind \/ BcEvict \/ MonitorEvicts BY <1>7, EvictStep
<1> QED BY <1>1, <1>2, <1>3, <1>4, <1>5, <1>6, <1>7 DEF Next

THEOREM Invariance == Spec => []IInv
<1>1. Init => IInv BY InitIInv
<1>2. IInv /\ [Next]_vars => IInv' BY NextIInv
<1> QED BY <1>1, <1>2, PTL DEF Spec

-----------------------------------------------------------------------------
(* The invariants of the session.                                          *)

(* Type correctness: the pool holds no more tasks than its queue and its   *)
(* workers, the ledger only clients that were created, and every client    *)
(* that was created belongs to a request (session.go, gopool.go).          *)
THEOREM SessionTypes == Spec => []TypeOK
<1>1. IInv => TypeOK BY IInvMeans
<1> QED BY <1>1, Invariance, PTL

(* No two connections hold the same client or connection object, and       *)
(* sync.Pool has none of those that are held: a connection holds them from *)
(* Get to the Put of Remove, after which Remove still clears the client.   *)
THEOREM HeldByOne == Spec => []NoSharing
<1>1. IInv => NoSharing BY IInvMeans
<1> QED BY <1>1, Invariance, PTL

(* Whoever evicts, and whatever the client is used for again meanwhile,    *)
(* Remove deletes the entry of the connection that ended, and no entry     *)
(* outlives the removal of its connection.                                 *)
THEOREM NoEntryOutlivesRemoval == Spec => []EntriesHeld
<1>1. IInv => EntriesHeld BY IInvMeans
<1> QED BY <1>1, Invariance, PTL

(* IPCount is exact for the addresses that eviction, authentication and    *)
(* the use of a client that is being removed leave alone.                  *)
THEOREM CountExact == Spec => []IPCounted
<1>1. IInv => IPCounted BY IInvMeans
<1> QED BY <1>1, Invariance, PTL

(* The pool runs both tasks of a connection once, in this order, for any   *)
(* number of workers and any queue.                                        *)
THEOREM RunsOnce == Spec => []HandledOnce
<1>1. IInv => HandledOnce BY IInvMeans
<1> QED BY <1>1, Invariance, PTL
=============================================================================

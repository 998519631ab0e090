------------------------------ MODULE Session ------------------------------
(***************************************************************************)
(* The life of a websocket connection outside of its own goroutines: from  *)
(* the HTTP request (connman, internal/server/ivmws/websocket.go) over its *)
(* registration (Session.Register, internal/services/session.go), the pool *)
(* of goroutines and the handling of the connection (ReceiveMsg, module    *)
(* ClientConn) to the goroutine that releases it (Session.Remove).  Client *)
(* and Connection objects come from pools and are used again.              *)
(*                                                                         *)
(* The shared tables are the ledger of registered clients, from which the  *)
(* broadcaster and the monitor evict clients that do not subscribe or do   *)
(* not authenticate, and the count of connections per address (IPCount).   *)
(***************************************************************************)
EXTENDS GoPool

CONSTANTS Requests, IPs, Names,
          Clients, Conns,      \* the objects of the two sync.Pools
          NoClient, NoConn,
          ChCap                \* the capacity of clientCH, 20

ASSUME SessionAssumption ==
    /\ NoClient \notin Clients /\ NoConn \notin Conns /\ Clients \cap Conns = {}
    /\ ChCap \in Nat \ {0}
    /\ Names # {} /\ IPs # {}
    /\ Tasks = {"HandleClient", "ReceiveMsg"} \X Requests

VARIABLES
    at,        \* how far a request is
    ip,        \* its address
    cl, cn,    \* the client and the connection object it uses
    key,       \* history: the key it is registered under
    clpool, wspool,      \* the objects that were put back
    made,                \* the objects that were ever created
    cname, cip,          \* fields of a client: name and address,
    wired, sub, authed,  \*   it has channels, a subscription, is authenticated
    ledger,    \* from keys to clients
    count,     \* IPCount
    off,       \* history: addresses whose count was disturbed
    clientCH,  \* the requests whose clients were sent to clientCH
    rm,        \* the goroutine Remove: its step, client and key
    bc         \* the client the broadcaster is about to evict

request == <<at, ip, cl, cn, key>>
pools   == <<clpool, wspool, made>>
fields  == <<cname, cip, wired, sub, authed>>
tables  == <<ledger, count, off>>
remove  == <<clientCH, rm>>
vars    == <<pool, request, pools, fields, tables, remove, bc>>

Keys == Names \X IPs
NoKey == <<>>
Idle == [pc |-> "idle", req |-> NoKey, key |-> NoKey]

Init ==
    /\ PoolInit
    /\ at = [r \in Requests |-> "new"] /\ ip = [r \in Requests |-> NoKey]
    /\ cl = [r \in Requests |-> NoClient] /\ cn = [r \in Requests |-> NoConn]
    /\ key = [r \in Requests |-> NoKey]
    /\ clpool = {} /\ wspool = {} /\ made = {}
    /\ cname = [o \in Clients |-> NoKey] /\ cip = [o \in Clients |-> NoKey]
    /\ wired = [o \in Clients |-> FALSE] /\ sub = wired /\ authed = wired
    /\ ledger = [k \in {} |-> NoClient]
    /\ count = [a \in IPs |-> 0] /\ off = {}
    /\ clientCH = <<>> /\ rm = Idle /\ bc = NoClient

Goto(r, pc) == at' = [at EXCEPT ![r] = pc]

(* sync.Pool: an object that was put back, or a new one.                   *)
Gettable(P, All) ==
    P \cup (IF All \subseteq made THEN {} ELSE {CHOOSE o \in All \ made : TRUE})
Without(k) == [x \in DOMAIN ledger \ {k} |-> ledger[x]]
(* MUTANT: the entry is deleted one too early. *)
MutLess(a) == [count EXCEPT ![a] = IF @ <= 2 THEN 0 ELSE @ - 1]
Less(a)    == [count EXCEPT ![a] = IF @ = 0 THEN 0 ELSE @ - 1]

-----------------------------------------------------------------------------
(* connman and Register, in the goroutine of the HTTP request.             *)

(* The address is looked up among keys that are "name:address": none is    *)
(* ever found, and the answer "Already connected" never given.             *)
IsRegistered(a) == a \in DOMAIN ledger
Upgrade(r) ==
    /\ at[r] = "new" /\ Goto(r, "upgraded")
    /\ \E a \in IPs : ~IsRegistered(a) /\ ip' = [ip EXCEPT ![r] = a]
    /\ \E c \in Gettable(wspool, Conns) :
        /\ cn' = [cn EXCEPT ![r] = c]
        /\ wspool' = wspool \ {c} /\ made' = made \cup {c}
    /\ UNCHANGED <<pool, cl, key, clpool, fields, tables, remove, bc>>

(* IPCount.Add, and a client from the pool.                                *)
GetClient(r) ==
    /\ at[r] = "upgraded" /\ Goto(r, "got")
    /\ count' = [count EXCEPT ![ip[r]] = @ + 1]
    /\ \E o \in Gettable(clpool, Clients) :
        /\ cl' = [cl EXCEPT ![r] = o]
        /\ clpool' = clpool \ {o} /\ made' = made \cup {o}
    /\ UNCHANGED <<pool, ip, cn, key, wspool, fields, ledger, off, remove, bc>>

(* Its fields; the subscription and its filters are not among them.        *)
Fill(r) ==
    /\ at[r] = "got" /\ Goto(r, "filled")
    /\ cip' = [cip EXCEPT ![cl[r]] = ip[r]]
    /\ wired' = [wired EXCEPT ![cl[r]] = TRUE]
    /\ authed' = [authed EXCEPT ![cl[r]] = FALSE]
    /\ UNCHANGED <<pool, ip, cl, cn, key, pools, cname, sub, tables, remove, bc>>

(* Under the lock: randName, which never finds its name taken, and Add.    *)
(* When the key is taken, Register returns nil and connman leaves all as   *)
(* it is.                                                                  *)
Add(r) ==
    /\ at[r] = "filled"
    /\ \E n \in Names :
        LET k == <<n, cip[cl[r]]>> IN
        /\ cname' = [cname EXCEPT ![cl[r]] = n]
        /\ \/ /\ k \notin DOMAIN ledger
              /\ ledger' = [x \in DOMAIN ledger \cup {k} |->
                               IF x = k THEN cl[r] ELSE ledger[x]]
              /\ key' = [key EXCEPT ![r] = k] /\ Goto(r, "registered")
           \/ /\ k \in DOMAIN ledger
              /\ Goto(r, "dropped") /\ UNCHANGED <<ledger, key>>
    /\ UNCHANGED <<pool, ip, cl, cn, pools, cip, wired, sub, authed, count, off,
                   remove, bc>>

(* The challenge or notice goes to msgwt: for ever, when that is nil.      *)
Greet(r) ==
    /\ at[r] = "registered" /\ wired[cl[r]] /\ Goto(r, "greeted")
    /\ UNCHANGED <<pool, ip, cl, cn, key, pools, fields, tables, remove, bc>>

(* ScheduleTimeout of a task that calls HandleClient; when it times out    *)
(* connman leaves all as it is.                                            *)
Accept(r) ==
    /\ at[r] = "greeted" /\ schedule(<<"HandleClient", r>>, worker)
    /\ Goto(r, "accepted")
    /\ UNCHANGED <<ip, cl, cn, key, pools, fields, tables, remove, bc>>
(* MUTANT: the timeout is reported, and the task scheduled nevertheless. *)
MutTimeOut(r) ==
    /\ at[r] = "greeted" /\ Goto(r, "unserved")
    /\ schedule(<<"HandleClient", r>>, worker) \/ UNCHANGED pool
    /\ UNCHANGED <<ip, cl, cn, key, pools, fields, tables, remove, bc>>
TimeOut(r) ==
    /\ at[r] = "greeted" /\ Goto(r, "unserved")
    /\ UNCHANGED <<pool, ip, cl, cn, key, pools, fields, tables, remove, bc>>

-----------------------------------------------------------------------------
(* The workers.                                                            *)

TakeTask(w) == /\ Take(w)
               /\ UNCHANGED <<request, pools, fields, tables, remove, bc>>

(* HandleClient: within its task, it schedules the handling, and waits.    *)
HandleClient(w) ==
    \E r \in Requests :
        /\ worker[w] = <<"HandleClient", r>>
        /\ schedule(<<"ReceiveMsg", r>>, Returned(w))
        /\ UNCHANGED <<request, pools, fields, tables, remove, bc>>

Served(r) == Running(<<"ReceiveMsg", r>>)

(* ReceiveMsg ends with clientCH <- c.                                     *)
EndReceive(w) ==
    \E r \in Requests :
        /\ worker[w] = <<"ReceiveMsg", r>> /\ Len(clientCH) < ChCap
        /\ clientCH' = Append(clientCH, r) /\ Goto(r, "ended")
        /\ worker' = Returned(w)
        /\ UNCHANGED <<work, ip, cl, cn, key, pools, fields, tables, rm, bc>>

(* What messages of the peer change here: the subscription, by a REQ or a  *)
(* CLOSE; and who authenticates is counted again.                          *)
Subscribe(r) ==
    /\ Served(r) /\ ~sub[cl[r]]
    /\ sub' = [sub EXCEPT ![cl[r]] = TRUE]
    /\ UNCHANGED <<pool, request, pools, cname, cip, wired, authed, tables,
                   remove, bc>>
Unsubscribe(r) ==
    /\ Served(r) /\ sub[cl[r]]
    /\ sub' = [sub EXCEPT ![cl[r]] = FALSE]
    /\ UNCHANGED <<pool, request, pools, cname, cip, wired, authed, tables,
                   remove, bc>>
Authenticate(r) ==
    /\ Served(r) /\ ~authed[cl[r]]
    /\ authed' = [authed EXCEPT ![cl[r]] = TRUE]
    /\ count' = [count EXCEPT ![cip[cl[r]]] = @ + 1]
    /\ off' = off \cup {cip[cl[r]]}
    /\ UNCHANGED <<pool, request, pools, cname, cip, wired, sub, ledger,
                   remove, bc>>

-----------------------------------------------------------------------------
(* The goroutine Remove: one step per table or pool it touches.            *)

Client == cl[rm.req]
Then(pc) == rm' = [rm EXCEPT !.pc = pc]

RmTake ==
    /\ rm.pc = "idle" /\ clientCH # <<>>
    /\ clientCH' = Tail(clientCH)
    /\ LET r == Head(clientCH)
       IN  rm' = [pc |-> "conn", req |-> r, key |-> <<cname[cl[r]], cip[cl[r]]>>]
    /\ UNCHANGED <<pool, request, pools, fields, tables, bc>>
RmConn ==
    /\ rm.pc = "conn" /\ Then("client")
    /\ wspool' = wspool \cup {cn[rm.req]}
    /\ cn' = [cn EXCEPT ![rm.req] = NoConn]
    /\ UNCHANGED <<pool, at, ip, cl, key, clpool, made, fields, tables, clientCH, bc>>
(* From here on the client may be in use again.                            *)
RmClient ==
    /\ rm.pc = "client" /\ Then("ledger")
    /\ clpool' = clpool \cup {Client}
    /\ Goto(rm.req, "returned")
    /\ UNCHANGED <<pool, ip, cl, cn, key, wspool, made, fields, tables, clientCH, bc>>
(* MUTANT: the key is put together only now. *)
MutRmLedger ==
    /\ rm.pc = "ledger" /\ Then("count")
    /\ ledger' = Without(<<cname[Client], cip[Client]>>)
    /\ UNCHANGED <<pool, request, pools, fields, count, off, clientCH, bc>>
RmLedger ==
    /\ rm.pc = "ledger" /\ Then("count")
    /\ ledger' = Without(rm.key)
    /\ UNCHANGED <<pool, request, pools, fields, count, off, clientCH, bc>>
(* The address that client.IP holds by now.                                *)
RmCount ==
    /\ rm.pc = "count" /\ Then("clear")
    /\ count' = Less(cip[Client])
    /\ off' = IF cip[Client] = ip[rm.req] THEN off
              ELSE off \cup {cip[Client], ip[rm.req]}
    /\ UNCHANGED <<pool, request, pools, fields, ledger, clientCH, bc>>
(* MUTANT: the client is put back when it is clear, again. *)
MutRmClear ==
    /\ rm.pc = "clear" /\ rm' = Idle
    /\ clpool' = clpool \cup {Client}
    /\ wired' = [wired EXCEPT ![Client] = FALSE]
    /\ Goto(rm.req, "gone")
    /\ UNCHANGED <<pool, ip, cl, cn, key, wspool, made, cname, cip, sub, authed,
                   tables, clientCH, bc>>
(* The channels of the client become nil.                                  *)
RmClear ==
    /\ rm.pc = "clear" /\ rm' = Idle
    /\ wired' = [wired EXCEPT ![Client] = FALSE]
    /\ Goto(rm.req, "gone")
    /\ UNCHANGED <<pool, ip, cl, cn, key, pools, cname, cip, sub, authed, tables,
                   clientCH, bc>>

-----------------------------------------------------------------------------
(* Eviction, of clients registered for long.                               *)

(* NewEventBroadcaster finds a client without subscription, and removes    *)
(* what is under its name and address by then.                             *)
BcFind ==
    /\ bc = NoClient
    /\ \E k \in DOMAIN ledger : ~sub[ledger[k]] /\ bc' = ledger[k]
    /\ UNCHANGED <<pool, request, pools, fields, tables, remove>>
BcEvict ==
    /\ bc # NoClient /\ bc' = NoClient
    /\ ledger' = Without(<<cname[bc], cip[bc]>>)
    /\ count' = Less(cip[bc]) /\ off' = off \cup {cip[bc]}
    /\ UNCHANGED <<pool, request, pools, fields, remove>>
(* sessionState, under the lock; it evicts who is not authenticated, too.  *)
MonitorEvicts ==
    /\ \E k \in DOMAIN ledger :
        LET o == ledger[k] IN
        /\ ~sub[o] \/ ~authed[o]
        /\ ledger' = Without(k)
        /\ count' = Less(cip[o]) /\ off' = off \cup {cip[o]}
    /\ UNCHANGED <<pool, request, pools, fields, remove, bc>>

Connman(r) == \/ Upgrade(r) \/ GetClient(r) \/ Fill(r) \/ Add(r) \/ Greet(r)
              \/ Accept(r)
Worker(w) == TakeTask(w) \/ HandleClient(w)
Remove == RmTake \/ RmConn \/ RmClient \/ RmLedger \/ RmCount \/ RmClear

Next == \/ \E r \in Requests : \/ Connman(r) \/ TimeOut(r)
                               \/ Subscribe(r) \/ Unsubscribe(r)
                               \/ Authenticate(r)
        \/ \E w \in Workers : Worker(w) \/ EndReceive(w)
        \/ Remove \/ BcFind \/ BcEvict \/ MonitorEvicts

Spec == Init /\ [][Next]_vars

-----------------------------------------------------------------------------
(* Properties.                                                             *)

Stages == {"new", "upgraded", "got", "filled", "registered", "dropped",
           "greeted", "accepted", "unserved", "ended", "returned", "gone"}
Holds(r) == at[r] \notin {"new", "upgraded", "returned", "gone"}

TypeOK ==
    /\ PoolTypeOK
    /\ at \in [Requests -> Stages] /\ ip \in [Requests -> IPs \cup {NoKey}]
    /\ cl \in [Requests -> Clients \cup {NoClient}]
    /\ cn \in [Requests -> Conns \cup {NoConn}]
    /\ key \in [Requests -> Keys \cup {NoKey}]
    /\ clpool \subseteq made \cap Clients /\ wspool \subseteq made \cap Conns
    /\ \A o \in made \cap Clients : \E r \in Requests : cl[r] = o
    /\ DOMAIN ledger \subseteq Keys /\ \A k \in DOMAIN ledger : ledger[k] \in made
    /\ count \in [IPs -> Nat] /\ off \subseteq IPs
    /\ clientCH \in Seq(Requests) /\ Len(clientCH) <= ChCap

(* No client and no connection object is held by two connections, nor      *)
(* waits in its pool while one holds it, until Remove puts it there.  (For *)
(* what Remove does to a client it has put back, see OnlyInactiveReleased.)*)
NoSharing ==
    \A r \in Requests :
        /\ Holds(r) => /\ cl[r] \notin clpool
                       /\ \A x \in Requests \ {r} : Holds(x) => cl[x] # cl[r]
        /\ cn[r] # NoConn => /\ cn[r] \notin wspool
                             /\ \A x \in Requests \ {r} : cn[x] # cn[r]

(* When Remove is through with a connection, its entry is gone from the    *)
(* ledger, although the client may have another name and address by then:  *)
(* every entry left is that of a connection that registered under this key *)
(* with this client, and was not released.  (Its goroutines may have       *)
(* ended, or never have started.)                                          *)
EntriesHeld ==
    rm.pc = "idle" => \A k \in DOMAIN ledger :
        \E r \in Requests : Holds(r) /\ key[r] = k /\ cl[r] = ledger[k]

(* For an address whose clients neither authenticate nor are evicted (both *)
(* count once more than they should), and of which no client is used again *)
(* while it is removed, IPCount is the number of connections.              *)
IPCounted ==
    \A a \in IPs \ off :
        count[a] = Cardinality({r \in Requests :
            /\ ip[r] = a /\ at[r] \notin {"new", "upgraded", "gone"}
            /\ ~(rm.pc = "clear" /\ rm.req = r)})

(* A connection is handled once, by one worker, whatever the pool does     *)
(* with the two tasks that are scheduled for it, and not at all when       *)
(* connman was told that there is no worker for it.                        *)
HandledOnce ==
    /\ RunOnce(Tasks)
    /\ \A r \in Requests :
        LET outer == <<"HandleClient", r>>  inner == <<"ReceiveMsg", r>>
            Busy(t) == Queued(t) \/ Running(t)
        IN  /\ ~(Busy(outer) /\ Busy(inner))
            /\ Busy(outer) \/ Busy(inner) <=> at[r] = "accepted"

(* session.go: Remove is there "to receive all clients that need to        *)
(* release resources when become inactive".  A client that is being        *)
(* registered or handled has its channels.                                 *)
OnlyInactiveReleased ==
    \A r \in Requests :
        at[r] \in {"filled", "registered", "greeted", "accepted"} => wired[cl[r]]
=============================================================================

------------------------------ MODULE Admission ------------------------------
(***************************************************************************)
(* Who may connect: the middleware rateLimiter (internal/server/router/    *)
(* middlewares.go), concurrent requests of which count the requests of an  *)
(* address, turn it away and put it on the black list (AddToBlacklist,     *)
(* tools/tools.go), in memory and in the database; and what main           *)
(* (cmd/ivmostr) does when the program is started again, with the lists as *)
(* they are read from the database (list-repo.go).                         *)
(*                                                                         *)
(* Every access to shared data is a step: the entries of WSConns are       *)
(* looked up, created, compared and changed in four of them, and only the  *)
(* last is under a lock.                                                   *)
(***************************************************************************)
EXTENDS FsPool

CONSTANTS Requests, IPs,
          White,               \* the white list: in the program, in the database
          NoEntry, NoSlot,
          RateLimits,          \* the values rate_limit_max may have,
          Duration,            \*   rate_limit_duration
          WhiteMax,            \* connections of a white-listed address, 20
          MaxInFlight,         \* bound on simultaneous requests of an address
          MaxTime, MaxStarts   \* bounds on the clock, on starts of the program

ASSUME AdmissionAssumption ==
    /\ NoEntry \notin Requests /\ NoSlot \notin Slots
    /\ IsFiniteSet(Requests) /\ IPs # {}
    /\ RateLimits \subseteq Nat \ {0} /\ {Duration, WhiteMax, MaxInFlight} \subseteq Nat \ {0}
    /\ {MaxTime, MaxStarts} \subseteq Nat
    /\ DOMAIN White = {"program", "database"} /\ \A l \in DOMAIN White : White[l] \subseteq IPs

VARIABLES
    now,       \* the clock
    up,        \* how far main is
    starts,
    blackDB,   \* the addresses in the collection of the black list
    WList, BList,      \* the lists in memory
    RateLimitMax,
    WSConns,   \* from addresses to entries, named after their creators
    reqs, ts,  \* the fields Requests and Timestamp of an entry
    at,        \* how far a request, and the goroutine it started, is
    ip, arr,   \* its address, when it arrived,
    dec,       \*   history: when the limit was looked at for it
    entry,     \* its entry of WSConns
    seen, slot,        \* of its goroutine: the list it read, its client
    count,     \* IPCount, of white-listed addresses
    off,       \* history: addresses whose count was disturbed,
    raced,     \*   that had two requests between arrival and count at once,
    out, saved,        \* addresses that are listed by now, in memory, in the database
    late       \*   requests of such addresses

process  == <<up, starts, RateLimitMax>>
lists    == <<blackDB, WList, BList>>
entries  == <<WSConns, reqs, ts>>
request  == <<ip, arr, dec, entry>>
listing  == <<seen, slot>>
counts   == <<count, off>>
history  == <<raced, out, saved, late>>
vars     == <<fspool, now, process, lists, entries, at, request, listing, counts,
              history>>

Goto(r, pc) == at' = [at EXCEPT ![r] = pc]

Zero == [r \in Requests |-> 0]
Uncounted == [a \in IPs |-> 0]
NoEntries == [a \in IPs |-> NoEntry]
Idle == [entry |-> [r \in Requests |-> NoEntry], seen |-> [r \in Requests |-> {}],
         slot |-> [r \in Requests |-> NoSlot],
         ip |-> [r \in Requests |-> CHOOSE a \in IPs : TRUE]]

Init ==
    /\ PoolInit /\ now = 0
    /\ WList = {} /\ BList = {} /\ WSConns = NoEntries
    /\ reqs = Zero /\ ts = Zero /\ arr = Zero /\ dec = Zero
    /\ ip = Idle.ip /\ entry = Idle.entry /\ seen = Idle.seen /\ slot = Idle.slot
    /\ count = Uncounted /\ off = {}
    /\ raced = {} /\ out = {} /\ late = {}
    /\ up = "off" /\ starts = 0 /\ RateLimitMax \in RateLimits
    /\ blackDB \in SUBSET IPs /\ saved = blackDB
    /\ at = [r \in Requests |-> "new"]

-----------------------------------------------------------------------------
(* main.                                                                   *)

(* A pool, and the client that NewNostrRepository keeps.                   *)
Start ==
    /\ up = "off" /\ starts < MaxStarts
    /\ up' = "white" /\ starts' = starts + 1
    /\ \E s \in Slots : GetClient(s)
    /\ UNCHANGED <<closed, now, RateLimitMax, lists, entries, at, request, listing,
                   counts, history>>

(* GetWLIPS.  A document that cannot be decoded is left out.               *)
LoadWhite ==
    /\ up = "white" /\ up' = "black"
    /\ \E s \in Slots \ closed : ~containsMA(s) /\ ReleaseClient(s)
    /\ WList' \in SUBSET White["database"]
    /\ UNCHANGED <<now, starts, RateLimitMax, blackDB, BList, entries, at, request,
                   listing, counts, history>>

(* GetBLIPS.                                                               *)
LoadBlack ==
    /\ up = "black" /\ up' = "on"
    /\ \E s \in Slots \ closed : ~containsMA(s) /\ ReleaseClient(s)
    /\ \E skipped \in SUBSET blackDB :
        /\ BList' = blackDB \ skipped
        /\ out' = saved \ skipped
    /\ UNCHANGED <<now, starts, RateLimitMax, blackDB, WList, entries, at, request,
                   listing, counts, raced, saved, late>>

(* The iterator gives an error, with a closed client or otherwise, and the *)
(* loop that reads from it continues, with the same error for ever.        *)
LoadSpins ==
    /\ up \in {"white", "black"} /\ up' = "spins"
    /\ UNCHANGED <<fspool, now, starts, RateLimitMax, lists, entries, at, request,
                   listing, counts, history>>

(* The program ends: it crashes, for instance as WSConns, a map, is read   *)
(* and written without a lock, or it is stopped.                           *)
Crash ==
    /\ up # "off" /\ up' = "off"
    /\ at' = [r \in Requests |-> IF at[r] = "new" THEN "new" ELSE "lost"]
    /\ closed' = {} /\ busy' = {} /\ now' = 0
    /\ WList' = {} /\ BList' = {} /\ WSConns' = NoEntries
    /\ reqs' = Zero /\ ts' = Zero /\ arr' = Zero /\ dec' = Zero
    /\ ip' = Idle.ip /\ entry' = Idle.entry /\ seen' = Idle.seen /\ slot' = Idle.slot
    /\ count' = Uncounted /\ off' = {}
    /\ raced' = {} /\ out' = {} /\ late' = {}
    /\ UNCHANGED <<starts, RateLimitMax, blackDB, saved>>

(* (Nothing looks at the clock before.)                                    *)
Tick == /\ up = "on" /\ now < MaxTime /\ now' = now + 1
        /\ UNCHANGED <<fspool, process, lists, entries, at, request, listing, counts,
                       history>>

-----------------------------------------------------------------------------
(* rateLimiter.                                                            *)

(* Between arrival and count.                                              *)
Deciding == {"arrived", "unlisted", "missing", "found", "counting", "resetting",
             "passed"}
InFlight(a) == {r \in Requests : ip[r] = a /\ at[r] \in Deciding}

(* The time is noted, and the white list of the program added to the one   *)
(* in memory, once more.                                                   *)
Arrive(r, a) ==
    /\ up = "on" /\ at[r] = "new" /\ Goto(r, "arrived")
    /\ Cardinality(InFlight(a)) < MaxInFlight
    /\ ip' = [ip EXCEPT ![r] = a] /\ arr' = [arr EXCEPT ![r] = now]
    /\ WList' = WList \cup White["program"]
    /\ raced' = IF InFlight(a) = {} THEN raced ELSE raced \cup {a}
    /\ late' = IF a \in out THEN late \cup {r} ELSE late
    /\ UNCHANGED <<fspool, now, process, blackDB, BList, entries, dec, entry, listing,
                   counts, out, saved>>

(* MUTANT: one more. *)
MutCheckWhite(r) ==
    /\ at[r] = "arrived" /\ ip[r] \in WList
    /\ Goto(r, IF count[ip[r]] > WhiteMax THEN "refused" ELSE "passed")
    /\ UNCHANGED <<fspool, now, process, lists, entries, request, listing, counts,
                   history>>
CheckWhite(r) ==
    /\ at[r] = "arrived" /\ ip[r] \in WList
    /\ Goto(r, IF count[ip[r]] >= WhiteMax THEN "refused" ELSE "passed")
    /\ UNCHANGED <<fspool, now, process, lists, entries, request, listing, counts,
                   history>>

CheckBlack(r) ==
    /\ at[r] = "arrived" /\ ip[r] \notin WList
    /\ Goto(r, IF ip[r] \in BList THEN "forbidden" ELSE "unlisted")
    /\ UNCHANGED <<fspool, now, process, lists, entries, request, listing, counts,
                   history>>

(* rateLimit := reqContext.WSConns[ip]                                     *)
Lookup(r) ==
    /\ at[r] = "unlisted"
    /\ entry' = [entry EXCEPT ![r] = WSConns[ip[r]]]
    /\ Goto(r, IF WSConns[ip[r]] = NoEntry THEN "missing" ELSE "found")
    /\ UNCHANGED <<fspool, now, process, lists, entries, ip, arr, dec, listing, counts,
                   history>>

(* It replaces the one that another request may have put there meanwhile.  *)
Create(r) ==
    /\ at[r] = "missing" /\ Goto(r, "found")
    /\ entry' = [entry EXCEPT ![r] = r]
    /\ reqs' = [reqs EXCEPT ![r] = 0] /\ ts' = [ts EXCEPT ![r] = now]
    /\ WSConns' = [WSConns EXCEPT ![ip[r]] = r]
    /\ UNCHANGED <<fspool, now, process, lists, ip, arr, dec, listing, counts, history>>

(* MUTANT: one request more than the maximum. *)
MutDecide(r) ==
    /\ at[r] = "found"
    /\ dec' = [dec EXCEPT ![r] = now]
    /\ Goto(r, IF now - ts[entry[r]] >= Duration THEN "resetting"
               ELSE IF reqs[entry[r]] > RateLimitMax THEN "blocked"
               ELSE "counting")
    /\ UNCHANGED <<fspool, now, process, lists, entries, ip, arr, entry, listing,
                   counts, history>>
Decide(r) ==
    /\ at[r] = "found"
    /\ dec' = [dec EXCEPT ![r] = now]
    /\ Goto(r, IF now - ts[entry[r]] >= Duration THEN "resetting"
               ELSE IF reqs[entry[r]] >= RateLimitMax THEN "blocked"
               ELSE "counting")
    /\ UNCHANGED <<fspool, now, process, lists, entries, ip, arr, entry, listing,
                   counts, history>>

(* Under the lock: one more request, or the first one.                     *)
Count(r) ==
    /\ at[r] = "counting" /\ Goto(r, "admitted")
    /\ reqs' = [reqs EXCEPT ![entry[r]] = @ + 1]
    /\ entry' = [entry EXCEPT ![r] = NoEntry]
    /\ ts' = [ts EXCEPT ![entry[r]] = arr[r]]
    /\ UNCHANGED <<fspool, now, process, lists, WSConns, ip, arr, dec, listing, counts,
                   history>>
Reset(r) ==
    /\ at[r] = "resetting" /\ Goto(r, "admitted")
    /\ reqs' = [reqs EXCEPT ![entry[r]] = 1]
    /\ entry' = [entry EXCEPT ![r] = NoEntry]
    /\ ts' = [ts EXCEPT ![entry[r]] = arr[r]]
    /\ UNCHANGED <<fspool, now, process, lists, WSConns, ip, arr, dec, listing, counts,
                   history>>

-----------------------------------------------------------------------------
(* The goroutine of AddToBlacklist, which a request that is turned away    *)
(* starts: the list is read, and written with the address appended.        *)

ReadBList(r) ==
    /\ at[r] = "blocked" /\ ip[r] \notin WList /\ Goto(r, "listing")
    /\ seen' = [seen EXCEPT ![r] = BList]
    /\ UNCHANGED <<fspool, now, process, lists, entries, request, slot, counts, history>>

(* MUTANT: a list of one. *)
MutWriteBList(r) ==
    /\ at[r] = "listing" /\ Goto(r, "listed")
    /\ seen' = [seen EXCEPT ![r] = {}]
    /\ BList' = {ip[r]}
    /\ out' = IF \E x \in Requests \ {r} : at[x] = "listing" THEN out
              ELSE out \cup {ip[r]}
    /\ UNCHANGED <<fspool, now, process, blackDB, WList, entries, request, slot,
                   counts, raced, saved, late>>
(* Who has read the list, and writes it later, takes the address away.     *)
WriteBList(r) ==
    /\ at[r] = "listing" /\ Goto(r, "listed")
    /\ seen' = [seen EXCEPT ![r] = {}]
    /\ BList' = seen[r] \cup {ip[r]}
    /\ out' = IF \E x \in Requests \ {r} : at[x] = "listing" THEN out
              ELSE out \cup {ip[r]}
    /\ UNCHANGED <<fspool, now, process, blackDB, WList, entries, request, slot,
                   counts, raced, saved, late>>

(* StoreBlackList: a client, which is not given back, and a document; with *)
(* a closed client that fails, which is only logged.                       *)
GetStore(r) ==
    /\ at[r] = "listed" /\ Goto(r, "storing")
    /\ \E s \in Slots : GetClient(s) /\ slot' = [slot EXCEPT ![r] = s]
    /\ UNCHANGED <<closed, now, process, lists, entries, request, seen, counts, history>>
(* MUTANT: the list in memory is what is kept. *)
MutStoreBlackList(r) ==
    /\ at[r] = "storing" /\ slot[r] \notin closed /\ Goto(r, "stored")
    /\ slot' = [slot EXCEPT ![r] = NoSlot]
    /\ saved' = saved \cup {ip[r]}
    /\ UNCHANGED <<fspool, now, process, lists, entries, request, seen, counts,
                   raced, out, late>>
StoreBlackList(r) ==
    /\ at[r] = "storing" /\ slot[r] \notin closed /\ Goto(r, "stored")
    /\ slot' = [slot EXCEPT ![r] = NoSlot]
    /\ blackDB' = blackDB \cup {ip[r]} /\ saved' = saved \cup {ip[r]}
    /\ UNCHANGED <<fspool, now, process, WList, BList, entries, request, seen, counts,
                   raced, out, late>>
StoreFails(r) ==
    /\ at[r] = "storing" /\ Goto(r, "unstored")
    /\ slot' = [slot EXCEPT ![r] = NoSlot]
    /\ UNCHANGED <<fspool, now, process, lists, entries, request, seen, counts,
                   history>>

-----------------------------------------------------------------------------
(* Connections of white-listed addresses (see Session): Register counts    *)
(* them, Remove takes them off; authentication counts once more, eviction  *)
(* takes off who is still connected.                                       *)

Register(r) ==
    /\ at[r] = "passed" /\ Goto(r, "connected")
    /\ count' = [count EXCEPT ![ip[r]] = @ + 1]
    /\ UNCHANGED <<fspool, now, process, lists, entries, request, listing, off, history>>
(* MUTANT: an entry is not deleted at zero. *)
MutLess(a) == [count EXCEPT ![a] = @ - 1]
Less(a) == [count EXCEPT ![a] = IF @ = 0 THEN 0 ELSE @ - 1]
Leave(r) ==
    /\ at[r] = "connected" /\ Goto(r, "left")
    /\ count' = Less(ip[r])
    /\ UNCHANGED <<fspool, now, process, lists, entries, request, listing, off, history>>
Disturb(r) ==
    /\ at[r] = "connected" /\ off' = off \cup {ip[r]}
    /\ \/ count' = Less(ip[r])
       \/ count[ip[r]] <= Cardinality(Requests)       \* bound
          /\ count' = [count EXCEPT ![ip[r]] = @ + 1]
    /\ UNCHANGED <<fspool, now, process, lists, entries, at, request, listing, history>>

rateLimiter(r) == \/ \E a \in IPs : Arrive(r, a)
                  \/ CheckWhite(r) \/ CheckBlack(r) \/ Lookup(r) \/ Create(r)
                  \/ Decide(r) \/ Count(r) \/ Reset(r)
AddToBlacklist(r) == \/ ReadBList(r) \/ WriteBList(r) \/ GetStore(r)
                     \/ StoreBlackList(r) \/ StoreFails(r)
Connection(r) == Register(r) \/ Leave(r) \/ Disturb(r)

Next == \/ Start \/ LoadWhite \/ LoadBlack \/ LoadSpins \/ Crash \/ Tick
        \/ \E r \in Requests : \/ rateLimiter(r) \/ AddToBlacklist(r)
                               \/ Connection(r)

Spec == Init /\ [][Next]_vars

-----------------------------------------------------------------------------
(* Properties.                                                             *)

Stages == Deciding \cup {"new", "refused", "forbidden", "admitted", "blocked",
    "listing", "listed", "storing", "stored", "unstored", "connected", "left", "lost"}

TypeOK ==
    /\ closed \subseteq Slots /\ busy \subseteq {Copy(s) : s \in Slots}
    /\ now \in Nat /\ starts \in Nat /\ RateLimitMax \in RateLimits
    /\ up \in {"off", "white", "black", "on", "spins"}
    /\ {blackDB, WList, BList, off, raced, out, saved} \subseteq SUBSET IPs
    /\ late \subseteq Requests
    /\ WSConns \in [IPs -> Requests \cup {NoEntry}]
    /\ {reqs, ts, arr, dec} \subseteq [Requests -> Nat] /\ count \in [IPs -> Nat]
    /\ at \in [Requests -> Stages] /\ ip \in [Requests -> IPs]
    /\ entry \in [Requests -> Requests \cup {NoEntry}]
    /\ seen \in [Requests -> SUBSET IPs] /\ slot \in [Requests -> Slots \cup {NoSlot}]

Admitted(a) == {r \in Requests : ip[r] = a /\ at[r] = "admitted"}

(* Of an address whose requests do not overlap, no more than RateLimitMax  *)
(* are received and admitted within less than Duration.                    *)
WindowBound ==
    \A a \in IPs \ raced : \A t \in {arr[r] : r \in Admitted(a)} :
        Cardinality({r \in Admitted(a) : arr[r] >= t /\ dec[r] < t + Duration})
            <= RateLimitMax

(* However its requests overlap, an entry never counts more than the       *)
(* maximum by more than those that are in flight besides the one counted.  *)
Counting(o) == {r \in Requests : at[r] = "counting" /\ entry[r] = o}
Overshoot ==
    \A o \in Requests :
        reqs[o] + Cardinality(Counting(o)) <= RateLimitMax - 1 + MaxInFlight

(* What the configuration promises of rate_limit_max and of                *)
(* rate_limit_duration (configs/config.yaml:31-33), "allowed per           *)
(* `rate_limit_duration`, before the IP is blocked", and what ratelimit.go *)
(* says of the counter: who is turned away had the maximum admitted within *)
(* the Duration before.  The code, which begins a Duration at each request *)
(* it admits, also turns away an address that stays below the maximum in   *)
(* every Duration.  (Of an address whose requests do not overlap.)         *)
TurnedAway == {r \in Requests : at[r] \in {"blocked", "listing", "listed",
                                           "storing", "stored", "unstored"}}
BlockedForExcess ==
    \A r \in TurnedAway : ip[r] \in raced \/
        Cardinality({x \in Admitted(ip[r]) : dec[r] - arr[x] < Duration}) >= RateLimitMax

(* A white-listed address, if its count was not disturbed, has no more     *)
(* connections than WhiteMax by more than those in flight at once.         *)
WhiteCap ==
    \A a \in IPs \ off :
        Cardinality({r \in Requests : ip[r] = a /\ at[r] \in {"passed", "connected"}})
            <= WhiteMax - 1 + MaxInFlight

(* An address that was put on the black list, other than by two goroutines *)
(* at once, or that was stored there, and read when the program started    *)
(* again, is refused from then on, unless it is on the white list.         *)
ListedStaysOut ==
    \A r \in late : at[r] \in {"arrived", "forbidden"} \/ ip[r] \in WList

(* While the program runs, some client of the pool can be had, and its     *)
(* connection is open: no more than two were ever released.                *)
PoolServes == up = "on" => Serves
=============================================================================

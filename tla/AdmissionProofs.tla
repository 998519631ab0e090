-------------------------- MODULE AdmissionProofs --------------------------
(***************************************************************************)
(* Proofs about Admission, for any number of requests, addresses, clients  *)
(* and starts of the program: its six invariants.                          *)
(*                                                                         *)
(* Who is listed stays out because of what the goroutines of               *)
(* AddToBlacklist have read: who is known to be listed is in every list    *)
(* that is still to be written.  How far the maximum is exceeded follows   *)
(* by counting the requests that are about to be counted in one entry.     *)
(* Of an address whose requests do not overlap, the requests that its      *)
(* entry counts are a run, and those before the run are past: hence the    *)
(* bound of each window.                                                   *)
(***************************************************************************)
EXTENDS Admission, TLAPS, FiniteSetTheorems

USE AdmissionAssumption

-----------------------------------------------------------------------------
(* Types.                                                                  *)

LEMMA InitType == Init => TypeOK
<1> SUFFICES ASSUME Init PROVE TypeOK OBVIOUS
<1> DEFINE some == CHOOSE a \in IPs : TRUE
<1>1. some \in IPs OBVIOUS
<1>2. ip = [r \in Requests |-> some] BY DEF Init, Idle
<1> HIDE DEF some
<1>3. ip \in [Requests -> IPs] BY <1>1, <1>2
<1>4. /\ entry \in [Requests -> Requests \cup {NoEntry}]
      /\ seen \in [Requests -> SUBSET IPs] /\ slot \in [Requests -> Slots \cup {NoSlot}]
      BY DEF Init, Idle
<1>5. /\ {reqs, ts, arr, dec} \subseteq [Requests -> Nat] /\ count \in [IPs -> Nat]
      /\ WSConns \in [IPs -> Requests \cup {NoEntry}]
      BY DEF Init, Zero, Uncounted, NoEntries
<1> QED BY <1>3, <1>4, <1>5 DEF Init, TypeOK, PoolInit, Stages, Deciding

LEMMA MainType ==
    ASSUME TypeOK, Start \/ LoadWhite \/ LoadBlack \/ LoadSpins \/ Crash \/ Tick
    PROVE  TypeOK'
<1> USE DEF TypeOK, fspool, process, lists, entries, request, listing, counts,
            history, Stages, Deciding
<1>1. CASE Start BY <1>1 DEF Start, GetClient
<1>2. CASE LoadWhite BY <1>2 DEF LoadWhite, ReleaseClient
<1>3. CASE LoadBlack BY <1>3 DEF LoadBlack, ReleaseClient
<1>4. CASE LoadSpins BY <1>4 DEF LoadSpins
<1>5. CASE Crash BY <1>5 DEF Crash, NoEntries, Zero, Uncounted, Idle
<1>6. CASE Tick BY <1>6 DEF Tick
<1> QED BY <1>1, <1>2, <1>3, <1>4, <1>5, <1>6

(* Changing an entry leaves numbers, whether or not the entry exists.      *)
LEMMA EntryType ==
    ASSUME NEW f \in [Requests -> Nat], NEW o, NEW v, o \in Requests => v \in Nat
    PROVE  [f EXCEPT ![o] = v] \in [Requests -> Nat]
OBVIOUS

LEMMA RequestType ==
    ASSUME TypeOK, NEW r \in Requests, rateLimiter(r)
    PROVE  TypeOK'
<1> USE DEF TypeOK, fspool, process, lists, entries, request, listing, counts,
            history, Stages, Deciding, Goto
<1>1. ASSUME NEW a \in IPs, Arrive(r, a) PROVE TypeOK' BY <1>1 DEF Arrive
<1>2. CASE CheckWhite(r) BY <1>2 DEF CheckWhite
<1>3. CASE CheckBlack(r) BY <1>3 DEF CheckBlack
<1>4. CASE Lookup(r) BY <1>4 DEF Lookup
<1>5. CASE Create(r) BY <1>5 DEF Create
<1>6. CASE Decide(r) BY <1>6 DEF Decide
<1>7. CASE Count(r)
  <2>1. /\ reqs' = [reqs EXCEPT ![entry[r]] = reqs[entry[r]] + 1]
        /\ ts' = [ts EXCEPT ![entry[r]] = arr[r]]
        BY <1>7 DEF Count
  <2>2. reqs' \in [Requests -> Nat] /\ ts' \in [Requests -> Nat]
        BY <2>1, EntryType
  <2> QED BY <1>7, <2>2 DEF Count
<1>8. CASE Reset(r)
  <2>1. /\ reqs' = [reqs EXCEPT ![entry[r]] = 1]
        /\ ts' = [ts EXCEPT ![entry[r]] = arr[r]]
        BY <1>8 DEF Reset
  <2>2. reqs' \in [Requests -> Nat] /\ ts' \in [Requests -> Nat]
        BY <2>1, EntryType
  <2> QED BY <1>8, <2>2 DEF Reset
<1> QED BY <1>1, <1>2, <1>3, <1>4, <1>5, <1>6, <1>7, <1>8 DEF rateLimiter

LEMMA ListingType ==
    ASSUME TypeOK, NEW r \in Requests, AddToBlacklist(r)
    PROVE  TypeOK'
<1> USE DEF TypeOK, fspool, process, lists, entries, request, listing, counts,
            history, Stages, Deciding, Goto
<1>1. CASE ReadBList(r) BY <1>1 DEF ReadBList
<1>2. CASE WriteBList(r) BY <1>2 DEF WriteBList
<1>3. CASE GetStore(r) BY <1>3 DEF GetStore, GetClient
<1>4. CASE StoreBlackList(r) BY <1>4 DEF StoreBlackList
<1>5. CASE StoreFails(r) BY <1>5 DEF StoreFails
<1> QED BY <1>1, <1>2, <1>3, <1>4, <1>5 DEF AddToBlacklist

LEMMA ConnectionType ==
    ASSUME TypeOK, NEW r \in Requests, Connection(r)
    PROVE  TypeOK'
<1> USE DEF TypeOK, fspool, process, lists, entries, request, listing, counts,
            history, Stages, Deciding, Goto
<1>1. CASE Register(r) BY <1>1 DEF Register
<1>2. CASE Leave(r) BY <1>2 DEF Leave, Less
<1>3. CASE Disturb(r) BY <1>3 DEF Disturb, Less
<1> QED BY <1>1, <1>2, <1>3 DEF Connection

LEMMA StepType == TypeOK /\ [Next]_vars => TypeOK'
<1> SUFFICES ASSUME TypeOK, [Next]_vars PROVE TypeOK'
  OBVIOUS
<1>1. CASE UNCHANGED vars
  BY <1>1 DEF vars, fspool, process, lists, entries, request, listing, counts,
     history, TypeOK
<1> QED BY <1>1, MainType, RequestType, ListingType, ConnectionType DEF Next

(* Every variable of Admission has its type.                               *)
THEOREM AdmissionTypes == Spec => []TypeOK
BY InitType, StepType, PTL DEF Spec

-----------------------------------------------------------------------------
(* Who is listed stays out.                                                *)

(* Nothing is known before the black list was read.                        *)
Quiet == up # "on" => /\ out = {} /\ late = {}
                      /\ \A r \in Requests : at[r] \in {"new", "lost"}
(* Who is known to be listed is in the list, in memory and as it was read  *)
(* by those who will write it, and what is known to be stored is stored.   *)
Known == /\ saved \subseteq blackDB /\ out \subseteq BList
         /\ \A r \in Requests : at[r] = "listing" => out \subseteq seen[r]
(* A late request is at the gate, or does not pass it.                     *)
Late == \A r \in late :
           /\ at[r] # "new"
           /\ \/ at[r] \in {"arrived", "forbidden"} /\ ip[r] \in out
              \/ ip[r] \in WList

ListInv == TypeOK /\ Quiet /\ Known /\ Late

LEMMA ListInit == Init => ListInv
<1> SUFFICES ASSUME Init PROVE ListInv OBVIOUS
<1>1. Quiet /\ Known /\ Late BY DEF Init, Quiet, Known, Late
<1> QED BY <1>1, InitType DEF ListInv

(* Steps that leave the lists, and what is known of them, alone.           *)
LEMMA ListAlone ==
    ASSUME ListInv, TypeOK', UNCHANGED <<up, lists, seen, ip, out, saved, late>>,
           up = "on" \/ at' = at,
           \A r \in Requests :
              /\ at'[r] = "listing" => at[r] = "listing"
              /\ at'[r] = "new" => at[r] = "new"
              /\ at'[r] = at[r] \/ r \notin late \/ ip[r] \in WList
    PROVE  ListInv'
<1> USE DEF ListInv
<1>0. /\ up' = up /\ blackDB' = blackDB /\ WList' = WList /\ BList' = BList
      /\ seen' = seen /\ ip' = ip /\ out' = out /\ saved' = saved /\ late' = late
      BY DEF lists
<1>1. Quiet' BY <1>0 DEF Quiet
<1>2. Known' BY <1>0 DEF Known
<1>3. Late'
  <2>1. late \subseteq Requests BY DEF TypeOK
  <2> QED BY <1>0, <2>1 DEF Late
<1> QED BY <1>1, <1>2, <1>3

(* A request whose address is known to be listed is turned away at the     *)
(* gate; the others may go on.                                             *)
LEMMA ListRequest ==
    ASSUME ListInv, TypeOK', NEW r \in Requests, rateLimiter(r)
    PROVE  ListInv'
<1> USE DEF ListInv, process, lists, listing, history, request, Goto, TypeOK
<1>1. ASSUME NEW a \in IPs, Arrive(r, a) PROVE ListInv'
  <2>0. /\ up = "on" /\ up' = "on" /\ at[r] = "new"
        /\ at' = [at EXCEPT ![r] = "arrived"] /\ ip' = [ip EXCEPT ![r] = a]
        /\ WList \subseteq WList' /\ UNCHANGED <<blackDB, BList, seen, out, saved>>
        BY <1>1 DEF Arrive
  <2>1. Quiet' BY <2>0 DEF Quiet
  <2>2. Known' BY <2>0 DEF Known
  <2>3. Late'
    <3>1. late' \subseteq late \cup {r} /\ (r \in late' => r \in late \/ a \in out)
      <4>1. CASE a \in out BY <4>1, <1>1 DEF Arrive
      <4>2. CASE a \notin out BY <4>2, <1>1 DEF Arrive
      <4> QED BY <4>1, <4>2
    <3>2. r \notin late BY <2>0 DEF Late
    <3>3. at'[r] = "arrived" /\ ip'[r] = a BY <2>0
    <3>4. \A x \in late : at'[x] = at[x] /\ ip'[x] = ip[x] BY <3>2, <2>0
    <3> QED BY <3>1, <3>2, <3>3, <3>4, <2>0 DEF Late
  <2> QED BY <2>1, <2>2, <2>3
<1>2. CASE CheckBlack(r)
  <2> USE <1>2 DEF CheckBlack
  <2>1. Quiet' BY DEF Quiet
  <2>2. Known' BY DEF Known
  <2>3. CASE ip[r] \in BList
    <3>1. at' = [at EXCEPT ![r] = "forbidden"] BY <2>3
    <3> QED BY <3>1, <2>1, <2>2 DEF Late
  <2>4. CASE ip[r] \notin BList
    <3>1. at' = [at EXCEPT ![r] = "unlisted"] /\ r \notin late
          BY <2>4 DEF Late, Known
    <3> QED BY <3>1, <2>1, <2>2 DEF Late
  <2> QED BY <2>3, <2>4
<1>3. ASSUME CheckWhite(r) \/ Lookup(r) \/ Create(r) \/ Decide(r) \/ Count(r) \/ Reset(r)
      PROVE  ListInv'
  <2>1. r \in late => ip[r] \in WList
        BY <1>3 DEF Late, CheckWhite, Lookup, Create, Decide, Count, Reset
  <2>2. UNCHANGED <<up, lists, seen, ip, out, saved, late>>
        BY <1>3 DEF CheckWhite, Lookup, Create, Decide, Count, Reset
  <2>3. \E pc \in Stages \ {"listing", "new"} : at' = [at EXCEPT ![r] = pc]
        BY <1>3 DEF CheckWhite, Lookup, Create, Decide, Count, Reset, Stages, Deciding
  <2>4. up = "on"
        BY <1>3 DEF Quiet, CheckWhite, Lookup, Create, Decide, Count, Reset
  <2> QED BY <2>1, <2>2, <2>3, <2>4, ListAlone
<1> QED BY <1>1, <1>2, <1>3 DEF rateLimiter

(* The list is written as it was read, with an address more: who was known *)
(* to be listed was in it.                                                 *)
LEMMA ListListing ==
    ASSUME ListInv, TypeOK', NEW r \in Requests, AddToBlacklist(r)
    PROVE  ListInv'
<1> USE DEF ListInv, process, lists, listing, history, request, Goto, TypeOK
<1>1. CASE ReadBList(r)
  <2> USE <1>1 DEF ReadBList
  <2>1. at[r] = "blocked" /\ ip[r] \notin WList /\ r \notin late BY DEF Late
  <2>2. up = "on" BY DEF Quiet
  <2>3. Known' BY DEF Known
  <2>4. Late' BY <2>1 DEF Late
  <2>5. Quiet' BY <2>2 DEF Quiet
  <2> QED BY <2>3, <2>4, <2>5
<1>2. CASE WriteBList(r)
  <2> USE <1>2 DEF WriteBList
  <2>1. up = "on" BY DEF Quiet
  <2>2. out \subseteq out' BY DEF WriteBList
  <2>3. Late' BY <2>2 DEF Late
  <2>4. out' \subseteq BList' BY DEF Known
  <2>5. \A x \in Requests : at'[x] = "listing" => out' \subseteq seen'[x] BY DEF Known
  <2>6. Quiet' BY <2>1 DEF Quiet
  <2> QED BY <2>3, <2>4, <2>5, <2>6 DEF Known
<1>3. CASE StoreBlackList(r)
  <2> USE <1>3 DEF StoreBlackList
  <2>1. r \in late => ip[r] \in WList BY DEF Late
  <2>2. Known' BY DEF Known
  <2>3. Late' BY <2>1 DEF Late
  <2>4. Quiet' BY DEF Quiet
  <2> QED BY <2>2, <2>3, <2>4
<1>4. ASSUME GetStore(r) \/ StoreFails(r) PROVE ListInv'
  <2>1. r \in late => ip[r] \in WList BY <1>4 DEF Late, GetStore, StoreFails
  <2>2. UNCHANGED <<up, lists, seen, ip, out, saved, late>>
        BY <1>4 DEF GetStore, StoreFails
  <2>3. \E pc \in {"storing", "unstored"} : at' = [at EXCEPT ![r] = pc]
        BY <1>4 DEF GetStore, StoreFails
  <2>4. up = "on" BY <1>4 DEF Quiet, GetStore, StoreFails
  <2> QED BY <2>1, <2>2, <2>3, <2>4, ListAlone
<1> QED BY <1>1, <1>2, <1>3, <1>4 DEF AddToBlacklist

LEMMA ListConnection ==
    ASSUME ListInv, TypeOK', NEW r \in Requests, Connection(r)
    PROVE  ListInv'
<1> USE DEF ListInv, process, lists, listing, history, request, Goto, TypeOK
<1>1. r \in late => ip[r] \in WList
      BY DEF Late, Connection, Register, Leave, Disturb
<1>2. UNCHANGED <<up, lists, seen, ip, out, saved, late>>
      BY DEF Connection, Register, Leave, Disturb
<1>3. at' = at \/ \E pc \in {"connected", "left"} : at' = [at EXCEPT ![r] = pc]
      BY DEF Connection, Register, Leave, Disturb
<1>4. up = "on" BY DEF Quiet, Connection, Register, Leave, Disturb
<1> QED BY <1>1, <1>2, <1>3, <1>4, ListAlone

(* The lists are read when nothing is known of them.                       *)
LEMMA ListMain ==
    ASSUME ListInv, TypeOK',
           Start \/ LoadWhite \/ LoadBlack \/ LoadSpins \/ Crash \/ Tick
    PROVE  ListInv'
<1> USE DEF ListInv, process, lists, listing, history, request, TypeOK
<1>1. CASE Start \/ LoadSpins
  <2>1. /\ up # "on" /\ up' # "on"
        /\ UNCHANGED <<at, out, late, seen, saved, lists>>
        BY <1>1 DEF Start, LoadSpins
  <2> QED BY <2>1 DEF Quiet, Known, Late
<1>2. CASE LoadWhite
  <2>1. /\ up # "on" /\ up' # "on"
        /\ UNCHANGED <<at, out, late, seen, saved, blackDB, BList>>
        BY <1>2 DEF LoadWhite
  <2> QED BY <2>1 DEF Quiet, Known, Late
<1>3. CASE LoadBlack
  <2>1. late = {} /\ \A r \in Requests : at[r] \in {"new", "lost"}
        BY <1>3 DEF LoadBlack, Quiet
  <2>2. UNCHANGED <<at, late, saved, blackDB>> /\ up' = "on" BY <1>3 DEF LoadBlack
  <2>3. out' \subseteq BList' BY <1>3 DEF LoadBlack, Known
  <2> QED BY <2>1, <2>2, <2>3 DEF Quiet, Known, Late
<1>4. CASE Crash
  <2>1. out' = {} /\ late' = {} /\ UNCHANGED <<blackDB, saved>> BY <1>4 DEF Crash
  <2>2. \A r \in Requests : at'[r] \in {"new", "lost"} BY <1>4 DEF Crash
  <2> QED BY <2>1, <2>2 DEF Quiet, Known, Late
<1>5. CASE Tick
  <2>1. UNCHANGED <<up, lists, seen, ip, at, out, saved, late>> BY <1>5 DEF Tick
  <2> QED BY <2>1, ListAlone
<1> QED BY <1>1, <1>2, <1>3, <1>4, <1>5

LEMMA ListStep == ListInv /\ [Next]_vars => ListInv'
<1> SUFFICES ASSUME ListInv, [Next]_vars PROVE ListInv'
  OBVIOUS
<1>1. TypeOK' BY StepType DEF ListInv
<1>2. CASE UNCHANGED vars
  <2>1. UNCHANGED <<up, lists, seen, ip, at, out, saved, late>>
        BY <1>2 DEF vars, process, listing, request, history
  <2> QED BY <1>1, <2>1, ListAlone
<1> QED BY <1>1, <1>2, ListMain, ListRequest, ListListing, ListConnection DEF Next

(* An address that is known to be on the black list, because a goroutine   *)
(* of AddToBlacklist wrote it there alone or because it was stored and     *)
(* read back, is refused by rateLimiter, however many other addresses are  *)
(* listed at the same time, and after any number of restarts.              *)
THEOREM ListedForGood == Spec => []ListedStaysOut
<1>1. ListInv => ListedStaysOut BY DEF ListInv, Late, ListedStaysOut
<1> QED BY <1>1, ListInit, ListStep, PTL DEF Spec

-----------------------------------------------------------------------------
(* How far the maximum is exceeded.                                        *)

(* An entry is that of one address, and of a request that has arrived.     *)
Owner == /\ \A a \in IPs : WSConns[a] # NoEntry =>
               at[WSConns[a]] # "new" /\ ip[WSConns[a]] = a
         /\ \A r \in Requests : entry[r] # NoEntry =>
               at[r] # "new" /\ at[entry[r]] # "new" /\ ip[entry[r]] = ip[r]
Few   == \A a \in IPs : Cardinality(InFlight(a)) <= MaxInFlight

OverInv == TypeOK /\ Owner /\ Few /\ Overshoot

LEMMA Sizes ==
    /\ \A a \in IPs : IsFiniteSet(InFlight(a)) /\ Cardinality(InFlight(a)) \in Nat
    /\ \A o \in Requests : IsFiniteSet(Counting(o)) /\ Cardinality(Counting(o)) \in Nat
<1>1. ASSUME NEW S, S \subseteq Requests
      PROVE  IsFiniteSet(S) /\ Cardinality(S) \in Nat
      BY <1>1, FS_Subset, FS_CardinalityType
<1>2. \A a \in IPs : InFlight(a) \subseteq Requests BY DEF InFlight
<1>3. \A o \in Requests : Counting(o) \subseteq Requests BY DEF Counting
<1> QED BY <1>1, <1>2, <1>3

LEMMA SizesNext ==
    /\ \A a \in IPs : IsFiniteSet(InFlight(a)') /\ Cardinality(InFlight(a)') \in Nat
    /\ \A o \in Requests : IsFiniteSet(Counting(o)') /\ Cardinality(Counting(o)') \in Nat
<1>1. ASSUME NEW S, S \subseteq Requests
      PROVE  IsFiniteSet(S) /\ Cardinality(S) \in Nat
      BY <1>1, FS_Subset, FS_CardinalityType
<1>2. \A a \in IPs : InFlight(a)' \subseteq Requests BY DEF InFlight
<1>3. \A o \in Requests : Counting(o)' \subseteq Requests BY DEF Counting
<1> QED BY <1>1, <1>2, <1>3

(* What is counted in an entry is in flight, of the address of the entry.  *)
LEMMA CountingFlies ==
    ASSUME TypeOK, Owner, NEW o \in Requests
    PROVE  Counting(o) \subseteq InFlight(ip[o])
BY DEF Counting, InFlight, Owner, Deciding

LEMMA FewCounting ==
    ASSUME TypeOK, Owner, Few, NEW o \in Requests
    PROVE  Cardinality(Counting(o)) <= MaxInFlight
<1>1. ip[o] \in IPs BY DEF TypeOK
<1>2. Cardinality(Counting(o)) <= Cardinality(InFlight(ip[o]))
      BY <1>1, CountingFlies, Sizes, FS_Subset
<1> QED BY <1>1, <1>2, Sizes DEF Few

(* Nobody comes into flight, nobody more is counted.                       *)
LEMMA FewKept ==
    ASSUME Few, \A a \in IPs : InFlight(a)' \subseteq InFlight(a)
    PROVE  Few'
<1> SUFFICES ASSUME NEW a \in IPs PROVE Cardinality(InFlight(a)') <= MaxInFlight
    BY DEF Few
<1>1. Cardinality(InFlight(a)') <= Cardinality(InFlight(a)) BY Sizes, FS_Subset
<1> QED BY <1>1, Sizes, SizesNext DEF Few

LEMMA OvershootKept ==
    ASSUME TypeOK, TypeOK', NEW o \in Requests, RateLimitMax' = RateLimitMax,
           reqs[o] + Cardinality(Counting(o)) <= RateLimitMax - 1 + MaxInFlight,
           reqs'[o] = reqs[o], Counting(o)' \subseteq Counting(o)
    PROVE  reqs'[o] + Cardinality(Counting(o)') <= RateLimitMax' - 1 + MaxInFlight
<1>1. Cardinality(Counting(o)') <= Cardinality(Counting(o)) BY Sizes, FS_Subset
<1>2. reqs[o] \in Nat /\ RateLimitMax \in Nat BY DEF TypeOK
<1> QED BY <1>1, <1>2, Sizes, SizesNext

LEMMA OverInit == Init => OverInv
<1> SUFFICES ASSUME Init PROVE OverInv OBVIOUS
<1>1. TypeOK BY InitType
<1>2. Owner BY DEF Init, Owner, NoEntries, Idle
<1>3. \A a \in IPs : InFlight(a) = {} BY DEF Init, InFlight, Deciding
<1>4. Few BY <1>3, FS_EmptySet DEF Few
<1>5. \A o \in Requests : Counting(o) = {} /\ reqs[o] = 0
      BY DEF Init, Counting, Zero
<1>6. RateLimitMax \in Nat \ {0} BY <1>1 DEF TypeOK
<1>7. \A o \in Requests : reqs[o] + Cardinality(Counting(o)) = 0
      BY <1>5, FS_EmptySet
<1>8. Overshoot BY <1>6, <1>7 DEF Overshoot
<1> QED BY <1>1, <1>2, <1>4, <1>8 DEF OverInv

(* Steps that neither change an entry nor bring anybody into flight.       *)
LEMMA OverAlone ==
    ASSUME OverInv, TypeOK', UNCHANGED <<RateLimitMax, WSConns, reqs, ip, entry>>,
           \A x \in Requests : /\ at'[x] = "new" => at[x] = "new"
                               /\ at'[x] = "counting" => at[x] = "counting"
                               /\ at'[x] \in Deciding => at[x] \in Deciding
    PROVE  OverInv'
<1> USE DEF OverInv
<1>1. Owner' BY DEF Owner, TypeOK
<1>2. \A a \in IPs : InFlight(a)' \subseteq InFlight(a) BY DEF InFlight
<1>3. \A o \in Requests : Counting(o)' \subseteq Counting(o) BY DEF Counting
<1>4. Overshoot' BY <1>3, OvershootKept DEF Overshoot
<1> QED BY <1>1, <1>2, <1>4, FewKept

LEMMA OverArrive ==
    ASSUME OverInv, TypeOK', NEW r \in Requests, NEW a \in IPs, Arrive(r, a)
    PROVE  OverInv'
<1> USE DEF OverInv
<1>1. /\ at[r] = "new" /\ at' = [at EXCEPT ![r] = "arrived"]
      /\ ip' = [ip EXCEPT ![r] = a] /\ Cardinality(InFlight(a)) < MaxInFlight
      /\ UNCHANGED <<RateLimitMax, WSConns, reqs, entry>>
      BY DEF Arrive, Goto, process, entries
<1>2. Owner' BY <1>1 DEF Owner, TypeOK
<1>3. \A b \in IPs \ {a} : InFlight(b)' \subseteq InFlight(b)
      BY <1>1 DEF InFlight, TypeOK
<1>4. InFlight(a)' \subseteq InFlight(a) \cup {r} BY <1>1 DEF InFlight, TypeOK
<1>5. Few'
  <2> SUFFICES ASSUME NEW b \in IPs PROVE Cardinality(InFlight(b)') <= MaxInFlight
      BY DEF Few
  <2>1. CASE b = a
    <3>0. r \notin InFlight(a) BY <1>1 DEF InFlight, Deciding
    <3>1. /\ IsFiniteSet(InFlight(a) \cup {r})
          /\ Cardinality(InFlight(a) \cup {r}) = Cardinality(InFlight(a)) + 1
          BY <3>0, Sizes, FS_AddElement
    <3>2. Cardinality(InFlight(a)') <= Cardinality(InFlight(a) \cup {r})
          BY <1>4, <3>1, FS_Subset
    <3> QED BY <2>1, <3>1, <3>2, <1>1, Sizes, SizesNext
  <2>2. CASE b # a
    <3>1. Cardinality(InFlight(b)') <= Cardinality(InFlight(b))
          BY <2>2, <1>3, Sizes, FS_Subset
    <3> QED BY <3>1, Sizes, SizesNext DEF Few
  <2> QED BY <2>1, <2>2
<1>6. \A o \in Requests : Counting(o)' \subseteq Counting(o)
      BY <1>1 DEF Counting, TypeOK
<1>7. Overshoot' BY <1>1, <1>6, OvershootKept DEF Overshoot
<1> QED BY <1>2, <1>5, <1>7

LEMMA OverLookup ==
    ASSUME OverInv, TypeOK', NEW r \in Requests, Lookup(r)
    PROVE  OverInv'
<1> USE DEF OverInv
<1>1. /\ at[r] = "unlisted" /\ entry' = [entry EXCEPT ![r] = WSConns[ip[r]]]
      /\ UNCHANGED <<RateLimitMax, WSConns, reqs, ip>>
      BY DEF Lookup, process, entries
<1>2. PICK pc \in {"missing", "found"} : at' = [at EXCEPT ![r] = pc]
      BY DEF Lookup, Goto
<1>3. Owner' BY <1>1, <1>2 DEF Owner, TypeOK
<1>4. \A a \in IPs : InFlight(a)' \subseteq InFlight(a)
      BY <1>1, <1>2 DEF InFlight, Deciding, TypeOK
<1>5. \A o \in Requests : Counting(o)' \subseteq Counting(o)
      BY <1>1, <1>2 DEF Counting, TypeOK
<1>6. Overshoot' BY <1>1, <1>5, OvershootKept DEF Overshoot
<1> QED BY <1>3, <1>4, <1>6, FewKept

(* A new entry counts nothing yet.                                         *)
LEMMA OverCreate ==
    ASSUME OverInv, TypeOK', NEW r \in Requests, Create(r)
    PROVE  OverInv'
<1> USE DEF OverInv
<1>1. /\ at[r] = "missing" /\ at' = [at EXCEPT ![r] = "found"]
      /\ entry' = [entry EXCEPT ![r] = r] /\ reqs' = [reqs EXCEPT ![r] = 0]
      /\ WSConns' = [WSConns EXCEPT ![ip[r]] = r] /\ UNCHANGED <<RateLimitMax, ip>>
      BY DEF Create, Goto, process, request
<1>2. Owner' BY <1>1 DEF Owner, TypeOK
<1>3. \A a \in IPs : InFlight(a)' \subseteq InFlight(a)
      BY <1>1 DEF InFlight, Deciding, TypeOK
<1>4. Few' BY <1>3, FewKept
<1>5. \A o \in Requests : Counting(o)' \subseteq Counting(o)
      BY <1>1 DEF Counting, TypeOK
<1>6. ASSUME NEW o \in Requests
      PROVE  reqs'[o] + Cardinality(Counting(o)') <= RateLimitMax' - 1 + MaxInFlight
  <2>1. CASE o = r
    <3>1. reqs'[o] = 0 BY <1>1, <2>1 DEF TypeOK
    <3>2. Cardinality(Counting(o)') <= Cardinality(Counting(o))
          BY <1>5, Sizes, FS_Subset
    <3>3. RateLimitMax' \in Nat \ {0} BY DEF TypeOK
    <3> QED BY <3>1, <3>2, <3>3, FewCounting, Sizes, SizesNext
  <2>2. CASE o # r
    <3>1. reqs'[o] = reqs[o] BY <1>1, <2>2 DEF TypeOK
    <3> QED BY <3>1, <1>1, <1>5, OvershootKept DEF Overshoot
  <2> QED BY <2>1, <2>2
<1> QED BY <1>2, <1>4, <1>6 DEF Overshoot

(* Below the maximum, those about to be counted cannot take it further     *)
(* than by all those who may be in flight.                                 *)
LEMMA OverDecide ==
    ASSUME OverInv, TypeOK', NEW r \in Requests, Decide(r)
    PROVE  OverInv'
<1> USE DEF OverInv
<1>1. /\ at[r] = "found"
      /\ UNCHANGED <<RateLimitMax, WSConns, reqs, ip, entry>>
      BY DEF Decide, process, entries
<1>2. \/ at' = [at EXCEPT ![r] = "counting"] /\ ~(reqs[entry[r]] >= RateLimitMax)
      \/ \E pc \in {"resetting", "blocked"} : at' = [at EXCEPT ![r] = pc]
      BY DEF Decide, Goto
<1>3. Owner' BY <1>1, <1>2 DEF Owner, TypeOK
<1>4. \A a \in IPs : InFlight(a)' \subseteq InFlight(a)
      BY <1>1, <1>2 DEF InFlight, Deciding, TypeOK
<1>5. Few' BY <1>4, FewKept
<1>6. CASE at' = [at EXCEPT ![r] = "counting"] /\ ~(reqs[entry[r]] >= RateLimitMax)
  <2> SUFFICES ASSUME NEW o \in Requests
               PROVE  reqs'[o] + Cardinality(Counting(o)')
                        <= RateLimitMax' - 1 + MaxInFlight
      BY <1>3, <1>5 DEF Overshoot
  <2>1. CASE o = entry[r]
    <3>1. reqs[o] \in Nat /\ RateLimitMax \in Nat /\ MaxInFlight \in Nat BY DEF TypeOK
    <3>2. reqs[o] <= RateLimitMax - 1 BY <3>1, <2>1, <1>6
    <3>3. PICK a \in IPs : a = ip[o] BY DEF TypeOK
    <3>4. \A x \in Requests : entry'[x] = o => ip'[x] = a
          BY <1>1, <3>3 DEF Owner
    <3>5. Counting(o)' \subseteq InFlight(a)'
          BY <3>4 DEF Counting, InFlight, Deciding
    <3>6. Cardinality(Counting(o)') <= Cardinality(InFlight(a)')
          BY <3>5, SizesNext, FS_Subset
    <3>7. Cardinality(InFlight(a)') <= MaxInFlight BY <1>5 DEF Few
    <3>8. Cardinality(Counting(o)') <= MaxInFlight
          BY <3>1, <3>6, <3>7, SizesNext
    <3> QED BY <3>1, <3>2, <3>8, <1>1, SizesNext
  <2>2. CASE o # entry[r]
    <3>1. Counting(o)' \subseteq Counting(o) BY <1>1, <1>6, <2>2 DEF Counting, TypeOK
    <3> QED BY <3>1, <1>1, OvershootKept DEF Overshoot
  <2> QED BY <2>1, <2>2
<1>7. CASE \E pc \in {"resetting", "blocked"} : at' = [at EXCEPT ![r] = pc]
  <2>1. \A o \in Requests : Counting(o)' \subseteq Counting(o)
        BY <1>1, <1>7 DEF Counting, TypeOK
  <2>2. Overshoot' BY <2>1, <1>1, OvershootKept DEF Overshoot
  <2> QED BY <2>2, <1>3, <1>5
<1> QED BY <1>2, <1>6, <1>7

(* What is counted is not about to be counted any more.                    *)
LEMMA OverCount ==
    ASSUME OverInv, TypeOK', NEW r \in Requests, Count(r)
    PROVE  OverInv'
<1> USE DEF OverInv
<1>1. /\ at[r] = "counting" /\ at' = [at EXCEPT ![r] = "admitted"]
      /\ reqs' = [reqs EXCEPT ![entry[r]] = reqs[entry[r]] + 1]
      /\ entry' = [entry EXCEPT ![r] = NoEntry]
      /\ UNCHANGED <<RateLimitMax, WSConns, ip>>
      BY DEF Count, Goto, process
<1>2. Owner' BY <1>1 DEF Owner, TypeOK
<1>3. \A a \in IPs : InFlight(a)' \subseteq InFlight(a)
      BY <1>1 DEF InFlight, Deciding, TypeOK
<1>4. Few' BY <1>3, FewKept
<1>5. ASSUME NEW o \in Requests
      PROVE  reqs'[o] + Cardinality(Counting(o)') <= RateLimitMax' - 1 + MaxInFlight
  <2>1. CASE o = entry[r]
    <3>1. r \in Counting(o) /\ Counting(o)' = Counting(o) \ {r}
          BY <1>1, <2>1 DEF Counting, TypeOK
    <3>2. Cardinality(Counting(o)') = Cardinality(Counting(o)) - 1
          BY <3>1, Sizes, FS_RemoveElement
    <3>3. reqs'[o] = reqs[o] + 1 BY <1>1, <2>1 DEF TypeOK
    <3>4. reqs[o] \in Nat /\ RateLimitMax \in Nat BY DEF TypeOK
    <3>5. reqs[o] + Cardinality(Counting(o)) <= RateLimitMax - 1 + MaxInFlight
          BY DEF Overshoot
    <3> QED BY <3>2, <3>3, <3>4, <3>5, <1>1, Sizes
  <2>2. CASE o # entry[r]
    <3>1. reqs'[o] = reqs[o] BY <1>1, <2>2 DEF TypeOK
    <3>2. Counting(o)' \subseteq Counting(o) BY <1>1, <2>2 DEF Counting, TypeOK
    <3> QED BY <3>1, <3>2, <1>1, OvershootKept DEF Overshoot
  <2> QED BY <2>1, <2>2
<1> QED BY <1>2, <1>4, <1>5 DEF Overshoot

(* An entry that is set back to one leaves room for all the others.        *)
LEMMA OverReset ==
    ASSUME OverInv, TypeOK', NEW r \in Requests, Reset(r)
    PROVE  OverInv'
<1> USE DEF OverInv
<1>1. /\ at[r] = "resetting" /\ at' = [at EXCEPT ![r] = "admitted"]
      /\ reqs' = [reqs EXCEPT ![entry[r]] = 1]
      /\ entry' = [entry EXCEPT ![r] = NoEntry]
      /\ UNCHANGED <<RateLimitMax, WSConns, ip>>
      BY DEF Reset, Goto, process
<1>2. Owner' BY <1>1 DEF Owner, TypeOK
<1>3. \A a \in IPs : InFlight(a)' \subseteq InFlight(a)
      BY <1>1 DEF InFlight, Deciding, TypeOK
<1>4. Few' BY <1>3, FewKept
<1>5. ASSUME NEW o \in Requests
      PROVE  reqs'[o] + Cardinality(Counting(o)') <= RateLimitMax' - 1 + MaxInFlight
  <2>0. Counting(o)' \subseteq Counting(o) BY <1>1 DEF Counting, TypeOK
  <2>1. CASE o = entry[r]
    <3>1. ip[o] = ip[r] /\ ip[r] \in IPs BY <2>1 DEF Owner, TypeOK
    <3>2. r \in InFlight(ip[r]) /\ r \notin Counting(o)
          BY <1>1 DEF InFlight, Counting, Deciding
    <3>3. Counting(o)' \subseteq InFlight(ip[r]) \ {r}
          BY <3>1, <3>2, <2>0, CountingFlies
    <3>4. /\ IsFiniteSet(InFlight(ip[r]) \ {r})
          /\ Cardinality(InFlight(ip[r]) \ {r}) = Cardinality(InFlight(ip[r])) - 1
          BY <3>1, <3>2, Sizes, FS_RemoveElement
    <3>5. Cardinality(Counting(o)') <= Cardinality(InFlight(ip[r])) - 1
          BY <3>3, <3>4, FS_Subset
    <3>6. Cardinality(InFlight(ip[r])) <= MaxInFlight BY <3>1 DEF Few
    <3>7. reqs'[o] = 1 BY <1>1, <2>1 DEF TypeOK
    <3>8. RateLimitMax' \in Nat \ {0} BY DEF TypeOK
    <3> QED BY <3>1, <3>5, <3>6, <3>7, <3>8, Sizes, SizesNext
  <2>2. CASE o # entry[r]
    <3>1. reqs'[o] = reqs[o] BY <1>1, <2>2 DEF TypeOK
    <3> QED BY <3>1, <2>0, <1>1, OvershootKept DEF Overshoot
  <2> QED BY <2>1, <2>2
<1> QED BY <1>2, <1>4, <1>5 DEF Overshoot

(* The other steps of requests, before, beside and after the count.        *)
LEMMA OverOther ==
    ASSUME OverInv, TypeOK', NEW r \in Requests,
           CheckWhite(r) \/ CheckBlack(r) \/ AddToBlacklist(r) \/ Connection(r)
    PROVE  OverInv'
<1>1. UNCHANGED <<RateLimitMax, WSConns, reqs, ip, entry>>
      BY DEF CheckWhite, CheckBlack, AddToBlacklist, ReadBList, WriteBList, GetStore,
         StoreBlackList, StoreFails, Connection, Register, Leave, Disturb, process,
         entries, request
<1>2. \/ at' = at
      \/ /\ at[r] = "arrived"
         /\ \E pc \in {"refused", "passed", "forbidden", "unlisted"} :
               at' = [at EXCEPT ![r] = pc]
      \/ \E pc \in Stages \ (Deciding \cup {"new"}) : at' = [at EXCEPT ![r] = pc]
  <2>1. CASE CheckWhite(r) \/ CheckBlack(r)
        BY <2>1 DEF CheckWhite, CheckBlack, Goto
  <2>2. CASE AddToBlacklist(r)
        BY <2>2 DEF AddToBlacklist, ReadBList, WriteBList, GetStore, StoreBlackList,
           StoreFails, Goto, Stages, Deciding
  <2>3. CASE Connection(r)
        BY <2>3 DEF Connection, Register, Leave, Disturb, Goto, Stages, Deciding
  <2> QED BY <2>1, <2>2, <2>3
<1> QED BY <1>1, <1>2, OverAlone DEF OverInv, TypeOK, Deciding

LEMMA OverMain ==
    ASSUME OverInv, TypeOK',
           Start \/ LoadWhite \/ LoadBlack \/ LoadSpins \/ Crash \/ Tick
    PROVE  OverInv'
<1>1. CASE Crash
  <2>1. \A r \in Requests : at'[r] \in {"new", "lost"} /\ reqs'[r] = 0 /\ entry'[r] = NoEntry
        BY <1>1 DEF Crash, Zero, Idle
  <2>2. \A a \in IPs : InFlight(a)' = {} BY <2>1 DEF InFlight, Deciding
  <2>3. \A o \in Requests : Counting(o)' = {} BY <2>1 DEF Counting
  <2>4. Owner' BY <1>1, <2>1 DEF Owner, Crash, NoEntries
  <2>5. Few' BY <2>2, FS_EmptySet DEF Few
  <2>6. RateLimitMax' \in Nat \ {0} BY DEF TypeOK
  <2>7. \A o \in Requests : reqs'[o] + Cardinality(Counting(o)') = 0
        BY <2>1, <2>3, FS_EmptySet
  <2>8. Overshoot' BY <2>6, <2>7 DEF Overshoot
  <2> QED BY <2>4, <2>5, <2>8 DEF OverInv
<1>2. ASSUME Start \/ LoadWhite \/ LoadBlack \/ LoadSpins \/ Tick PROVE OverInv'
  <2>1. UNCHANGED <<RateLimitMax, WSConns, reqs, ip, entry, at>>
        BY <1>2 DEF Start, LoadWhite, LoadBlack, LoadSpins, Tick, process, entries,
           request
  <2> QED BY <2>1, OverAlone
<1> QED BY <1>1, <1>2

LEMMA OverStep == OverInv /\ [Next]_vars => OverInv'
<1> SUFFICES ASSUME OverInv, [Next]_vars PROVE OverInv'
  OBVIOUS
<1>1. TypeOK' BY StepType DEF OverInv
<1>2. CASE UNCHANGED vars
  <2>1. UNCHANGED <<RateLimitMax, WSConns, reqs, ip, entry, at>>
        BY <1>2 DEF vars, process, entries, request
  <2> QED BY <1>1, <2>1, OverAlone
<1>3. ASSUME NEW r \in Requests, rateLimiter(r) PROVE OverInv'
      BY <1>1, <1>3, OverArrive, OverLookup, OverCreate, OverDecide, OverCount,
         OverReset, OverOther
      DEF rateLimiter
<1> QED BY <1>1, <1>2, <1>3, OverMain, OverOther DEF Next

(* rateLimiter compares and counts without a common lock: the number an    *)
(* entry reaches, with those about to be counted in it, is below the       *)
(* maximum plus the requests of one address that may be in flight at once. *)
THEOREM OvershootBounded == Spec => []Overshoot
<1>1. OverInv => Overshoot BY DEF OverInv
<1> QED BY <1>1, OverInit, OverStep, PTL DEF Spec

-----------------------------------------------------------------------------
(* The pool of clients.  The busy ones are copies, which nobody is ever    *)
(* asked for; clients are closed as the lists are read, one for each.      *)

Closed == /\ up \in {"off", "white"} => closed = {}
          /\ up = "black" => Cardinality(closed) <= 1
          /\ up = "on" => Cardinality(closed) <= 2

LEMMA ClosedMain ==
    ASSUME TypeOK, Closed, Start \/ LoadWhite \/ LoadBlack \/ LoadSpins \/ Crash \/ Tick
    PROVE  Closed'
<1>0. IsFiniteSet(closed) /\ Cardinality(closed) \in Nat
      BY ClientsAssumption, FS_Subset, FS_CardinalityType DEF TypeOK
<1>1. ASSUME NEW s, ReleaseClient(s) PROVE Cardinality(closed') <= Cardinality(closed) + 1
  <2>1. closed' = closed \cup {s} BY <1>1 DEF ReleaseClient
  <2>2. Cardinality(closed \cup {s}) =
            IF s \in closed THEN Cardinality(closed) ELSE Cardinality(closed) + 1
        BY <1>0, FS_AddElement
  <2> QED BY <1>0, <2>1, <2>2
<1>2. CASE Start BY <1>2 DEF Start, Closed
<1>3. CASE LoadWhite
  <2>1. up' = "black" /\ closed = {} /\ Cardinality(closed') <= Cardinality(closed) + 1
        BY <1>1, <1>3 DEF LoadWhite, Closed
  <2> QED BY <2>1, FS_EmptySet DEF Closed
<1>4. CASE LoadBlack
  <2>1. /\ up' = "on" /\ Cardinality(closed) <= 1
        /\ Cardinality(closed') <= Cardinality(closed) + 1
        BY <1>1, <1>4 DEF LoadBlack, Closed
  <2>2. closed' \subseteq Slots
        BY <1>4 DEF LoadBlack, ReleaseClient, TypeOK
  <2>3. Cardinality(closed') \in Nat
        BY <2>2, ClientsAssumption, FS_Subset, FS_CardinalityType
  <2> QED BY <1>0, <2>1, <2>3 DEF Closed
<1>5. CASE LoadSpins BY <1>5 DEF LoadSpins, Closed
<1>6. CASE Crash BY <1>6 DEF Crash, Closed
<1>7. CASE Tick BY <1>7 DEF Tick, Closed, fspool, process
<1> QED BY <1>2, <1>3, <1>4, <1>5, <1>6, <1>7

LEMMA ClosedStep == TypeOK /\ Closed /\ [Next]_vars => Closed'
<1> SUFFICES ASSUME TypeOK, Closed, [Next]_vars PROVE Closed' OBVIOUS
<1>1. CASE UNCHANGED vars BY <1>1 DEF vars, fspool, process, Closed
<1>2. ASSUME NEW r \in Requests, rateLimiter(r) \/ AddToBlacklist(r) \/ Connection(r)
      PROVE  Closed'
  <2>1. UNCHANGED <<up, closed>>
    <3>1. CASE rateLimiter(r)
          BY <3>1 DEF rateLimiter, Arrive, CheckWhite, CheckBlack, Lookup, Create, Decide,
             Count, Reset, fspool, process
    <3>2. CASE AddToBlacklist(r)
          BY <3>2 DEF AddToBlacklist, ReadBList, WriteBList, GetStore, StoreBlackList,
             StoreFails, fspool, process
    <3>3. CASE Connection(r)
          BY <3>3 DEF Connection, Register, Leave, Disturb, fspool, process
    <3> QED BY <1>2, <3>1, <3>2, <3>3
  <2> QED BY <2>1 DEF Closed
<1> QED BY <1>1, <1>2, ClosedMain DEF Next

(* A running program finds a client with an open connection in its pool,   *)
(* whatever number of copies were handed out and never given back, and     *)
(* after any number of restarts.                                           *)
THEOREM PoolAlwaysServes == Spec => []PoolServes
<1>1. Init => Closed BY DEF Init, PoolInit, Closed
<1>2. TypeOK /\ Closed => PoolServes
  <2> SUFFICES ASSUME TypeOK, up = "on", Cardinality(closed) <= 2 PROVE Serves
      BY DEF Closed, PoolServes
  <2>1. closed # Slots BY ClientsAssumption, FS_CardinalityType
  <2>2. PICK s \in Slots : s \notin closed BY <2>1 DEF TypeOK
  <2>3. ~containsMA(s) BY ClientsAssumption DEF containsMA, TypeOK
  <2> QED BY <2>2, <2>3 DEF Serves
<1> QED BY <1>1, <1>2, ClosedStep, AdmissionTypes, PTL DEF Spec

-----------------------------------------------------------------------------
(* Connections of white-listed addresses.                                  *)

LEMMA FiniteSubsets ==
    \A S : S \subseteq Requests => IsFiniteSet(S) /\ Cardinality(S) \in Nat
BY FS_Subset, FS_CardinalityType

LEMMA UnionSize ==
    ASSUME NEW S, NEW T, IsFiniteSet(S), IsFiniteSet(T)
    PROVE  /\ IsFiniteSet(S \cup T)
           /\ Cardinality(S \cup T) <= Cardinality(S) + Cardinality(T)
<1>1. IsFiniteSet(S \cap T) BY FS_Subset
<1>2. /\ Cardinality(S) \in Nat /\ Cardinality(T) \in Nat
      /\ Cardinality(S \cap T) \in Nat
      BY <1>1, FS_CardinalityType
<1>3. /\ IsFiniteSet(S \cup T)
      /\ Cardinality(S \cup T) = Cardinality(S) + Cardinality(T) - Cardinality(S \cap T)
      BY FS_Union
<1> QED BY <1>2, <1>3

Connected(a) == {r \in Requests : ip[r] = a /\ at[r] = "connected"}
Admissible(a) == {r \in Requests : ip[r] = a /\ at[r] \in {"passed", "connected"}}
(* Unless disturbed, the count is that of the connections.                 *)
Counted == \A a \in IPs \ off : count[a] = Cardinality(Connected(a))

(* Steps that leave the count alone, and connect nobody.                   *)
LEMMA CapAlone ==
    ASSUME Counted, WhiteCap, UNCHANGED <<count, off>>,
           \A x \in Requests :
              /\ at'[x] = "connected" <=> at[x] = "connected"
              /\ at'[x] = "passed" => at[x] = "passed"
              /\ at[x] \in {"passed", "connected"} => ip'[x] = ip[x]
    PROVE  Counted' /\ WhiteCap'
<1>1. ASSUME NEW a \in IPs \ off
      PROVE  Connected(a)' = Connected(a) /\ Admissible(a)' \subseteq Admissible(a)
      BY DEF Connected, Admissible
<1>2. Counted' BY <1>1 DEF Counted
<1>3. ASSUME NEW a \in IPs \ off PROVE Cardinality(Admissible(a)') <= WhiteMax - 1 + MaxInFlight
  <2>1. Admissible(a) \subseteq Requests /\ Admissible(a)' \subseteq Requests
        BY DEF Admissible
  <2>2. Cardinality(Admissible(a)') <= Cardinality(Admissible(a))
        BY <1>1, <2>1, FiniteSubsets, FS_Subset
  <2>3. Cardinality(Admissible(a)) <= WhiteMax - 1 + MaxInFlight
        BY DEF WhiteCap, Admissible
  <2> QED BY <2>1, <2>2, <2>3, FiniteSubsets
<1>4. WhiteCap' BY <1>3 DEF WhiteCap, Admissible
<1> QED BY <1>2, <1>4

(* Who passes finds fewer than WhiteMax connections, besides which there   *)
(* are those in flight.                                                    *)
LEMMA CapCheck ==
    ASSUME OverInv, OverInv', Counted, WhiteCap, NEW r \in Requests, CheckWhite(r)
    PROVE  Counted' /\ WhiteCap'
<1> DEFINE a == ip[r]
<1>0. a \in IPs /\ at \in [Requests -> Stages] BY DEF OverInv, TypeOK
<1>1. UNCHANGED <<count, off, ip>> /\ at[r] = "arrived" BY DEF CheckWhite, counts, request
<1>2. CASE at' = [at EXCEPT ![r] = "refused"]
      BY <1>0, <1>1, <1>2, CapAlone
<1>3. CASE at' = [at EXCEPT ![r] = "passed"] /\ ~(count[a] >= WhiteMax)
  <2>1. \A b \in IPs : Connected(b)' = Connected(b)
        BY <1>0, <1>1, <1>3 DEF Connected
  <2>2. Counted' BY <1>1, <2>1 DEF Counted
  <2>3. ASSUME NEW b \in IPs \ off
        PROVE  Cardinality(Admissible(b)') <= WhiteMax - 1 + MaxInFlight
    <3>0. /\ Admissible(b) \subseteq Requests /\ Admissible(b)' \subseteq Requests
          /\ Connected(b)' \subseteq Requests
          BY DEF Admissible, Connected
    <3>1. CASE b = a
      <4>1. Admissible(b)' \subseteq InFlight(b)' \cup Connected(b)'
            BY DEF Admissible, InFlight, Connected, Deciding
      <4>2. Cardinality(Connected(b)') <= WhiteMax - 1
        <5>1. Cardinality(Connected(b)') = count[b] BY <2>1 DEF Counted
        <5> QED BY <5>1, <3>0, <3>1, <1>3, FiniteSubsets
      <4>3. Cardinality(InFlight(b)') <= MaxInFlight BY DEF OverInv, Few
      <4>4. IsFiniteSet(InFlight(b)') /\ IsFiniteSet(Connected(b)')
            BY <3>0, SizesNext, FiniteSubsets
      <4>5. /\ IsFiniteSet(InFlight(b)' \cup Connected(b)')
            /\ Cardinality(InFlight(b)' \cup Connected(b)') <=
                  Cardinality(InFlight(b)') + Cardinality(Connected(b)')
            BY <4>4, UnionSize
      <4>6. Cardinality(Admissible(b)') <= Cardinality(InFlight(b)' \cup Connected(b)')
            BY <4>1, <4>5, FS_Subset
      <4> QED BY <4>2, <4>3, <4>4, <4>5, <4>6, <3>0, FiniteSubsets, FS_CardinalityType
    <3>2. CASE b # a
      <4>1. Admissible(b)' = Admissible(b)
            BY <3>2, <1>0, <1>1, <1>3 DEF Admissible
      <4> QED BY <4>1 DEF WhiteCap, Admissible
    <3> QED BY <3>1, <3>2
  <2> QED BY <1>1, <2>2, <2>3 DEF WhiteCap, Admissible
<1> QED BY <1>2, <1>3 DEF CheckWhite, Goto

(* Who is connected was counted, and is taken off.                         *)
LEMMA CapConnection ==
    ASSUME TypeOK, Counted, WhiteCap, NEW r \in Requests, Connection(r)
    PROVE  Counted' /\ WhiteCap'
<1> DEFINE a == ip[r]
<1>0. /\ a \in IPs /\ at \in [Requests -> Stages] /\ count \in [IPs -> Nat]
      /\ IsFiniteSet(Connected(a)) /\ Cardinality(Connected(a)) \in Nat
      BY FiniteSubsets DEF TypeOK, Connected
<1>1. UNCHANGED ip BY DEF Connection, Register, Leave, Disturb, request
<1>2. CASE Register(r)
  <2>1. /\ at[r] = "passed" /\ at' = [at EXCEPT ![r] = "connected"]
        /\ count' = [count EXCEPT ![a] = count[a] + 1] /\ off' = off
        BY <1>2 DEF Register, Goto
  <2>2. ASSUME NEW b \in IPs \ off
        PROVE  /\ count'[b] = Cardinality(Connected(b)')
               /\ Admissible(b)' = Admissible(b)
    <3>1. Admissible(b)' = Admissible(b) BY <1>0, <1>1, <2>1 DEF Admissible
    <3>2. CASE b = a
      <4>1. Connected(b)' = Connected(b) \cup {r} /\ r \notin Connected(b)
            BY <1>0, <1>1, <2>1, <3>2 DEF Connected
      <4>2. Cardinality(Connected(b) \cup {r}) = Cardinality(Connected(b)) + 1
            BY <1>0, <3>2, <4>1, FS_AddElement
      <4>3. count[b] = Cardinality(Connected(b)) BY DEF Counted
      <4> QED BY <1>0, <2>1, <3>1, <3>2, <4>1, <4>2, <4>3
    <3>3. CASE b # a
      <4>1. Connected(b)' = Connected(b) BY <1>0, <1>1, <2>1, <3>3 DEF Connected
      <4> QED BY <1>0, <2>1, <3>1, <3>3, <4>1 DEF Counted
    <3> QED BY <3>2, <3>3
  <2> QED BY <2>1, <2>2 DEF Counted, WhiteCap, Admissible
<1>3. CASE Leave(r)
  <2>1. /\ at[r] = "connected" /\ at' = [at EXCEPT ![r] = "left"]
        /\ count' = [count EXCEPT ![a] = IF count[a] = 0 THEN 0 ELSE count[a] - 1]
        /\ off' = off
        BY <1>3 DEF Leave, Goto, Less
  <2>2. ASSUME NEW b \in IPs \ off
        PROVE  /\ count'[b] = Cardinality(Connected(b)')
               /\ Cardinality(Admissible(b)') <= WhiteMax - 1 + MaxInFlight
    <3>1. Cardinality(Admissible(b)') <= WhiteMax - 1 + MaxInFlight
      <4>1. Admissible(b) \subseteq Requests /\ Admissible(b)' \subseteq Admissible(b)
            BY <1>0, <1>1, <2>1 DEF Admissible
      <4>2. Cardinality(Admissible(b)') <= Cardinality(Admissible(b))
            BY <4>1, FiniteSubsets, FS_Subset
      <4>3. Cardinality(Admissible(b)) <= WhiteMax - 1 + MaxInFlight
            BY DEF WhiteCap, Admissible
      <4>4. Cardinality(Admissible(b)') \in Nat /\ Cardinality(Admissible(b)) \in Nat
        <5>1. Admissible(b)' \subseteq Requests BY <4>1
        <5> QED BY <4>1, <5>1, FiniteSubsets
      <4> QED BY <4>2, <4>3, <4>4
    <3>2. CASE b = a
      <4>1. Connected(b)' = Connected(b) \ {r} /\ r \in Connected(b)
            BY <1>0, <1>1, <2>1, <3>2 DEF Connected
      <4>2. Cardinality(Connected(b) \ {r}) = Cardinality(Connected(b)) - 1
            BY <1>0, <3>2, <4>1, FS_RemoveElement
      <4>3. count[b] = Cardinality(Connected(b)) BY DEF Counted
      <4>4. count[b] # 0 BY <1>0, <3>2, <4>1, <4>3, FS_EmptySet
      <4> QED BY <1>0, <2>1, <3>1, <3>2, <4>1, <4>2, <4>3, <4>4
    <3>3. CASE b # a
      <4>1. Connected(b)' = Connected(b) BY <1>0, <1>1, <2>1, <3>3 DEF Connected
      <4> QED BY <1>0, <2>1, <3>1, <3>3, <4>1 DEF Counted
    <3> QED BY <3>2, <3>3
  <2> QED BY <2>1, <2>2 DEF Counted, WhiteCap, Admissible
<1>4. CASE Disturb(r)
  <2>1. /\ at' = at /\ off' = off \cup {a} /\ \A b \in IPs \ {a} : count'[b] = count[b]
        BY <1>0, <1>4 DEF Disturb, Less
  <2>2. \A b : Connected(b)' = Connected(b) /\ Admissible(b)' = Admissible(b)
        BY <1>1, <2>1 DEF Connected, Admissible
  <2>3. Counted' BY <2>1, <2>2 DEF Counted
  <2>4. ASSUME NEW b \in IPs \ off
        PROVE  Cardinality(Admissible(b)) <= WhiteMax - 1 + MaxInFlight
        BY DEF WhiteCap, Admissible
  <2>5. ASSUME NEW b \in IPs \ off'
        PROVE  Cardinality(Admissible(b)') <= WhiteMax - 1 + MaxInFlight
        BY <2>1, <2>2, <2>4
  <2>6. WhiteCap' BY <2>5 DEF WhiteCap, Admissible
  <2> QED BY <2>3, <2>6
<1> QED BY <1>2, <1>3, <1>4 DEF Connection

LEMMA CapRest ==
    ASSUME TypeOK, Counted, WhiteCap, NEW r \in Requests,
           AddToBlacklist(r) \/ (rateLimiter(r) /\ ~CheckWhite(r))
    PROVE  Counted' /\ WhiteCap'
<1> USE DEF TypeOK, Goto, counts, request
<1>1. CASE \E a \in IPs : Arrive(r, a) BY <1>1, CapAlone DEF Arrive
<1>2. CASE CheckBlack(r) BY <1>2, CapAlone DEF CheckBlack
<1>3. CASE Lookup(r) BY <1>3, CapAlone DEF Lookup
<1>4. CASE Create(r) BY <1>4, CapAlone DEF Create
<1>5. CASE Decide(r) BY <1>5, CapAlone DEF Decide
<1>6. CASE Count(r) \/ Reset(r) BY <1>6, CapAlone DEF Count, Reset
<1>7. CASE AddToBlacklist(r)
      BY <1>7, CapAlone DEF AddToBlacklist, ReadBList, WriteBList, GetStore,
         StoreBlackList, StoreFails
<1> QED BY <1>1, <1>2, <1>3, <1>4, <1>5, <1>6, <1>7 DEF rateLimiter

LEMMA CapMain ==
    ASSUME Counted, WhiteCap, Start \/ LoadWhite \/ LoadBlack \/ LoadSpins \/ Crash \/ Tick
    PROVE  Counted' /\ WhiteCap'
<1>1. CASE Crash
  <2>1. \A a \in IPs : Connected(a)' = {} /\ Admissible(a)' = {} /\ count'[a] = 0
        BY <1>1 DEF Crash, Connected, Admissible, Uncounted
  <2>2. Counted' BY <2>1, FS_EmptySet DEF Counted
  <2>3. \A a \in IPs : Cardinality(Admissible(a)') <= WhiteMax - 1 + MaxInFlight
        BY <2>1, FS_EmptySet
  <2>4. WhiteCap' BY <2>3 DEF WhiteCap, Admissible
  <2> QED BY <2>2, <2>4
<1>2. CASE Start \/ LoadWhite \/ LoadBlack \/ LoadSpins \/ Tick
  <2>1. UNCHANGED <<count, off, ip, at>>
        BY <1>2 DEF Start, LoadWhite, LoadBlack, LoadSpins, Tick, counts, request
  <2> QED BY <2>1, CapAlone
<1> QED BY <1>1, <1>2

LEMMA CapStep ==
    OverInv /\ Counted /\ WhiteCap /\ [Next]_vars => Counted' /\ WhiteCap'
<1> SUFFICES ASSUME OverInv, Counted, WhiteCap, [Next]_vars PROVE Counted' /\ WhiteCap'
    OBVIOUS
<1>1. OverInv' /\ TypeOK BY OverStep DEF OverInv
<1>2. CASE UNCHANGED vars BY <1>2, CapAlone DEF vars, counts, request
<1> QED BY <1>1, <1>2, CapMain, CapCheck, CapRest, CapConnection DEF Next

(* IPCount is read at the gate, and counted when a connection is           *)
(* registered, long after: a white-listed address gets no more connections *)
(* than the maximum by more than the requests that may be in flight.       *)
THEOREM WhiteListCapped == Spec => []WhiteCap
<1>1. Init => Counted /\ WhiteCap
  <2> SUFFICES ASSUME Init PROVE Counted /\ WhiteCap OBVIOUS
  <2>1. \A a \in IPs : Connected(a) = {} /\ Admissible(a) = {} /\ count[a] = 0
        BY DEF Init, Connected, Admissible, Uncounted
  <2>2. Counted BY <2>1, FS_EmptySet DEF Counted
  <2>3. \A a \in IPs : Cardinality(Admissible(a)) <= WhiteMax - 1 + MaxInFlight
        BY <2>1, FS_EmptySet
  <2>4. WhiteCap BY <2>3 DEF WhiteCap, Admissible
  <2> QED BY <2>2, <2>4
<1> QED BY <1>1, CapStep, OverInit, OverStep, PTL DEF Spec

-----------------------------------------------------------------------------
(* The window.  The requests of an address that do not overlap are decided *)
(* one after the other, on one entry.                                      *)

Deciders == {"found", "counting", "resetting"}

Orderly(a) ==
    /\ \A r, x \in InFlight(a) : r = x
    /\ \A r \in InFlight(a) :
         /\ arr[r] <= now
         /\ at[r] \in {"counting", "resetting"} => arr[r] <= dec[r] /\ dec[r] <= now
    /\ \A x \in Admitted(a) :
         /\ arr[x] <= dec[x] /\ dec[x] <= now
         /\ \A r \in InFlight(a) : dec[x] <= arr[r]

OneEntry(a) ==
    /\ \A r \in InFlight(a) :
         /\ at[r] \in Deciders => WSConns[a] # NoEntry /\ entry[r] = WSConns[a]
         /\ at[r] = "missing" => WSConns[a] = NoEntry
    /\ WSConns[a] = NoEntry => Admitted(a) = {}

(* The requests S that an entry counts: those before them are Duration ago, *)
(* or were when the one that is about to be counted was decided.           *)
Run(a, S) ==
    LET o == WSConns[a] IN
    /\ Cardinality(S) = reqs[o] /\ reqs[o] <= RateLimitMax
    /\ \A x \in Admitted(a) : arr[x] <= ts[o]
    /\ \A x \in Admitted(a) \ S : arr[x] + Duration <= now
    /\ \A r \in InFlight(a) :
         /\ at[r] = "counting" =>
               /\ reqs[o] < RateLimitMax
               /\ \A x \in Admitted(a) \ S : arr[x] + Duration <= dec[r]
         /\ at[r] = "resetting" => dec[r] - ts[o] >= Duration

Within(a, t) == {r \in Admitted(a) : arr[r] >= t /\ dec[r] < t + Duration}
Windows(a) == \A t \in Nat : Cardinality(Within(a, t)) <= RateLimitMax

AddrInv(a) == /\ Orderly(a) /\ OneEntry(a)
              /\ (WSConns[a] # NoEntry => \E S \in SUBSET Admitted(a) : Run(a, S))
              /\ Windows(a)
AddrsInv == \A a \in IPs \ raced : AddrInv(a)

LEMMA Clocks ==
    ASSUME TypeOK
    PROVE  /\ now \in Nat /\ RateLimitMax \in Nat \ {0} /\ Duration \in Nat \ {0}
           /\ \A x \in Requests : /\ arr[x] \in Nat /\ dec[x] \in Nat
                                  /\ reqs[x] \in Nat /\ ts[x] \in Nat
           /\ \A a \in IPs : WSConns[a] \in Requests \cup {NoEntry}
           /\ \A a : InFlight(a) \subseteq Requests /\ Admitted(a) \subseteq Requests
BY DEF TypeOK, InFlight, Admitted

(* Nobody of the address comes into flight, is decided or counted.         *)
LEMMA AddrAlone ==
    ASSUME TypeOK, TypeOK', NEW a \in IPs, AddrInv(a), now <= now',
           RateLimitMax' = RateLimitMax,
           InFlight(a)' \subseteq InFlight(a), Admitted(a)' = Admitted(a),
           WSConns'[a] = WSConns[a],
           WSConns[a] # NoEntry => /\ reqs'[WSConns[a]] = reqs[WSConns[a]]
                                   /\ ts'[WSConns[a]] = ts[WSConns[a]],
           \A x \in InFlight(a)' : /\ at'[x] = at[x] \/ at'[x] \in {"unlisted", "passed"}
                                   /\ entry'[x] = entry[x],
           \A x \in InFlight(a)' \cup Admitted(a) : arr'[x] = arr[x] /\ dec'[x] = dec[x]
    PROVE  AddrInv(a)'
<1>a. /\ Orderly(a) /\ OneEntry(a) /\ Windows(a)
      /\ (WSConns[a] # NoEntry => \E S \in SUBSET Admitted(a) : Run(a, S))
      BY DEF AddrInv
<1>0. now \in Nat /\ now' \in Nat /\ Duration \in Nat BY Clocks DEF TypeOK
<1>b. \A x \in Requests : arr[x] \in Nat /\ dec[x] \in Nat BY Clocks
<1>c. \A x \in InFlight(a)' \cup Admitted(a) : x \in Requests BY Clocks
<1>d. \A x \in InFlight(a)' \cup Admitted(a) :
         /\ arr'[x] = arr[x] /\ dec'[x] = dec[x] /\ arr[x] \in Nat /\ dec[x] \in Nat
      BY <1>b, <1>c
<1>1. Orderly(a)'
  <2>1. ASSUME NEW r \in InFlight(a)'
        PROVE  /\ arr'[r] <= now'
               /\ at'[r] \in {"counting", "resetting"} => arr'[r] <= dec'[r] /\ dec'[r] <= now'
    <3>1. /\ r \in InFlight(a) /\ arr[r] \in Nat /\ dec[r] \in Nat
          /\ arr'[r] = arr[r] /\ dec'[r] = dec[r]
          BY <1>d
    <3>2. at'[r] \in {"counting", "resetting"} => at[r] = at'[r] OBVIOUS
    <3> QED BY <1>a, <1>0, <3>1, <3>2 DEF Orderly
  <2>2. ASSUME NEW x \in Admitted(a)
        PROVE  /\ arr'[x] <= dec'[x] /\ dec'[x] <= now'
               /\ \A r \in InFlight(a)' : dec'[x] <= arr'[r]
    <3>1. /\ arr[x] \in Nat /\ dec[x] \in Nat
          /\ arr'[x] = arr[x] /\ dec'[x] = dec[x]
          BY <1>d
    <3> QED BY <1>a, <1>0, <1>d, <3>1 DEF Orderly
  <2>3. \A r, x \in InFlight(a)' : r = x BY <1>a DEF Orderly
  <2> QED BY <2>1, <2>2, <2>3 DEF Orderly
<1>2. OneEntry(a)' BY <1>a DEF OneEntry, Deciders
<1>3. ASSUME NEW S \in SUBSET Admitted(a), WSConns[a] # NoEntry, Run(a, S) PROVE Run(a, S)'
  <2>2. \A x \in Admitted(a) \ S : arr'[x] + Duration <= now'
    <3> SUFFICES ASSUME NEW x \in Admitted(a) \ S PROVE arr'[x] + Duration <= now'
        OBVIOUS
    <3>1. arr'[x] = arr[x] /\ arr[x] \in Nat BY <1>d
    <3>2. arr[x] + Duration <= now BY <1>3 DEF Run
    <3> QED BY <1>0, <3>1, <3>2
  <2> QED BY <1>3, <2>2 DEF Run
<1>4. \A t \in Nat : Within(a, t)' = Within(a, t) BY DEF Within
<1>5. Windows(a)' BY <1>a, <1>4 DEF Windows
<1> QED BY <1>a, <1>1, <1>2, <1>3, <1>5 DEF AddrInv

(* What a step of a request leaves alone.                                  *)
LEMMA Touches ==
    ASSUME TypeOK, NEW r \in Requests, rateLimiter(r) \/ AddToBlacklist(r) \/ Connection(r)
    PROVE  /\ now' = now /\ RateLimitMax' = RateLimitMax
           /\ \A x \in Requests \ {r} :
                 /\ at'[x] = at[x] /\ ip'[x] = ip[x] /\ entry'[x] = entry[x]
                 /\ arr'[x] = arr[x] /\ dec'[x] = dec[x]
           /\ ip'[r] = ip[r] \/ at[r] = "new"
           /\ \A o \in Requests \ {r, entry[r]} : reqs'[o] = reqs[o] /\ ts'[o] = ts[o]
           /\ \A b \in IPs \ {ip[r]} : WSConns'[b] = WSConns[b]
<1> USE DEF TypeOK, Goto, process, entries, request
<1>1. CASE \E a \in IPs : Arrive(r, a) BY <1>1 DEF Arrive
<1>2. CASE CheckWhite(r) BY <1>2 DEF CheckWhite
<1>3. CASE CheckBlack(r) BY <1>3 DEF CheckBlack
<1>4. CASE Lookup(r) BY <1>4 DEF Lookup
<1>5. CASE Create(r) BY <1>5 DEF Create
<1>6. CASE Decide(r) BY <1>6 DEF Decide
<1>7. CASE Count(r) BY <1>7 DEF Count
<1>8. CASE Reset(r) BY <1>8 DEF Reset
<1>9. CASE AddToBlacklist(r)
      BY <1>9 DEF AddToBlacklist, ReadBList, WriteBList, GetStore, StoreBlackList,
         StoreFails
<1>10. CASE Connection(r) BY <1>10 DEF Connection, Register, Leave, Disturb
<1> QED BY <1>1, <1>2, <1>3, <1>4, <1>5, <1>6, <1>7, <1>8, <1>9, <1>10 DEF rateLimiter

(* Steps of requests of other addresses.                                   *)
LEMMA AddrOther ==
    ASSUME OverInv, TypeOK', NEW r \in Requests, NEW a \in IPs, AddrInv(a),
           rateLimiter(r) \/ AddToBlacklist(r) \/ Connection(r),
           a # ip'[r], a # ip[r] \/ at[r] = "new"
    PROVE  AddrInv(a)'
<1> USE DEF OverInv
<1>1. InFlight(a)' = InFlight(a) /\ r \notin InFlight(a)
      BY Touches DEF InFlight, Deciding, TypeOK
<1>2. Admitted(a)' = Admitted(a) /\ r \notin Admitted(a)
      BY Touches DEF Admitted, TypeOK
<1>3. ASSUME WSConns[a] # NoEntry
      PROVE  /\ reqs'[WSConns[a]] = reqs[WSConns[a]] /\ ts'[WSConns[a]] = ts[WSConns[a]]
  <2>1. WSConns[a] \in Requests \ {r, entry[r]}
        BY <1>3 DEF Owner, TypeOK
  <2> QED BY <2>1, Touches
<1>4. WSConns'[a] = WSConns[a]
  <2>1. CASE a # ip[r] BY <2>1, Touches
  <2>2. CASE at[r] = "new"
    <3>1. WSConns' = WSConns
          BY <2>2 DEF rateLimiter, Arrive, CheckWhite, CheckBlack, Lookup, Create, Decide,
             Count, Reset, AddToBlacklist, ReadBList, WriteBList, GetStore,
             StoreBlackList, StoreFails, Connection, Register, Leave, Disturb, entries
    <3> QED BY <3>1
  <2> QED BY <2>1, <2>2
<1>5. now' = now /\ now \in Nat /\ RateLimitMax' = RateLimitMax BY Touches DEF TypeOK
<1>6. \A x \in InFlight(a) \cup Admitted(a) :
         at'[x] = at[x] /\ entry'[x] = entry[x] /\ arr'[x] = arr[x] /\ dec'[x] = dec[x]
      BY <1>1, <1>2, Touches, Clocks
<1> QED BY <1>1, <1>2, <1>3, <1>4, <1>5, <1>6, AddrAlone

LEMMA Single ==
    ASSUME NEW a, Orderly(a), NEW r \in InFlight(a)
    PROVE  InFlight(a) = {r}
BY DEF Orderly

(* A run goes on while nobody is counted, or about to be.                  *)
LEMMA RunKept ==
    ASSUME TypeOK, TypeOK', NEW a \in IPs, NEW S \in SUBSET Admitted(a), Run(a, S),
           now <= now', RateLimitMax' = RateLimitMax, Admitted(a)' = Admitted(a),
           WSConns'[a] = WSConns[a], reqs'[WSConns[a]] = reqs[WSConns[a]],
           ts'[WSConns[a]] = ts[WSConns[a]],
           \A x \in Admitted(a) : arr'[x] = arr[x] /\ dec'[x] = dec[x],
           \A x \in InFlight(a)' : at'[x] \notin {"counting", "resetting"}
    PROVE  Run(a, S)'
<1>1. ASSUME NEW x \in Admitted(a) \ S PROVE arr'[x] + Duration <= now'
  <2>1. arr'[x] = arr[x] OBVIOUS
  <2>2. arr[x] \in Nat /\ now \in Nat /\ now' \in Nat /\ Duration \in Nat
        BY Clocks DEF TypeOK
  <2>3. arr[x] + Duration <= now BY DEF Run
  <2> QED BY <2>1, <2>2, <2>3
<1> QED BY <1>1 DEF Run

LEMMA WindowsKept ==
    ASSUME NEW a, Windows(a), RateLimitMax' = RateLimitMax, Admitted(a)' = Admitted(a),
           \A x \in Admitted(a) : arr'[x] = arr[x] /\ dec'[x] = dec[x]
    PROVE  Windows(a)'
<1>1. \A t \in Nat : Within(a, t)' = Within(a, t) BY DEF Within
<1> QED BY <1>1 DEF Windows

(* A request that arrives alone does so after all that were admitted.      *)
LEMMA AddrArrive ==
    ASSUME TypeOK, TypeOK', NEW r \in Requests, NEW a \in IPs, AddrInv(a), Arrive(r, a),
           InFlight(a) = {}
    PROVE  AddrInv(a)'
<1>1. /\ at[r] = "new" /\ at' = [at EXCEPT ![r] = "arrived"]
      /\ ip' = [ip EXCEPT ![r] = a] /\ arr' = [arr EXCEPT ![r] = now]
      /\ UNCHANGED <<now, RateLimitMax, WSConns, reqs, ts, dec, entry>>
      BY DEF Arrive, Goto, process, entries
<1>2. r \notin Admitted(a) /\ now \in Nat BY <1>1 DEF Admitted, TypeOK
<1>3. InFlight(a)' = {r} /\ at'[r] = "arrived" /\ arr'[r] = now
      BY <1>1 DEF InFlight, Deciding, TypeOK
<1>4. Admitted(a)' = Admitted(a) BY <1>1, <1>2 DEF Admitted, TypeOK
<1>5. \A x \in Admitted(a) : arr'[x] = arr[x] /\ dec'[x] = dec[x]
      BY <1>1, <1>2, Clocks DEF TypeOK
<1>6. Orderly(a)' BY <1>1, <1>2, <1>3, <1>4, <1>5 DEF AddrInv, Orderly
<1>7. OneEntry(a)' BY <1>1, <1>3, <1>4 DEF AddrInv, OneEntry, Deciders
<1>8. ASSUME NEW S \in SUBSET Admitted(a), Run(a, S) PROVE Run(a, S)'
      BY <1>1, <1>2, <1>3, <1>4, <1>5, <1>8, RunKept
<1>9. Windows(a)' BY <1>1, <1>4, <1>5, WindowsKept DEF AddrInv
<1> QED BY <1>1, <1>4, <1>6, <1>7, <1>8, <1>9 DEF AddrInv

(* It finds the entry of its address.                                      *)
LEMMA AddrLookup ==
    ASSUME TypeOK, TypeOK', NEW r \in Requests, NEW a \in IPs, a = ip[r], AddrInv(a),
           Lookup(r)
    PROVE  AddrInv(a)'
<1>1. /\ at[r] = "unlisted" /\ entry' = [entry EXCEPT ![r] = WSConns[a]]
      /\ at' = [at EXCEPT ![r] = IF WSConns[a] = NoEntry THEN "missing" ELSE "found"]
      /\ UNCHANGED <<now, RateLimitMax, WSConns, reqs, ts, dec, arr, ip>>
      /\ now \in Nat
      BY DEF Lookup, Goto, process, entries, TypeOK
<1>2. /\ r \in InFlight(a) /\ r \notin Admitted(a) /\ entry'[r] = WSConns[a]
      /\ at'[r] = IF WSConns[a] = NoEntry THEN "missing" ELSE "found"
      BY <1>1 DEF InFlight, Deciding, Admitted, TypeOK
<1>3. InFlight(a) = {r} BY <1>2, Single DEF AddrInv
<1>4. InFlight(a)' = {r} BY <1>1, <1>3 DEF InFlight, Deciding, TypeOK
<1>5. Admitted(a)' = Admitted(a) BY <1>1, <1>2 DEF Admitted, TypeOK
<1>6. Orderly(a)' BY <1>1, <1>2, <1>3, <1>4, <1>5 DEF AddrInv, Orderly
<1>7. OneEntry(a)' BY <1>1, <1>2, <1>4, <1>5 DEF AddrInv, OneEntry, Deciders
<1>8. ASSUME NEW S \in SUBSET Admitted(a), Run(a, S) PROVE Run(a, S)'
      BY <1>1, <1>2, <1>4, <1>5, <1>8, RunKept
<1>9. Windows(a)' BY <1>1, <1>5, WindowsKept DEF AddrInv
<1> QED BY <1>1, <1>5, <1>6, <1>7, <1>8, <1>9 DEF AddrInv

(* It creates one if there is none, and nobody was admitted before.        *)
LEMMA AddrCreate ==
    ASSUME TypeOK, TypeOK', NEW r \in Requests, NEW a \in IPs, a = ip[r], AddrInv(a),
           Create(r)
    PROVE  AddrInv(a)'
<1>1. /\ at[r] = "missing" /\ at' = [at EXCEPT ![r] = "found"]
      /\ entry' = [entry EXCEPT ![r] = r] /\ reqs' = [reqs EXCEPT ![r] = 0]
      /\ WSConns' = [WSConns EXCEPT ![a] = r]
      /\ UNCHANGED <<now, RateLimitMax, dec, arr, ip>>
      BY DEF Create, Goto, process
<1>2. /\ r \in InFlight(a) /\ at'[r] = "found" /\ entry'[r] = r /\ reqs'[r] = 0
      /\ WSConns'[a] = r /\ r # NoEntry
      BY <1>1 DEF InFlight, Deciding, TypeOK
<1>3. InFlight(a) = {r} BY <1>2, Single DEF AddrInv
<1>4. InFlight(a)' = {r} BY <1>1, <1>3 DEF InFlight, Deciding, TypeOK
<1>5. Admitted(a) = {} BY <1>1, <1>2 DEF AddrInv, OneEntry
<1>6. Admitted(a)' = {} BY <1>1, <1>5 DEF Admitted, TypeOK
<1>7. Orderly(a)' BY <1>1, <1>2, <1>3, <1>4, <1>6 DEF AddrInv, Orderly
<1>8. OneEntry(a)' BY <1>2, <1>4, <1>6 DEF OneEntry, Deciders
<1>9. Run(a, {})'
  <2>1. Cardinality({}) = 0 BY FS_EmptySet
  <2>2. RateLimitMax' \in Nat BY Clocks DEF TypeOK
  <2> QED BY <1>2, <1>4, <1>6, <2>1, <2>2 DEF Run
<1>10. Windows(a)' BY <1>1, <1>5, <1>6, WindowsKept DEF AddrInv
<1> QED BY <1>7, <1>8, <1>9, <1>10 DEF AddrInv

(* What is decided compares the entry with all that it counts.             *)
LEMMA AddrDecide ==
    ASSUME TypeOK, TypeOK', NEW r \in Requests, NEW a \in IPs, a = ip[r], AddrInv(a),
           Decide(r)
    PROVE  AddrInv(a)'
<1> DEFINE o == entry[r]
<1>1. /\ at[r] = "found" /\ dec' = [dec EXCEPT ![r] = now]
      /\ UNCHANGED <<now, RateLimitMax, WSConns, reqs, ts, arr, ip, entry>>
      BY DEF Decide, process, entries
<1>2. r \in InFlight(a) /\ r \notin Admitted(a) /\ dec'[r] = now
      BY <1>1 DEF InFlight, Deciding, Admitted, TypeOK
<1>3. InFlight(a) = {r} BY <1>2, Single DEF AddrInv
<1>4. WSConns[a] = o /\ o # NoEntry /\ o \in Requests
      BY <1>1, <1>2 DEF AddrInv, OneEntry, Deciders, TypeOK
<1>5. /\ now \in Nat /\ ts[o] \in Nat /\ reqs[o] \in Nat /\ arr[r] \in Nat
      /\ RateLimitMax \in Nat /\ Duration \in Nat
      BY <1>4, Clocks
<1>6. CASE at' = [at EXCEPT ![r] = "blocked"]
  <2>1. InFlight(a)' = {} BY <1>1, <1>3, <1>6 DEF InFlight, Deciding, TypeOK
  <2>2. Admitted(a)' = Admitted(a) BY <1>1, <1>2, <1>6 DEF Admitted, TypeOK
  <2>3. \A x \in Admitted(a) : dec'[x] = dec[x] BY <1>1, <1>2, Clocks DEF TypeOK
  <2> QED BY <1>1, <1>5, <2>1, <2>2, <2>3, AddrAlone
<1>7. ASSUME NEW pc \in {"counting", "resetting"}, at' = [at EXCEPT ![r] = pc],
             pc = "counting" => reqs[o] < RateLimitMax,
             pc = "resetting" => now - ts[o] >= Duration
      PROVE  AddrInv(a)'
  <2>1. InFlight(a)' = {r} /\ at'[r] = pc
        BY <1>1, <1>3, <1>7 DEF InFlight, Deciding, TypeOK
  <2>2. Admitted(a)' = Admitted(a) BY <1>1, <1>2, <1>7 DEF Admitted, TypeOK
  <2>3. \A x \in Admitted(a) : dec'[x] = dec[x] BY <1>1, <1>2, Clocks DEF TypeOK
  <2>4. Orderly(a)'
        BY <1>1, <1>2, <1>3, <1>5, <2>1, <2>2, <2>3 DEF AddrInv, Orderly
  <2>5. OneEntry(a)' BY <1>1, <1>4, <2>1, <2>2 DEF AddrInv, OneEntry, Deciders
  <2>6. ASSUME NEW S \in SUBSET Admitted(a), Run(a, S) PROVE Run(a, S)'
    <3>2. \A x \in Admitted(a) \ S : arr[x] + Duration <= now BY <2>6 DEF Run
    <3> QED BY <1>1, <1>2, <1>4, <1>7, <2>1, <2>2, <2>6, <3>2 DEF Run
  <2>7. Windows(a)' BY <1>1, <2>2, <2>3, WindowsKept DEF AddrInv
  <2> QED BY <1>1, <2>2, <2>4, <2>5, <2>6, <2>7 DEF AddrInv
<1>8. \/ at' = [at EXCEPT ![r] = "blocked"]
      \/ at' = [at EXCEPT ![r] = "resetting"] /\ now - ts[o] >= Duration
      \/ /\ at' = [at EXCEPT ![r] = "counting"]
         /\ ~(now - ts[o] >= Duration) /\ ~(reqs[o] >= RateLimitMax)
      BY DEF Decide, Goto
<1> QED BY <1>5, <1>6, <1>7, <1>8

(* Who is admitted, in a run T of whatever number the entry has then.      *)
LEMMA AddrAdmit ==
    ASSUME TypeOK, TypeOK', NEW r \in Requests, NEW a \in IPs, a = ip[r], AddrInv(a),
           NEW o \in Requests, o = entry[r],
           at[r] \in {"counting", "resetting"}, at' = [at EXCEPT ![r] = "admitted"],
           ts' = [ts EXCEPT ![o] = arr[r]],
           UNCHANGED <<now, RateLimitMax, WSConns, arr, dec, ip>>,
           NEW T \in SUBSET (Admitted(a) \cup {r}), r \in T,
           reqs'[o] = Cardinality(T), reqs'[o] <= RateLimitMax,
           \A x \in Admitted(a) \ T : arr[x] + Duration <= dec[r]
    PROVE  AddrInv(a)'
<1>1. r \in InFlight(a) /\ r \notin Admitted(a)
      BY DEF InFlight, Deciding, Admitted
<1>2. InFlight(a) = {r} BY <1>1, Single DEF AddrInv
<1>3. InFlight(a)' = {} BY <1>2 DEF InFlight, Deciding, TypeOK
<1>4. Admitted(a)' = Admitted(a) \cup {r} BY <1>1 DEF Admitted, InFlight, TypeOK
<1>5. WSConns[a] = o /\ o # NoEntry
      BY <1>1 DEF AddrInv, OneEntry, Deciders
<1>6. /\ arr[r] <= dec[r] /\ dec[r] <= now
      /\ \A x \in Admitted(a) : arr[x] <= dec[x] /\ dec[x] <= now /\ dec[x] <= arr[r]
      BY <1>1 DEF AddrInv, Orderly
<1>7. /\ now \in Nat /\ arr[r] \in Nat /\ dec[r] \in Nat
      /\ RateLimitMax \in Nat /\ Duration \in Nat
      /\ \A x \in Admitted(a) : arr[x] \in Nat /\ dec[x] \in Nat
      BY Clocks
<1>8. Orderly(a)' BY <1>3, <1>4, <1>6 DEF Orderly
<1>9. OneEntry(a)' BY <1>3, <1>5 DEF OneEntry
<1>10. Run(a, T)'
  <2>2. ts'[o] = arr[r] BY DEF TypeOK
  <2>3. \A x \in Admitted(a) \cup {r} : arr[x] <= arr[r] BY <1>6, <1>7
  <2>4. \A x \in Admitted(a) \ T : arr[x] + Duration <= now
    <3> SUFFICES ASSUME NEW x \in Admitted(a) \ T PROVE arr[x] + Duration <= now
        OBVIOUS
    <3>1. arr[x] + Duration <= dec[r] /\ arr[x] \in Nat BY <1>7
    <3> QED BY <3>1, <1>6, <1>7
  <2> QED BY <1>3, <1>4, <1>5, <2>2, <2>3, <2>4 DEF Run
<1>11. ASSUME NEW t \in Nat PROVE Cardinality(Within(a, t)') <= RateLimitMax
  <2>1. CASE r \notin Within(a, t)'
    <3>1. Within(a, t)' = Within(a, t) BY <1>1, <1>4, <2>1 DEF Within
    <3> QED BY <3>1 DEF AddrInv, Windows
  <2>2. CASE r \in Within(a, t)'
    <3>1. dec[r] < t + Duration BY <2>2 DEF Within
    <3>2. ASSUME NEW x \in Within(a, t)', x # r PROVE x \in T
      <4>1. x \in Admitted(a) /\ arr[x] >= t BY <1>4, <3>2 DEF Within
      <4>2. ASSUME x \notin T PROVE FALSE
        <5>1. arr[x] + Duration <= dec[r] /\ arr[x] \in Nat BY <1>7, <4>1, <4>2
        <5> QED BY <5>1, <3>1, <4>1, <1>7
      <4> QED BY <4>2
    <3>3. Within(a, t)' \subseteq T BY <3>2
    <3>4. T \subseteq Requests BY DEF Admitted
    <3>5. /\ Cardinality(Within(a, t)') <= Cardinality(T)
          /\ Cardinality(Within(a, t)') \in Nat /\ Cardinality(T) \in Nat
      <4>1. Within(a, t)' \subseteq Requests BY <3>3, <3>4
      <4> QED BY <3>3, <3>4, <4>1, FiniteSubsets, FS_Subset
    <3> QED BY <3>5, <1>7
  <2> QED BY <2>1, <2>2
<1>12. Windows(a)' BY <1>11 DEF Windows
<1>13. T \subseteq Admitted(a)' BY <1>4
<1> QED BY <1>8, <1>9, <1>10, <1>12, <1>13 DEF AddrInv

(* One more, that came within Duration of the last.                        *)
LEMMA AddrCount ==
    ASSUME TypeOK, TypeOK', NEW r \in Requests, NEW a \in IPs, a = ip[r], AddrInv(a),
           Count(r)
    PROVE  AddrInv(a)'
<1> DEFINE o == entry[r]
<1>1. /\ at[r] = "counting" /\ at' = [at EXCEPT ![r] = "admitted"]
      /\ reqs' = [reqs EXCEPT ![o] = reqs[o] + 1] /\ ts' = [ts EXCEPT ![o] = arr[r]]
      /\ UNCHANGED <<now, RateLimitMax, WSConns, arr, dec, ip>>
      BY DEF Count, Goto, process
<1>2. r \in InFlight(a) /\ r \notin Admitted(a)
      BY <1>1 DEF InFlight, Deciding, Admitted
<1>3. WSConns[a] = o /\ o # NoEntry /\ o \in Requests
      BY <1>1, <1>2 DEF AddrInv, OneEntry, Deciders, TypeOK
<1>4. PICK S \in SUBSET Admitted(a) : Run(a, S) BY <1>3 DEF AddrInv
<1>5. /\ Cardinality(S) = reqs[o] /\ reqs[o] < RateLimitMax
      /\ \A x \in Admitted(a) \ S : arr[x] + Duration <= dec[r]
      BY <1>1, <1>2, <1>3, <1>4 DEF Run
<1>6. S \subseteq Requests /\ reqs[o] \in Nat /\ RateLimitMax \in Nat
      BY <1>3, Clocks
<1>7. Cardinality(S \cup {r}) = Cardinality(S) + 1
  <2>1. IsFiniteSet(S) /\ r \notin S BY <1>2, <1>6, FiniteSubsets
  <2> QED BY <2>1, FS_AddElement
<1>8. reqs'[o] = Cardinality(S \cup {r}) /\ reqs'[o] <= RateLimitMax
      BY <1>1, <1>3, <1>5, <1>6, <1>7 DEF TypeOK
<1>9. ASSUME NEW T, T = S \cup {r} PROVE AddrInv(a)'
  <2>1. /\ T \in SUBSET (Admitted(a) \cup {r}) /\ r \in T
        /\ \A x \in Admitted(a) \ T : arr[x] + Duration <= dec[r]
        BY <1>5, <1>9
  <2>2. reqs'[o] = Cardinality(T) /\ reqs'[o] <= RateLimitMax BY <1>8, <1>9
  <2>3. at[r] \in {"counting", "resetting"} BY <1>1
  <2>4. o \in Requests BY <1>3
  <2> QED BY <1>1, <2>1, <2>2, <2>3, <2>4, AddrAdmit
<1> QED BY <1>9

(* Or the first after a pause.                                             *)
LEMMA AddrReset ==
    ASSUME TypeOK, TypeOK', NEW r \in Requests, NEW a \in IPs, a = ip[r], AddrInv(a),
           Reset(r)
    PROVE  AddrInv(a)'
<1> DEFINE o == entry[r]
<1>1. /\ at[r] = "resetting" /\ at' = [at EXCEPT ![r] = "admitted"]
      /\ reqs' = [reqs EXCEPT ![o] = 1] /\ ts' = [ts EXCEPT ![o] = arr[r]]
      /\ UNCHANGED <<now, RateLimitMax, WSConns, arr, dec, ip>>
      BY DEF Reset, Goto, process
<1>2. r \in InFlight(a) BY <1>1 DEF InFlight, Deciding
<1>3. WSConns[a] = o /\ o # NoEntry /\ o \in Requests
      BY <1>1, <1>2 DEF AddrInv, OneEntry, Deciders, TypeOK
<1>4. PICK S \in SUBSET Admitted(a) : Run(a, S) BY <1>3 DEF AddrInv
<1>5. dec[r] - ts[o] >= Duration /\ \A x \in Admitted(a) : arr[x] <= ts[o]
      BY <1>1, <1>2, <1>3, <1>4 DEF Run
<1>6. /\ dec[r] \in Nat /\ ts[o] \in Nat /\ Duration \in Nat /\ RateLimitMax \in Nat \ {0}
      /\ \A x \in Admitted(a) : arr[x] \in Nat
      BY <1>3, Clocks
<1>7. \A x \in Admitted(a) : arr[x] + Duration <= dec[r] BY <1>5, <1>6
<1>8. Cardinality({r}) = 1 BY FS_Singleton
<1>9. reqs'[o] = Cardinality({r}) /\ reqs'[o] <= RateLimitMax
      BY <1>1, <1>3, <1>6, <1>8 DEF TypeOK
<1> QED BY <1>1, <1>3, <1>7, <1>8, <1>9, AddrAdmit

(* At the gate, and after it was turned away or passed as white-listed.    *)
LEMMA AddrBeside ==
    ASSUME TypeOK, TypeOK', NEW r \in Requests, NEW a \in IPs, a = ip[r], AddrInv(a),
           CheckWhite(r) \/ CheckBlack(r) \/ AddToBlacklist(r) \/ Connection(r)
    PROVE  AddrInv(a)'
<1>1. UNCHANGED <<now, RateLimitMax, WSConns, reqs, ts, ip, arr, dec, entry>>
      BY DEF CheckWhite, CheckBlack, AddToBlacklist, ReadBList, WriteBList, GetStore,
         StoreBlackList, StoreFails, Connection, Register, Leave, Disturb, process,
         entries, request
<1>2. \/ at' = at
      \/ at[r] \in Deciding /\ \E pc \in {"unlisted", "passed"} : at' = [at EXCEPT ![r] = pc]
      \/ \E pc \in Stages \ (Deciding \cup {"admitted"}) : at' = [at EXCEPT ![r] = pc]
  <2>1. CASE CheckWhite(r) \/ CheckBlack(r)
        BY <2>1 DEF CheckWhite, CheckBlack, Goto, Stages, Deciding
  <2>2. CASE AddToBlacklist(r)
        BY <2>2 DEF AddToBlacklist, ReadBList, WriteBList, GetStore, StoreBlackList,
           StoreFails, Goto, Stages, Deciding
  <2>3. CASE Connection(r)
        BY <2>3 DEF Connection, Register, Leave, Disturb, Goto, Stages, Deciding
  <2> QED BY <2>1, <2>2, <2>3
<1>3. at[r] # "admitted"
      BY DEF CheckWhite, CheckBlack, AddToBlacklist, ReadBList, WriteBList, GetStore,
         StoreBlackList, StoreFails, Connection, Register, Leave, Disturb
<1>4. InFlight(a)' \subseteq InFlight(a)
      BY <1>1, <1>2 DEF InFlight, Deciding, TypeOK
<1>5. Admitted(a)' = Admitted(a)
      BY <1>1, <1>2, <1>3 DEF Admitted, TypeOK, Deciding
<1>6. \A x \in InFlight(a)' : at'[x] = at[x] \/ at'[x] \in {"unlisted", "passed"}
      BY <1>2 DEF InFlight, TypeOK
<1> QED BY <1>1, <1>4, <1>5, <1>6, Clocks, AddrAlone

LEMMA RacedStays ==
    ASSUME NEW r \in Requests, rateLimiter(r) \/ AddToBlacklist(r) \/ Connection(r)
    PROVE  /\ raced \subseteq raced'
           /\ \A a \in IPs : Arrive(r, a) /\ a \notin raced' => InFlight(a) = {}
           /\ (\E a \in IPs : Arrive(r, a)) \/ ip' = ip
BY DEF rateLimiter, Arrive, CheckWhite, CheckBlack, Lookup, Create, Decide, Count, Reset,
   AddToBlacklist, ReadBList, WriteBList, GetStore, StoreBlackList, StoreFails,
   Connection, Register, Leave, Disturb, history, request

LEMMA AddrsRequest ==
    ASSUME OverInv, TypeOK', AddrsInv, NEW r \in Requests,
           rateLimiter(r) \/ AddToBlacklist(r) \/ Connection(r)
    PROVE  AddrsInv'
<1> SUFFICES ASSUME NEW a \in IPs, a \notin raced' PROVE AddrInv(a)'
    BY DEF AddrsInv
<1>1. AddrInv(a) /\ TypeOK BY RacedStays DEF AddrsInv, OverInv
<1>2. ASSUME NEW b \in IPs, Arrive(r, b) PROVE AddrInv(a)'
  <2>1. at[r] = "new" /\ ip'[r] = b BY <1>1, <1>2 DEF Arrive, TypeOK
  <2>2. CASE a = b BY <1>1, <1>2, <2>2, RacedStays, AddrArrive
  <2>3. CASE a # b BY <1>1, <2>1, <2>3, AddrOther
  <2> QED BY <2>2, <2>3
<1>3. CASE ip' = ip /\ a # ip[r] BY <1>1, <1>3, AddrOther
<1>4. CASE a = ip[r] /\ ~\E b \in IPs : Arrive(r, b)
  <2>1. \/ CheckWhite(r) \/ CheckBlack(r) \/ AddToBlacklist(r) \/ Connection(r)
        \/ Lookup(r) \/ Create(r) \/ Decide(r) \/ Count(r) \/ Reset(r)
        BY <1>4 DEF rateLimiter
  <2> QED BY <1>1, <1>4, <2>1, AddrBeside, AddrLookup, AddrCreate, AddrDecide, AddrCount,
         AddrReset
<1> QED BY <1>2, <1>3, <1>4, RacedStays

LEMMA AddrsMain ==
    ASSUME TypeOK, TypeOK', AddrsInv,
           UNCHANGED vars \/ Start \/ LoadWhite \/ LoadBlack \/ LoadSpins \/ Crash \/ Tick
    PROVE  AddrsInv'
<1>1. CASE Crash
  <2> SUFFICES ASSUME NEW a \in IPs PROVE AddrInv(a)' BY DEF AddrsInv
  <2>1. InFlight(a)' = {} /\ Admitted(a)' = {} /\ WSConns'[a] = NoEntry
        BY <1>1 DEF Crash, InFlight, Deciding, Admitted, NoEntries
  <2>2. Orderly(a)' /\ OneEntry(a)' BY <2>1 DEF Orderly, OneEntry
  <2>3. \A t \in Nat : Within(a, t)' = {} BY <2>1 DEF Within
  <2>4. RateLimitMax' \in Nat BY DEF TypeOK
  <2>5. Windows(a)' BY <2>3, <2>4, FS_EmptySet DEF Windows
  <2> QED BY <2>1, <2>2, <2>5 DEF AddrInv
<1>2. CASE UNCHANGED vars \/ Start \/ LoadWhite \/ LoadBlack \/ LoadSpins \/ Tick
  <2>1. /\ UNCHANGED <<RateLimitMax, WSConns, reqs, ts, at, ip, arr, dec, entry>>
        /\ raced \subseteq raced' /\ now <= now'
        BY <1>2 DEF vars, Start, LoadWhite, LoadBlack, LoadSpins, Tick, process, entries,
           request, history, TypeOK
  <2>2. \A a : InFlight(a)' = InFlight(a) /\ Admitted(a)' = Admitted(a)
        BY <2>1 DEF InFlight, Admitted
  <2>3. ASSUME NEW a \in IPs, AddrInv(a) PROVE AddrInv(a)'
        BY <2>1, <2>2, <2>3, AddrAlone
  <2> QED BY <2>1, <2>3 DEF AddrsInv
<1> QED BY <1>1, <1>2

LEMMA AddrsStep == OverInv /\ AddrsInv /\ [Next]_vars => AddrsInv'
<1> SUFFICES ASSUME OverInv, AddrsInv, [Next]_vars PROVE AddrsInv' OBVIOUS
<1>1. TypeOK /\ TypeOK' BY StepType DEF OverInv
<1> QED BY <1>1, AddrsRequest, AddrsMain DEF Next

LEMMA AddrsInit == Init => AddrsInv
<1> SUFFICES ASSUME Init, NEW a \in IPs PROVE AddrInv(a) BY DEF AddrsInv
<1>1. InFlight(a) = {} /\ Admitted(a) = {} /\ WSConns[a] = NoEntry
      BY DEF Init, InFlight, Deciding, Admitted, NoEntries
<1>2. Orderly(a) /\ OneEntry(a) BY <1>1 DEF Orderly, OneEntry
<1>3. \A t \in Nat : Within(a, t) = {} BY <1>1 DEF Within
<1>4. RateLimitMax \in Nat BY InitType DEF TypeOK
<1>5. Windows(a) BY <1>3, <1>4, FS_EmptySet DEF Windows
<1> QED BY <1>1, <1>2, <1>5 DEF AddrInv

(* An address whose requests do not overlap gets no more of them than      *)
(* rate_limit_max through rateLimiter within less than rate_limit_duration,*)
(* at whatever times they come, and whatever other addresses do.           *)
THEOREM WindowsBounded == Spec => []WindowBound
<1>1. TypeOK /\ AddrsInv => WindowBound
  <2> SUFFICES ASSUME TypeOK, AddrsInv, NEW a \in IPs \ raced,
                      NEW t \in {arr[r] : r \in Admitted(a)}
               PROVE  Cardinality({r \in Admitted(a) : arr[r] >= t /\ dec[r] < t + Duration})
                          <= RateLimitMax
      BY DEF WindowBound
  <2>1. t \in Nat BY Clocks
  <2>2. Cardinality(Within(a, t)) <= RateLimitMax BY <2>1 DEF AddrsInv, AddrInv, Windows
  <2> QED BY <2>2 DEF Within
<1>2. OverInv => TypeOK BY DEF OverInv
<1> QED BY <1>1, <1>2, AddrsInit, AddrsStep, OverInit, OverStep, PTL DEF Spec
=============================================================================

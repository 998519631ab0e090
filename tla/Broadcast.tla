------------------------------ MODULE Broadcast ------------------------------
(***************************************************************************)
(* How a new event reaches the other clients.                              *)
(*                                                                         *)
(* The handler of an EVENT puts the event in the channel NewEvent.  One    *)
(* goroutine, Session.NewEventBroadcaster (services/session.go), walks the *)
(* ledger for each event and puts (event, client) pairs in the channel     *)
(* chEM.  One goroutine, filterMatch (services/auxfun.go), takes the pairs *)
(* and starts a goroutine per filter of the client, filterMatchSingle,     *)
(* which puts the event in the client's channel msgwt if the filter        *)
(* matches; filterMatch waits for them before it takes the next pair.  The *)
(* client's writer empties msgwt.                                          *)
(*                                                                         *)
(* A client is an object of the pool.  When its connection has ended and   *)
(* Remove is through with it, Register gives it to another connection,     *)
(* while pairs that name it may still be in chEM.  (That it may be given   *)
(* away before Remove is through is the subject of Session.)               *)
(*                                                                         *)
(* Events are referred to by their number in NewEvent.  What a filter      *)
(* matches is the constant Matching (module FilterMatch is about it).      *)
(***************************************************************************)
EXTENDS Integers, Sequences, FiniteSets

CONSTANTS Clients,
          Events,            \* [src, kind, to]; to: whom a kind 4 names
          Nobody,            \* no such npub
          Matching,          \* [Events \X Clients -> Nat]: filters that match
          Restricted,        \* relay_access is "authenticated" or "paid"
          Authenticated,     \* the clients that are authenticated at the start
          MayDie,            \* clients whose peer may stop reading or vanish
          MayChange,         \* clients that subscribe, close and grow old
          NewEventCap, ChEMCap, MsgwtCap,
          MaxEvents, MaxGen  \* bounds: events, connections of a client

(* <<c, g>> is the user of the g-th connection of c.                       *)
Event == [src : Clients, kind : {"note", "dm", "auth"},
          to : (Clients \X Nat) \cup {Nobody}]

ASSUME BroadcastAssumption ==
    /\ Events \subseteq Event /\ Nobody \notin Clients \cup (Clients \X Nat)
    /\ Matching \in [Events \X Clients -> Nat]
    /\ Restricted \in BOOLEAN /\ Authenticated \subseteq Clients
    /\ MayDie \subseteq Clients /\ MayChange \subseteq Clients
    /\ {NewEventCap, ChEMCap, MsgwtCap} \subseteq Nat \ {0}
    /\ MaxEvents \in Nat /\ MaxGen \in Nat

VARIABLES
    pub, by, nb, \* NewEvent: what was put in it, by which connection of its
                 \* source; how much was taken
    bpc, todo,   \* the broadcaster, the clients it has still to visit
    at,          \* the client it looked at, and the connection this had
    em, ne,      \* chEM: the pairs put in it, how many were taken
    fleft, held, \* goroutines that have still to send; those among them that
                 \* wait on a channel that was replaced
    ledger,      \* the registered clients
    conn,        \* "up", "deaf" (its peer does not read), "dead" (its
                 \* connection ended), "nil" (msgwt = nil, in the pool)
    gen,         \* how many connections it had; stands for the client's id
    subd,        \* Subscription_id and Filetrs, see Subscribe
    authed, old, \* Authed; connected for more than 300 s
    out, got,    \* msgwt: what was put in it, how much the writer took
    chosen,      \* history: the pairs the broadcaster decided for
    due          \* history: who should get event n, see Publish

newEvent    == <<pub, by>>
broadcaster == <<nb, bpc, todo, at>>
matcher     == <<ne, fleft, held>>
clients     == <<conn, gen, subd, authed, old>>
channels    == <<out, got>>
vars == <<newEvent, broadcaster, em, matcher, ledger, clients, channels, chosen, due>>

(* Event n for client c, decided when c had its g-th connection.           *)
Pair  == [n : Nat, c : Clients, g : Nat]
Entry == [n : Nat, direct : BOOLEAN, g : Nat]
Pair1(n, p) == [n |-> n, c |-> p.c, g |-> p.g]
NoOne == [c |-> Nobody, g |-> 0]

(* MUTANT: an off-by-one in the capacity. *)
MutRoom(put, taken, cap) == Len(put) - taken <= cap
(* Messages of capacity cap waiting between put and take.                  *)
Room(put, taken, cap) == Len(put) - taken < cap
(* A send to a client blocks when msgwt is full, and for ever when Remove  *)
(* has set it to nil.                                                      *)
Reachable(c) == conn[c] # "nil" /\ Room(out[c], got[c], MsgwtCap)

Working(c) == conn[c] \in {"up", "deaf"}
(* Subscription_id # "" and len(Filetrs) > 0.                              *)
Usable(c) == subd[c] = "yes"

Init ==
    /\ pub = <<>> /\ by = <<>> /\ nb = 0
    /\ bpc = "recv" /\ todo = {} /\ at = NoOne
    /\ em = <<>> /\ ne = 0 /\ fleft = 0 /\ held = 0
    /\ ledger = Clients
    /\ conn = [c \in Clients |-> "up"] /\ gen = [c \in Clients |-> 1]
    /\ subd = [c \in Clients |-> "yes"]
    /\ authed = [c \in Clients |-> c \in Authenticated]
    /\ old = [c \in Clients |-> FALSE]
    /\ out = [c \in Clients |-> <<>>] /\ got = [c \in Clients |-> 0]
    /\ chosen = {} /\ due = <<>>

-----------------------------------------------------------------------------
(* Whom an event may be sent to: not to the connection it came from.       *)
Own(n, c) == pub[n].src = c /\ by[n] = gen[c]
(* The client has the npub that a direct message names.                    *)
Names(e, c) == e.kind = "dm" /\ e.to = <<c, gen[c]>>

(* Whom it should be sent to: the clients with a subscription; a direct    *)
(* message that names its addressee, to that one at least.                 *)
Audience(e) ==
    LET all == {c \in ledger : /\ Working(c) /\ Usable(c)
                               /\ e.kind # "auth" /\ e.src # c
                               /\ e.kind = "dm" => authed[c]}
    IN  IF e.kind = "dm" /\ e.to # Nobody THEN {c \in all : Names(e, c)} ELSE all

(* The requests of a client are handled, on a restricted relay once it has *)
(* authenticated.                                                          *)
Asks(c) == Working(c) /\ (Restricted => authed[c])

(* NewEvent <- e, in handlerEventMsgs of client e.src.                     *)
Publish(e) ==
    /\ Len(pub) < MaxEvents /\ Room(pub, nb, NewEventCap)
    /\ Asks(e.src)
    /\ e.kind = "dm" => authed[e.src]
    /\ pub' = Append(pub, e) /\ by' = Append(by, gen[e.src])
    /\ due' = Append(due, Audience(e))
    /\ UNCHANGED <<broadcaster, em, matcher, ledger, clients, channels, chosen>>

-----------------------------------------------------------------------------
(* NewEventBroadcaster.                                                    *)

Bev == pub[nb]

(* An AUTH event is not broadcast.                                         *)
BcTake ==
    /\ bpc = "recv" /\ nb < Len(pub)
    /\ nb' = nb + 1
    /\ IF pub[nb + 1].kind = "auth" THEN UNCHANGED <<bpc, todo>>
       ELSE bpc' = "visit" /\ todo' = ledger
    /\ UNCHANGED <<newEvent, at, em, matcher, ledger, clients, channels, chosen, due>>

Visits(c) == bpc = "visit" /\ c \in todo
(* It goes on with the client it looks at; what it decides is done in a    *)
(* later step.                                                             *)
Looks(c, then) == /\ bpc' = then /\ at' = [c |-> c, g |-> gen[c]]
                  /\ todo' = todo \ {c}

(* The client that published, one without subscription, a direct message   *)
(* for a client that did not authenticate.                                 *)
BcSkip(c) ==
    /\ Visits(c)
    /\ \/ Own(nb, c)
       \/ ~Usable(c) /\ ~old[c]
       \/ Usable(c) /\ Bev.kind = "dm" /\ ~authed[c]
    /\ todo' = todo \ {c}
    /\ UNCHANGED <<newEvent, nb, bpc, at, em, matcher, ledger, clients, channels,
                   chosen, due>>

(* A client that did not subscribe in time, or changes its subscription at *)
(* this moment.                                                            *)
BcGiveUp(c) ==
    /\ Visits(c) /\ ~Own(nb, c) /\ ~Usable(c) /\ old[c]
    /\ Looks(c, "evict")
    /\ UNCHANGED <<newEvent, nb, em, matcher, ledger, clients, channels, chosen, due>>

(* MUTANT: direct messages go to everybody who subscribed. *)
MutWanted(c) == Visits(c) /\ ~Own(nb, c) /\ Usable(c)
Wanted(c) == /\ Visits(c) /\ ~Own(nb, c) /\ Usable(c)
             /\ Bev.kind = "dm" => authed[c]

(* The addressee of a direct message gets it at once, the others over chEM.*)
BcChoose(c) ==
    /\ Wanted(c)
    /\ Looks(c, IF Names(Bev, c) THEN "direct" ELSE "pair")
    /\ chosen' = chosen \cup {Pair1(nb, at')}
    /\ UNCHANGED <<newEvent, nb, em, matcher, ledger, clients, channels, due>>

Forget(c) == due' = [n \in DOMAIN due |-> due[n] \ {c}]

(* It leaves the ledger, but stays connected.                              *)
BcEvict ==
    /\ bpc = "evict" /\ bpc' = "visit" /\ at' = NoOne
    /\ ledger' = ledger \ {at.c} /\ Forget(at.c)
    /\ UNCHANGED <<newEvent, nb, todo, em, matcher, clients, channels, chosen>>

(* MUTANT: the addressee gets it over chEM too. *)
MutBcDirect ==
    /\ bpc = "direct" /\ Reachable(at.c)
    /\ out' = [out EXCEPT ![at.c] = Append(@, [n |-> nb, direct |-> TRUE, g |-> at.g])]
    /\ bpc' = "pair"
    /\ UNCHANGED <<newEvent, nb, at, todo, em, matcher, ledger, clients, got, chosen, due>>
(* client.msgwt <- e; break.                                               *)
BcDirect ==
    /\ bpc = "direct" /\ Reachable(at.c)
    /\ out' = [out EXCEPT ![at.c] = Append(@, [n |-> nb, direct |-> TRUE, g |-> at.g])]
    /\ bpc' = "visit" /\ at' = NoOne /\ todo' = {}
    /\ UNCHANGED <<newEvent, nb, em, matcher, ledger, clients, got, chosen, due>>

(* MUTANT: break instead of continue. *)
MutBcPairBreak ==
    /\ bpc = "pair" /\ Room(em, ne, ChEMCap)
    /\ em' = Append(em, Pair1(nb, at))
    /\ bpc' = "visit" /\ at' = NoOne /\ todo' = {}
    /\ UNCHANGED <<newEvent, nb, matcher, ledger, clients, channels, chosen, due>>
(* MUTANT: select with a default, the pair is dropped when chEM is full. *)
MutBcPairDrop ==
    /\ bpc = "pair"
    /\ em' = IF Room(em, ne, ChEMCap) THEN Append(em, Pair1(nb, at)) ELSE em
    /\ bpc' = "visit" /\ at' = NoOne
    /\ UNCHANGED <<newEvent, nb, todo, matcher, ledger, clients, channels, chosen, due>>
(* chEM <- ecp                                                             *)
BcPair ==
    /\ bpc = "pair" /\ Room(em, ne, ChEMCap)
    /\ em' = Append(em, Pair1(nb, at))
    /\ bpc' = "visit" /\ at' = NoOne
    /\ UNCHANGED <<newEvent, nb, todo, matcher, ledger, clients, channels, chosen, due>>

BcEnd ==
    /\ bpc = "visit" /\ todo = {}
    /\ bpc' = "recv"
    /\ UNCHANGED <<newEvent, nb, todo, at, em, matcher, ledger, clients, channels,
                   chosen, due>>

Broadcaster == BcTake \/ BcEvict \/ BcDirect \/ BcPair \/ BcEnd
               \/ \E c \in Clients : BcSkip(c) \/ BcGiveUp(c) \/ BcChoose(c)

-----------------------------------------------------------------------------
(* filterMatch and filterMatchSingle.                                      *)

(* The filters are read when the pair is taken; each that matches sends.   *)
Sends(p) == IF subd[p.c] \in {"yes", "closing"} THEN Matching[pub[p.n], p.c] ELSE 0

FmTake ==
    /\ fleft = 0 /\ ne < Len(em)
    /\ ne' = ne + 1 /\ fleft' = Sends(em[ne + 1])
    /\ UNCHANGED <<newEvent, broadcaster, em, held, ledger, clients, channels,
                   chosen, due>>

(* The goroutine of one matching filter sends; wg.Wait() for the last one. *)
FmSend ==
    /\ fleft > held /\ Reachable(em[ne].c)
    /\ out' = [out EXCEPT ![em[ne].c] =
                  Append(@, [n |-> em[ne].n, direct |-> FALSE, g |-> em[ne].g])]
    /\ fleft' = fleft - 1
    /\ UNCHANGED <<newEvent, broadcaster, em, ne, held, ledger, clients, got,
                   chosen, due>>

(* It sends nothing if it starts more than 5 s after the pair was taken.   *)
FmTimeout ==
    /\ fleft > held
    /\ fleft' = fleft - 1
    /\ due' = [due EXCEPT ![em[ne].n] = @ \ {em[ne].c}]
    /\ UNCHANGED <<newEvent, broadcaster, em, ne, held, ledger, clients, channels,
                   chosen>>

Matcher == FmTake \/ FmSend

-----------------------------------------------------------------------------
(* The connections of the clients.                                         *)

(* The writer is done with a message when the peer has read enough.        *)
WriterTakes(c) ==
    /\ conn[c] = "up" /\ got[c] < Len(out[c])
    /\ got' = [got EXCEPT ![c] = @ + 1]
    /\ UNCHANGED <<newEvent, broadcaster, em, matcher, ledger, clients, out,
                   chosen, due>>

(* The peer stays connected and does not read, for good: the writer hangs  *)
(* in WriteJSON, which has no deadline.                                    *)
PeerStops(c) ==
    /\ c \in MayDie /\ conn[c] = "up"
    /\ conn' = [conn EXCEPT ![c] = "deaf"]
    /\ UNCHANGED <<newEvent, broadcaster, em, matcher, ledger, gen, subd, authed,
                   old, channels, chosen, due>>

(* The connection failed: nobody takes from msgwt any more.                *)
WriterEnds(c) ==
    /\ c \in MayDie /\ Working(c)
    /\ conn' = [conn EXCEPT ![c] = "dead"] /\ Forget(c)
    /\ UNCHANGED <<newEvent, broadcaster, em, matcher, ledger, gen, subd, authed,
                   old, channels, chosen>>

(* Session.Remove, which a client reaches whose dispatcher ended: first    *)
(* the ledger, then msgwt.  A range over a map does not produce an entry   *)
(* that was removed before it came to it.                                  *)
RemoveFromLedger(c) ==
    /\ conn[c] = "dead" /\ c \in ledger /\ subd[c] \in {"yes", "no"}
    /\ ledger' = ledger \ {c} /\ todo' = todo \ {c}
    /\ UNCHANGED <<newEvent, nb, bpc, at, em, matcher, clients, channels, chosen, due>>

RemoveChannel(c) ==
    /\ conn[c] = "dead" /\ c \notin ledger /\ subd[c] \in {"yes", "no"}
    /\ conn' = [conn EXCEPT ![c] = "nil"]
    /\ UNCHANGED <<newEvent, broadcaster, em, matcher, ledger, gen, subd, authed,
                   old, channels, chosen, due>>

(* Session.Register takes the client from the pool: another id, nobody     *)
(* authenticated, a fresh msgwt, but the subscription it had.              *)
(* Whoever tries to send to the client meanwhile waits for ever if it has  *)
(* evaluated client.msgwt already.  A range over a map may or may not      *)
(* produce an entry that is added while it runs.                           *)
Register(c) ==
    /\ conn[c] = "nil" /\ gen[c] < MaxGen
    /\ conn' = [conn EXCEPT ![c] = "up"] /\ gen' = [gen EXCEPT ![c] = @ + 1]
    /\ authed' = [authed EXCEPT ![c] = FALSE] /\ old' = [old EXCEPT ![c] = FALSE]
    /\ out' = [out EXCEPT ![c] = <<>>] /\ got' = [got EXCEPT ![c] = 0]
    /\ ledger' = ledger \cup {c}
    /\ todo' \in (IF bpc # "recv" THEN {todo, todo \cup {c}} ELSE {todo})
    /\ bpc' \in (IF bpc = "direct" /\ at.c = c THEN {bpc, "stuck"} ELSE {bpc})
    /\ held' \in (IF fleft > 0 /\ em[ne].c = c THEN held..fleft ELSE {held})
    /\ UNCHANGED <<newEvent, nb, at, em, ne, fleft, subd, chosen, due>>

-----------------------------------------------------------------------------
(* What the dispatchers of the clients do meanwhile.                       *)

(* A REQ sets the subscription id, and empties the filters if there was a  *)
(* subscription.                                                           *)
Subscribe(c) ==
    /\ c \in MayChange /\ Asks(c) /\ subd[c] \in {"yes", "no"}
    /\ subd' = [subd EXCEPT ![c] = "filling"] /\ Forget(c)
    /\ UNCHANGED <<newEvent, broadcaster, em, matcher, ledger, conn, gen, authed,
                   old, channels, chosen>>

(* A CLOSE clears the id.                                                  *)
Unsubscribe(c) ==
    /\ c \in MayChange /\ Asks(c) /\ subd[c] = "yes"
    /\ subd' = [subd EXCEPT ![c] = "closing"] /\ Forget(c)
    /\ UNCHANGED <<newEvent, broadcaster, em, matcher, ledger, conn, gen, authed,
                   old, channels, chosen>>

(* Then the filters are set.                                               *)
SetFilters(c) ==
    /\ conn[c] \in {"up", "deaf", "dead"} /\ subd[c] \in {"filling", "closing"}
    /\ subd' = [subd EXCEPT ![c] = IF @ = "filling" THEN "yes" ELSE "no"]
    /\ UNCHANGED <<newEvent, broadcaster, em, matcher, ledger, conn, gen, authed,
                   old, channels, chosen, due>>

Authenticate(c) ==
    /\ c \in MayChange /\ Working(c) /\ ~authed[c]
    /\ authed' = [authed EXCEPT ![c] = TRUE]
    /\ UNCHANGED <<newEvent, broadcaster, em, matcher, ledger, conn, gen, subd, old,
                   channels, chosen, due>>

(* 300 seconds since CreatedAt.                                            *)
GrowOld(c) ==
    /\ c \in MayChange /\ Working(c) /\ ~old[c]
    /\ old' = [old EXCEPT ![c] = TRUE]
    /\ UNCHANGED <<newEvent, broadcaster, em, matcher, ledger, conn, gen, subd,
                   authed, channels, chosen, due>>

(* sessionState, which Monitor runs every few minutes.                     *)
SsEvict(c) ==
    /\ c \in ledger /\ old[c]
    /\ ~Usable(c) \/ (Restricted /\ ~authed[c])
    /\ ledger' = ledger \ {c} /\ todo' = todo \ {c} /\ Forget(c)
    /\ UNCHANGED <<newEvent, nb, bpc, at, em, matcher, clients, channels, chosen>>

Client(c) == \/ PeerStops(c) \/ WriterEnds(c) \/ RemoveFromLedger(c)
             \/ RemoveChannel(c) \/ Register(c) \/ Subscribe(c) \/ Unsubscribe(c)
             \/ SetFilters(c) \/ Authenticate(c) \/ GrowOld(c) \/ SsEvict(c)

Next == \/ \E e \in Events : Publish(e)
        \/ Broadcaster \/ Matcher \/ FmTimeout
        \/ \E c \in Clients : WriterTakes(c) \/ Client(c)

Spec == Init /\ [][Next]_vars

(* The broadcaster and filterMatch run whenever they can, and a writer     *)
(* whose peer reads returns from its write.                                *)
FairSpec == /\ Spec /\ WF_vars(Broadcaster) /\ WF_vars(Matcher)
            /\ \A c \in Clients : WF_vars(WriterTakes(c))

-----------------------------------------------------------------------------
(* Properties.                                                             *)

(* Types, and the capacities of the channels.                              *)
TypeOK ==
    /\ pub \in Seq(Events) /\ by \in Seq(Nat) /\ Len(by) = Len(pub)
    /\ nb \in 0..Len(pub) /\ Len(pub) - nb <= NewEventCap
    /\ bpc \in {"recv", "visit", "evict", "direct", "pair", "stuck"}
    /\ todo \subseteq Clients
    /\ bpc # "recv" => nb > 0
    /\ at \in [c : Clients \cup {Nobody}, g : Nat]
    /\ bpc \in {"evict", "direct", "pair", "stuck"} => at.c \in Clients
    /\ em \in Seq(Pair) /\ ne \in 0..Len(em) /\ Len(em) - ne <= ChEMCap
    /\ fleft \in Nat /\ (fleft > 0 => ne > 0) /\ held \in 0..fleft
    /\ ledger \subseteq Clients
    /\ conn \in [Clients -> {"up", "deaf", "dead", "nil"}]
    /\ gen \in [Clients -> Nat]
    /\ subd \in [Clients -> {"no", "filling", "yes", "closing"}]
    /\ authed \in [Clients -> BOOLEAN] /\ old \in [Clients -> BOOLEAN]
    /\ out \in [Clients -> Seq(Entry)] /\ got \in [Clients -> Nat]
    /\ \A c \in Clients : got[c] <= Len(out[c]) /\ Len(out[c]) - got[c] <= MsgwtCap
    /\ chosen \subseteq Pair
    /\ due \in Seq(SUBSET Clients) /\ Len(due) = Len(pub)

(* A connection is never sent an AUTH event, an event that came from it,   *)
(* or, unless it authenticated, a direct message that the broadcaster      *)
(* chose it for: neither directly nor over chEM, whatever happened since   *)
(* the broadcaster looked.  (For what the broadcaster chose an earlier     *)
(* connection of the client for, see DmOnlyAuthenticated.)                 *)
Legal(x, c) == /\ x.n \in 1..Len(pub)
               /\ pub[x.n].kind # "auth" /\ ~Own(x.n, c)
               /\ pub[x.n].kind = "dm" /\ x.g = gen[c] => authed[c]
OnlyLegal == \A c \in Clients : \A i \in 1..Len(out[c]) : Legal(out[c][i], c)

(* What a client got for its present connection.                           *)
Copies(c, n) == Cardinality({i \in 1..Len(out[c]) : /\ out[c][i].n = n
                                                   /\ out[c][i].g = gen[c]})
Expected(c, n) == IF Names(pub[n], c) THEN 1 ELSE Matching[pub[n], c]
Quiet == bpc = "recv" /\ nb = Len(pub) /\ ne = Len(em) /\ fleft = 0

(* When the pipeline is empty, every client that since an event was        *)
(* published stayed connected and registered, neither updated nor closed   *)
(* its subscription, and none of whose filters started too late, got it:   *)
(* once per filter that matches it, or once as its addressee.              *)
NothingLost ==
    Quiet => \A n \in 1..Len(pub) : \A c \in due[n] : Copies(c, n) = Expected(c, n)

(* Without its channels and goroutines, Broadcast is Delivery: each event  *)
(* is put in a client's channel only if the broadcaster chose the client   *)
(* for it, which may have it then, once per filter at most, and in order.  *)
D == INSTANCE Delivery WITH sent <- out
Delivered == D!Spec

(* The pipeline waits for a client whose peer does not read any more.      *)
WaitsFor(c) == \/ fleft > held /\ em[ne].c = c
               \/ bpc = "direct" /\ at.c = c
Stalled == \/ bpc = "stuck" \/ held > 0
           \/ \E c \in Clients : conn[c] # "up" /\ ~Reachable(c) /\ WaitsFor(c)

(* What is due is delivered, unless from some point on a client whose      *)
(* connection ended, or whose peer does not read, holds up everybody.      *)
(* Full channels, slow peers and what the other clients do meanwhile, do   *)
(* not.                                                                    *)
Owed(c, n) == n <= Len(pub) /\ c \in due[n] /\ Copies(c, n) # Expected(c, n)
AnyOwed == \E n \in 1..Len(pub) : \E c \in due[n] : Copies(c, n) # Expected(c, n)
DeliveredOrStalled == AnyOwed ~> (~AnyOwed \/ []Stalled)

-----------------------------------------------------------------------------
(* What comments of the code say, and the code does not do.                *)

(* session.go, NewSession: filterMatch is run "to supply the subscribed    *)
(* clients with the new arriving Events that match the respective clients' *)
(* filters".  Every subscribed client whose peer reads gets what it        *)
(* should, although another client's does not.                             *)
HealthySupplied ==
    \A n \in 1..MaxEvents, c \in Clients :
        Owed(c, n) ~> (~Owed(c, n) \/ conn[c] # "up")

(* session.go, NewEventBroadcaster: "nip-04 requires clients               *)
(* authentication before sending kind:4 encrypted Dms".  No connection     *)
(* that has not authenticated is sent a direct message.                    *)
DmOnlyAuthenticated ==
    \A c \in Clients : \A i \in 1..Len(out[c]) :
        pub[out[c][i].n].kind = "dm" => authed[c]
=============================================================================

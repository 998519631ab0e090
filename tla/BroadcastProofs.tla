--------------------------- MODULE BroadcastProofs ---------------------------
(* Theorems about Broadcast, for all values of its constants.              *)
EXTENDS Broadcast, SequenceTheorems, TLAPS

(* A connection for which an event was chosen may have it: it is not where *)
(* the event came from, and authenticated, if it is the present one of its *)
(* client, when the event is a direct message.                             *)
Fit(x) == /\ x.n \in 1..Len(pub) /\ x.g <= gen[x.c]
          /\ pub[x.n].kind # "auth"
          /\ pub[x.n].src = x.c => by[x.n] < x.g
          /\ pub[x.n].kind = "dm" /\ x.g = gen[x.c] => authed[x.c]

(* What was chosen fits, and all that is sent, waits in chEM or is about   *)
(* to be put there was chosen.                                             *)
Sources   == \A n \in 1..Len(pub) : by[n] <= gen[pub[n].src]
BevPublic == bpc # "recv" => nb \in 1..Len(pub) /\ Bev.kind # "auth"
ChosenFit == \A x \in chosen : Fit(x)
AtChosen  == bpc \in {"direct", "pair"} => Pair1(nb, at) \in chosen
EmChosen  == \A i \in 1..Len(em) : em[i] \in chosen
OutPair(c, i) == [n |-> out[c][i].n, c |-> c, g |-> out[c][i].g]
OutChosen == \A c \in Clients : \A i \in 1..Len(out[c]) : OutPair(c, i) \in chosen

IInv == /\ TypeOK /\ Sources /\ BevPublic
        /\ ChosenFit /\ AtChosen /\ EmChosen /\ OutChosen

LEMMA AppendRoom ==
    ASSUME NEW S, NEW s \in Seq(S), NEW e \in S, NEW n \in 0..Len(s),
           NEW cap \in Nat, Room(s, n, cap)
    PROVE  /\ Append(s, e) \in Seq(S)
           /\ n \in 0..Len(Append(s, e)) /\ Len(Append(s, e)) - n <= cap
BY DEF Room

LEMMA Caps == NewEventCap \in Nat \ {0} /\ ChEMCap \in Nat \ {0} /\ MsgwtCap \in Nat \ {0}
BY BroadcastAssumption

(* The parts of the type invariant.                                        *)
LEMMA PubType ==
    TypeOK => /\ pub \in Seq(Events) /\ by \in Seq(Nat) /\ Len(by) = Len(pub)
              /\ nb \in 0..Len(pub) /\ Len(pub) - nb <= NewEventCap
BY DEF TypeOK
LEMMA BcType ==
    TypeOK => /\ bpc \in {"recv", "visit", "evict", "direct", "pair", "stuck"}
              /\ todo \subseteq Clients /\ ledger \subseteq Clients
              /\ bpc # "recv" => nb > 0
              /\ bpc \in {"evict", "direct", "pair", "stuck"} => at.c \in Clients
BY DEF TypeOK
LEMMA ClientsType ==
    TypeOK => /\ conn \in [Clients -> {"up", "deaf", "dead", "nil"}]
              /\ gen \in [Clients -> Nat]
              /\ subd \in [Clients -> {"no", "filling", "yes", "closing"}]
              /\ authed \in [Clients -> BOOLEAN] /\ old \in [Clients -> BOOLEAN]
BY DEF TypeOK
LEMMA OutType ==
    TypeOK => /\ out \in [Clients -> Seq(Entry)] /\ got \in [Clients -> Nat]
              /\ \A c \in Clients : got[c] <= Len(out[c])
                                    /\ Len(out[c]) - got[c] <= MsgwtCap
BY DEF TypeOK
LEMMA DueType ==
    TypeOK => due \in Seq(SUBSET Clients) /\ Len(due) = Len(pub)
BY DEF TypeOK

(* Start of the relay.                                                     *)
LEMMA InitIInv == Init => IInv
<1> SUFFICES ASSUME Init PROVE IInv
  OBVIOUS
<1> USE BroadcastAssumption, Caps
<1>1. TypeOK
  <2>1. out \in [Clients -> Seq(Entry)] /\ got \in [Clients -> Nat]
        /\ \A c \in Clients : got[c] <= Len(out[c]) /\ Len(out[c]) - got[c] <= MsgwtCap
    BY DEF Init
  <2>2. /\ pub \in Seq(Events) /\ by \in Seq(Nat) /\ em \in Seq(Pair)
        /\ due \in Seq(SUBSET Clients)
        /\ Len(pub) = 0 /\ Len(by) = 0 /\ Len(em) = 0 /\ Len(due) = 0
    BY DEF Init
  <2>3. /\ conn \in [Clients -> {"up", "deaf", "dead", "nil"}]
        /\ gen \in [Clients -> Nat]
        /\ subd \in [Clients -> {"no", "filling", "yes", "closing"}]
        /\ authed \in [Clients -> BOOLEAN] /\ old \in [Clients -> BOOLEAN]
    BY DEF Init
  <2>4. at \in [c : Clients \cup {Nobody}, g : Nat]
    BY DEF Init, NoOne
  <2> QED BY <2>1, <2>2, <2>3, <2>4 DEF Init, TypeOK
<1>2. Sources /\ BevPublic /\ ChosenFit /\ AtChosen /\ EmChosen /\ OutChosen
  BY DEF Init, Sources, BevPublic, ChosenFit, AtChosen, EmChosen, OutChosen
<1> QED BY <1>1, <1>2 DEF IInv

(* Sending to a client with room in msgwt.                                 *)
LEMMA SendType ==
    ASSUME TypeOK, NEW c \in Clients, NEW x \in Entry, Reachable(c),
           out' = [out EXCEPT ![c] = Append(@, x)], got' = got
    PROVE  /\ out' \in [Clients -> Seq(Entry)] /\ got' \in [Clients -> Nat]
           /\ \A d \in Clients : got'[d] <= Len(out'[d])
                                 /\ Len(out'[d]) - got'[d] <= MsgwtCap
<1> USE Caps
<1>1. out[c] \in Seq(Entry) /\ got[c] \in 0..Len(out[c])
  BY DEF TypeOK
<1>2. /\ Append(out[c], x) \in Seq(Entry)
      /\ got[c] \in 0..Len(Append(out[c], x))
      /\ Len(Append(out[c], x)) - got[c] <= MsgwtCap
  BY <1>1, AppendRoom DEF Reachable
<1>3. out' \in [Clients -> Seq(Entry)]
  BY <1>2 DEF TypeOK
<1>4. ASSUME NEW d \in Clients
      PROVE  got'[d] <= Len(out'[d]) /\ Len(out'[d]) - got'[d] <= MsgwtCap
  <2>1. CASE d = c
    BY <1>1, <1>2, <2>1 DEF TypeOK
  <2>2. CASE d # c
    BY <2>2 DEF TypeOK
  <2> QED BY <2>1, <2>2
<1> QED BY <1>3, <1>4 DEF TypeOK

(* The client that the broadcaster looks at, and the pair it decides on.   *)
LEMMA AtType ==
    ASSUME TypeOK, NEW c \in Clients, NEW then, Looks(c, then)
    PROVE  /\ at' \in [c : Clients \cup {Nobody}, g : Nat] /\ at'.c = c
           /\ at'.g = gen[c] /\ todo' \subseteq Clients
           /\ Pair1(nb, at') = [n |-> nb, c |-> c, g |-> gen[c]]
           /\ Pair1(nb, at') \in Pair
<1>1. nb \in Nat /\ gen[c] \in Nat
  BY DEF TypeOK
<1> QED BY <1>1 DEF TypeOK, Looks, Pair1, Pair

LEMMA NoOneType == NoOne \in [c : Clients \cup {Nobody}, g : Nat]
BY DEF NoOne

LEMMA AtPair ==
    ASSUME TypeOK, bpc \in {"direct", "pair"}
    PROVE  /\ Pair1(nb, at) \in Pair /\ at.c \in Clients /\ at.g \in Nat
           /\ [n |-> nb, direct |-> TRUE, g |-> at.g] \in Entry
BY DEF TypeOK, Pair1, Pair, Entry

LEMMA ForgetType ==
    ASSUME TypeOK, NEW c, Forget(c)
    PROVE  due' \in Seq(SUBSET Clients) /\ Len(due') = Len(due)
<1>1. /\ Len(due) \in Nat /\ DOMAIN due = 1..Len(due)
      /\ \A n \in 1..Len(due) : due[n] \ {c} \in SUBSET Clients
  BY DEF TypeOK
<1>2. due' = [n \in 1..Len(due) |-> due[n] \ {c}]
  BY <1>1 DEF Forget
<1> QED BY <1>1, <1>2

(* The broadcaster preserves the types.                                    *)
LEMMA BroadcasterType == IInv /\ Broadcaster => TypeOK'
<1> SUFFICES ASSUME IInv, Broadcaster PROVE TypeOK'
  OBVIOUS
<1> USE Caps, NoOneType
<1>0. TypeOK
  BY DEF IInv
<1>1. CASE BcTake
  <2>1. /\ nb' \in 0..Len(pub) /\ nb' = nb + 1 /\ bpc' \in {"recv", "visit"}
        /\ todo' \subseteq Clients
    <3>1. CASE pub[nb + 1].kind = "auth"
      BY <1>0, <1>1, <3>1, PubType, BcType DEF BcTake
    <3>2. CASE pub[nb + 1].kind # "auth"
      BY <1>0, <1>1, <3>2, PubType, BcType DEF BcTake
    <3> QED BY <3>1, <3>2
  <2>2. UNCHANGED <<pub, by, at, em, matcher, ledger, clients, out, got, chosen, due>>
    BY <1>1 DEF BcTake, newEvent, channels
  <2>3. nb' > 0 /\ Len(pub) - nb' <= NewEventCap
    BY <1>0, <2>1, PubType
  <2> QED BY <1>0, <2>1, <2>2, <2>3 DEF TypeOK, matcher, clients
<1>2. CASE BcEnd
  BY <1>0, <1>2 DEF BcEnd, TypeOK, newEvent, matcher, clients, channels
<1>3. ASSUME NEW c \in Clients, BcSkip(c) PROVE TypeOK'
  BY <1>0, <1>3 DEF BcSkip, TypeOK, newEvent, matcher, clients, channels
<1>4. ASSUME NEW c \in Clients, BcGiveUp(c) PROVE TypeOK'
  <2>1. bpc' = "evict" /\ nb > 0
    BY <1>0, <1>4 DEF BcGiveUp, Looks, Visits, TypeOK
  <2> QED BY <1>0, <1>4, <2>1, AtType
          DEF BcGiveUp, TypeOK, newEvent, matcher, clients, channels
<1>5. ASSUME NEW c \in Clients, BcChoose(c) PROVE TypeOK'
  <2>1. PICK then \in {"direct", "pair"} : Looks(c, then)
    BY <1>5 DEF BcChoose
  <2>2. nb > 0 /\ bpc' \in {"direct", "pair"}
    BY <1>0, <1>5, <2>1 DEF BcChoose, Wanted, Visits, Looks, TypeOK
  <2>3. chosen' \subseteq Pair
    <3>1. chosen \subseteq Pair
      BY <1>0 DEF TypeOK
    <3> QED BY <1>0, <1>5, <2>1, <3>1, AtType DEF BcChoose
  <2> QED BY <1>0, <1>5, <2>1, <2>2, <2>3, AtType
          DEF BcChoose, TypeOK, newEvent, matcher, clients, channels
<1>6. CASE BcEvict
  BY <1>0, <1>6, ForgetType DEF BcEvict, TypeOK, newEvent, matcher, clients, channels
<1>7. CASE BcDirect
  <2>1. at.c \in Clients /\ [n |-> nb, direct |-> TRUE, g |-> at.g] \in Entry
    BY <1>0, <1>7, AtPair DEF BcDirect
  <2>2. /\ out' \in [Clients -> Seq(Entry)] /\ got' \in [Clients -> Nat]
        /\ \A d \in Clients : got'[d] <= Len(out'[d])
                              /\ Len(out'[d]) - got'[d] <= MsgwtCap
    BY <1>0, <1>7, <2>1, SendType DEF BcDirect
  <2>3. nb > 0
    BY <1>0, <1>7 DEF BcDirect, TypeOK
  <2> QED BY <1>0, <1>7, <2>2, <2>3 DEF BcDirect, TypeOK, newEvent, matcher, clients
<1>8. CASE BcPair
  <2>1. Pair1(nb, at) \in Pair
    BY <1>0, <1>8, AtPair DEF BcPair
  <2>2. em' \in Seq(Pair) /\ ne \in 0..Len(em') /\ Len(em') - ne <= ChEMCap
    BY <1>0, <1>8, <2>1, AppendRoom DEF BcPair, TypeOK
  <2>3. nb > 0
    BY <1>0, <1>8 DEF BcPair, TypeOK
  <2> QED BY <1>0, <1>8, <2>2, <2>3 DEF BcPair, TypeOK, newEvent, matcher, clients, channels
<1> QED BY <1>1, <1>2, <1>3, <1>4, <1>5, <1>6, <1>7, <1>8 DEF Broadcaster

(* Publishing, filterMatch and the clients do.                             *)
LEMMA PublishType == ASSUME IInv, NEW e \in Events, Publish(e) PROVE TypeOK'
<1> USE Caps
<1>0. TypeOK
  BY DEF IInv
<1>1. pub' \in Seq(Events) /\ nb \in 0..Len(pub') /\ Len(pub') - nb <= NewEventCap
  BY <1>0, AppendRoom, PubType DEF Publish
<1>2. Audience(e) \in SUBSET Clients
  BY <1>0, BcType DEF Audience
<1>3. due' \in Seq(SUBSET Clients) /\ Len(due') = Len(pub')
  BY <1>0, <1>2, PubType, DueType DEF Publish
<1>4. by' \in Seq(Nat) /\ Len(by') = Len(pub')
  <2>1. gen[e.src] \in Nat
    BY <1>0, BroadcastAssumption, ClientsType DEF Event
  <2> QED BY <1>0, <2>1, PubType DEF Publish
<1> QED BY <1>0, <1>1, <1>3, <1>4 DEF Publish, TypeOK, broadcaster, matcher, clients, channels

LEMMA Current ==
    ASSUME TypeOK, fleft > 0
    PROVE  /\ em[ne] \in Pair /\ ne \in 1..Len(em)
           /\ [n |-> em[ne].n, direct |-> FALSE, g |-> em[ne].g] \in Entry
           /\ em[ne].c \in Clients
<1>1. ne \in 1..Len(em)
  BY DEF TypeOK
<1>2. em[ne] \in Pair
  BY <1>1, ElementOfSeq DEF TypeOK
<1> QED BY <1>1, <1>2 DEF Pair, Entry

LEMMA MatcherType == IInv /\ (Matcher \/ FmTimeout) => TypeOK'
<1> SUFFICES ASSUME IInv, Matcher \/ FmTimeout PROVE TypeOK'
  OBVIOUS
<1> USE Caps
<1>0. TypeOK /\ EmChosen /\ ChosenFit
  BY DEF IInv
<1>1. CASE FmTake
  <2>0. /\ ne < Len(em) /\ ne' = ne + 1 /\ fleft = 0
        /\ UNCHANGED <<pub, by, broadcaster, em, held, ledger, clients, out, got, chosen, due>>
    BY <1>1 DEF FmTake, newEvent, channels
  <2>1. ne + 1 \in 1..Len(em) /\ ne' \in 0..Len(em) /\ Len(em) - ne' <= ChEMCap
    BY <1>0, <2>0 DEF TypeOK
  <2>2. em[ne + 1] \in Pair /\ em[ne + 1].n \in 1..Len(pub)
    BY <1>0, <2>1, ElementOfSeq DEF TypeOK, EmChosen, ChosenFit, Fit
  <2>3. pub[em[ne + 1].n] \in Events /\ em[ne + 1].c \in Clients
    BY <1>0, <2>2, ElementOfSeq DEF TypeOK, Pair
  <2>4. Matching[pub[em[ne + 1].n], em[ne + 1].c] \in Nat
    BY <2>3, BroadcastAssumption
  <2>5. fleft' \in Nat
    <3>1. Sends(em[ne + 1]) \in Nat
      BY <2>4 DEF Sends
    <3> QED BY <1>1, <3>1 DEF FmTake
  <2>6. held = 0
    BY <1>0, <2>0 DEF TypeOK
  <2>7. ne' > 0 /\ held' \in 0..fleft'
    BY <2>0, <2>1, <2>5, <2>6
  <2> QED BY <1>0, <2>0, <2>1, <2>5, <2>7 DEF TypeOK, broadcaster, clients
<1>2. CASE FmSend
  <2>0. fleft > 0 /\ fleft' \in Nat /\ held \in 0..fleft'
    BY <1>0, <1>2 DEF FmSend, TypeOK
  <2>2. [n |-> em[ne].n, direct |-> FALSE, g |-> em[ne].g] \in Entry /\ em[ne].c \in Clients
    BY <1>0, <2>0, Current
  <2>3. /\ out' \in [Clients -> Seq(Entry)] /\ got' \in [Clients -> Nat]
        /\ \A d \in Clients : got'[d] <= Len(out'[d])
                              /\ Len(out'[d]) - got'[d] <= MsgwtCap
    BY <1>0, <1>2, <2>2, SendType DEF FmSend
  <2>4. ne > 0
    BY <1>0, <2>0 DEF TypeOK
  <2> QED BY <1>0, <1>2, <2>0, <2>3, <2>4 DEF FmSend, TypeOK, newEvent, broadcaster, clients
<1>3. CASE FmTimeout
  <2>1. fleft' \in Nat /\ ne > 0 /\ held \in 0..fleft'
    BY <1>0, <1>3 DEF FmTimeout, TypeOK
  <2>2. /\ Len(due) \in Nat /\ DOMAIN due = 1..Len(due)
        /\ \A n \in 1..Len(due) : due[n] \in SUBSET Clients
    BY <1>0 DEF TypeOK
  <2>3. /\ due' = [due EXCEPT ![em[ne].n] = @ \ {em[ne].c}]
        /\ UNCHANGED <<pub, by, broadcaster, em, ne, held, ledger, clients, out, got, chosen>>
    BY <1>3 DEF FmTimeout, newEvent, channels
  <2>4. due' = [n \in 1..Len(due) |->
                  IF n = em[ne].n THEN due[n] \ {em[ne].c} ELSE due[n]]
    BY <2>2, <2>3
  <2>5. due' \in Seq(SUBSET Clients) /\ Len(due') = Len(due)
    <3>1. \A n \in 1..Len(due) :
            (IF n = em[ne].n THEN due[n] \ {em[ne].c} ELSE due[n]) \in SUBSET Clients
      BY <2>2
    <3> HIDE DEF TypeOK
    <3> QED BY <2>2, <2>4, <3>1
  <2> QED BY <1>0, <2>1, <2>3, <2>5 DEF TypeOK, broadcaster, clients
<1> QED BY <1>1, <1>2, <1>3 DEF Matcher

LEMMA ClientType == ASSUME IInv, NEW c \in Clients, WriterTakes(c) \/ Client(c)
                    PROVE  TypeOK'
<1> USE Caps
<1>0. TypeOK
  BY DEF IInv
<1>1. CASE WriterTakes(c)
  <2>1. /\ got' \in [Clients -> Nat]
        /\ \A d \in Clients : got'[d] <= Len(out[d]) /\ Len(out[d]) - got'[d] <= MsgwtCap
    BY <1>0, <1>1, OutType DEF WriterTakes
  <2> QED BY <1>0, <1>1, <2>1 DEF WriterTakes, TypeOK, newEvent, broadcaster, matcher, clients
<1>2. CASE WriterEnds(c)
  BY <1>0, <1>2, ForgetType DEF WriterEnds, TypeOK, newEvent, broadcaster, matcher, channels
<1>3. CASE RemoveFromLedger(c)
  BY <1>0, <1>3 DEF RemoveFromLedger, TypeOK, newEvent, matcher, clients, channels
<1>4. CASE RemoveChannel(c)
  BY <1>0, <1>4 DEF RemoveChannel, TypeOK, newEvent, broadcaster, matcher, channels
<1>5. CASE Register(c)
  <2>1. todo' \subseteq Clients /\ ledger' \subseteq Clients
    BY <1>0, <1>5 DEF Register, TypeOK
  <2>2. /\ conn' \in [Clients -> {"up", "deaf", "dead", "nil"}] /\ gen' \in [Clients -> Nat]
        /\ authed' \in [Clients -> BOOLEAN] /\ old' \in [Clients -> BOOLEAN]
    BY <1>0, <1>5, ClientsType DEF Register
  <2>3. /\ out' \in [Clients -> Seq(Entry)] /\ got' \in [Clients -> Nat]
        /\ \A d \in Clients : got'[d] <= Len(out'[d])
                              /\ Len(out'[d]) - got'[d] <= MsgwtCap
    BY <1>0, <1>5 DEF Register, TypeOK
  <2>4. held' \in 0..fleft /\ fleft \in Nat
    BY <1>0, <1>5 DEF Register, TypeOK
  <2>5. bpc' \in {"recv", "visit", "evict", "direct", "pair", "stuck"}
        /\ (bpc' # "recv" => nb > 0)
        /\ (bpc' \in {"evict", "direct", "pair", "stuck"} => at.c \in Clients)
    BY <1>0, <1>5 DEF Register, TypeOK
  <2>6. UNCHANGED <<pub, by, nb, at, em, ne, fleft, subd, chosen, due>>
    BY <1>5 DEF Register, newEvent
  <2> QED BY <1>0, <2>1, <2>2, <2>3, <2>4, <2>5, <2>6 DEF TypeOK
<1>6. CASE Subscribe(c)
  BY <1>0, <1>6, ForgetType DEF Subscribe, TypeOK, newEvent, broadcaster, matcher, channels
<1>7. CASE Unsubscribe(c)
  BY <1>0, <1>7, ForgetType DEF Unsubscribe, TypeOK, newEvent, broadcaster, matcher, channels
<1>8. CASE SetFilters(c)
  BY <1>0, <1>8 DEF SetFilters, TypeOK, newEvent, broadcaster, matcher, channels
<1>9. CASE Authenticate(c)
  BY <1>0, <1>9 DEF Authenticate, TypeOK, newEvent, broadcaster, matcher, channels
<1>10. CASE GrowOld(c)
  BY <1>0, <1>10 DEF GrowOld, TypeOK, newEvent, broadcaster, matcher, channels
<1>11. CASE SsEvict(c)
  BY <1>0, <1>11, ForgetType DEF SsEvict, TypeOK, newEvent, matcher, clients, channels
<1>12. CASE PeerStops(c)
  BY <1>0, <1>12 DEF PeerStops, TypeOK, newEvent, broadcaster, matcher, channels
<1> QED BY <1>1, <1>2, <1>3, <1>4, <1>5, <1>6, <1>7, <1>8, <1>9, <1>10, <1>11, <1>12
        DEF Client

LEMMA TypeStep == IInv /\ [Next]_vars => TypeOK'
<1> SUFFICES ASSUME IInv, [Next]_vars PROVE TypeOK'
  OBVIOUS
<1>1. CASE UNCHANGED vars
  BY <1>1 DEF IInv, TypeOK, vars, newEvent, broadcaster, matcher, clients, channels
<1> QED BY <1>1, PublishType, BroadcasterType, MatcherType, ClientType DEF Next

-----------------------------------------------------------------------------
(* Which actions touch the variables the rest of the invariant is about.   *)
LEMMA WhoAuthed ==
    ASSUME [Next]_vars
    PROVE  \/ UNCHANGED <<gen, authed>>
           \/ \E c \in Clients : Register(c) \/ Authenticate(c)
BY DEF Next, vars, Publish, Broadcaster, BcTake, BcEnd, BcSkip, BcGiveUp, BcChoose,
       BcEvict, BcDirect, BcPair, Matcher, FmTake, FmSend, FmTimeout, WriterTakes,
       Client, PeerStops, WriterEnds, RemoveFromLedger, RemoveChannel, Subscribe,
       Unsubscribe, SetFilters, GrowOld, SsEvict, clients

LEMMA WhoPublishes ==
    ASSUME [Next]_vars
    PROVE  UNCHANGED <<pub, by>> \/ \E e \in Events : Publish(e)
BY DEF Next, vars, Broadcaster, BcTake, BcEnd, BcSkip, BcGiveUp, BcChoose,
       BcEvict, BcDirect, BcPair, Matcher, FmTake, FmSend, FmTimeout, WriterTakes,
       Client, PeerStops, WriterEnds, RemoveFromLedger, RemoveChannel, Register,
       Subscribe, Unsubscribe, SetFilters, Authenticate, GrowOld, SsEvict, newEvent

LEMMA WhoChooses ==
    ASSUME [Next]_vars
    PROVE  UNCHANGED chosen \/ \E c \in Clients : BcChoose(c)
BY DEF Next, vars, Publish, Broadcaster, BcTake, BcEnd, BcSkip, BcGiveUp,
       BcEvict, BcDirect, BcPair, Matcher, FmTake, FmSend, FmTimeout, WriterTakes,
       Client, PeerStops, WriterEnds, RemoveFromLedger, RemoveChannel, Register,
       Subscribe, Unsubscribe, SetFilters, Authenticate, GrowOld, SsEvict

LEMMA WhoSends ==
    ASSUME [Next]_vars
    PROVE  \/ UNCHANGED out \/ BcDirect \/ FmSend
           \/ \E c \in Clients : Register(c)
BY DEF Next, vars, Publish, Broadcaster, BcTake, BcEnd, BcSkip, BcGiveUp, BcChoose,
       BcEvict, BcPair, Matcher, FmTake, FmTimeout, WriterTakes,
       Client, PeerStops, WriterEnds, RemoveFromLedger, RemoveChannel,
       Subscribe, Unsubscribe, SetFilters, Authenticate, GrowOld, SsEvict, channels

LEMMA WhoPairs ==
    ASSUME [Next]_vars
    PROVE  UNCHANGED em \/ BcPair
BY DEF Next, vars, Publish, Broadcaster, BcTake, BcEnd, BcSkip, BcGiveUp, BcChoose,
       BcEvict, BcDirect, Matcher, FmTake, FmSend, FmTimeout, WriterTakes,
       Client, PeerStops, WriterEnds, RemoveFromLedger, RemoveChannel, Register,
       Subscribe, Unsubscribe, SetFilters, Authenticate, GrowOld, SsEvict

(* The broadcaster takes an event, or keeps it.                            *)
LEMMA WhoLooks ==
    ASSUME [Next]_vars
    PROVE  \/ BcTake \/ UNCHANGED <<nb, bpc, at>>
           \/ UNCHANGED <<nb, at>> /\ bpc = "direct" /\ bpc' \in {"direct", "stuck"}
           \/ nb' = nb /\ bpc = "visit" /\ bpc' \in {"recv", "evict"}
           \/ nb' = nb /\ bpc # "recv" /\ bpc' = "visit"
           \/ \E c \in Clients : BcChoose(c)
BY DEF Next, vars, broadcaster, Publish, Broadcaster, BcEnd, BcSkip, BcGiveUp,
       BcEvict, BcDirect, BcPair, Matcher, FmTake, FmSend, FmTimeout, WriterTakes,
       Client, PeerStops, WriterEnds, RemoveFromLedger, RemoveChannel, Register,
       Subscribe, Unsubscribe, SetFilters, Authenticate, GrowOld, SsEvict, Visits, Looks

-----------------------------------------------------------------------------
(* NewEvent's history and the numbers of the connections only grow, and an *)
(* authentication is lost only with the connection.                        *)
LEMMA History ==
    ASSUME TypeOK, [Next]_vars
    PROVE  /\ \A n \in 1..Len(pub) :
                 n \in 1..Len(pub') /\ pub'[n] = pub[n] /\ by'[n] = by[n]
           /\ \A c \in Clients : gen'[c] \in Nat /\ gen[c] <= gen'[c]
           /\ \A c \in Clients : authed[c] /\ gen'[c] = gen[c] => authed'[c]
<1>1. \A n \in 1..Len(pub) : n \in 1..Len(pub') /\ pub'[n] = pub[n] /\ by'[n] = by[n]
  <2>1. CASE UNCHANGED <<pub, by>>
    BY <2>1
  <2>2. ASSUME NEW e \in Events, Publish(e)
        PROVE  \A n \in 1..Len(pub) :
                 n \in 1..Len(pub') /\ pub'[n] = pub[n] /\ by'[n] = by[n]
    BY <2>2, PubType DEF Publish
  <2> QED BY <2>1, <2>2, WhoPublishes
<1>2. /\ \A c \in Clients : gen'[c] \in Nat /\ gen[c] <= gen'[c]
      /\ \A c \in Clients : authed[c] /\ gen'[c] = gen[c] => authed'[c]
  <2>1. CASE UNCHANGED <<gen, authed>>
    BY <2>1 DEF TypeOK
  <2>2. ASSUME NEW d \in Clients, Register(d)
        PROVE  <1>2!1 /\ <1>2!2
    BY <2>2, ClientsType DEF Register
  <2>3. ASSUME NEW d \in Clients, Authenticate(d)
        PROVE  <1>2!1 /\ <1>2!2
    BY <2>3, ClientsType DEF Authenticate
  <2> QED BY <2>1, <2>2, <2>3, WhoAuthed
<1> QED BY <1>1, <1>2

(* So what was fit stays fit.                                              *)
LEMMA FitStays ==
    ASSUME TypeOK, [Next]_vars, NEW x \in Pair, Fit(x)
    PROVE  Fit(x)'
<1>1. x.c \in Clients /\ x.n \in 1..Len(pub) /\ x.g \in Nat /\ gen[x.c] \in Nat
  BY DEF Pair, Fit, TypeOK
<1>2. /\ x.n \in 1..Len(pub') /\ pub'[x.n] = pub[x.n] /\ by'[x.n] = by[x.n]
      /\ gen'[x.c] \in Nat /\ gen[x.c] <= gen'[x.c]
      /\ authed[x.c] /\ gen'[x.c] = gen[x.c] => authed'[x.c]
  BY <1>1, History
<1>3. x.g <= gen'[x.c] /\ (x.g = gen'[x.c] => gen'[x.c] = gen[x.c])
  BY <1>1, <1>2 DEF Fit
<1> QED BY <1>2, <1>3 DEF Fit

LEMMA SourcesStep == IInv /\ [Next]_vars => Sources'
<1> SUFFICES ASSUME IInv, [Next]_vars, NEW n \in 1..Len(pub')
             PROVE  by'[n] <= gen'[pub'[n].src]
  BY DEF Sources
<1>0. TypeOK /\ Sources
  BY DEF IInv
<1>1. CASE n \in 1..Len(pub)
  <2>1. pub[n].src \in Clients /\ by[n] \in Nat
    BY <1>0, <1>1, ElementOfSeq, PubType, BroadcastAssumption DEF Event
  <2>2. gen[pub[n].src] \in Nat
    BY <1>0, <2>1, ClientsType
  <2> QED BY <1>0, <1>1, <2>1, <2>2, History DEF Sources
<1>2. CASE n \notin 1..Len(pub)
  <2>1. PICK e \in Events : Publish(e)
    BY <1>2, WhoPublishes
  <2>2. n = Len(pub) + 1 /\ pub'[n] = e /\ by'[n] = gen[e.src] /\ gen' = gen
    BY <1>0, <1>2, <2>1, PubType DEF Publish, clients
  <2>3. gen[e.src] \in Nat
    BY <1>0, BroadcastAssumption, ClientsType DEF Event
  <2> QED BY <2>2, <2>3
<1> QED BY <1>1, <1>2

LEMMA BevStep == IInv /\ [Next]_vars => BevPublic'
<1> SUFFICES ASSUME IInv, [Next]_vars, bpc' # "recv"
             PROVE  nb' \in 1..Len(pub') /\ pub'[nb'].kind # "auth"
  BY DEF BevPublic, Bev
<1>0. TypeOK /\ BevPublic
  BY DEF IInv
<1>1. ASSUME bpc # "recv", nb' = nb PROVE nb' \in 1..Len(pub') /\ pub'[nb'].kind # "auth"
  <2>1. nb \in 1..Len(pub) /\ pub[nb].kind # "auth"
    BY <1>0, <1>1 DEF BevPublic, Bev
  <2> QED BY <1>0, <1>1, <2>1, History
<1>2. CASE BcTake
  <2>1. nb + 1 \in 1..Len(pub) /\ nb' = nb + 1 /\ UNCHANGED pub
    BY <1>0, <1>2 DEF BcTake, TypeOK, newEvent
  <2>2. pub[nb + 1].kind # "auth"
    BY <1>2 DEF BcTake
  <2> QED BY <2>1, <2>2
<1>3. ASSUME NEW c \in Clients, BcChoose(c) PROVE bpc # "recv" /\ nb' = nb
  BY <1>3 DEF BcChoose, Wanted, Visits
<1> QED BY <1>1, <1>2, <1>3, WhoLooks

-----------------------------------------------------------------------------
(* What the broadcaster decides for is fit.                                *)
LEMMA WantedFit ==
    ASSUME IInv, NEW c \in Clients, Wanted(c)
    PROVE  Fit([n |-> nb, c |-> c, g |-> gen[c]])
<1>1. TypeOK /\ Sources /\ nb \in 1..Len(pub) /\ pub[nb].kind # "auth"
  BY DEF IInv, Wanted, Visits, BevPublic, Bev
<1>2. gen[c] \in Nat /\ by[nb] \in Nat
  BY <1>1, ElementOfSeq DEF TypeOK
<1>3. pub[nb].src = c => by[nb] < gen[c]
  BY <1>1, <1>2 DEF Wanted, Own, Sources
<1> QED BY <1>1, <1>2, <1>3 DEF Wanted, Bev, Fit

LEMMA ChosenStep == IInv /\ [Next]_vars => ChosenFit'
<1> SUFFICES ASSUME IInv, [Next]_vars, NEW x \in chosen' PROVE Fit(x)'
  BY DEF ChosenFit
<1>0. TypeOK /\ ChosenFit
  BY DEF IInv
<1>1. CASE x \in chosen
  BY <1>0, <1>1, FitStays DEF ChosenFit, TypeOK
<1>2. CASE x \notin chosen
  <2>1. PICK c \in Clients : BcChoose(c)
    BY <1>2, WhoChooses
  <2>2. PICK then : Looks(c, then)
    BY <2>1 DEF BcChoose
  <2>3. x = [n |-> nb, c |-> c, g |-> gen[c]] /\ x \in Pair
    BY <1>0, <1>2, <2>1, <2>2, AtType DEF BcChoose
  <2>4. Fit(x)
    BY <2>1, <2>3, WantedFit DEF BcChoose
  <2> QED BY <1>0, <2>3, <2>4, FitStays
<1> QED BY <1>1, <1>2

LEMMA ChosenGrows == ASSUME [Next]_vars PROVE chosen \subseteq chosen'
BY WhoChooses DEF BcChoose

LEMMA AtStep == IInv /\ [Next]_vars => AtChosen'
<1> SUFFICES ASSUME IInv, [Next]_vars, bpc' \in {"direct", "pair"}
             PROVE  Pair1(nb', at') \in chosen'
  BY DEF AtChosen, Pair1
<1>0. AtChosen
  BY DEF IInv
<1>1. ASSUME UNCHANGED <<nb, at>>, bpc \in {"direct", "pair"}
      PROVE  Pair1(nb', at') \in chosen'
  BY <1>0, <1>1, ChosenGrows DEF AtChosen
<1>2. CASE BcTake
  BY <1>1, <1>2 DEF BcTake
<1>3. ASSUME NEW c \in Clients, BcChoose(c) PROVE Pair1(nb', at') \in chosen'
  BY <1>3 DEF BcChoose
<1> QED BY <1>1, <1>2, <1>3, WhoLooks

LEMMA EmStep == IInv /\ [Next]_vars => EmChosen'
<1> SUFFICES ASSUME IInv, [Next]_vars, NEW i \in 1..Len(em') PROVE em'[i] \in chosen'
  BY DEF EmChosen
<1>0. TypeOK /\ EmChosen /\ AtChosen
  BY DEF IInv
<1>1. CASE UNCHANGED em
  BY <1>0, <1>1, ChosenGrows DEF EmChosen
<1>2. CASE BcPair
  <2>1. em' = Append(em, Pair1(nb, at)) /\ em \in Seq(Pair)
    BY <1>0, <1>2 DEF BcPair, TypeOK
  <2>2. CASE i = Len(em) + 1
    BY <1>0, <1>2, <2>1, <2>2, ChosenGrows DEF BcPair, AtChosen
  <2>3. CASE i # Len(em) + 1
    BY <1>0, <2>1, <2>3, ChosenGrows DEF EmChosen
  <2> QED BY <2>2, <2>3
<1> QED BY <1>1, <1>2, WhoPairs

(* Appending an entry that was chosen to one msgwt.                        *)
LEMMA SendChosen ==
    ASSUME TypeOK, OutChosen, NEW c \in Clients, NEW x \in Entry,
           out' = [out EXCEPT ![c] = Append(@, x)], chosen \subseteq chosen',
           [n |-> x.n, c |-> c, g |-> x.g] \in chosen
    PROVE  OutChosen'
<1> SUFFICES ASSUME NEW d \in Clients, NEW i \in 1..Len(out'[d])
             PROVE  [n |-> out'[d][i].n, c |-> d, g |-> out'[d][i].g] \in chosen
  BY DEF OutChosen, OutPair
<1>1. CASE d # c
  BY <1>1 DEF TypeOK, OutChosen, OutPair
<1>2. CASE d = c
  <2>1. out'[d] = Append(out[d], x) /\ out[d] \in Seq(Entry)
    BY <1>2 DEF TypeOK
  <2>2. CASE i = Len(out[d]) + 1
    BY <1>2, <2>1, <2>2
  <2>3. CASE i # Len(out[d]) + 1
    <3>1. i \in 1..Len(out[d]) /\ out'[d][i] = out[d][i]
      BY <2>1, <2>3
    <3> QED BY <3>1 DEF OutChosen, OutPair
  <2> QED BY <2>2, <2>3
<1> QED BY <1>1, <1>2

LEMMA OutStep == IInv /\ [Next]_vars => OutChosen'
<1> SUFFICES ASSUME IInv, [Next]_vars PROVE OutChosen'
  OBVIOUS
<1>0. TypeOK /\ AtChosen /\ EmChosen /\ OutChosen
  BY DEF IInv
<1>1. CASE UNCHANGED out
  BY <1>0, <1>1, ChosenGrows DEF OutChosen, OutPair
<1>2. CASE BcDirect
  <2>1. Pair1(nb, at) = [n |-> nb, c |-> at.c, g |-> at.g] /\ Pair1(nb, at) \in chosen
    BY <1>0, <1>2 DEF BcDirect, AtChosen, Pair1
  <2>2. at.c \in Clients /\ [n |-> nb, direct |-> TRUE, g |-> at.g] \in Entry
    BY <1>0, <1>2, AtPair DEF BcDirect
  <2> QED BY <1>0, <1>2, <2>1, <2>2, SendChosen, ChosenGrows DEF BcDirect
<1>3. CASE FmSend
  <2>0. fleft > 0
    BY <1>0, <1>3 DEF FmSend, TypeOK
  <2>1. /\ em[ne] \in Pair /\ em[ne] \in chosen /\ em[ne].c \in Clients
        /\ [n |-> em[ne].n, direct |-> FALSE, g |-> em[ne].g] \in Entry
    BY <1>0, <2>0, Current DEF EmChosen
  <2>2. em[ne] = [n |-> em[ne].n, c |-> em[ne].c, g |-> em[ne].g]
    BY <2>1 DEF Pair
  <2> QED BY <1>0, <1>3, <2>1, <2>2, SendChosen, ChosenGrows DEF FmSend
<1>4. ASSUME NEW c \in Clients, Register(c) PROVE OutChosen'
  <2>1. /\ \A d \in Clients : out'[d] = out[d] \/ out'[d] = <<>>
        /\ chosen' = chosen
    BY <1>0, <1>4 DEF Register, TypeOK
  <2> QED BY <1>0, <2>1 DEF OutChosen, OutPair
<1> QED BY <1>1, <1>2, <1>3, <1>4, WhoSends

-----------------------------------------------------------------------------
(* The invariant of the broadcast, for any clients and any interleaving of *)
(* registration, subscription, authentication and removal with it.         *)
THEOREM Invariance == Spec => []IInv
<1>1. Init => IInv
  BY InitIInv
<1>2. IInv /\ [Next]_vars => IInv'
  BY TypeStep, SourcesStep, BevStep, ChosenStep, AtStep, EmStep, OutStep DEF IInv
<1> QED BY <1>1, <1>2, PTL DEF Spec

(* Types, and the capacities of NewEvent, chEM and every msgwt.            *)
THEOREM TypeCorrect == Spec => []TypeOK
<1>1. IInv => TypeOK
  BY DEF IInv
<1> QED BY <1>1, Invariance, PTL

(* No connection is ever sent an event that came from it, an AUTH event,   *)
(* or, unless it authenticated, a direct message that it was chosen for;   *)
(* also when clients are given to other connections with pairs for them in *)
(* chEM.                                                                   *)
THEOREM BroadcastLegal == Spec => []OnlyLegal
<1>1. ASSUME IInv, NEW c \in Clients, NEW i \in 1..Len(out[c])
      PROVE  Legal(out[c][i], c)
  <2> DEFINE x == OutPair(c, i)
  <2>1. x.c = c /\ x.n = out[c][i].n /\ x.g = out[c][i].g
    BY DEF OutPair
  <2>2. x \in Pair /\ Fit(x)
    BY <1>1 DEF IInv, TypeOK, OutChosen, ChosenFit
  <2> HIDE DEF x
  <2>3. /\ x.n \in 1..Len(pub) /\ x.g \in Nat /\ by[x.n] \in Nat
        /\ gen[c] \in Nat
    BY <1>1, <2>2, ElementOfSeq, PubType, ClientsType DEF IInv, Fit, Pair
  <2>4. x.n \in 1..Len(pub) /\ pub[x.n].kind # "auth" /\ ~Own(x.n, c)
        /\ (pub[x.n].kind = "dm" /\ x.g = gen[c] => authed[c])
    BY <2>1, <2>2, <2>3 DEF Fit, Own
  <2> QED BY <2>1, <2>4 DEF Legal
<1>2. IInv => OnlyLegal
  BY <1>1 DEF OnlyLegal
<1> QED BY <1>2, Invariance, PTL
=============================================================================

-------------------------- MODULE ClientConnProofs --------------------------
(* Theorems about ClientConn, for all values of its constants.             *)
EXTENDS ClientConn, SequenceTheorems, TLAPS

(* The steps of the handler of message n.                                  *)
StepsOf(n) == {s \in Steps : s.re = n}

-----------------------------------------------------------------------------
(* Lemmas about sequences and scripts.                                     *)

(* Sequences of at most three elements have the type of their elements.    *)
LEMMA ShortSeq ==
    ASSUME NEW S
    PROVE  /\ <<>> \in Seq(S)
           /\ \A a \in S : <<a>> \in Seq(S)
           /\ \A a, b \in S : <<a, b>> \in Seq(S)
           /\ \A a, b, c \in S : <<a, b, c>> \in Seq(S)
OBVIOUS

(* The constructors of steps build steps of their message.                 *)
LEMMA StepTypes ==
    ASSUME NEW n \in Nat
    PROVE  /\ \A o \in OpNames : Op(o, n) \in StepsOf(n)
           /\ \A x \in {"OK", "NotOK", "NOTICE", "PONG", "EOSE"} :
                Put(n, x) \in StepsOf(n)
           /\ \A b \in SUBSET (1..8) : Fetch(n, b) \in StepsOf(n)
BY DEF Op, Put, Fetch, StepsOf, Steps, OpNames

(* handlerEventMsgs sends only answers to its own message.                 *)
LEMMA EventScript ==
    ASSUME NEW n \in Nat, NEW m, NEW res
    PROVE  handlerEventMsgs(n, m, res) \in Seq(StepsOf(n))
<1> DEFINE S == StepsOf(n)
<1>1. /\ Put(n, "OK") \in S /\ Put(n, "NotOK") \in S /\ Put(n, "NOTICE") \in S
      /\ Op("errFM", n) \in S /\ Op("store", n) \in S /\ Op("publish", n) \in S
  BY StepTypes DEF OpNames
<1> HIDE DEF S
<1>2. StoreSteps(n, res) \in Seq(S)
  BY <1>1, ShortSeq DEF StoreSteps
<1>3. PublishSteps(n, m) \in Seq(S)
  BY <1>1, ShortSeq DEF PublishSteps
<1>4. PublishSteps(n, m) \o <<Put(n, "OK")>> \in Seq(S)
  BY <1>1, <1>3, ShortSeq, ConcatProperties
<1>5. <<Put(n, "NotOK"), Op("errFM", n)>> \in Seq(S)
  BY <1>1, ShortSeq
<1>6. <<Put(n, "NOTICE"), Op("errFM", n)>> \in Seq(S)
  BY <1>1, ShortSeq
<1>7. <<Put(n, "NOTICE"), Put(n, "NotOK")>> \in Seq(S)
  BY <1>1, ShortSeq
<1>8. StoreSteps(n, res) \o
            (IF res \in {"stored", "skipped"}
             THEN PublishSteps(n, m) \o <<Put(n, "OK")>>
             ELSE <<Put(n, "NotOK"), Op("errFM", n)>>) \in Seq(S)
  BY <1>2, <1>4, <1>5, ConcatProperties
<1>9. handlerEventMsgs(n, m, res) \in Seq(S)
  BY <1>5, <1>6, <1>7, <1>8 DEF handlerEventMsgs
<1> QED BY <1>9 DEF S

(* So do the REQ, CLOSE and AUTH handlers.                                 *)
LEMMA OtherScripts ==
    ASSUME NEW n \in Nat, NEW m \in Message, NEW failing
    PROVE  /\ handlerReqMsgs(n, m, failing) \in Seq(StepsOf(n))
           /\ handlerCloseSubsMsgs(n, m) \in Seq(StepsOf(n))
           /\ handlerAuthMsgs(n, m) \in Seq(StepsOf(n))
<1> DEFINE S == StepsOf(n)
<1>0. (1..m.nf) \ failing \in SUBSET (1..8)
  BY DEF Message
<1>1. /\ Put(n, "OK") \in S /\ Put(n, "NotOK") \in S /\ Put(n, "NOTICE") \in S
      /\ Put(n, "EOSE") \in S /\ Fetch(n, (1..m.nf) \ failing) \in S
      /\ Op("errFM", n) \in S /\ Op("sub", n) \in S /\ Op("unsub", n) \in S
      /\ Op("auth", n) \in S
  BY <1>0, StepTypes DEF OpNames
<1> HIDE DEF S
<1>2. SubscriptionSuplier(n, m, failing) \in Seq(S)
  BY <1>1, ShortSeq, ConcatProperties DEF SubscriptionSuplier
<1>3. <<Op("sub", n), Put(n, "NOTICE")>> \in Seq(S)
  BY <1>1, ShortSeq
<1>4. <<Put(n, "NOTICE"), Op("errFM", n)>> \in Seq(S)
  BY <1>1, ShortSeq
<1>5. handlerReqMsgs(n, m, failing) \in Seq(S)
  BY <1>2, <1>3, <1>4, ConcatProperties DEF handlerReqMsgs
<1>6. (IF m.how = "ok" /\ m.sid = sub THEN <<Op("unsub", n)>> ELSE <<>>) \in Seq(S)
  BY <1>1, ShortSeq
<1>7. handlerCloseSubsMsgs(n, m) \in Seq(S)
  BY <1>4, <1>6, ConcatProperties DEF handlerCloseSubsMsgs
<1>8. /\ <<Put(n, "NotOK"), Put(n, "NotOK"), Op("errFM", n)>> \in Seq(S)
      /\ <<Put(n, "NotOK")>> \in Seq(S)
      /\ <<Put(n, "NOTICE"), Put(n, "NotOK"), Op("errFM", n)>> \in Seq(S)
      /\ <<Op("auth", n), Put(n, "OK")>> \in Seq(S)
      /\ <<Put(n, "NotOK"), Op("errFM", n)>> \in Seq(S)
  BY <1>1, ShortSeq
<1>9. handlerAuthMsgs(n, m) \in Seq(S)
  BY <1>8 DEF handlerAuthMsgs
<1> QED BY <1>5, <1>7, <1>9 DEF S

(* A script only holds steps of the message it answers.                    *)
LEMMA ScriptType ==
    ASSUME NEW n \in Nat, NEW m \in Message, NEW res, NEW failing
    PROVE  Script(n, m, res, failing) \in Seq(StepsOf(n))
<1> DEFINE S == StepsOf(n)
<1>1. /\ Put(n, "NOTICE") \in S /\ Put(n, "PONG") \in S /\ Op("errFM", n) \in S
  BY StepTypes DEF OpNames
<1>2. handlerEventMsgs(n, m, res) \in Seq(S)
  BY EventScript
<1>3. /\ handlerReqMsgs(n, m, failing) \in Seq(S)
      /\ handlerCloseSubsMsgs(n, m) \in Seq(S)
      /\ handlerAuthMsgs(n, m) \in Seq(S)
  BY OtherScripts
<1> HIDE DEF S
<1>4. /\ <<>> \in Seq(S)
      /\ <<Put(n, "NOTICE")>> \in Seq(S)
      /\ <<Put(n, "PONG")>> \in Seq(S)
      /\ <<Put(n, "NOTICE"), Op("errFM", n)>> \in Seq(S)
  BY <1>1, ShortSeq
<1>5. dispatchNostrMsgs(n, m, res, failing) \in Seq(S)
  BY <1>2, <1>3, <1>4 DEF dispatchNostrMsgs
<1>6. Script(n, m, res, failing) \in Seq(S)
  BY <1>4, <1>5 DEF Script
<1> QED BY <1>6 DEF S

-----------------------------------------------------------------------------
(* The inductive invariant.                                                *)

(* The handler that runs answers the message taken last.                   *)
TodoInv == todo \in Seq(StepsOf(h)) /\ (todo # <<>> => h > 0)

(* The reader cancels the context before it waits, and passes wg.Wait()    *)
(* only when the others ended; a goroutine that left its loop runs no      *)
(* handler.                                                                *)
ControlInv ==
    /\ rpc \notin {"read", "offer"} => cancelled
    /\ rpc \in {"handover", "stuck", "done"} => wpc = "done" /\ dpc = "done"
    /\ dpc # "recv" => todo = <<>>

(* No reply runs ahead of the dispatcher.                                  *)
OrderInv == /\ \A i \in 1..Len(out) : out[i].re <= h
            /\ RepliesInOrder

IInv == TypeOK /\ TodoInv /\ ControlInv /\ OrderInv /\ NoSubNoFilters

LEMMA GreetingType == Greeting \in Seq(Reply) /\ Len(Greeting) <= 1
                      /\ \A i \in 1..Len(Greeting) : Greeting[i].re = 0
<1> DEFINE r == Reply1(0, IF access = "authenticated" THEN "AUTH"
                          ELSE "NOTICE", 0)
<1>1. r \in Reply /\ r.re = 0
  BY DEF Reply, Reply1
<1> HIDE DEF r
<1>2. CASE access = "public"
  BY <1>2 DEF Greeting
<1>3. CASE access # "public"
  <2>1. Greeting = <<r>>
    BY <1>3 DEF Greeting, r
  <2> QED BY <2>1, <1>1
<1> QED BY <1>2, <1>3

(* Register establishes the invariant.                                     *)
LEMMA InitIInv == Init => IInv
<1> SUFFICES ASSUME Init PROVE IInv
  OBVIOUS
<1> USE CapAssumption, DataAssumption, GreetingType
<1>1. pend \in Message
  <2>1. (CHOOSE s \in Sids : TRUE) \in Sids
    BY Zenon
  <2> QED BY <2>1 DEF Init, NoMsg, Message, MsgType, How
<1>2. TypeOK
  <2>1. /\ out \in Seq(Reply) /\ w \in 0..Len(out) /\ Len(out) - w <= MsgwtCap
    BY DEF Init
  <2>2. inb \in Seq(Message) /\ todo \in Seq(Steps) /\ pub \in Seq(Nat)
    BY DEF Init
  <2>3. /\ sub \in Sids \cup {NoSub} /\ nfil \in Nat
    BY DEF Init
  <2>4. /\ h \in 0..Len(inb) /\ Len(inb) - h <= InmsgCap
        /\ taken \in 0..Len(pub) /\ Len(pub) - taken <= NewEventCap
    BY DEF Init
  <2> QED BY <1>1, <2>1, <2>2, <2>3, <2>4 DEF Init, TypeOK
<1>3. TodoInv /\ ControlInv
  BY DEF Init, TodoInv, ControlInv
<1>4. OrderInv /\ NoSubNoFilters
  BY DEF Init, OrderInv, RepliesInOrder, NoSubNoFilters
<1> QED BY <1>2, <1>3, <1>4 DEF IInv

-----------------------------------------------------------------------------
(* Every step preserves the types.                                         *)

(* Appending to a channel with room.                                       *)
LEMMA AppendRoom ==
    ASSUME NEW S, NEW s \in Seq(S), NEW e \in S, NEW n \in 0..Len(s),
           NEW cap \in Nat, Room(s, n, cap)
    PROVE  /\ Append(s, e) \in Seq(S)
           /\ n \in 0..Len(Append(s, e)) /\ Len(Append(s, e)) - n <= cap
BY DEF Room

(* What is left of a script after a step of it.                            *)
LEMMA TodoTail ==
    ASSUME TypeOK, TodoInv, todo # <<>>
    PROVE  /\ Tail(todo) \in Seq(StepsOf(h))
           /\ Head(todo) \in StepsOf(h) /\ Head(todo) \in Steps /\ Now = h
           /\ Now \in Nat
<1>1. Tail(todo) \in Seq(StepsOf(h)) /\ Head(todo) \in StepsOf(h)
  BY DEF TodoInv
<1> QED BY <1>1 DEF StepsOf, Steps, Now

LEMMA TodoType == ASSUME NEW n, NEW t \in Seq(StepsOf(n)) PROVE t \in Seq(Steps)
BY SeqMonotonic DEF StepsOf

(* The part of TypeOK the dispatcher's script is about, apart.             *)
LEMMA TypeStep == IInv /\ [Next]_vars => TypeOK' /\ TodoInv'
<1> SUFFICES ASSUME IInv, [Next]_vars PROVE TypeOK' /\ TodoInv'
  OBVIOUS
<1> USE CapAssumption, DataAssumption
<1>0. TypeOK /\ TodoInv
  BY DEF IInv
<1>1. ASSUME NEW m \in PeerMsgs, ReaderRead(m) PROVE TypeOK' /\ TodoInv'
  BY <1>0, <1>1 DEF ReaderRead, TypeOK, TodoInv, dispatcher, writer, network
<1>2. ASSUME NEW closing \in BOOLEAN, ReaderFails(closing)
      PROVE  TypeOK' /\ TodoInv'
  BY <1>0, <1>2 DEF ReaderFails, TypeOK, TodoInv, dispatcher, writer, network
<1>16. ASSUME ReaderRefuses PROVE TypeOK' /\ TodoInv'
  <2>1. werr' \in {"none", "close", "other"}
    BY <1>0, <1>16 DEF ReaderRefuses, CloseFrame, TypeOK
  <2> QED BY <1>0, <1>16, <2>1 DEF ReaderRefuses, TypeOK, TodoInv, dispatcher, writer
<1>3. ASSUME ReaderOffers PROVE TypeOK' /\ TodoInv'
  <2>1. /\ inb' \in Seq(Message) /\ h \in 0..Len(inb') /\ Len(inb') - h <= InmsgCap
    BY <1>0, <1>3, AppendRoom DEF ReaderOffers, TypeOK
  <2> QED BY <1>0, <1>3, <2>1
          DEF ReaderOffers, TypeOK, TodoInv, dispatcher, writer, network
<1>4. ASSUME ReaderSeesDone PROVE TypeOK' /\ TodoInv'
  BY <1>0, <1>4 DEF ReaderSeesDone, TypeOK, TodoInv, dispatcher, writer, network
<1>5. ASSUME ReaderJoins PROVE TypeOK' /\ TodoInv'
  BY <1>0, <1>5 DEF ReaderJoins, TypeOK, TodoInv, dispatcher, writer, network
<1>6. ASSUME ReaderHandsOver PROVE TypeOK' /\ TodoInv'
  BY <1>0, <1>6 DEF ReaderHandsOver, TypeOK, TodoInv, dispatcher, writer, network
<1>7. ASSUME Dispatch PROVE TypeOK' /\ TodoInv'
  <2>1. h < Len(inb) /\ inb[h + 1] \in Message
    BY <1>0, <1>7, ElementOfSeq DEF Dispatch, TypeOK
  <2>2. PICK res, failing :
          Begin(Script(h + 1, inb[h + 1], res, failing))
    BY <1>7 DEF Dispatch
  <2>3. h' = h + 1 /\ todo' \in Seq(StepsOf(h'))
    BY <1>0, <2>1, <2>2, ScriptType DEF Begin, TypeOK
  <2>4. todo' \in Seq(Steps)
    BY <2>3, TodoType
  <2> QED BY <1>0, <1>7, <2>1, <2>3, <2>4
          DEF Dispatch, TypeOK, TodoInv, reader, writer, network
<1>8. ASSUME DispatchBadUtf8 PROVE TypeOK' /\ TodoInv'
  <2>1. h' = h + 1 /\ todo' \in Seq(StepsOf(h')) /\ todo' \in Seq(Steps)
    BY <1>8, ShortSeq DEF DispatchBadUtf8, Begin
  <2>2. /\ h < Len(inb) /\ werr' \in {"none", "close", "other"}
        /\ errch' = "critical" /\ dpc' = "check"
    BY <1>0, <1>8 DEF DispatchBadUtf8, CloseFrame, TypeOK
  <2>3. UNCHANGED <<reader, writer, access, peer, reads, sub, nfil, authed, out,
                    cancelled, stored, pub, taken>>
    BY <1>8 DEF DispatchBadUtf8
  <2> QED BY <1>0, <2>1, <2>2, <2>3 DEF TypeOK, TodoInv, reader, writer
<1>9. ASSUME DispatcherChecks PROVE TypeOK' /\ TodoInv'
  <2>1. dpc' \in {"recv", "check", "done"} /\ cancelled' \in BOOLEAN
    <3>1. CASE errch = "critical"
      BY <1>9, <3>1 DEF DispatcherChecks
    <3>2. CASE errch # "critical"
      BY <1>0, <1>9, <3>2 DEF DispatcherChecks, TypeOK
    <3> QED BY <3>1, <3>2
  <2>2. UNCHANGED <<reader, writer, network, h, todo, sub, nfil, authed, out,
                    errch, stored, pub, taken>>
    BY <1>9 DEF DispatcherChecks
  <2> QED BY <1>0, <2>1, <2>2 DEF TypeOK, TodoInv, reader, writer, network
<1>10. ASSUME DoStep PROVE TypeOK' /\ TodoInv'
  <2>0. todo # <<>>
    BY <1>10 DEF DoStep, DoPut, DoFetched, DoStore, DoPublish, DoSub, DoUnsub,
                 DoAuth, DoFetch, Doing
  <2>1. /\ Tail(todo) \in Seq(StepsOf(h)) /\ Tail(todo) \in Seq(Steps)
        /\ Head(todo) \in StepsOf(h) /\ Head(todo) \in Steps /\ Now = h
        /\ Now \in Nat
    BY <1>0, <2>0, TodoTail, TodoType
  <2>2. CASE DoPut
    <3>1. Reply1(Now, Head(todo).what, 0) \in Reply
      BY <2>1 DEF Reply1, Reply, Steps
    <3>2. /\ out' \in Seq(Reply) /\ w \in 0..Len(out') /\ Len(out') - w <= MsgwtCap
      BY <1>0, <2>2, <3>1, AppendRoom DEF DoPut, TypeOK
    <3> QED BY <1>0, <2>1, <2>2, <3>2
            DEF DoPut, Next_op, TypeOK, TodoInv, reader, writer, network
  <2>3. ASSUME NEW f \in 1..8, DoFetch(f) PROVE TypeOK' /\ TodoInv'
    <3>1. Reply1(Now, "EVENTS", f) \in Reply
      BY <2>1 DEF Reply1, Reply
    <3>2. /\ out' \in Seq(Reply) /\ w \in 0..Len(out') /\ Len(out') - w <= MsgwtCap
      BY <1>0, <2>3, <3>1, AppendRoom DEF DoFetch, TypeOK
    <3>3. Fetch(Now, Head(todo).left \ {f}) \in StepsOf(h)
      <4>1. Head(todo).left \ {f} \in SUBSET (1..8)
        BY <2>1 DEF Steps
      <4> QED BY <2>1, <4>1, StepTypes
    <3>4. todo' \in Seq(StepsOf(h))
      BY <2>1, <2>3, <3>3, ShortSeq, ConcatProperties DEF DoFetch
    <3>5. todo' \in Seq(Steps)
      BY <3>4, TodoType
    <3> QED BY <1>0, <2>3, <3>2, <3>4, <3>5
            DEF DoFetch, TypeOK, TodoInv, reader, writer, network
  <2>4. CASE DoFetched
    BY <1>0, <2>1, <2>4
    DEF DoFetched, Next_op, TypeOK, TodoInv, reader, writer, network
  <2>5. CASE DoStore
    BY <1>0, <2>1, <2>5
    DEF DoStore, Next_op, TypeOK, TodoInv, reader, writer, network
  <2>6. CASE DoPublish
    <3>1. /\ pub' \in Seq(Nat) /\ taken \in 0..Len(pub')
          /\ Len(pub') - taken <= NewEventCap
      BY <1>0, <2>1, <2>6, AppendRoom DEF DoPublish, TypeOK
    <3> QED BY <1>0, <2>1, <2>6, <3>1
            DEF DoPublish, Next_op, TypeOK, TodoInv, reader, writer, network
  <2>7. CASE DoSub
    <3>1. h \in 1..Len(inb)
      BY <1>0, <2>0 DEF TypeOK, TodoInv
    <3>2. Msg \in Message
      BY <1>0, <2>1, <3>1, ElementOfSeq DEF Msg, TypeOK
    <3>3. Msg.sid \in Sids /\ Msg.nf \in Nat
      BY <3>2 DEF Message
    <3>4. sub' \in Sids \cup {NoSub} /\ nfil' \in Nat
      BY <1>0, <2>7, <3>3 DEF DoSub, TypeOK
    <3>5. /\ todo' = Tail(todo)
          /\ UNCHANGED <<reader, writer, network, h, dpc, authed, out, cancelled,
                         errch, stored, pub, taken>>
      BY <2>7 DEF DoSub, Next_op
    <3> QED BY <1>0, <2>0, <2>1, <3>4, <3>5
            DEF TypeOK, TodoInv, reader, writer, network
  <2>8. CASE DoUnsub
    BY <1>0, <2>1, <2>8
    DEF DoUnsub, Next_op, TypeOK, TodoInv, reader, writer, network
  <2>9. CASE DoAuth
    BY <1>0, <2>1, <2>9
    DEF DoAuth, Next_op, TypeOK, TodoInv, reader, writer, network
  <2> QED BY <1>10, <2>2, <2>3, <2>4, <2>5, <2>6, <2>7, <2>8, <2>9 DEF DoStep
<1>11. ASSUME Writer PROVE TypeOK' /\ TodoInv'
  <2>1. CASE WriterTakes
    BY <1>0, <2>1 DEF WriterTakes, TypeOK, TodoInv, reader, dispatcher, network
  <2>2. CASE WriterWrites
    BY <1>0, <2>2 DEF WriterWrites, WriteOutcomes, TypeOK, TodoInv, reader,
                      dispatcher
  <2>3. CASE WriterChecks
    <3>1. wpc' \in {"recv", "write", "check", "done"} /\ cancelled' \in BOOLEAN
      <4>1. CASE errch = "close"
        BY <2>3, <4>1 DEF WriterChecks
      <4>2. CASE errch # "close"
        BY <1>0, <2>3, <4>2 DEF WriterChecks, TypeOK
      <4> QED BY <4>1, <4>2
    <3>2. UNCHANGED <<reader, dispatcher, network, w, out, errch, taken>>
      BY <2>3 DEF WriterChecks
    <3> QED BY <1>0, <3>1, <3>2 DEF TypeOK, TodoInv, reader, dispatcher, network
  <2> QED BY <1>11, <2>1, <2>2, <2>3 DEF Writer
<1>12. ASSUME PeerVanishes \/ PeerStops PROVE TypeOK' /\ TodoInv'
  <2>1. /\ peer' \in {"up", "gone", "closed"} /\ reads' \in BOOLEAN
        /\ UNCHANGED <<reader, dispatcher, writer, access, werr, out, cancelled,
                       errch, taken>>
    BY <1>0, <1>12 DEF PeerVanishes, PeerStops, TypeOK
  <2> QED BY <1>0, <2>1 DEF TypeOK, TodoInv, reader, dispatcher, writer
<1>13. ASSUME Broadcast PROVE TypeOK' /\ TodoInv'
  <2>1. Reply1(0, "BCAST", 0) \in Reply
    BY DEF Reply1, Reply
  <2>2. /\ out' \in Seq(Reply) /\ w \in 0..Len(out') /\ Len(out') - w <= MsgwtCap
    BY <1>0, <1>13, <2>1, AppendRoom DEF Broadcast, TypeOK
  <2> QED BY <1>0, <1>13, <2>2
          DEF Broadcast, TypeOK, TodoInv, reader, dispatcher, writer, network
<1>14. ASSUME BroadcasterTakes PROVE TypeOK' /\ TodoInv'
  BY <1>0, <1>14
  DEF BroadcasterTakes, TypeOK, TodoInv, reader, dispatcher, writer, network
<1>15. ASSUME UNCHANGED vars PROVE TypeOK' /\ TodoInv'
  BY <1>0, <1>15 DEF vars, TypeOK, TodoInv, reader, dispatcher, writer, network
<1> QED
  BY <1>1, <1>2, <1>3, <1>4, <1>5, <1>6, <1>7, <1>8, <1>9, <1>10, <1>11, <1>12,
     <1>13, <1>14, <1>15, <1>16
  DEF Next, Reader, Dispatcher, Environment

-----------------------------------------------------------------------------
(* Every step preserves the control invariant.                             *)
LEMMA ControlStep == IInv /\ [Next]_vars => ControlInv'
<1> SUFFICES ASSUME IInv, [Next]_vars PROVE ControlInv'
  OBVIOUS
<1>0. TypeOK /\ ControlInv
  BY DEF IInv
<1>1. ASSUME NEW m \in PeerMsgs, ReaderRead(m) PROVE ControlInv'
  BY <1>0, <1>1 DEF ReaderRead, ControlInv, dispatcher, writer
<1>2. ASSUME ReaderRefuses \/ \E closing \in BOOLEAN : ReaderFails(closing)
      PROVE  ControlInv'
  BY <1>0, <1>2 DEF ReaderRefuses, ReaderFails, ControlInv, dispatcher, writer
<1>3. ASSUME Reader PROVE ControlInv'
  BY <1>0, <1>3 DEF Reader, ReaderOffers, ReaderSeesDone, ReaderJoins,
                    ReaderHandsOver, ControlInv, dispatcher, writer
<1>4. ASSUME Dispatch PROVE ControlInv'
  BY <1>0, <1>4 DEF Dispatch, Begin, Idle, ControlInv, reader, writer
<1>5. ASSUME DispatchBadUtf8 PROVE ControlInv'
  BY <1>0, <1>5 DEF DispatchBadUtf8, Begin, Idle, ControlInv, reader, writer
<1>6. ASSUME DispatcherChecks PROVE ControlInv'
  <2>1. /\ dpc = "check" /\ UNCHANGED <<rpc, wpc, todo>>
        /\ dpc' \in {"recv", "done"} /\ (cancelled => cancelled')
    <3>1. CASE errch = "critical"
      BY <1>6, <3>1 DEF DispatcherChecks, reader, writer
    <3>2. CASE errch # "critical"
      BY <1>6, <3>2 DEF DispatcherChecks, reader, writer
    <3> QED BY <3>1, <3>2
  <2> QED BY <1>0, <2>1 DEF ControlInv
<1>7. ASSUME DoStep PROVE ControlInv'
  <2>1. /\ dpc = "recv" /\ UNCHANGED <<rpc, wpc, dpc, cancelled>>
    BY <1>7 DEF DoStep, DoPut, DoFetched, DoStore, DoPublish, DoSub, DoUnsub,
                DoAuth, DoFetch, Doing, reader, writer
  <2> QED BY <1>0, <2>1 DEF ControlInv
<1>8. ASSUME Writer PROVE ControlInv'
  <2>1. /\ wpc # "done" /\ UNCHANGED <<rpc, dpc, todo>> /\ (cancelled => cancelled')
    <3>1. CASE WriterTakes \/ WriterWrites
      BY <3>1 DEF WriterTakes, WriterWrites, reader, dispatcher
    <3>2. CASE WriterChecks /\ errch = "close"
      BY <3>2 DEF WriterChecks, reader, dispatcher
    <3>3. CASE WriterChecks /\ errch # "close"
      BY <3>3 DEF WriterChecks, reader, dispatcher
    <3> QED BY <1>8, <3>1, <3>2, <3>3 DEF Writer
  <2> QED BY <1>0, <2>1 DEF ControlInv
<1>9. ASSUME PeerVanishes \/ PeerStops \/ Broadcast \/ BroadcasterTakes
      PROVE  ControlInv'
  BY <1>0, <1>9 DEF PeerVanishes, PeerStops, Broadcast, BroadcasterTakes, ControlInv,
                    reader, dispatcher, writer
<1>10. ASSUME UNCHANGED vars PROVE ControlInv'
  BY <1>0, <1>10 DEF vars, ControlInv, reader, dispatcher, writer
<1> QED
  BY <1>1, <1>2, <1>3, <1>4, <1>5, <1>6, <1>7, <1>8, <1>9, <1>10
  DEF Next, Dispatcher, Environment

-----------------------------------------------------------------------------
LEMMA OutNat == TypeOK => \A i \in 1..Len(out) : out[i].re \in Nat
<1> SUFFICES ASSUME TypeOK, NEW i \in 1..Len(out) PROVE out[i].re \in Nat
  OBVIOUS
<1>1. out[i] \in Reply
  BY ElementOfSeq DEF TypeOK
<1> QED BY <1>1 DEF Reply

(* Appending a reply of the newest message, or of none, keeps the order.   *)
LEMMA OrderAppend ==
    ASSUME NEW r \in Reply, r.re \in {0, h}, TypeOK, OrderInv,
           out' = Append(out, r), h' = h
    PROVE  OrderInv'
<1>1. /\ Len(out') = Len(out) + 1 /\ Len(out) \in Nat
      /\ out'[Len(out) + 1] = r
      /\ \A i \in 1..Len(out) : out'[i] = out[i]
  BY DEF TypeOK
<1>2. h \in Nat /\ r.re \in Nat /\ r.re <= h
  BY DEF TypeOK, Reply
<1>3. ASSUME NEW i \in 1..Len(out') PROVE out'[i].re <= h'
  <2>1. CASE i = Len(out) + 1
    BY <1>1, <1>2, <2>1
  <2>2. CASE i # Len(out) + 1
    BY <1>1, <2>2 DEF OrderInv
  <2> QED BY <2>1, <2>2
<1>4. ASSUME NEW i \in 1..Len(out'), NEW j \in 1..Len(out'), i < j,
             out'[i].re > 0, out'[j].re > 0
      PROVE  out'[i].re <= out'[j].re
  <2>1. i \in 1..Len(out) /\ out'[i] = out[i] /\ out[i].re \in Nat
    BY <1>1, <1>4, OutNat
  <2>2. CASE j = Len(out) + 1
    BY <1>1, <1>2, <1>4, <2>1, <2>2 DEF OrderInv
  <2>3. CASE j # Len(out) + 1
    BY <1>1, <1>4, <2>1, <2>3 DEF OrderInv, RepliesInOrder
  <2> QED BY <2>2, <2>3
<1>5. RepliesInOrder'
  BY <1>4 DEF RepliesInOrder
<1> QED BY <1>3, <1>5 DEF OrderInv

(* Every step preserves the order of the replies.                          *)
LEMMA OrderStep == IInv /\ [Next]_vars => OrderInv'
<1> SUFFICES ASSUME IInv, [Next]_vars PROVE OrderInv'
  OBVIOUS
<1>0. TypeOK /\ TodoInv /\ OrderInv
  BY DEF IInv
<1>1. CASE UNCHANGED <<out, h>>
  BY <1>0, <1>1 DEF OrderInv, RepliesInOrder
<1>2. CASE Dispatch \/ DispatchBadUtf8
  <2>1. UNCHANGED out /\ h' = h + 1 /\ h \in Nat
    BY <1>0, <1>2 DEF Dispatch, DispatchBadUtf8, Begin, TypeOK
  <2>2. \A i \in 1..Len(out) : out[i].re \in Nat
    BY <1>0, OutNat
  <2> QED BY <1>0, <2>1, <2>2 DEF OrderInv, RepliesInOrder
<1>3. CASE DoPut
  <2>1. /\ Now = h /\ Head(todo) \in Steps /\ Now \in Nat
    BY <1>0, <1>3, TodoTail DEF DoPut, Doing
  <2>2. Reply1(Now, Head(todo).what, 0) \in Reply
    BY <2>1 DEF Reply1, Reply, Steps
  <2> QED BY <1>0, <1>3, <2>1, <2>2, OrderAppend DEF DoPut, Reply1
<1>4. ASSUME NEW f \in 1..8, DoFetch(f) PROVE OrderInv'
  <2>1. /\ Now = h /\ Now \in Nat
    BY <1>0, <1>4, TodoTail DEF DoFetch, Doing
  <2>2. Reply1(Now, "EVENTS", f) \in Reply
    BY <2>1 DEF Reply1, Reply
  <2> QED BY <1>0, <1>4, <2>1, <2>2, OrderAppend DEF DoFetch, Reply1
<1>5. CASE Broadcast
  <2>1. Reply1(0, "BCAST", 0) \in Reply
    BY DEF Reply1, Reply
  <2> QED BY <1>0, <1>5, <2>1, OrderAppend DEF Broadcast, dispatcher, Reply1
<1> QED
  BY <1>1, <1>2, <1>3, <1>4, <1>5
  DEF Next, Reader, ReaderOffers, ReaderSeesDone, ReaderJoins, ReaderHandsOver,
      Dispatcher, DispatcherChecks, DoStep, DoFetched, DoStore, DoPublish, DoSub,
      DoUnsub, DoAuth, Writer, WriterTakes, WriterWrites, WriterChecks,
      Environment, ReaderRead, ReaderFails, ReaderRefuses, PeerVanishes, PeerStops,
      BroadcasterTakes,
      vars, dispatcher

(* Only DoSub and DoUnsub touch the subscription.                          *)
LEMMA SubStep == IInv /\ [Next]_vars => NoSubNoFilters'
<1> SUFFICES ASSUME IInv, [Next]_vars PROVE NoSubNoFilters'
  OBVIOUS
<1>0. TypeOK /\ TodoInv /\ NoSubNoFilters
  BY DEF IInv
<1>1. CASE UNCHANGED <<sub, nfil>>
  BY <1>0, <1>1 DEF NoSubNoFilters
<1>2. CASE DoUnsub
  BY <1>2 DEF DoUnsub, NoSubNoFilters
<1>3. CASE DoSub
  <2>1. todo # <<>> /\ Now = h
    BY <1>0, <1>3, TodoTail DEF DoSub, Doing
  <2>2. Msg \in Message
    BY <1>0, <2>1, ElementOfSeq DEF Msg, TypeOK, TodoInv
  <2> QED BY <1>3, <2>2, DataAssumption DEF DoSub, Message, NoSubNoFilters
<1> QED
  BY <1>1, <1>2, <1>3
  DEF Next, Reader, ReaderOffers, ReaderSeesDone, ReaderJoins, ReaderHandsOver,
      Dispatcher, Dispatch, DispatchBadUtf8, DispatcherChecks, DoStep, DoPut,
      DoFetch, DoFetched, DoStore, DoPublish, DoAuth, Writer, WriterTakes,
      WriterWrites, WriterChecks, Environment, ReaderRead, ReaderFails,
      ReaderRefuses, PeerVanishes, PeerStops, Broadcast, BroadcasterTakes, vars, dispatcher

-----------------------------------------------------------------------------
(* The invariant holds throughout, whatever the messages, the capacities   *)
(* and the access policy are.                                              *)
THEOREM Invariance == Spec => []IInv
<1>1. Init => IInv
  BY InitIInv
<1>2. IInv /\ [Next]_vars => IInv'
  BY TypeStep, ControlStep, OrderStep, SubStep DEF IInv
<1> QED BY <1>1, <1>2, PTL DEF Spec

(* Types, and the capacities of inmsg, msgwt and NewEvent.                 *)
THEOREM TypeCorrect == Spec => []TypeOK
<1>1. IInv => TypeOK
  BY DEF IInv
<1> QED BY <1>1, Invariance, PTL

(* ReceiveMsg hands the client over only when its goroutines are gone.     *)
THEOREM HandoverSafe == Spec => []HandoverQuiescent
<1>1. IInv => HandoverQuiescent
  BY DEF IInv, ControlInv, HandoverQuiescent
<1> QED BY <1>1, Invariance, PTL

(* The replies to the peer's messages are queued in the order of arrival.  *)
THEOREM RepliesOrdered == Spec => []RepliesInOrder
<1>1. IInv => RepliesInOrder
  BY DEF IInv, OrderInv
<1> QED BY <1>1, Invariance, PTL

(* No subscription, no filters: a first REQ installs its own filters only. *)
THEOREM NoStaleFilters == Spec => []NoSubNoFilters
<1>1. IInv => NoSubNoFilters
  BY DEF IInv
<1> QED BY <1>1, Invariance, PTL
=============================================================================

-------------------------- MODULE ClientConnAnswers --------------------------
(***************************************************************************)
(* Further theorems about ClientConn, for all values of its constants:     *)
(* what the peer is served and what it is told, OkMeansKept, EoseIsLast    *)
(* and RequestsNeedAuth.                                                   *)
(*                                                                         *)
(* Each relates replies to what was done before them, and so needs to know *)
(* what a handler that is under way will still do: the invariant says what *)
(* may be left of a script, and that nothing runs ahead of the dispatcher. *)
(***************************************************************************)
EXTENDS ClientConnProofs, FiniteSetTheorems

-----------------------------------------------------------------------------
(* The invariant.                                                          *)

(* A step that puts an answer of this kind into msgwt is to come.          *)
Has(s, what) == \E j \in 1..Len(s) : s[j].op = "put" /\ s[j].what = what

(* What a handler is about to do for the peer of a restricted relay.       *)
Serves(s) == s.op \in {"store", "publish", "fetch", "sub", "unsub"}
             \/ (s.op = "put" /\ s.what \in Granted)

(* Nothing is stored, published or answered ahead of the dispatcher.       *)
Recent == (\A n \in stored : n <= h) /\ (\A k \in 1..Len(pub) : pub[k] <= h)

(* While the peer is not authenticated, the steps that are left serve it   *)
(* nothing, but for those that follow its authentication.                  *)
Free(s) == /\ Restricted => ~Serves(s)
           /\ s.op = "store" => inb[h].how # "dm"
StepsFree == \A j \in 1..Len(todo) : Free(todo[j])
Authenticates == todo # <<>> /\ todo[1].op = "auth" /\ inb[h].type = "AUTH"
ServeInv == authed \/ StepsFree \/ Authenticates

(* An acknowledgement that is still to come stands behind the steps that   *)
(* earn it, and one of the two verdicts is never given.                    *)
Published(n) == \E k \in 1..Len(pub) : pub[k] = n
Earning == <<Op("store", h), Op("publish", h), Put(h, "OK")>>
OkPlan == Has(todo, "OK") /\ Kept(inb[h]) =>
    \/ todo = Earning
    \/ todo = Tail(Earning) /\ h \in stored
    \/ todo = Tail(Tail(Earning)) /\ h \in stored /\ Published(h)
Unused(v) == ~Has(todo, v) /\ ~Answers(h, v)
Verdict == h > 0 /\ inb[h].type = "EVENT" => Unused("OK") \/ Unused("NotOK")
OkInv == OkPlan /\ Verdict /\ OkMeansKept

(* EOSE is the last step of its handler, behind the batches that were not  *)
(* sent yet.                                                               *)
Batches(n, f) == {i \in 1..Len(out) : /\ out[i].what = "EVENTS"
                                      /\ out[i].re = n /\ out[i].f = f}
Asking(L) == <<Op("sub", h), Put(h, "NOTICE"), Fetch(h, L), Put(h, "EOSE")>>
Rest(L) == {Asking(L), Tail(Asking(L)), Tail(Tail(Asking(L)))}
PlanFor(L) ==
    /\ \A f \in 1..inb[h].nf : Cardinality(Batches(h, f)) = IF f \in L THEN 0 ELSE 1
    /\ todo \in Rest(L) \/ (todo = <<Put(h, "EOSE")>> /\ L = {})
EosePlan == Has(todo, "EOSE") => \E L \in SUBSET (1..inb[h].nf) : PlanFor(L)
EoseInv == /\ EosePlan
           /\ h > 0 /\ Answers(h, "EOSE") => todo = <<>>
           /\ \A j \in 1..Len(out) : out[j].what = "EOSE" => out[j].re > 0
           /\ EoseIsLast

AInv == IInv /\ Recent /\ ServeInv /\ OkInv /\ EoseInv
-----------------------------------------------------------------------------
(* The scripts.                                                            *)

(* Steps that the script of a message m may have when it is begun.         *)
MayBegin(s, m) ==
    /\ Serves(s) /\ Restricted => authed \/ (m.type = "AUTH" /\ m.how = "ok")
    /\ s.op = "store" /\ m.how = "dm" => authed
    /\ s.op = "put" /\ s.what = "OK" => m.type \in {"EVENT", "AUTH"}
    /\ s.op = "put" /\ s.what = "EOSE" => m.type = "REQ" /\ m.how = "ok"
Begins(n, m) == {s \in StepsOf(n) : MayBegin(s, m)}

LEMMA BeginSteps ==
    ASSUME NEW n \in Nat, NEW m \in Message
    PROVE  /\ \A x \in {"NotOK", "NOTICE", "PONG"} : Put(n, x) \in Begins(n, m)
           /\ \A o \in {"errFM", "auth"} : Op(o, n) \in Begins(n, m)
           /\ m.type = "AUTH" /\ m.how = "ok" => Put(n, "OK") \in Begins(n, m)
           /\ (Restricted => authed) =>
                 /\ Op("sub", n) \in Begins(n, m) /\ Op("unsub", n) \in Begins(n, m)
                 /\ m.type = "EVENT" => Put(n, "OK") \in Begins(n, m)
                 /\ Op("publish", n) \in Begins(n, m)
                 /\ (m.how = "dm" => authed) => Op("store", n) \in Begins(n, m)
                 /\ \A b \in SUBSET (1..8) : Fetch(n, b) \in Begins(n, m)
                 /\ m.type = "REQ" /\ m.how = "ok" => Put(n, "EOSE") \in Begins(n, m)
BY StepTypes DEF Begins, MayBegin, Serves, Granted, Op, Put, Fetch, OpNames

LEMMA EventBegins ==
    ASSUME NEW n \in Nat, NEW m \in Message, NEW res, m.type = "EVENT", ~Gated(m)
    PROVE  handlerEventMsgs(n, m, res) \in Seq(Begins(n, m))
<1> DEFINE S == Begins(n, m)
<1>1. /\ Put(n, "OK") \in S /\ Put(n, "NotOK") \in S /\ Put(n, "NOTICE") \in S
      /\ Op("errFM", n) \in S /\ Op("publish", n) \in S
      /\ (m.how = "dm" => authed) => Op("store", n) \in S
      BY BeginSteps DEF Gated, Restricted
<1> HIDE DEF S
<1>2. PublishSteps(n, m) \in Seq(S) BY <1>1, ShortSeq DEF PublishSteps
<1>3. PublishSteps(n, m) \o <<Put(n, "OK")>> \in Seq(S)
      BY <1>1, <1>2, ShortSeq, ConcatProperties
<1>4. /\ <<Put(n, "NotOK"), Op("errFM", n)>> \in Seq(S)
      /\ <<Put(n, "NOTICE"), Op("errFM", n)>> \in Seq(S)
      /\ <<Put(n, "NOTICE"), Put(n, "NotOK")>> \in Seq(S)
      BY <1>1, ShortSeq
<1>5. ASSUME m.how = "dm" => authed
      PROVE  StoreSteps(n, res) \o
               (IF res \in {"stored", "skipped"}
                THEN PublishSteps(n, m) \o <<Put(n, "OK")>>
                ELSE <<Put(n, "NotOK"), Op("errFM", n)>>) \in Seq(S)
  <2>1. StoreSteps(n, res) \in Seq(S) BY <1>1, <1>5, ShortSeq DEF StoreSteps
  <2> QED BY <1>3, <1>4, <2>1, ConcatProperties
<1>6. handlerEventMsgs(n, m, res) \in Seq(S) BY <1>4, <1>5 DEF handlerEventMsgs
<1> QED BY <1>6 DEF S

LEMMA OthersBegin ==
    ASSUME NEW n \in Nat, NEW m \in Message, NEW failing
    PROVE  /\ m.type = "REQ" /\ ~Gated(m) => handlerReqMsgs(n, m, failing) \in Seq(Begins(n, m))
           /\ m.type = "CLOSE" /\ ~Gated(m) => handlerCloseSubsMsgs(n, m) \in Seq(Begins(n, m))
           /\ m.type = "AUTH" => handlerAuthMsgs(n, m) \in Seq(Begins(n, m))
<1> DEFINE S == Begins(n, m)
<1>1. /\ Put(n, "NotOK") \in S /\ Put(n, "NOTICE") \in S
      /\ Op("errFM", n) \in S /\ Op("auth", n) \in S
      /\ m.type = "AUTH" /\ m.how = "ok" => Put(n, "OK") \in S
      /\ m.type # "AUTH" /\ ~Gated(m) => Op("sub", n) \in S /\ Op("unsub", n) \in S
      BY BeginSteps DEF Gated, Restricted
<1>2. ASSUME m.type = "REQ", ~Gated(m), m.how = "ok"
      PROVE  Fetch(n, (1..m.nf) \ failing) \in S /\ Put(n, "EOSE") \in S
  <2>1. (1..m.nf) \ failing \in SUBSET (1..8) BY DEF Message
  <2>2. Restricted => authed BY <1>2 DEF Gated, Restricted
  <2> QED BY <1>2, <2>1, <2>2, BeginSteps
<1> HIDE DEF S
<1>3. /\ <<Put(n, "NOTICE"), Op("errFM", n)>> \in Seq(S)
      /\ m.type # "AUTH" /\ ~Gated(m) => <<Op("sub", n), Put(n, "NOTICE")>> \in Seq(S)
      BY <1>1, ShortSeq
<1>4. ASSUME m.type = "REQ", ~Gated(m) PROVE handlerReqMsgs(n, m, failing) \in Seq(S)
  <2>1. ASSUME m.how = "ok" PROVE SubscriptionSuplier(n, m, failing) \in Seq(S)
        BY <1>1, <1>2, <1>4, <2>1, ShortSeq, ConcatProperties DEF SubscriptionSuplier
  <2> QED BY <1>3, <1>4, <2>1, ConcatProperties DEF handlerReqMsgs
<1>5. ASSUME m.type = "CLOSE", ~Gated(m)
      PROVE  (IF m.how = "ok" /\ m.sid = sub THEN <<Op("unsub", n)>> ELSE <<>>) \in Seq(S)
      BY <1>1, <1>5, ShortSeq
<1>6. m.type = "CLOSE" /\ ~Gated(m) => handlerCloseSubsMsgs(n, m) \in Seq(S)
      BY <1>3, <1>5, ConcatProperties DEF handlerCloseSubsMsgs
<1>7. /\ <<Put(n, "NotOK"), Put(n, "NotOK"), Op("errFM", n)>> \in Seq(S)
      /\ <<Put(n, "NotOK")>> \in Seq(S)
      /\ <<Put(n, "NOTICE"), Put(n, "NotOK"), Op("errFM", n)>> \in Seq(S)
      /\ <<Put(n, "NotOK"), Op("errFM", n)>> \in Seq(S)
      BY <1>1, ShortSeq
<1>8. ASSUME m.type = "AUTH" PROVE handlerAuthMsgs(n, m) \in Seq(S)
  <2>1. m.how = "ok" => <<Op("auth", n), Put(n, "OK")>> \in Seq(S)
        BY <1>1, <1>8, ShortSeq
  <2> QED BY <1>7, <2>1 DEF handlerAuthMsgs
<1> QED BY <1>4, <1>6, <1>8 DEF S

LEMMA ScriptBegins ==
    ASSUME NEW n \in Nat, NEW m \in Message, NEW res, NEW failing
    PROVE  Script(n, m, res, failing) \in Seq(Begins(n, m))
<1> DEFINE S == Begins(n, m)
<1>1. Put(n, "NOTICE") \in S /\ Put(n, "PONG") \in S /\ Op("errFM", n) \in S
      BY BeginSteps
<1>2. /\ m.type = "EVENT" /\ ~Gated(m) => handlerEventMsgs(n, m, res) \in Seq(S)
      /\ m.type = "REQ" /\ ~Gated(m) => handlerReqMsgs(n, m, failing) \in Seq(S)
      /\ m.type = "CLOSE" /\ ~Gated(m) => handlerCloseSubsMsgs(n, m) \in Seq(S)
      /\ m.type = "AUTH" => handlerAuthMsgs(n, m) \in Seq(S)
      BY EventBegins, OthersBegin
<1> HIDE DEF S
<1>3. /\ <<>> \in Seq(S) /\ <<Put(n, "NOTICE")>> \in Seq(S) /\ <<Put(n, "PONG")>> \in Seq(S)
      /\ <<Put(n, "NOTICE"), Op("errFM", n)>> \in Seq(S)
      BY <1>1, ShortSeq
<1>4. dispatchNostrMsgs(n, m, res, failing) \in Seq(S)
      BY <1>2, <1>3 DEF dispatchNostrMsgs
<1>5. Script(n, m, res, failing) \in Seq(S) BY <1>3, <1>4 DEF Script
<1> QED BY <1>5 DEF S

(* Joining short scripts.                                                  *)
LEMMA Joins ==
    ASSUME NEW S, NEW s \in Seq(S), NEW t \in Seq(S), NEW u \in Seq(S),
           Len(u) = Len(s) + Len(t), \A i \in 1..Len(s) : s[i] = u[i],
           \A i \in 1..Len(t) : t[i] = u[Len(s) + i]
    PROVE  s \o t = u
<1>1. /\ s \o t \in Seq(S) /\ Len(s \o t) = Len(s) + Len(t)
      /\ \A i \in 1..(Len(s) + Len(t)) :
            (s \o t)[i] = IF i <= Len(s) THEN s[i] ELSE t[i - Len(s)]
      BY ConcatProperties
<1>2. Len(s) \in Nat /\ Len(t) \in Nat OBVIOUS
<1>3. ASSUME NEW i \in 1..Len(s \o t) PROVE (s \o t)[i] = u[i]
  <2>1. CASE i <= Len(s) BY <1>1, <1>2, <2>1
  <2>2. CASE i > Len(s)
    <3>1. i - Len(s) \in 1..Len(t) BY <1>1, <1>2, <2>2
    <3>2. t[i - Len(s)] = u[Len(s) + (i - Len(s))] BY <3>1
    <3> QED BY <1>1, <1>2, <2>2, <3>2
  <2> QED BY <1>2, <2>1, <2>2
<1> QED BY <1>1, <1>3, SeqEqual

LEMMA OneAndOne ==
    ASSUME NEW a, NEW b PROVE <<a>> \o <<b>> = <<a, b>>
<1> DEFINE S == {a, b}
           s == <<a>>
           t == <<b>>
           u == <<a, b>>
<1>1. s \in Seq(S) /\ t \in Seq(S) /\ u \in Seq(S) OBVIOUS
<1>2. /\ Len(s) = 1 /\ Len(t) = 1 /\ Len(u) = 2
      /\ s[1] = u[1] /\ t[1] = u[2]
      OBVIOUS
<1> HIDE DEF S, s, t, u
<1>3. \A i \in 1..Len(s) : s[i] = u[i] BY <1>2
<1>4. \A i \in 1..Len(t) : t[i] = u[Len(s) + i] BY <1>2
<1>5. Len(u) = Len(s) + Len(t) BY <1>2
<1>6. s \o t = u BY <1>1, <1>3, <1>4, <1>5, Joins
<1> QED BY <1>6 DEF s, t, u

LEMMA OneAndTwo ==
    ASSUME NEW a, NEW b, NEW c PROVE <<a>> \o <<b, c>> = <<a, b, c>>
<1> DEFINE S == {a, b, c}
           s == <<a>>
           t == <<b, c>>
           u == <<a, b, c>>
<1>1. s \in Seq(S) /\ t \in Seq(S) /\ u \in Seq(S) OBVIOUS
<1>2. /\ Len(s) = 1 /\ Len(t) = 2 /\ Len(u) = 3
      /\ s[1] = u[1] /\ t[1] = u[2] /\ t[2] = u[3]
      OBVIOUS
<1> HIDE DEF S, s, t, u
<1>3. \A i \in 1..Len(s) : s[i] = u[i] BY <1>2
<1>4. \A i \in 1..Len(t) : t[i] = u[Len(s) + i] BY <1>2
<1>5. Len(u) = Len(s) + Len(t) BY <1>2
<1>6. s \o t = u BY <1>1, <1>3, <1>4, <1>5, Joins
<1> QED BY <1>6 DEF s, t, u

LEMMA TwoAndTwo ==
    ASSUME NEW a, NEW b, NEW c, NEW d PROVE <<a, b>> \o <<c, d>> = <<a, b, c, d>>
<1> DEFINE S == {a, b, c, d}
           s == <<a, b>>
           t == <<c, d>>
           u == <<a, b, c, d>>
<1>1. s \in Seq(S) /\ t \in Seq(S) /\ u \in Seq(S) OBVIOUS
<1>2. /\ Len(s) = 2 /\ Len(t) = 2 /\ Len(u) = 4
      /\ s[1] = u[1] /\ s[2] = u[2] /\ t[1] = u[3] /\ t[2] = u[4]
      OBVIOUS
<1> HIDE DEF S, s, t, u
<1>3. \A i \in 1..Len(s) : s[i] = u[i] BY <1>2
<1>4. \A i \in 1..Len(t) : t[i] = u[Len(s) + i] BY <1>2
<1>5. Len(u) = Len(s) + Len(t) BY <1>2
<1>6. s \o t = u BY <1>1, <1>3, <1>4, <1>5, Joins
<1> QED BY <1>6 DEF s, t, u

LEMMA NoneAnd ==
    ASSUME NEW a, NEW b PROVE <<>> \o <<a>> = <<a>> /\ <<>> \o <<a, b>> = <<a, b>>
<1>1. <<a>> \in Seq({a, b}) /\ <<a, b>> \in Seq({a, b}) OBVIOUS
<1> QED BY <1>1, ConcatEmptySeq

(* What the answer to an EVENT looks like.                                 *)
LEMMA ScriptOk ==
    ASSUME NEW n \in Nat, NEW m \in Message, NEW res \in StoreResults(m), NEW failing,
           m.type = "EVENT"
    PROVE  LET s == Script(n, m, res, failing)
           IN  /\ Has(s, "OK") /\ Kept(m)
                     => s = <<Op("store", n), Op("publish", n), Put(n, "OK")>>
               /\ ~Has(s, "OK") \/ ~Has(s, "NotOK")
<1> DEFINE s == Script(n, m, res, failing)
           ok == Put(n, "OK")
           no == Put(n, "NotOK")
           note == Put(n, "NOTICE")
           err == Op("errFM", n)
           st == Op("store", n)
           pb == Op("publish", n)
<1>1. \/ s \in {<<no, err>>, <<note, err>>, <<note, no>>, <<st, no, err>>}
      \/ s = <<st, pb, ok>>
      \/ ~Kept(m) /\ s \in {<<pb, ok>>, <<st, ok>>, <<ok>>}
  <2>1. CASE Gated(m) BY <2>1 DEF Script, dispatchNostrMsgs
  <2>2. CASE ~Gated(m)
    <3>1. s = handlerEventMsgs(n, m, res) BY <2>2 DEF Script, dispatchNostrMsgs
    <3>2. CASE m.how \in {"malformed", "badsig", "blocked"} \/ (m.how = "dm" /\ ~authed)
          BY <3>1, <3>2 DEF handlerEventMsgs
    <3>3. CASE ~(m.how \in {"malformed", "badsig", "blocked"} \/ (m.how = "dm" /\ ~authed))
      <4> DEFINE end == IF res \in {"stored", "skipped"}
                        THEN PublishSteps(n, m) \o <<ok>> ELSE <<no, err>>
      <4>1. s = StoreSteps(n, res) \o end BY <3>1, <3>3 DEF handlerEventMsgs
      <4>2. res = "skipped" => ~Kept(m) BY DEF StoreResults, Kept
      <4>3. m.how = "contacts" => ~Kept(m) BY DEF Kept
      <4>4. StoreSteps(n, res) = IF res \in {"stored", "partial"} THEN <<st>> ELSE <<>>
            BY DEF StoreSteps
      <4>5. PublishSteps(n, m) \o <<ok>> = IF m.how = "contacts" THEN <<ok>> ELSE <<pb, ok>>
            BY OneAndOne, NoneAnd DEF PublishSteps
      <4> HIDE DEF st, pb, ok, no, err, s
      <4>6. CASE res \in {"stored", "skipped"}
        <5>1. end = IF m.how = "contacts" THEN <<ok>> ELSE <<pb, ok>> BY <4>5, <4>6
        <5> HIDE DEF end
        <5>2. CASE res = "stored"
          <6>1. s = <<st>> \o end BY <4>1, <4>4, <5>2
          <6> QED BY <4>3, <5>1, <6>1, OneAndOne, OneAndTwo
        <5>3. CASE res = "skipped"
          <6>1. s = <<>> \o end BY <4>1, <4>4, <5>3
          <6> QED BY <4>2, <5>1, <5>3, <6>1, NoneAnd
        <5> QED BY <4>6, <5>2, <5>3
      <4>7. CASE res \notin {"stored", "skipped"}
        <5>1. end = <<no, err>> BY <4>7
        <5> HIDE DEF end
        <5>2. s = <<st>> \o <<no, err>> \/ s = <<>> \o <<no, err>> BY <4>1, <4>4, <5>1
        <5> QED BY <5>2, OneAndTwo, NoneAnd
      <4> QED BY <4>6, <4>7
    <3> QED BY <3>2, <3>3
  <2> QED BY <2>1, <2>2
<1> HIDE DEF s
<1>2. CASE s \in {<<no, err>>, <<note, err>>, <<note, no>>, <<st, no, err>>}
  <2>1. ~Has(s, "OK") BY <1>2 DEF Has, Put, Op
  <2> QED BY <2>1 DEF s
<1>3. CASE s \in {<<st, pb, ok>>, <<pb, ok>>, <<st, ok>>, <<ok>>}
  <2>1. ~Has(s, "NotOK") BY <1>3 DEF Has, Put, Op
  <2> QED BY <1>1, <1>3, <2>1 DEF s, Has, Put, Op
<1> QED BY <1>1, <1>2, <1>3

(* What the answer to a REQ looks like, when it is complete.               *)
LEMMA ScriptEose ==
    ASSUME NEW n \in Nat, NEW m \in Message, NEW res, NEW failing,
           Has(Script(n, m, res, failing), "EOSE")
    PROVE  Script(n, m, res, failing)
             = <<Op("sub", n), Put(n, "NOTICE"), Fetch(n, 1..m.nf), Put(n, "EOSE")>>
<1> DEFINE s == Script(n, m, res, failing)
<1>1. s \in Seq(Begins(n, m)) BY ScriptBegins
<1>2. m.type = "REQ" /\ m.how = "ok"
  <2>1. PICK j \in 1..Len(s) : s[j].op = "put" /\ s[j].what = "EOSE" BY DEF Has
  <2>2. s[j] \in Begins(n, m) BY <1>1, <2>1, ElementOfSeq
  <2> QED BY <2>1, <2>2 DEF Begins, MayBegin
<1>3. ~Gated(m)
  <2> SUFFICES ASSUME Gated(m) PROVE FALSE OBVIOUS
  <2>1. s = <<Put(n, "NOTICE"), Op("errFM", n)>>
        BY <1>2 DEF Script, dispatchNostrMsgs
  <2> QED BY <2>1 DEF Has, Put, Op
<1>4. s = <<Op("sub", n), Put(n, "NOTICE")>> \o SubscriptionSuplier(n, m, failing)
      BY <1>2, <1>3 DEF Script, dispatchNostrMsgs, handlerReqMsgs
<1>5. CASE failing = {}
  <2>1. (1..m.nf) \ failing = 1..m.nf BY <1>5
  <2>2. SubscriptionSuplier(n, m, failing) = <<Fetch(n, 1..m.nf), Put(n, "EOSE")>>
        BY <1>5, <2>1, OneAndOne DEF SubscriptionSuplier
  <2> QED BY <1>4, <2>2, TwoAndTwo
<1>6. CASE failing # {}
  <2>1. SubscriptionSuplier(n, m, failing)
          = <<Fetch(n, (1..m.nf) \ failing), Op("errFM", n)>>
        BY <1>6, OneAndOne DEF SubscriptionSuplier
  <2>2. s = <<Op("sub", n), Put(n, "NOTICE"), Fetch(n, (1..m.nf) \ failing), Op("errFM", n)>>
        BY <1>4, <2>1, TwoAndTwo
  <2> QED BY <2>2 DEF Has, Put, Op, Fetch
<1> QED BY <1>5, <1>6

-----------------------------------------------------------------------------
(* The steps.                                                              *)

(* Whatever concerns messages that were taken is not changed by later ones.*)
Offered == inb' = inb \/ \E m \in Message : inb' = Append(inb, m)

LEMMA InbKept ==
    ASSUME IInv, Offered
    PROVE  /\ Len(inb) \in Nat /\ h \in 0..Len(inb) /\ Len(inb') >= Len(inb)
           /\ \A k \in 1..Len(inb) : k \in 1..Len(inb') /\ inb'[k] = inb[k]
<1>1. /\ Len(inb) \in Nat /\ h \in 0..Len(inb) /\ Len(inb') >= Len(inb)
      /\ \A k \in 1..Len(inb) : k \in 1..Len(inb') /\ inb'[k] = inb[k]
  <2>1. inb \in Seq(Message) /\ Len(inb) \in Nat /\ h \in 0..Len(inb)
        BY DEF IInv, TypeOK
  <2>2. CASE inb' = inb BY <2>1, <2>2
  <2>3. ASSUME NEW m \in Message, inb' = Append(inb, m)
        PROVE  /\ Len(inb') = Len(inb) + 1
               /\ \A k \in 1..Len(inb) : inb'[k] = inb[k]
        BY <2>1, <2>3
  <2> QED BY <2>1, <2>2, <2>3 DEF Offered
<1> QED BY <1>1

LEMMA AnswersAppend ==
    ASSUME IInv, NEW r \in Reply, out' = Append(out, r)
    PROVE  \A n, v : Answers(n, v)' <=> Answers(n, v) \/ (r.re = n /\ r.what = v)
<1>1. /\ Len(out) \in Nat /\ Len(out') = Len(out) + 1 /\ out'[Len(out) + 1] = r
      /\ \A i \in 1..Len(out) : out'[i] = out[i]
      BY DEF IInv, TypeOK
<1>2. \A i \in 1..Len(out') : i \in 1..Len(out) \/ i = Len(out) + 1 BY <1>1
<1> QED BY <1>1, <1>2 DEF Answers

(* Messages that were not taken have no answer.                            *)
LEMMA NoAnswerYet ==
    ASSUME IInv, NEW n, n \in Nat, n > h, NEW v
    PROVE  ~Answers(n, v)
<1>1. h \in Nat BY DEF IInv, TypeOK
<1>2. \A i \in 1..Len(out) : out[i].re \in Nat /\ out[i].re <= h
      BY OutNat DEF IInv, OrderInv
<1> QED BY <1>1, <1>2 DEF Answers

(* One step of a handler, and what is left of it.                          *)
Shrinks == \A j \in 1..Len(todo') : \E k \in 1..Len(todo) :
    /\ todo'[j].op = todo[k].op
    /\ todo'[j].op = "put" => todo'[j].what = todo[k].what

FetchOf(f) ==
    /\ f \in todo[1].left /\ out' = Append(out, Reply1(h, "EVENTS", f))
    /\ todo' = <<Fetch(h, todo[1].left \ {f})>> \o Tail(todo)
Effect ==
    LET o == todo[1].op IN
    /\ Shrinks
    /\ stored' = IF o = "store" THEN stored \cup {h} ELSE stored
    /\ pub' = IF o = "publish" THEN Append(pub, h) ELSE pub
    /\ o \notin {"put", "fetch"} => out' = out
    /\ o = "put" => LET r == Reply1(h, todo[1].what, 0)
                    IN  out' = Append(out, r) /\ r \in Reply
    /\ o = "fetch" =>
          \/ todo[1].left = {} /\ out' = out /\ todo' = Tail(todo)
          \/ \E f \in 1..8 : FetchOf(f)
    /\ o # "fetch" => todo' = Tail(todo)
    /\ IF o = "auth" THEN authed' = TRUE ELSE authed' = authed
    /\ o \notin {"sub", "unsub"} => UNCHANGED <<sub, nfil>>

LEMMA DoEffect ==
    ASSUME IInv, DoStep
    PROVE  /\ todo # <<>> /\ 1 \in 1..Len(todo) /\ h \in 1..Len(inb) /\ inb[h] \in Message
           /\ UNCHANGED <<access, inb, h>> /\ Effect
<1>0. TypeOK /\ TodoInv BY DEF IInv
<1>1. todo # <<>> /\ UNCHANGED <<access, inb, h>>
      BY DEF DoStep, DoPut, DoFetch, DoFetched, DoStore, DoPublish, DoSub, DoUnsub,
             DoAuth, Doing, reader, network
<1>2. /\ Len(todo) \in Nat /\ Len(todo) >= 1 /\ Head(todo) = todo[1] /\ Now = h
      /\ todo[1] \in Steps /\ Tail(todo) \in Seq(Steps) /\ Len(Tail(todo)) = Len(todo) - 1
      /\ \A j \in 1..Len(Tail(todo)) : j + 1 \in 1..Len(todo) /\ Tail(todo)[j] = todo[j + 1]
      BY <1>0, <1>1, TodoTail DEF TypeOK
<1>3. h \in 1..Len(inb) /\ inb[h] \in Message
      BY <1>0, <1>1, ElementOfSeq DEF TypeOK, TodoInv
<1>4. ASSUME todo' = Tail(todo) PROVE Shrinks BY <1>2, <1>4 DEF Shrinks
<1>5. CASE DoPut
  <2>1. Reply1(h, todo[1].what, 0) \in Reply BY <1>2, <1>3 DEF Reply1, Reply, Steps
  <2>2. todo[1].op = "put" /\ Shrinks /\ UNCHANGED <<stored, pub, authed, sub, nfil>>
        /\ todo' = Tail(todo) /\ out' = Append(out, Reply1(h, todo[1].what, 0))
        BY <1>2, <1>4, <1>5 DEF DoPut, Doing, Next_op
  <2> QED BY <1>1, <1>2, <1>3, <2>1, <2>2 DEF Effect
<1>6. ASSUME DoFetched \/ DoStore \/ DoPublish \/ DoSub \/ DoUnsub \/ DoAuth
      PROVE  Effect
  <2>1. todo' = Tail(todo) /\ Shrinks
        BY <1>4, <1>6 DEF DoFetched, DoStore, DoPublish, DoSub, DoUnsub, DoAuth, Next_op
  <2>2. CASE DoStore
    <3>1. todo[1].op = "store" /\ stored' = stored \cup {h} /\ UNCHANGED <<pub, out, authed, sub, nfil>>
          BY <1>2, <2>2 DEF DoStore, Doing
    <3> QED BY <2>1, <3>1 DEF Effect
  <2>3. CASE DoPublish
    <3>1. todo[1].op = "publish" /\ pub' = Append(pub, h) /\ UNCHANGED <<stored, out, authed, sub, nfil>>
          BY <1>2, <2>3 DEF DoPublish, Doing
    <3> QED BY <2>1, <3>1 DEF Effect
  <2>4. CASE DoFetched \/ DoSub \/ DoUnsub \/ DoAuth
    <3>1. /\ todo[1].op \in {"fetch", "sub", "unsub", "auth"} /\ UNCHANGED <<stored, pub, out>>
          /\ todo[1].op = "fetch" => todo[1].left = {}
          /\ IF todo[1].op = "auth" THEN authed' = TRUE ELSE authed' = authed
          /\ todo[1].op \notin {"sub", "unsub"} => UNCHANGED <<sub, nfil>>
          BY <1>2, <2>4 DEF DoFetched, DoSub, DoUnsub, DoAuth, Doing
    <3> QED BY <2>1, <3>1 DEF Effect
  <2> QED BY <1>6, <2>2, <2>3, <2>4
<1>7. ASSUME NEW f \in 1..8, DoFetch(f) PROVE Effect
  <2> DEFINE a == Fetch(Now, Head(todo).left \ {f})
  <2>1. /\ todo[1].op = "fetch" /\ out' = Append(out, Reply1(h, "EVENTS", f))
        /\ UNCHANGED <<stored, pub, authed, sub, nfil>> /\ todo' = <<a>> \o Tail(todo)
        BY <1>2, <1>7 DEF DoFetch, Doing
  <2>2. a.op = "fetch" BY DEF Fetch
  <2> HIDE DEF a
  <2>3. /\ Len(todo') = Len(todo) /\ todo'[1] = a
        /\ \A j \in 1..Len(todo) : j # 1 => todo'[j] = todo[j]
    <3> DEFINE S == Steps \cup {a}
    <3>1. <<a>> \in Seq(S) /\ Len(<<a>>) = 1 /\ <<a>>[1] = a OBVIOUS
    <3>2. Tail(todo) \in Seq(S) BY <1>2, SeqMonotonic
    <3> HIDE DEF S
    <3>3. /\ Len(todo') = 1 + Len(Tail(todo))
          /\ \A i \in 1..(1 + Len(Tail(todo))) :
                todo'[i] = IF i <= 1 THEN <<a>>[i] ELSE Tail(todo)[i - 1]
          BY <2>1, <3>1, <3>2, ConcatProperties
    <3> QED BY <1>2, <3>1, <3>3
  <2>4. Shrinks BY <1>2, <2>1, <2>2, <2>3 DEF Shrinks
  <2>5. FetchOf(f) BY <1>2, <1>7, <2>1 DEF FetchOf, DoFetch, a
  <2> QED BY <2>1, <2>4, <2>5 DEF Effect
<1>8. Effect BY <1>5, <1>6, <1>7 DEF DoStep
<1> QED BY <1>1, <1>2, <1>3, <1>8

-----------------------------------------------------------------------------
(* Who is served.                                                          *)

LEMMA ScriptAuth ==
    ASSUME NEW n \in Nat, NEW m, NEW res, NEW failing, m.type = "AUTH", m.how = "ok"
    PROVE  LET s == Script(n, m, res, failing) IN s # <<>> /\ s[1].op = "auth"
<1>1. Script(n, m, res, failing) = <<Op("auth", n), Put(n, "OK")>>
      BY DEF Script, dispatchNostrMsgs, Gated, handlerAuthMsgs
<1>2. Op("auth", n).op = "auth" BY DEF Op
<1> QED BY <1>1, <1>2

LEMMA OfferServes ==
    ASSUME IInv, Recent, ServeInv, Offered,
           UNCHANGED <<access, h, todo, authed, stored, pub, out>>
    PROVE  Recent' /\ ServeInv'
<1>1. Recent' BY DEF Recent
<1>2. todo # <<>> => inb'[h] = inb[h]
  <2>1. todo # <<>> => h \in 1..Len(inb) BY InbKept DEF IInv, TodoInv
  <2> QED BY <2>1, InbKept
<1>3. StepsFree => StepsFree'
  <2> SUFFICES ASSUME StepsFree, NEW j \in 1..Len(todo) PROVE Free(todo[j])'
      BY DEF StepsFree
  <2>1. Free(todo[j]) BY DEF StepsFree
  <2>2. inb'[h] = inb[h] BY <1>2
  <2> QED BY <2>1, <2>2 DEF Free, Serves, Restricted
<1>4. Authenticates => Authenticates' BY <1>2 DEF Authenticates
<1> QED BY <1>1, <1>3, <1>4 DEF ServeInv

LEMMA BeginServes ==
    ASSUME IInv, Recent, ServeInv, Dispatch \/ DispatchBadUtf8
    PROVE  Recent' /\ ServeInv'
<1> DEFINE m == inb[h + 1]
<1>1. /\ h' = h + 1 /\ h \in Nat /\ h + 1 \in 1..Len(inb)
      /\ UNCHANGED <<access, inb, authed, stored, pub, out>>
      BY DEF Dispatch, DispatchBadUtf8, Begin, Idle, IInv, TypeOK, reader, network
<1>2. Recent'
  <2>1. /\ \A n \in stored : n \in Nat /\ n <= h
        /\ \A k \in 1..Len(pub) : pub[k] \in Nat /\ pub[k] <= h
        BY ElementOfSeq DEF Recent, IInv, TypeOK
  <2> QED BY <1>1, <2>1 DEF Recent
<1>3. m \in Message BY <1>1, ElementOfSeq DEF IInv, TypeOK
<1>4. CASE m.type = "AUTH" /\ m.how = "ok"
  <2>1. Dispatch BY <1>4 DEF DispatchBadUtf8
  <2>2. PICK res, failing : todo' = Script(h + 1, m, res, failing)
        BY <2>1 DEF Dispatch, Begin
  <2>3. todo' # <<>> /\ todo'[1].op = "auth"
    <3>1. h + 1 \in Nat BY <1>1
    <3> DEFINE sc == Script(h + 1, m, res, failing)
    <3> HIDE DEF m
    <3>2. sc # <<>> /\ sc[1].op = "auth" BY <1>4, <3>1, ScriptAuth
    <3> HIDE DEF sc
    <3>3. todo' = sc BY <2>2 DEF sc
    <3> QED BY <3>2, <3>3
  <2>4. inb'[h'] = m BY <1>1
  <2>5. Authenticates' BY <1>4, <2>3, <2>4 DEF Authenticates
  <2> QED BY <1>2, <2>5 DEF ServeInv
<1>5. CASE ~(m.type = "AUTH" /\ m.how = "ok")
  <2>1. todo' \in Seq(Begins(h + 1, m))
    <3>1. CASE Dispatch BY <1>1, <1>3, <3>1, ScriptBegins DEF Dispatch, Begin
    <3>2. CASE DispatchBadUtf8 BY <3>2 DEF DispatchBadUtf8, Begin
    <3> QED BY <3>1, <3>2
  <2>2. ASSUME ~authed, NEW j \in 1..Len(todo') PROVE Free(todo[j])'
    <3>1. MayBegin(todo'[j], m) BY <2>1, ElementOfSeq DEF Begins
    <3> QED BY <1>1, <1>5, <2>2, <3>1 DEF Free, MayBegin, Restricted, Serves
  <2>3. authed \/ StepsFree' BY <2>2 DEF StepsFree
  <2> QED BY <1>1, <1>2, <2>3 DEF ServeInv
<1> QED BY <1>4, <1>5

(* The step at hand serves an unauthenticated peer nothing.                *)
LEMMA HeadFree ==
    ASSUME ServeInv, ~authed, 1 \in 1..Len(todo)
    PROVE  Free(todo[1])
<1>1. CASE StepsFree BY <1>1 DEF StepsFree
<1>2. CASE Authenticates BY <1>2 DEF Authenticates, Free, Serves
<1> QED BY <1>1, <1>2 DEF ServeInv

LEMMA DoServes ==
    ASSUME IInv, Recent, ServeInv, DoStep
    PROVE  Recent' /\ ServeInv'
<1> DEFINE s == todo[1]
<1>1. /\ 1 \in 1..Len(todo) /\ h \in 1..Len(inb) /\ h \in Nat
      /\ UNCHANGED <<access, inb, h>> /\ Shrinks
  <2>1. Shrinks BY DoEffect DEF Effect
  <2> QED BY <2>1, DoEffect DEF IInv, TypeOK
<1>2. Recent'
  <2>1. \A n \in stored' : n <= h
    <3>1. stored' = stored \/ stored' = stored \cup {h} BY DoEffect DEF Effect
    <3> QED BY <1>1, <3>1 DEF Recent
  <2>2. \A k \in 1..Len(pub') : pub'[k] <= h
    <3>1. CASE pub' = pub BY <3>1 DEF Recent
    <3>2. CASE pub' = Append(pub, h)
      <4>1. pub \in Seq(Nat) BY DEF IInv, TypeOK
      <4>2. Len(pub') = Len(pub) + 1 /\ pub'[Len(pub) + 1] = h
            /\ \A k \in 1..Len(pub) : pub'[k] = pub[k]
            BY <1>1, <3>2, <4>1
      <4>3. Len(pub) \in Nat BY <4>1
      <4> QED BY <1>1, <4>2, <4>3 DEF Recent
    <3> QED BY <3>1, <3>2, DoEffect DEF Effect
  <2> QED BY <1>1, <2>1, <2>2 DEF Recent
<1>3. authed \/ s.op = "auth" => authed'
  <2>1. authed \in BOOLEAN BY DEF IInv, TypeOK
  <2> QED BY <2>1, DoEffect DEF Effect
<1>4. CASE StepsFree
  <2> SUFFICES ASSUME NEW j \in 1..Len(todo') PROVE Free(todo[j])'
      BY <1>2 DEF ServeInv, StepsFree
  <2>1. PICK k \in 1..Len(todo) : /\ todo'[j].op = todo[k].op
                                  /\ todo'[j].op = "put" => todo'[j].what = todo[k].what
        BY <1>1 DEF Shrinks
  <2>2. Free(todo[k]) BY <1>4 DEF StepsFree
  <2> QED BY <1>1, <2>1, <2>2 DEF Free, Serves, Restricted
<1>5. CASE authed \/ Authenticates
  <2>1. authed' BY <1>3, <1>5 DEF Authenticates
  <2> QED BY <1>2, <2>1 DEF ServeInv
<1> QED BY <1>4, <1>5 DEF ServeInv

LEMMA BroadcastServes ==
    ASSUME IInv, Recent, ServeInv, Broadcast
    PROVE  Recent' /\ ServeInv'
<1>1. UNCHANGED <<access, inb, h, todo, authed, stored, pub>>
      BY DEF Broadcast, reader, dispatcher, network
<1>2. StepsFree' <=> StepsFree BY <1>1 DEF StepsFree, Free, Serves, Restricted
<1>3. Authenticates' <=> Authenticates BY <1>1 DEF Authenticates
<1> QED BY <1>1, <1>2, <1>3 DEF ServeInv, Recent

(* What a step may do for a peer that has not authenticated.               *)
NotServed == /\ Restricted =>
                  /\ UNCHANGED <<sub, nfil, stored, pub>>
                  /\ \A i \in (Len(out) + 1)..Len(out') : out'[i].what \notin Granted
             /\ \A n \in stored' \ stored : inb[n].how # "dm"

LEMMA DoNotServed ==
    ASSUME IInv, ServeInv, ~authed, DoStep
    PROVE  NotServed
<1> DEFINE s == todo[1]
<1>1. 1 \in 1..Len(todo) /\ Effect BY DoEffect
<1>2. Free(s) BY <1>1, HeadFree
<1>3. \A n \in stored' \ stored : inb[n].how # "dm" BY <1>1, <1>2 DEF Effect, Free
<1>4. ASSUME Restricted
      PROVE  /\ UNCHANGED <<sub, nfil, stored, pub>>
             /\ \A i \in (Len(out) + 1)..Len(out') : out'[i].what \notin Granted
  <2>1. ~Serves(s) BY <1>2, <1>4 DEF Free
  <2>2. UNCHANGED <<sub, nfil, stored, pub>> BY <1>1, <2>1 DEF Effect, Serves
  <2>3. CASE out' = out
    <3>1. Len(out) \in Nat BY DEF IInv, TypeOK
    <3> QED BY <2>2, <2>3, <3>1
  <2>4. CASE s.op = "put"
    <3> DEFINE r == Reply1(h, s.what, 0)
    <3>1. out' = Append(out, r) /\ r \in Reply BY <1>1, <2>4 DEF Effect
    <3>2. r.what \notin Granted BY <2>1, <2>4 DEF Serves, Reply1
    <3>3. out \in Seq(Reply) /\ Len(out) \in Nat BY DEF IInv, TypeOK
    <3> HIDE DEF r
    <3>4. Len(out') = Len(out) + 1 /\ out'[Len(out) + 1] = r BY <3>1, <3>3
    <3> QED BY <2>2, <3>2, <3>3, <3>4
  <2> QED BY <1>1, <2>1, <2>3, <2>4 DEF Effect, Serves
<1> QED BY <1>3, <1>4 DEF NotServed

LEMMA StepNotServed ==
    ASSUME IInv, ServeInv, ~authed, [Next]_vars
    PROVE  NotServed
<1>0. out \in Seq(Reply) /\ Len(out) \in Nat BY DEF IInv, TypeOK
<1>1. CASE UNCHANGED <<sub, nfil, stored, pub, out>> BY <1>0, <1>1 DEF NotServed
<1>2. CASE DoStep BY <1>2, DoNotServed
<1>3. CASE Broadcast
  <2> DEFINE r == Reply1(0, "BCAST", 0)
  <2>1. r \in Reply /\ r.what \notin Granted BY DEF Reply1, Reply, Granted
  <2>2. UNCHANGED <<sub, nfil, stored, pub>> /\ out' = Append(out, r)
        BY <1>3 DEF Broadcast, dispatcher
  <2> HIDE DEF r
  <2>3. Len(out') = Len(out) + 1 /\ out'[Len(out) + 1] = r BY <1>0, <2>1, <2>2
  <2> QED BY <1>0, <2>1, <2>2, <2>3 DEF NotServed
<1> QED
  BY <1>1, <1>2, <1>3
  DEF Next, Reader, ReaderOffers, ReaderSeesDone, ReaderJoins, ReaderHandsOver,
      Dispatcher, Dispatch, DispatchBadUtf8, DispatcherChecks, Writer, WriterTakes,
      WriterWrites, WriterChecks, Environment, ReaderRead, ReaderFails,
      ReaderRefuses, PeerVanishes, PeerStops, BroadcasterTakes, vars, dispatcher

-----------------------------------------------------------------------------
(* What an acknowledgement means.                                          *)

OkAt(n) == /\ Kept(inb[n]) /\ Answers(n, "OK") => n \in stored /\ Published(n)
           /\ inb[n].type = "EVENT" => ~(Answers(n, "OK") /\ Answers(n, "NotOK"))
LEMMA OkEach == /\ OkMeansKept <=> \A n \in 1..Len(inb) : OkAt(n)
                /\ OkMeansKept' <=> \A n \in 1..Len(inb') : OkAt(n)'
BY DEF OkMeansKept, OkAt, Published

LEMMA OfferOk ==
    ASSUME IInv, OkInv, Offered, UNCHANGED <<h, todo, stored, pub, out>>
    PROVE  OkInv'
<1>1. /\ Len(inb) \in Nat /\ h \in 0..Len(inb) /\ Len(inb') >= Len(inb)
      /\ \A k \in 1..Len(inb) : k \in 1..Len(inb') /\ inb'[k] = inb[k]
      BY InbKept
<1>2. h > 0 => inb'[h] = inb[h] BY <1>1
<1>3. Has(todo, "OK") => h > 0 BY DEF Has, IInv, TodoInv
<1>4. OkPlan' BY <1>2, <1>3 DEF OkInv, OkPlan, Has, Earning, Op, Put, Published
<1>5. Verdict' BY <1>2 DEF OkInv, Verdict, Unused, Has, Answers
<1>6. ASSUME NEW n \in 1..Len(inb')
      PROVE  OkAt(n)'
  <2>1. CASE n \in 1..Len(inb)
    <3>1. OkAt(n) /\ inb'[n] = inb[n] BY <1>1, <2>1, OkEach DEF OkInv
    <3> QED BY <3>1 DEF OkAt, Answers, Published
  <2>2. CASE n \notin 1..Len(inb)
    <3>1. n \in Nat /\ n > h BY <1>1, <2>2
    <3>2. ~Answers(n, "OK") BY <3>1, NoAnswerYet
    <3> QED BY <3>2 DEF OkAt, Answers
  <2> QED BY <2>1, <2>2
<1> QED BY <1>4, <1>5, <1>6, OkEach DEF OkInv

LEMMA BeginOk ==
    ASSUME IInv, OkInv, Dispatch \/ DispatchBadUtf8
    PROVE  OkInv'
<1> DEFINE m == inb[h + 1]
<1>1. /\ h' = h + 1 /\ h \in Nat /\ h + 1 \in 1..Len(inb)
      /\ UNCHANGED <<inb, stored, pub, out>>
      BY DEF Dispatch, DispatchBadUtf8, Begin, Idle, IInv, TypeOK, reader, network
<1>2. m \in Message BY <1>1, ElementOfSeq DEF IInv, TypeOK
<1>3. m.type = "EVENT" =>
        /\ Has(todo', "OK") /\ Kept(m) =>
              todo' = <<Op("store", h + 1), Op("publish", h + 1), Put(h + 1, "OK")>>
        /\ ~Has(todo', "OK") \/ ~Has(todo', "NotOK")
  <2>1. CASE Dispatch BY <1>1, <1>2, <2>1, ScriptOk DEF Dispatch, Begin
  <2>2. CASE DispatchBadUtf8 BY <2>2 DEF DispatchBadUtf8
  <2> QED BY <2>1, <2>2
<1>4. OkPlan'
  <2>1. Kept(m) => m.type = "EVENT" BY DEF Kept
  <2>2. Earning' = <<Op("store", h + 1), Op("publish", h + 1), Put(h + 1, "OK")>>
        BY <1>1 DEF Earning, Op, Put
  <2> HIDE DEF m
  <2>3. Has(todo', "OK") /\ Kept(m) => todo' = Earning' BY <1>3, <2>1, <2>2
  <2>4. Has(todo, "OK")' /\ Kept(inb[h])' => todo' = Earning'
        BY <1>1, <2>3 DEF Has, Kept, m
  <2> QED BY <2>4 DEF OkPlan
<1>5. Verdict'
  <2>0. h + 1 \in Nat /\ h + 1 > h BY <1>1
  <2>1. \A v : ~Answers(h + 1, v) BY <2>0, NoAnswerYet
  <2>2. \A v : ~Answers(h, v)' BY <1>1, <2>1 DEF Answers
  <2>3. \A v : Has(todo, v)' <=> Has(todo', v) BY DEF Has
  <2> QED BY <1>1, <1>3, <2>2, <2>3 DEF Verdict, Unused
<1>6. OkMeansKept' BY <1>1 DEF OkInv, OkMeansKept, Answers
<1> QED BY <1>4, <1>5, <1>6 DEF OkInv

(* The steps of an acknowledgement that is earned, one by one.             *)
LEMMA EarningSteps ==
    /\ Earning[1].op = "store"
    /\ Tail(Earning) = <<Op("publish", h), Put(h, "OK")>>
    /\ Tail(Earning)[1].op = "publish"
    /\ Tail(Tail(Earning)) = <<Put(h, "OK")>>
    /\ Tail(Tail(Tail(Earning))) = <<>>
BY DEF Earning, Op, Put

LEMMA DoOk ==
    ASSUME IInv, OkInv, DoStep
    PROVE  OkInv'
<1> DEFINE s == todo[1]
<1>1. /\ 1 \in 1..Len(todo) /\ h \in 1..Len(inb) /\ h \in Nat
      /\ UNCHANGED <<inb, h>> /\ Shrinks
  <2>1. Shrinks BY DoEffect DEF Effect
  <2> QED BY <2>1, DoEffect DEF IInv, TypeOK
<1>2. stored \subseteq stored' /\ (s.op = "store" => h \in stored')
      BY DoEffect DEF Effect
<1>3. /\ \A n : Published(n) => Published(n)'
      /\ s.op = "publish" => Published(h)'
  <2>1. CASE pub' = pub /\ s.op # "publish" BY <2>1 DEF Published
  <2>2. CASE pub' = Append(pub, h) /\ s.op = "publish"
    <3>1. Len(pub) \in Nat /\ pub \in Seq(Nat) BY DEF IInv, TypeOK
    <3>2. /\ Len(pub') = Len(pub) + 1 /\ pub'[Len(pub) + 1] = h
          /\ \A k \in 1..Len(pub) : k \in 1..Len(pub') /\ pub'[k] = pub[k]
          BY <1>1, <2>2, <3>1
    <3>3. Len(pub) + 1 \in 1..Len(pub') BY <3>1, <3>2
    <3> QED BY <1>1, <3>2, <3>3 DEF Published
  <2> QED BY <2>1, <2>2, DoEffect DEF Effect
<1>4. \A v : Has(todo, v)' => Has(todo, v) BY <1>1 DEF Shrinks, Has
<1>5. \A v \in {"OK", "NotOK"} : \A n : Answers(n, v)' =>
        Answers(n, v) \/ (n = h /\ s.op = "put" /\ s.what = v)
  <2>1. CASE out' = out BY <2>1 DEF Answers
  <2>2. CASE s.op = "put" BY <2>2, DoEffect, AnswersAppend DEF Effect, Reply1
  <2>3. CASE s.op = "fetch" /\ out' # out
    <3>1. PICK f \in 1..8 : out' = Append(out, Reply1(h, "EVENTS", f))
          BY <2>3, DoEffect DEF Effect, FetchOf
    <3>2. Reply1(h, "EVENTS", f) \in Reply BY <1>1, <3>1 DEF Reply1, Reply
    <3> QED BY <2>3, <3>1, <3>2, AnswersAppend DEF Reply1
  <2> QED BY <2>1, <2>2, <2>3, DoEffect DEF Effect
<1>6. \A v : s.op = "put" /\ s.what = v => Has(todo, v) BY <1>1 DEF Has
<1>7. OkPlan'
  <2> SUFFICES ASSUME Has(todo, "OK")', Kept(inb[h])
               PROVE  \/ todo' = Tail(Earning) /\ h \in stored'
                      \/ todo' = Tail(Tail(Earning)) /\ h \in stored' /\ Published(h)'
      BY <1>1 DEF OkPlan, Earning, Op, Put, Kept, Published
  <2>1. Has(todo, "OK") BY <1>4
  <2>2. CASE todo = Earning
    <3>1. s.op = "store" /\ todo' = Tail(todo)
          BY <2>2, EarningSteps, DoEffect DEF Effect
    <3> QED BY <1>2, <2>2, <3>1
  <2>3. CASE todo = Tail(Earning) /\ h \in stored
    <3>1. s.op = "publish" /\ todo' = Tail(todo)
          BY <2>3, EarningSteps, DoEffect DEF Effect
    <3> QED BY <1>2, <1>3, <2>3, <3>1
  <2>4. CASE todo = Tail(Tail(Earning))
    <3>1. todo = <<Put(h, "OK")>> BY <2>4, EarningSteps
    <3>2. s.op = "put" BY <3>1 DEF Put
    <3>3. todo' = <<>> BY <2>4, <3>2, EarningSteps, DoEffect DEF Effect
    <3> QED BY <3>3 DEF Has
  <2> QED BY <2>1, <2>2, <2>3, <2>4 DEF OkInv, OkPlan
<1>8. Verdict'
  <2>1. ASSUME NEW v \in {"OK", "NotOK"}, Unused(v) PROVE Unused(v)'
    <3>1. PICK n : n = h OBVIOUS
    <3>2. ~Answers(n, v) /\ ~Has(todo, v) BY <2>1, <3>1 DEF Unused
    <3>3. ~Answers(n, v)' /\ ~Has(todo, v)' BY <1>4, <1>5, <1>6, <3>2
    <3> QED BY <1>1, <3>1, <3>3 DEF Unused, Answers
  <2> QED BY <1>1, <2>1 DEF OkInv, Verdict
<1>9. ASSUME NEW n \in 1..Len(inb') PROVE OkAt(n)'
  <2>1. n \in 1..Len(inb) /\ inb'[n] = inb[n] /\ OkAt(n) BY <1>1, OkEach DEF OkInv
  <2>2. CASE n # h BY <1>2, <1>3, <1>5, <2>1, <2>2 DEF OkAt, Published
  <2>3. CASE n = h
    <3>1. ASSUME Answers(n, "OK")', Kept(inb[h]) PROVE h \in stored /\ Published(h)
      <4>1. CASE Answers(n, "OK") BY <2>1, <2>3, <3>1, <4>1 DEF OkAt
      <4>2. CASE s.op = "put" /\ s.what = "OK"
        <5>1. Has(todo, "OK") BY <1>6, <4>2
        <5> QED BY <3>1, <4>2, <5>1, EarningSteps DEF OkInv, OkPlan
      <4> QED BY <1>5, <3>1, <4>1, <4>2
    <3>2. inb[h].type = "EVENT" => ~(Answers(h, "OK")' /\ Answers(h, "NotOK")')
          BY <1>1, <1>8 DEF Verdict, Unused, Answers
    <3> QED BY <1>1, <1>2, <1>3, <2>1, <2>3, <3>1, <3>2 DEF OkAt, Kept, Answers
  <2> QED BY <2>2, <2>3
<1> QED BY <1>7, <1>8, <1>9, OkEach DEF OkInv

LEMMA BroadcastOk ==
    ASSUME IInv, OkInv, Broadcast
    PROVE  OkInv'
<1>1. /\ UNCHANGED <<inb, h, todo, stored, pub>>
      /\ out' = Append(out, Reply1(0, "BCAST", 0)) /\ Reply1(0, "BCAST", 0) \in Reply
      BY DEF Broadcast, reader, dispatcher, network, Reply1, Reply
<1>2. \A n, v : v # "BCAST" => (Answers(n, v)' <=> Answers(n, v))
      BY <1>1, AnswersAppend DEF Reply1
<1>3. OkPlan' BY <1>1 DEF OkInv, OkPlan, Has, Earning, Op, Put, Published, Kept
<1>4. Verdict'
  <2>1. \A v : Has(todo, v)' <=> Has(todo, v) BY <1>1 DEF Has
  <2>2. ASSUME NEW v \in {"OK", "NotOK"} PROVE Answers(h, v)' <=> Answers(h, v)
    <3>1. PICK n : n = h OBVIOUS
    <3>2. Answers(n, v)' <=> Answers(n, v) BY <1>2
    <3> QED BY <1>1, <3>1, <3>2 DEF Answers
  <2> QED BY <1>1, <2>1, <2>2 DEF OkInv, Verdict, Unused
<1>5. ASSUME NEW n \in 1..Len(inb') PROVE OkAt(n)'
  <2>1. OkAt(n) BY <1>1, OkEach DEF OkInv
  <2> QED BY <1>1, <1>2, <2>1 DEF OkAt, Published, Kept
<1> QED BY <1>3, <1>4, <1>5, OkEach DEF OkInv

-----------------------------------------------------------------------------
(* EOSE.                                                                   *)

LEMMA BatchesAppend ==
    ASSUME IInv, NEW r \in Reply, out' = Append(out, r), NEW n, NEW f
    PROVE  /\ ~(r.what = "EVENTS" /\ r.re = n /\ r.f = f) => Batches(n, f)' = Batches(n, f)
           /\ r.what = "EVENTS" /\ r.re = n /\ r.f = f =>
                 Cardinality(Batches(n, f)') = Cardinality(Batches(n, f)) + 1
<1> DEFINE B == Batches(n, f)
           x == Len(out) + 1
<1>1. /\ Len(out) \in Nat /\ Len(out') = x /\ out'[x] = r
      /\ \A i \in 1..Len(out) : out'[i] = out[i]
      BY DEF IInv, TypeOK
<1>2. 1..x = (1..Len(out)) \cup {x} /\ x \notin 1..Len(out) BY <1>1
<1>3. IsFiniteSet(B) /\ x \notin B
  <2>1. B \in SUBSET (1..Len(out)) BY DEF Batches
  <2>2. IsFiniteSet(1..Len(out)) BY <1>1, FS_Interval
  <2> QED BY <1>2, <2>1, <2>2, FS_Subset
<1>4. Batches(n, f)' = {i \in 1..x : /\ out'[i].what = "EVENTS"
                                     /\ out'[i].re = n /\ out'[i].f = f}
      BY <1>1 DEF Batches
<1>5. Batches(n, f)' = IF r.what = "EVENTS" /\ r.re = n /\ r.f = f THEN B \cup {x} ELSE B
      BY <1>1, <1>2, <1>4 DEF Batches
<1>6. Cardinality(B \cup {x}) = Cardinality(B) + 1 BY <1>3, FS_AddElement
<1> QED BY <1>5, <1>6

(* An EOSE that was sent stays right, unless its REQ is answered again.    *)
Before(j, f) == {i \in 1..(j - 1) : /\ out[i].what = "EVENTS"
                                   /\ out[i].re = out[j].re /\ out[i].f = f}
EoseAt(j) == /\ \A f \in 1..inb[out[j].re].nf : Cardinality(Before(j, f)) = 1
             /\ \A i \in (j + 1)..Len(out) : out[i].re # out[j].re
LEMMA EoseEach ==
    /\ EoseIsLast <=> \A j \in 1..Len(out) : out[j].what = "EOSE" => EoseAt(j)
    /\ EoseIsLast' <=> \A j \in 1..Len(out') : out'[j].what = "EOSE" => EoseAt(j)'
BY DEF EoseIsLast, EoseAt, Before

LEMMA EoseKept ==
    ASSUME IInv, Offered, NEW r \in Reply, out' \in {out, Append(out, r)},
           NEW j \in 1..Len(out), EoseAt(j), out[j].re > 0, r.re # out[j].re
    PROVE  EoseAt(j)'
<1>1. /\ Len(out) \in Nat /\ Len(out') >= Len(out)
      /\ \A i \in 1..Len(out) : out'[i] = out[i]
      /\ \A i \in 1..Len(out') : i \in 1..Len(out) \/ out'[i] = r
  <2>1. out \in Seq(Reply) BY DEF IInv, TypeOK
  <2>2. CASE out' = out BY <2>1, <2>2
  <2>3. CASE out' = Append(out, r) BY <2>1, <2>3
  <2> QED BY <2>2, <2>3
<1>2. out[j].re \in 1..h
      BY OutNat DEF IInv, OrderInv, TypeOK
<1>3. inb'[out'[j].re] = inb[out[j].re]
  <2>1. h \in 0..Len(inb) /\ \A k \in 1..Len(inb) : inb'[k] = inb[k] BY InbKept
  <2> QED BY <1>1, <1>2, <2>1
<1>4. \A f : Before(j, f)' = Before(j, f) BY <1>1 DEF Before
<1>5. \A i \in (j + 1)..Len(out') : out'[i].re # out'[j].re
  <2> TAKE i \in (j + 1)..Len(out')
  <2>1. i \in 1..Len(out') /\ (i \in 1..Len(out) => i \in (j + 1)..Len(out)) BY <1>1
  <2> QED BY <1>1, <2>1 DEF EoseAt
<1> QED BY <1>1, <1>3, <1>4, <1>5 DEF EoseAt

LEMMA OfferEose ==
    ASSUME IInv, EoseInv, Offered, UNCHANGED <<h, todo, out>>
    PROVE  EoseInv'
<1>1. h > 0 => inb'[h] = inb[h] BY InbKept
<1>2. Has(todo, "EOSE") => h > 0 BY DEF Has, IInv, TodoInv
<1>3. EosePlan'
  <2>1. \A f : Batches(h, f)' = Batches(h, f) BY DEF Batches
  <2>2. \A L : h > 0 /\ PlanFor(L) => PlanFor(L)'
        BY <1>1, <2>1 DEF PlanFor, Rest, Asking, Op, Put, Fetch
  <2>3. Has(todo, "EOSE")' <=> Has(todo, "EOSE") BY DEF Has
  <2> QED BY <1>1, <1>2, <2>2, <2>3 DEF EoseInv, EosePlan
<1>4. ASSUME NEW j \in 1..Len(out'), out'[j].what = "EOSE" PROVE EoseAt(j)'
  <2>1. j \in 1..Len(out) /\ EoseAt(j) /\ out[j].re > 0 BY <1>4, EoseEach DEF EoseInv
  <2>2. Reply1(0, "BCAST", 0) \in Reply /\ Reply1(0, "BCAST", 0).re = 0
        BY DEF Reply, Reply1
  <2> QED BY <2>1, <2>2, EoseKept
<1> QED BY <1>3, <1>4, EoseEach DEF EoseInv, Answers

LEMMA BroadcastEose ==
    ASSUME IInv, EoseInv, Broadcast
    PROVE  EoseInv'
<1> DEFINE r == Reply1(0, "BCAST", 0)
<1>1. /\ UNCHANGED <<inb, h, todo>> /\ out' = Append(out, r) /\ r \in Reply
      /\ r.what = "BCAST" /\ r.re = 0
      BY DEF Broadcast, reader, dispatcher, network, Reply1, Reply
<1> HIDE DEF r
<1>2. EosePlan'
  <2>1. \A n, f : Batches(n, f)' = Batches(n, f) BY <1>1, BatchesAppend
  <2>2. \A f : Batches(h, f)' = Batches(h, f)
    <3>1. PICK n : n = h OBVIOUS
    <3>2. ASSUME NEW f PROVE Batches(h, f)' = Batches(h, f)
      <4>1. Batches(n, f)' = Batches(n, f) BY <2>1
      <4> QED BY <1>1, <3>1, <4>1 DEF Batches
    <3> QED BY <3>2
  <2>3. \A L : PlanFor(L) => PlanFor(L)'
        BY <1>1, <2>2 DEF PlanFor, Rest, Asking, Op, Put, Fetch
  <2> QED BY <1>1, <2>3 DEF EoseInv, EosePlan, Has
<1>3. \A j \in 1..Len(out') : out'[j].what = "EOSE" => j \in 1..Len(out) /\ out'[j] = out[j]
      BY <1>1 DEF IInv, TypeOK
<1>4. ASSUME NEW j \in 1..Len(out'), out'[j].what = "EOSE" PROVE EoseAt(j)'
  <2>1. j \in 1..Len(out) /\ EoseAt(j) /\ out[j].re > 0
        BY <1>3, <1>4, EoseEach DEF EoseInv
  <2>2. Offered BY <1>1 DEF Offered
  <2> QED BY <1>1, <2>1, <2>2, EoseKept
<1>5. h > 0 /\ Answers(h, "EOSE")' => todo' = <<>>
  <2>1. Answers(h, "EOSE")' => Answers(h, "EOSE") BY <1>1, <1>3 DEF Answers
  <2> QED BY <1>1, <2>1 DEF EoseInv
<1>6. (\A j \in 1..Len(out) : out[j].what = "EOSE" => out[j].re > 0)'
      BY <1>3 DEF EoseInv
<1> QED BY <1>1, <1>2, <1>4, <1>5, <1>6, EoseEach DEF EoseInv

LEMMA BeginEose ==
    ASSUME IInv, EoseInv, Dispatch \/ DispatchBadUtf8
    PROVE  EoseInv'
<1> DEFINE m == inb[h + 1]
<1>1. /\ h' = h + 1 /\ h \in Nat /\ h + 1 \in 1..Len(inb) /\ UNCHANGED <<inb, out>>
      BY DEF Dispatch, DispatchBadUtf8, Begin, Idle, IInv, TypeOK, reader, network
<1>2. m \in Message BY <1>1, ElementOfSeq DEF IInv, TypeOK
<1>3. \A v : ~Answers(h + 1, v)
  <2>1. h + 1 \in Nat /\ h + 1 > h BY <1>1
  <2> QED BY <2>1, NoAnswerYet
<1>4. EosePlan'
  <2>0. PICK L : L = 1..m.nf OBVIOUS
  <2> SUFFICES ASSUME Has(todo, "EOSE")' PROVE PlanFor(L)'
    <3>1. inb'[h'] = m BY <1>1
    <3>2. L \in SUBSET (1..inb'[h'].nf) BY <2>0, <3>1
    <3> QED BY <3>2 DEF EosePlan
  <2>1. todo' = <<Op("sub", h + 1), Put(h + 1, "NOTICE"), Fetch(h + 1, 1..m.nf),
                  Put(h + 1, "EOSE")>>
    <3>1. Has(todo', "EOSE") BY DEF Has
    <3>2. CASE Dispatch
      <4>1. PICK res, failing : todo' = Script(h + 1, m, res, failing)
            BY <3>2 DEF Dispatch, Begin
      <4> QED BY <1>1, <1>2, <3>1, <4>1, ScriptEose
    <3>3. CASE DispatchBadUtf8
      <4>1. todo' = <<>> BY <3>3 DEF DispatchBadUtf8, Begin
      <4> QED BY <3>1, <4>1 DEF Has
    <3> QED BY <3>2, <3>3
  <2>2. todo' = Asking(L)' BY <1>1, <2>0, <2>1 DEF Asking, Op, Put, Fetch
  <2>3. ASSUME NEW f PROVE Cardinality(Batches(h, f)') = 0
    <3>2. Batches(h, f)' = {} BY <1>1, <1>3 DEF Batches, Answers
    <3> QED BY <3>2, FS_EmptySet
  <2>4. \A f \in L : Cardinality(Batches(h, f)') = IF f \in L THEN 0 ELSE 1
        BY <2>3
  <2>5. 1..inb'[h'].nf = L BY <1>1, <2>0
  <2> QED BY <2>2, <2>4, <2>5 DEF PlanFor, Rest
<1>5. ~Answers(h, "EOSE")'
  <2> QED BY <1>1, <1>3 DEF Answers
<1>6. EoseIsLast' BY <1>1 DEF EoseInv, EoseIsLast
<1> QED BY <1>1, <1>4, <1>5, <1>6 DEF EoseInv

(* The steps of the answer to a REQ, one by one.                           *)
LEMMA AskingSteps ==
    ASSUME NEW L
    PROVE  /\ Asking(L)[1].op = "sub"
           /\ Tail(Asking(L)) = <<Put(h, "NOTICE"), Fetch(h, L), Put(h, "EOSE")>>
           /\ Tail(Asking(L))[1] = Put(h, "NOTICE")
           /\ Tail(Tail(Asking(L))) = <<Fetch(h, L), Put(h, "EOSE")>>
           /\ Tail(Tail(Asking(L)))[1] = Fetch(h, L)
           /\ Tail(Tail(Tail(Asking(L)))) = <<Put(h, "EOSE")>>
           /\ <<Put(h, "EOSE")>>[1] = Put(h, "EOSE")
           /\ Tail(<<Put(h, "EOSE")>>) = <<>>
<1> DEFINE a == Op("sub", h)
           b == Put(h, "NOTICE")
           c == Fetch(h, L)
           d == Put(h, "EOSE")
<1>1. a.op = "sub" BY DEF Op
<1> HIDE DEF a, b, c, d
<1>2. /\ <<a, b, c, d>>[1] = a /\ Tail(<<a, b, c, d>>) = <<b, c, d>>
      /\ <<b, c, d>>[1] = b /\ Tail(<<b, c, d>>) = <<c, d>>
      /\ <<c, d>>[1] = c /\ Tail(<<c, d>>) = <<d>> /\ <<d>>[1] = d /\ Tail(<<d>>) = <<>>
      OBVIOUS
<1>3. Asking(L) = <<a, b, c, d>> BY DEF Asking, a, b, c, d
<1>4. /\ Asking(L)[1].op = "sub" /\ Tail(Asking(L)) = <<b, c, d>>
      /\ Tail(Asking(L))[1] = b /\ Tail(Tail(Asking(L))) = <<c, d>>
      /\ Tail(Tail(Asking(L)))[1] = c /\ Tail(Tail(Tail(Asking(L)))) = <<d>>
      /\ <<d>>[1] = d /\ Tail(<<d>>) = <<>>
      BY <1>1, <1>2, <1>3
<1> QED BY <1>4 DEF b, c, d

(* What is put for a REQ, and what becomes of its batches.                 *)
LEMMA BatchesOfNow ==
    ASSUME IInv, h' = h, h \in Nat, NEW w1 \in {"NOTICE", "EOSE", "EVENTS"}, NEW g \in Nat,
           out' = Append(out, Reply1(h, w1, g))
    PROVE  /\ Reply1(h, w1, g) \in Reply
           /\ \A f : ~(w1 = "EVENTS" /\ f = g) => Batches(h, f)' = Batches(h, f)
           /\ w1 = "EVENTS" => Cardinality(Batches(h, g)') = Cardinality(Batches(h, g)) + 1
<1> DEFINE r == Reply1(h, w1, g)
<1>1. r \in Reply /\ r.re = h /\ r.what = w1 /\ r.f = g BY DEF Reply, Reply1
<1> HIDE DEF r
<1>2. PICK n : n = h OBVIOUS
<1>3. \A f : Batches(h, f)' = Batches(n, f)' /\ Batches(h, f) = Batches(n, f)
      BY <1>2 DEF Batches
<1>4. out' = Append(out, r) BY DEF r
<1>5. /\ \A f : ~(w1 = "EVENTS" /\ f = g) => Batches(n, f)' = Batches(n, f)
      /\ w1 = "EVENTS" => Cardinality(Batches(n, g)') = Cardinality(Batches(n, g)) + 1
      BY <1>1, <1>2, <1>4, BatchesAppend
<1>6. r \in Reply BY <1>1
<1> QED BY <1>3, <1>5, <1>6 DEF r

LEMMA DoPlan ==
    ASSUME IInv, EoseInv, DoStep, Has(todo, "EOSE")'
    PROVE  \E L \in SUBSET (1..inb[h].nf) : PlanFor(L)'
<1>1. /\ 1 \in 1..Len(todo) /\ h \in 1..Len(inb) /\ h \in Nat /\ inb[h].nf \in 0..8
      /\ UNCHANGED <<inb, h>> /\ Effect
      BY DoEffect DEF IInv, TypeOK, Message
<1>2. Has(todo, "EOSE") BY <1>1 DEF Effect, Shrinks, Has
<1>3. PICK L \in SUBSET (1..inb[h].nf) : PlanFor(L) BY <1>2 DEF EoseInv, EosePlan
<1>4. \A M : Asking(M)' = Asking(M) BY <1>1 DEF Asking, Op, Put, Fetch
<1>5. CASE todo = Asking(L)
  <2>1. todo' = Tail(Asking(L)) /\ out' = out BY <1>1, <1>5, AskingSteps DEF Effect
  <2>2. \A f : Batches(h, f)' = Batches(h, f) BY <1>1, <2>1 DEF Batches
  <2>3. PlanFor(L)' BY <1>1, <1>3, <1>4, <2>1, <2>2 DEF PlanFor, Rest
  <2> QED BY <2>3
<1>6. CASE todo = Tail(Asking(L))
  <2>1. todo[1] = Put(h, "NOTICE") BY <1>6, AskingSteps
  <2>2. todo[1].op = "put" /\ todo[1].what = "NOTICE" BY <2>1 DEF Put
  <2>3. todo' = Tail(Tail(Asking(L))) /\ out' = Append(out, Reply1(h, "NOTICE", 0))
        BY <1>1, <1>6, <2>2 DEF Effect
  <2>4. \A f : Batches(h, f)' = Batches(h, f) BY <1>1, <2>3, BatchesOfNow
  <2>5. PlanFor(L)' BY <1>1, <1>3, <1>4, <2>3, <2>4 DEF PlanFor, Rest
  <2> QED BY <2>5
<1>7. CASE todo = Tail(Tail(Asking(L)))
  <2>1. todo[1] = Fetch(h, L) BY <1>7, AskingSteps
  <2>2. todo[1].op = "fetch" /\ todo[1].left = L BY <2>1 DEF Fetch
  <2>3. Tail(todo) = <<Put(h, "EOSE")>> BY <1>7, AskingSteps
  <2>4. CASE L = {} /\ out' = out /\ todo' = Tail(todo)
    <3>1. \A f : Batches(h, f)' = Batches(h, f) BY <1>1, <2>4 DEF Batches
    <3>2. <<Put(h, "EOSE")>>' = <<Put(h, "EOSE")>> BY <1>1 DEF Put
    <3>3. PlanFor(L)' BY <1>1, <1>3, <2>3, <2>4, <3>1, <3>2 DEF PlanFor
    <3> QED BY <3>3
  <2>5. ASSUME NEW g \in 1..8, FetchOf(g)
        PROVE  \E M \in SUBSET (1..inb[h].nf) : PlanFor(M)'
    <3> DEFINE M == L \ {g}
    <3>1. g \in L /\ out' = Append(out, Reply1(h, "EVENTS", g))
          /\ todo' = <<Fetch(h, M)>> \o <<Put(h, "EOSE")>>
          BY <2>2, <2>3, <2>5 DEF FetchOf
    <3>0. <<Fetch(h, M)>> \o <<Put(h, "EOSE")>> = <<Fetch(h, M), Put(h, "EOSE")>>
          BY OneAndOne
    <3>2. todo' = Tail(Tail(Asking(M)))
      <4> HIDE DEF M
      <4> QED BY <3>0, <3>1, AskingSteps
    <3>3. /\ \A f : f # g => Batches(h, f)' = Batches(h, f)
          /\ Cardinality(Batches(h, g)') = Cardinality(Batches(h, g)) + 1
          BY <1>1, <3>1, BatchesOfNow
    <3>4. \A f \in 1..inb[h].nf : Cardinality(Batches(h, f)') = IF f \in M THEN 0 ELSE 1
      <4>1. \A f \in 1..inb[h].nf : Cardinality(Batches(h, f)) = IF f \in L THEN 0 ELSE 1
            BY <1>3 DEF PlanFor
      <4> QED BY <3>1, <3>3, <4>1
    <3> HIDE DEF M
    <3>5. PlanFor(M)' BY <1>1, <1>4, <3>2, <3>4 DEF PlanFor, Rest
    <3>6. M \in SUBSET (1..inb[h].nf) BY DEF M
    <3> QED BY <3>5, <3>6
  <2> QED BY <1>1, <1>3, <2>2, <2>4, <2>5 DEF Effect
<1>8. CASE todo = <<Put(h, "EOSE")>>
  <2>1. todo[1].op = "put" BY <1>8 DEF Put
  <2>2. todo' = <<>> BY <1>1, <1>8, <2>1, AskingSteps DEF Effect
  <2> QED BY <2>2 DEF Has
<1> QED BY <1>3, <1>5, <1>6, <1>7, <1>8 DEF PlanFor, Rest

LEMMA DoEose ==
    ASSUME IInv, EoseInv, DoStep
    PROVE  EoseInv'
<1> DEFINE s == todo[1]
<1>1. /\ todo # <<>> /\ 1 \in 1..Len(todo) /\ h \in 1..Len(inb) /\ h \in Nat
      /\ UNCHANGED <<inb, h>> /\ Effect /\ Offered
      BY DoEffect DEF IInv, TypeOK, Offered
<1>2. EosePlan' BY <1>1, DoPlan DEF EosePlan
<1>3. ~Answers(h, "EOSE") BY <1>1 DEF EoseInv
(* The step that sends EOSE.                                               *)
<1>4. s.op = "put" /\ s.what = "EOSE" =>
        /\ todo' = <<>>
        /\ \A f \in 1..inb[h].nf : Cardinality(Batches(h, f)) = 1
  <2> SUFFICES ASSUME s.op = "put", s.what = "EOSE"
               PROVE  /\ todo' = <<>>
                      /\ \A f \in 1..inb[h].nf : Cardinality(Batches(h, f)) = 1
      OBVIOUS
  <2>1. Has(todo, "EOSE") BY <1>1 DEF Has
  <2>2. PICK L \in SUBSET (1..inb[h].nf) : PlanFor(L) BY <2>1 DEF EoseInv, EosePlan
  <2>3. todo = <<Put(h, "EOSE")>> /\ L = {}
    <3>1. todo # Asking(L) BY AskingSteps
    <3>0. Put(h, "NOTICE").what = "NOTICE" /\ Fetch(h, L).op = "fetch" BY DEF Put, Fetch
    <3>2. todo # Tail(Asking(L)) BY <3>0, AskingSteps
    <3>3. todo # Tail(Tail(Asking(L))) BY <3>0, AskingSteps
    <3> QED BY <2>2, <3>1, <3>2, <3>3 DEF PlanFor, Rest
  <2>4. todo' = <<>> BY <1>1, <2>3, AskingSteps DEF Effect
  <2> QED BY <2>2, <2>3, <2>4 DEF PlanFor
(* Whatever is sent answers the message at hand.                           *)
<1>5. CASE out' = out
  <2>1. ASSUME NEW j \in 1..Len(out'), out'[j].what = "EOSE" PROVE EoseAt(j)'
    <3>1. j \in 1..Len(out) /\ EoseAt(j) /\ out[j].re > 0
          BY <1>5, <2>1, EoseEach DEF EoseInv
    <3>2. Reply1(0, "BCAST", 0) \in Reply /\ Reply1(0, "BCAST", 0).re = 0
          BY DEF Reply, Reply1
    <3> QED BY <1>1, <1>5, <3>1, <3>2, EoseKept
  <2>2. ~Answers(h, "EOSE")' BY <1>1, <1>3, <1>5 DEF Answers
  <2>3. (\A j \in 1..Len(out) : out[j].what = "EOSE" => out[j].re > 0)'
        BY <1>5 DEF EoseInv
  <2> QED BY <1>2, <2>1, <2>2, <2>3, EoseEach DEF EoseInv
<1>6. ASSUME NEW r \in Reply, out' = Append(out, r), r.re = h,
             r.what = "EOSE" => s.op = "put" /\ s.what = "EOSE"
      PROVE  EoseInv'
  <2>1. /\ Len(out) \in Nat /\ Len(out') = Len(out) + 1 /\ out'[Len(out) + 1] = r
        /\ \A i \in 1..Len(out) : out'[i] = out[i]
        BY <1>6 DEF IInv, TypeOK
  <2>2. \A j \in 1..Len(out') : j \in 1..Len(out) \/ j = Len(out) + 1 BY <2>1
  <2>3. ASSUME NEW j \in 1..Len(out), out[j].what = "EOSE" PROVE EoseAt(j)'
    <3>1. EoseAt(j) /\ out[j].re > 0 BY <2>3, EoseEach DEF EoseInv
    <3>2. out[j].re # h BY <1>3, <2>3 DEF Answers
    <3> QED BY <1>1, <1>6, <3>1, <3>2, EoseKept
  <2>4. ASSUME NEW j \in {Len(out) + 1}, r.what = "EOSE" PROVE EoseAt(j)'
    <3>1. \A f \in 1..inb[h].nf : Cardinality(Batches(h, f)) = 1 BY <1>4, <1>6, <2>4
    <3>2. ASSUME NEW f PROVE Before(j, f)' = Batches(h, f)
      <4>1. 1..(j - 1) = 1..Len(out) BY <2>1
      <4> QED BY <1>6, <2>1, <4>1 DEF Before, Batches
    <3>3. out'[j].re = h BY <1>6, <2>1
    <3>4. (j + 1)..Len(out') = {} BY <2>1
    <3>5. \A f \in 1..inb'[out'[j].re].nf : Cardinality(Before(j, f)') = 1
          BY <1>1, <3>1, <3>2, <3>3
    <3> QED BY <3>4, <3>5 DEF EoseAt
  <2>5. \A j \in 1..Len(out') : out'[j].what = "EOSE" => EoseAt(j)'
        BY <2>1, <2>2, <2>3, <2>4
  <2>6. h > 0 /\ Answers(h, "EOSE")' => todo' = <<>>
    <3>1. Answers(h, "EOSE")' => r.what = "EOSE"
          BY <1>1, <1>3, <2>1, <2>2 DEF Answers
    <3> QED BY <1>4, <1>6, <3>1
  <2>7. (\A j \in 1..Len(out) : out[j].what = "EOSE" => out[j].re > 0)'
        BY <1>1, <1>6, <2>1, <2>2 DEF EoseInv
  <2> QED BY <1>1, <1>2, <2>5, <2>6, <2>7, EoseEach DEF EoseInv
<1>7. CASE s.op = "put"
  <2>1. LET r == Reply1(h, s.what, 0) IN out' = Append(out, r) /\ r \in Reply
        BY <1>1, <1>7 DEF Effect
  <2>2. Reply1(h, s.what, 0).re = h /\ Reply1(h, s.what, 0).what = s.what
        BY DEF Reply1
  <2> QED BY <1>6, <1>7, <2>1, <2>2
<1>8. ASSUME NEW f \in 1..8, FetchOf(f) PROVE EoseInv'
  <2>1. /\ out' = Append(out, Reply1(h, "EVENTS", f)) /\ Reply1(h, "EVENTS", f) \in Reply
        /\ Reply1(h, "EVENTS", f).re = h /\ Reply1(h, "EVENTS", f).what = "EVENTS"
        BY <1>1, <1>8 DEF FetchOf, Reply1, Reply
  <2> QED BY <1>6, <2>1
<1> QED BY <1>1, <1>5, <1>7, <1>8 DEF Effect

-----------------------------------------------------------------------------
(* All together.                                                           *)

LEMMA AsideAll ==
    ASSUME IInv, Recent, ServeInv, OkInv, EoseInv, Offered,
           UNCHANGED <<access, h, todo, authed, stored, pub, out>>
    PROVE  Recent' /\ ServeInv' /\ OkInv' /\ EoseInv'
BY OfferServes, OfferOk, OfferEose

LEMMA InitAInv == Init => AInv
<1> SUFFICES ASSUME Init PROVE AInv OBVIOUS
<1>1. IInv BY InitIInv
<1>2. /\ h = 0 /\ inb = <<>> /\ todo = <<>> /\ authed = FALSE /\ stored = {}
      /\ pub = <<>> /\ out = Greeting
      BY DEF Init
<1>3. Recent BY <1>2 DEF Recent
<1>4. ServeInv BY <1>2 DEF ServeInv, StepsFree
<1>5. OkInv BY <1>2 DEF OkInv, OkPlan, Has, Verdict, OkMeansKept
<1>6. \A j \in 1..Len(out) : out[j].what # "EOSE"
  <2>1. \A j \in 1..Len(Greeting) : Greeting[j].what \in {"AUTH", "NOTICE"}
    <3> DEFINE r == Reply1(0, IF access = "authenticated" THEN "AUTH" ELSE "NOTICE", 0)
    <3>1. r.what \in {"AUTH", "NOTICE"} BY DEF Reply1
    <3> HIDE DEF r
    <3>2. Greeting \in {<<>>, <<r>>} BY DEF Greeting, r
    <3> QED BY <3>1, <3>2
  <2> QED BY <1>2, <2>1
<1>7. EoseInv BY <1>2, <1>6 DEF EoseInv, EosePlan, Has, EoseIsLast
<1> QED BY <1>1, <1>3, <1>4, <1>5, <1>7 DEF AInv

LEMMA NextAInv == AInv /\ [Next]_vars => AInv'
<1> SUFFICES ASSUME AInv, [Next]_vars PROVE AInv' OBVIOUS
<1>1. IInv /\ Recent /\ ServeInv /\ OkInv /\ EoseInv BY DEF AInv
<1>2. IInv'
      BY <1>1, TypeStep, ControlStep, OrderStep, SubStep DEF IInv
<1> SUFFICES Recent' /\ ServeInv' /\ OkInv' /\ EoseInv' BY <1>2 DEF AInv
<1>3. CASE UNCHANGED vars \/ BroadcasterTakes
      BY <1>1, <1>3, AsideAll DEF vars, BroadcasterTakes, Offered, reader, dispatcher, network
<1>4. CASE Reader
  <2>1. CASE ReaderOffers
    <3>1. pend \in Message BY <1>1 DEF IInv, TypeOK
    <3> QED BY <1>1, <2>1, <3>1, AsideAll DEF ReaderOffers, Offered, dispatcher, network
  <2>2. CASE ReaderSeesDone \/ ReaderJoins \/ ReaderHandsOver
        BY <1>1, <2>2, AsideAll
        DEF ReaderSeesDone, ReaderJoins, ReaderHandsOver, Offered, dispatcher, network
  <2> QED BY <1>4, <2>1, <2>2 DEF Reader
<1>5. CASE Writer
      BY <1>1, <1>5, AsideAll
      DEF Writer, WriterTakes, WriterWrites, WriterChecks, Offered, reader, dispatcher, network
<1>6. CASE Dispatcher
  <2>1. CASE Dispatch \/ DispatchBadUtf8 BY <1>1, <2>1, BeginServes, BeginOk, BeginEose
  <2>2. CASE DispatcherChecks
        BY <1>1, <2>2, AsideAll DEF DispatcherChecks, Offered, reader, network
  <2>3. CASE DoStep BY <1>1, <2>3, DoServes, DoOk, DoEose
  <2> QED BY <1>6, <2>1, <2>2, <2>3 DEF Dispatcher
<1>7. CASE Broadcast BY <1>1, <1>7, BroadcastServes, BroadcastOk, BroadcastEose
<1>8. CASE \/ \E m \in PeerMsgs : ReaderRead(m)
           \/ \E closing \in BOOLEAN : ReaderFails(closing)
           \/ ReaderRefuses \/ PeerVanishes \/ PeerStops
      BY <1>1, <1>8, AsideAll
      DEF ReaderRead, ReaderFails, ReaderRefuses, PeerVanishes, PeerStops, Offered, reader, dispatcher, network
<1> QED BY <1>3, <1>4, <1>5, <1>6, <1>7, <1>8 DEF Next, Environment

THEOREM AnswersInvariance == Spec => []AInv
<1>1. Init => AInv BY InitAInv
<1>2. AInv /\ [Next]_vars => AInv' BY NextAInv
<1> QED BY <1>1, <1>2, PTL DEF Spec

-----------------------------------------------------------------------------
(* The answers of a connection.                                            *)

(* No request of a peer has an effect, nor is a direct message of its      *)
(* stored, before the AUTH that a restricted relay, and a direct message   *)
(* on any relay, demands (dispatchNostrMsgs, handlerEventMsgs).            *)
THEOREM AuthFirst == Spec => RequestsNeedAuth
<1>1. AInv /\ [Next]_vars => [~authed => NotServed]_vars
      BY StepNotServed DEF AInv
<1>2. [~authed => NotServed]_vars <=>
        [~authed =>
            /\ Restricted =>
                /\ UNCHANGED <<sub, nfil, stored, pub>>
                /\ \A i \in (Len(out) + 1)..Len(out') : out'[i].what \notin Granted
            /\ \A n \in stored' \ stored : inb[n].how # "dm"]_vars
      BY DEF NotServed
<1> QED BY <1>1, <1>2, AnswersInvariance, PTL DEF Spec, RequestsNeedAuth

(* An OK true stands for an event that was stored and published before,    *)
(* and is never sent next to an OK false (handlerEventMsgs).               *)
THEOREM OkTrue == Spec => []OkMeansKept
<1>1. AInv => OkMeansKept BY DEF AInv, OkInv
<1> QED BY <1>1, AnswersInvariance, PTL

(* However the goroutines of fetchAllFilters and the broadcasts interleave,*)
(* EOSE follows one batch of each filter and ends the answer to its REQ.   *)
THEOREM EoseLast == Spec => []EoseIsLast
<1>1. AInv => EoseIsLast BY DEF AInv, EoseInv
<1> QED BY <1>1, AnswersInvariance, PTL
=============================================================================

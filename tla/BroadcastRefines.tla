--------------------------- MODULE BroadcastRefines ---------------------------
(***************************************************************************)
(* For all values of its constants, Broadcast implements Delivery, which   *)
(* bounds what is sent, and loses nothing of what is owed (NothingLost).   *)
(***************************************************************************)
EXTENDS BroadcastProofs, FiniteSetTheorems

(* What was sent to a client: message i is one of the pair x.              *)
Of(c, i, x)  == out[c][i].n = x.n /\ out[c][i].g = x.g
Hits(s, x)   == {i \in 1..Len(s) : s[i].n = x.n /\ s[i].g = x.g}
HadOf(x)     == Cardinality(Hits(out[x.c], x))
Quota(x)     == Matching[pub[x.n], x.c]
Direct(x)    == D!Addressee(x)
Now(n, c)    == [n |-> n, c |-> c, g |-> gen[c]]

(* Nothing was done yet about a pair.                                      *)
NotYet(x) == /\ \A i \in 1..Len(em) : em[i] # x
             /\ \A i \in 1..Len(out[x.c]) : ~Of(x.c, i, x)

(* The pairs in chEM are in the order of their events and all different;   *)
(* an addressee is never among them.                                       *)
Line == \A i \in 1..Len(em) :
    /\ em[i].n <= nb /\ ~Direct(em[i])
    /\ \A j \in 1..Len(em) : i < j => em[i].n <= em[j].n /\ em[i] # em[j]

(* What was sent comes from a pair that was taken, or went directly.       *)
Sent == \A c \in Clients : \A i \in 1..Len(out[c]) :
    /\ out[c][i].n \in 1..nb
    /\ IF out[c][i].direct THEN Direct(OutPair(c, i))
       ELSE \E j \in 1..ne : em[j] = OutPair(c, i)

(* A client that is still to be visited, and the one the broadcaster has   *)
(* decided for, got nothing of the event; they are not the same, unless    *)
(* the client has another connection now.                                  *)
Fresh == bpc # "recv" => \A c \in todo : NotYet(Now(nb, c))
Decided == bpc \in {"direct", "pair"} =>
    /\ NotYet(Pair1(nb, at)) /\ (bpc = "direct" <=> Direct(Pair1(nb, at)))
    /\ at.c \in todo => at.g # gen[at.c]

(* What the goroutines of a pair sent, and have still to send.             *)
Within == fleft > 0 => HadOf(em[ne]) + fleft <= Quota(em[ne])

RInv == IInv /\ Line /\ Sent /\ Fresh /\ Decided /\ Within

-----------------------------------------------------------------------------
(* How often a pair was sent, before and after a message is appended.      *)

LEMMA HitsCount ==
    ASSUME NEW s \in Seq(Entry), NEW x
    PROVE  IsFiniteSet(Hits(s, x)) /\ Cardinality(Hits(s, x)) \in Nat
<1>1. Hits(s, x) \subseteq 1..Len(s) /\ IsFiniteSet(1..Len(s))
      BY FS_Interval DEF Hits
<1> QED BY <1>1, FS_Subset, FS_CardinalityType

LEMMA HitsAppend ==
    ASSUME NEW s \in Seq(Entry), NEW y \in Entry, NEW x
    PROVE  Cardinality(Hits(Append(s, y), x)) =
             IF y.n = x.n /\ y.g = x.g THEN Cardinality(Hits(s, x)) + 1
             ELSE Cardinality(Hits(s, x))
<1>0. /\ Len(s) \in Nat /\ Len(Append(s, y)) = Len(s) + 1
      /\ Append(s, y)[Len(s) + 1] = y
      /\ \A i \in 1..Len(s) : Append(s, y)[i] = s[i]
      OBVIOUS
<1>1. CASE y.n = x.n /\ y.g = x.g
  <2>1. Hits(Append(s, y), x) = Hits(s, x) \cup {Len(s) + 1}
        BY <1>0, <1>1 DEF Hits
  <2>2. Len(s) + 1 \notin Hits(s, x) BY <1>0 DEF Hits
  <2>3. IsFiniteSet(Hits(s, x)) BY HitsCount
  <2>4. Cardinality(Hits(s, x) \cup {Len(s) + 1}) = Cardinality(Hits(s, x)) + 1
        BY <2>2, <2>3, FS_AddElement
  <2> QED BY <1>1, <2>1, <2>4
<1>2. CASE ~(y.n = x.n /\ y.g = x.g)
  <2>1. Hits(Append(s, y), x) = Hits(s, x) BY <1>0, <1>2 DEF Hits
  <2> QED BY <1>2, <2>1
<1> QED BY <1>1, <1>2

LEMMA NoHits ==
    ASSUME NEW x, \A i \in 1..Len(out[x.c]) : ~Of(x.c, i, x)
    PROVE  HadOf(x) = 0
<1>1. Hits(out[x.c], x) = {} BY DEF Hits, Of
<1> QED BY <1>1, FS_EmptySet DEF HadOf

(* The entry that is made of a pair.                                       *)
Made(y, direct) == [n |-> y.n, direct |-> direct, g |-> y.g]

(* What changes when a message of pair y is sent.                          *)
LEMMA Sending ==
    ASSUME TypeOK, NEW y \in Pair, NEW direct \in BOOLEAN,
           out' = [out EXCEPT ![y.c] = Append(@, Made(y, direct))]
    PROVE  /\ \A x \in Pair : HadOf(x)' = IF x = y THEN HadOf(x) + 1 ELSE HadOf(x)
           /\ \A c \in Clients : \A i \in 1..Len(out'[c]) :
                 \/ i \in 1..Len(out[c]) /\ out'[c][i] = out[c][i]
                 \/ c = y.c /\ out'[c][i] = Made(y, direct)
<1> DEFINE e == Made(y, direct)
<1>1. y.c \in Clients /\ e \in Entry /\ e.n = y.n /\ e.g = y.g
      BY DEF Pair, Entry, Made
<1> HIDE DEF e
<1>2. out[y.c] \in Seq(Entry) BY <1>1, OutType
<1>3. out'[y.c] = Append(out[y.c], e) /\ \A d \in Clients \ {y.c} : out'[d] = out[d]
      BY <1>1, OutType DEF e
<1>4. ASSUME NEW x \in Pair
      PROVE  HadOf(x)' = IF x = y THEN HadOf(x) + 1 ELSE HadOf(x)
  <2>0. x.c \in Clients BY DEF Pair
  <2>1. HadOf(x)' = Cardinality(Hits(out'[x.c], x)) BY DEF HadOf, Hits
  <2>2. CASE x.c = y.c
    <3>1. x = y <=> (e.n = x.n /\ e.g = x.g) BY <1>1, <2>2 DEF Pair
    <3>2. Cardinality(Hits(Append(out[y.c], e), x)) =
             IF e.n = x.n /\ e.g = x.g THEN Cardinality(Hits(out[y.c], x)) + 1
             ELSE Cardinality(Hits(out[y.c], x))
          BY <1>1, <1>2, HitsAppend
    <3> QED BY <1>3, <2>1, <2>2, <3>1, <3>2 DEF HadOf
  <2>3. CASE x.c # y.c BY <1>3, <2>0, <2>1, <2>3 DEF HadOf
  <2> QED BY <2>2, <2>3
<1>5. ASSUME NEW c \in Clients, NEW i \in 1..Len(out'[c])
      PROVE  \/ i \in 1..Len(out[c]) /\ out'[c][i] = out[c][i]
             \/ c = y.c /\ out'[c][i] = e
  <2>1. CASE c = y.c
    <3>1. out'[c] = Append(out[c], e) /\ out[c] \in Seq(Entry) BY <1>2, <1>3, <2>1
    <3> QED BY <1>1, <1>5, <2>1, <3>1
  <2>2. CASE c # y.c BY <1>3, <1>5, <2>2
  <2> QED BY <2>1, <2>2
<1> QED BY <1>4, <1>5 DEF e

(* A pair of which nothing was sent, unless it is the one that is.         *)
LEMMA StillNotYet ==
    ASSUME TypeOK, NEW y \in Pair, NEW direct \in BOOLEAN,
           out' = [out EXCEPT ![y.c] = Append(@, Made(y, direct))], em' = em,
           NEW x \in Pair, NotYet(x), x # y
    PROVE  NotYet(x)'
<1>1. \A i \in 1..Len(out'[x.c]) :
         \/ i \in 1..Len(out[x.c]) /\ out'[x.c][i] = out[x.c][i]
         \/ x.c = y.c /\ out'[x.c][i] = Made(y, direct)
      BY Sending DEF Pair
<1>2. x.c = y.c => ~(Made(y, direct).n = x.n /\ Made(y, direct).g = x.g)
      BY DEF Pair, Made
<1> QED BY <1>1, <1>2 DEF NotYet, Of

(* A pair in chEM.                                                         *)
LEMMA Front ==
    ASSUME RInv, NEW i \in 1..Len(em)
    PROVE  /\ em[i] \in Pair /\ Fit(em[i])
           /\ em[i].n \in 1..Len(pub) /\ em[i].c \in Clients /\ em[i].n \in Nat
           /\ em[i].g \in Nat /\ em[i].g <= gen[em[i].c]
           /\ em[i].n <= nb /\ nb \in Nat
           /\ out[em[i].c] \in Seq(Entry) /\ HadOf(em[i]) \in Nat
           /\ Quota(em[i]) \in Nat
<1>0. TypeOK BY DEF RInv, IInv
<1>1. em[i] \in Pair BY <1>0, ElementOfSeq DEF TypeOK
<1>2. Fit(em[i]) BY DEF RInv, IInv, EmChosen, ChosenFit
<1>3. em[i].n \in 1..Len(pub) BY <1>2 DEF Fit
<1>4. pub[em[i].n] \in Events BY <1>0, <1>3, ElementOfSeq, PubType
<1>5. em[i].c \in Clients /\ em[i].n \in Nat /\ em[i].g \in Nat BY <1>1 DEF Pair
<1>6. Quota(em[i]) \in Nat
      BY <1>4, <1>5, Zenon, BroadcastAssumption DEF Quota
<1>7. out[em[i].c] \in Seq(Entry) BY <1>0, <1>5, OutType
<1>8. em[i].n <= nb /\ nb \in Nat BY <1>0, PubType DEF RInv, Line
<1>9. HadOf(em[i]) \in Nat BY <1>7, HitsCount DEF HadOf
<1> QED BY <1>1, <1>2, <1>3, <1>5, <1>6, <1>7, <1>8, <1>9 DEF Fit

LEMMA NowType ==
    ASSUME TypeOK, NEW c \in Clients
    PROVE  /\ Now(nb, c) \in Pair /\ Now(nb, c).c = c /\ Now(nb, c).n = nb
           /\ Now(nb, c).g = gen[c] /\ gen[c] \in Nat /\ nb \in Nat
BY PubType, ClientsType DEF Now, Pair

LEMMA AtFacts ==
    ASSUME TypeOK
    PROVE  /\ Pair1(nb, at).n = nb /\ Pair1(nb, at).c = at.c /\ Pair1(nb, at).g = at.g
           /\ bpc \in {"direct", "pair"} =>
                at.c \in Clients /\ at.g \in Nat /\ Pair1(nb, at) \in Pair
BY AtPair DEF Pair1

-----------------------------------------------------------------------------
(* The invariant.                                                          *)

LEMMA InitRInv == Init => RInv
<1> SUFFICES ASSUME Init PROVE RInv OBVIOUS
<1>1. IInv BY InitIInv
<1>2. Len(em) = 0 /\ \A c \in Clients : out[c] = <<>> /\ Len(out[c]) = 0
      BY DEF Init
<1>3. Line /\ Sent /\ Fresh /\ Decided /\ Within
      BY <1>2 DEF Init, Line, Sent, Fresh, Decided, Within
<1> QED BY <1>1, <1>3 DEF RInv

(* An event, and who it names, stays what it is.                           *)
LEMMA SamePub ==
    ASSUME TypeOK, [Next]_vars, NEW x, x.n \in 1..Len(pub)
    PROVE  Direct(x)' = Direct(x) /\ Quota(x)' = Quota(x)
<1>1. pub'[x.n] = pub[x.n] BY History
<1> QED BY <1>1 DEF Direct, D!Addressee, Quota

(* Line and Sent depend on what is in chEM, and was sent.                  *)
LEMMA SameLine ==
    ASSUME RInv, [Next]_vars, em' = em, nb' \in Nat, nb <= nb'
    PROVE  Line'
<1>0. TypeOK BY DEF RInv, IInv
<1>1. ASSUME NEW i \in 1..Len(em) PROVE pub'[em[i].n] = pub[em[i].n] /\ em[i].n <= nb'
  <2>1. em[i].n \in 1..Len(pub) /\ em[i].n \in Nat /\ em[i].n <= nb /\ nb \in Nat BY Front
  <2> QED BY <1>0, <2>1, History
<1>2. \A i \in 1..Len(em) : ~D!Addressee(em[i]) BY DEF RInv, Line, Direct
<1>3. \A i \in 1..Len(em) : ~(pub'[em[i].n].kind = "dm" /\ pub'[em[i].n].to = <<em[i].c, em[i].g>>)
      BY <1>1, <1>2 DEF D!Addressee
<1> QED BY <1>1, <1>3 DEF RInv, Line, Direct, D!Addressee

LEMMA SameSent ==
    ASSUME RInv, [Next]_vars, nb' \in Nat, nb <= nb', ne' \in Nat, ne <= ne',
           \A j \in 1..ne : em'[j] = em[j],
           \A c \in Clients : out'[c] = out[c] \/ out'[c] = <<>>
    PROVE  Sent'
<1>0. TypeOK /\ OutChosen /\ ChosenFit BY DEF RInv, IInv
<1> SUFFICES ASSUME NEW c \in Clients, NEW i \in 1..Len(out'[c])
             PROVE  /\ out'[c][i].n \in 1..nb'
                    /\ IF out'[c][i].direct THEN Direct(OutPair(c, i))'
                       ELSE \E j \in 1..ne' : em'[j] = OutPair(c, i)'
    BY DEF Sent
<1>1. out'[c] = out[c] /\ i \in 1..Len(out[c]) OBVIOUS
<1>2. OutPair(c, i)' = OutPair(c, i) BY <1>1 DEF OutPair
<1>3. out[c][i].n \in 1..nb
      /\ IF out[c][i].direct THEN Direct(OutPair(c, i))
         ELSE \E j \in 1..ne : em[j] = OutPair(c, i)
      BY <1>1 DEF RInv, Sent
<1>4. nb \in Nat /\ ne \in Nat BY <1>0, PubType DEF TypeOK
<1>5. out'[c][i].n \in 1..nb' BY <1>1, <1>3, <1>4
<1>6. CASE out[c][i].direct
  <2>1. out[c][i].n \in 1..Len(pub) BY <1>0, <1>3, PubType
  <2>2. pub'[out[c][i].n] = pub[out[c][i].n] BY <1>0, <2>1, History
  <2>3. Direct(OutPair(c, i))' = Direct(OutPair(c, i))
        BY <1>2, <2>2 DEF Direct, D!Addressee, OutPair
  <2> QED BY <1>1, <1>3, <1>5, <1>6, <2>3
<1>7. CASE ~out[c][i].direct
  <2>1. PICK j \in 1..ne : em[j] = OutPair(c, i) BY <1>3, <1>7
  <2>2. j \in 1..ne' /\ em'[j] = OutPair(c, i)' BY <1>2, <1>4, <2>1
  <2> QED BY <1>1, <1>5, <1>7, <2>2
<1> QED BY <1>6, <1>7

(* Steps that neither decide for a client nor send anything.               *)
LEMMA Aside ==
    ASSUME RInv, IInv', [Next]_vars, UNCHANGED <<nb, em, ne, out, gen>>,
           todo' \subseteq todo,
           \/ bpc' = "recv" \/ UNCHANGED <<bpc, at>>
           \/ (bpc' = "visit" /\ bpc # "recv")
           \/ (bpc' = "evict" /\ bpc = "visit"),
           fleft' = fleft \/ fleft' = fleft - 1
    PROVE  RInv'
<1> USE DEF RInv
<1>0. TypeOK BY DEF IInv
<1>1. Line' /\ Sent'
  <2>1. nb \in Nat /\ ne \in Nat BY <1>0, PubType DEF TypeOK
  <2> QED BY <2>1, SameLine, SameSent
<1>2. \A x : NotYet(x)' = NotYet(x) BY DEF NotYet, Of
<1>3. Fresh'
  <2>1. \A c : Now(nb, c)' = Now(nb, c) BY DEF Now
  <2> QED BY <1>2, <2>1 DEF Fresh, Now
<1>4. Decided'
  <2> SUFFICES ASSUME bpc' \in {"direct", "pair"} PROVE Decided' BY DEF Decided
  <2>1. bpc' = bpc /\ at' = at OBVIOUS
  <2>2. nb \in 1..Len(pub) BY <2>1 DEF IInv, BevPublic
  <2>3. Pair1(nb, at)' = Pair1(nb, at) BY <2>1 DEF Pair1
  <2>4. pub'[nb] = pub[nb] BY <1>0, <2>2, History
  <2>5. Direct(Pair1(nb, at))' = Direct(Pair1(nb, at))
        BY <2>1, <2>4 DEF Direct, D!Addressee, Pair1
  <2>6. NotYet(Pair1(nb, at))' = NotYet(Pair1(nb, at))
        BY <2>1, <2>3 DEF NotYet, Of, Pair1
  <2> QED BY <2>1, <2>5, <2>6 DEF Decided
<1>5. Within'
  <2> SUFFICES ASSUME fleft' > 0 PROVE HadOf(em[ne])' + fleft' <= Quota(em[ne])'
      BY DEF Within
  <2>1. fleft > 0 /\ fleft \in Nat /\ fleft' <= fleft /\ fleft' \in Int
        BY <1>0 DEF TypeOK
  <2>2. ne \in 1..Len(em) BY <1>0, <2>1, Current
  <2>3. pub'[em[ne].n] = pub[em[ne].n] BY <1>0, <2>2, Front, History
  <2>4. HadOf(em[ne])' = HadOf(em[ne]) /\ Quota(em[ne])' = Quota(em[ne])
        BY <2>3 DEF HadOf, Hits, Quota
  <2>5. HadOf(em[ne]) \in Nat /\ Quota(em[ne]) \in Nat BY <2>2, Front
  <2>6. HadOf(em[ne]) + fleft <= Quota(em[ne]) BY <2>1 DEF Within
  <2> QED BY <2>1, <2>4, <2>5, <2>6
<1> QED BY <1>1, <1>3, <1>4, <1>5

(* The next event: none of its pairs is in chEM yet.                       *)
LEMMA TakeR == ASSUME RInv, IInv', BcTake PROVE RInv'
<1> USE DEF RInv
<1>0. TypeOK BY DEF IInv
<1>1. /\ nb' = nb + 1 /\ nb \in Nat /\ bpc = "recv" /\ bpc' \in {"recv", "visit"}
      /\ UNCHANGED <<pub, em, ne, fleft, gen, out>> /\ [Next]_vars
  <2>1. nb \in Nat BY <1>0, PubType
  <2>2. /\ nb' = nb + 1 /\ bpc = "recv"
        /\ UNCHANGED <<pub, em, ne, fleft, gen, out>>
        BY DEF BcTake, newEvent, matcher, clients, channels
  <2>3. bpc' \in {"recv", "visit"} BY <2>2 DEF BcTake
  <2>4. Next BY DEF Next, Broadcaster
  <2> QED BY <2>1, <2>2, <2>3, <2>4
<1>2. Line' /\ Sent'
  <2>1. ne \in Nat BY <1>0 DEF TypeOK
  <2> QED BY <1>1, <2>1, SameLine, SameSent
<1>3. \A i \in 1..Len(em) : em[i].n \in Nat /\ em[i].n <= nb BY Front
<1>4. Fresh'
  <2>0. todo' \subseteq Clients BY DEF IInv, TypeOK
  <2>1. \A c \in Clients : \A i \in 1..Len(out[c]) : out[c][i].n # nb + 1
    <3> SUFFICES ASSUME NEW c \in Clients, NEW i \in 1..Len(out[c])
                 PROVE  out[c][i].n # nb + 1
        OBVIOUS
    <3>1. out[c][i].n \in 1..nb BY DEF Sent
    <3> QED BY <1>1, <3>1
  <2>2. \A c \in Clients : \A i \in 1..Len(em) :
           em[i] # [n |-> nb + 1, c |-> c, g |-> gen[c]]
        BY <1>1, <1>3
  <2> QED BY <1>1, <2>0, <2>1, <2>2 DEF Fresh, NotYet, Now, Of
<1>5. Decided' BY <1>1 DEF Decided
<1>6. Within' BY <1>1 DEF Within, HadOf, Hits, Quota
<1> QED BY <1>2, <1>4, <1>5, <1>6

(* What is decided for a client that is visited.                           *)
LEMMA ChooseR == ASSUME RInv, IInv', NEW c \in Clients, BcChoose(c) PROVE RInv'
<1> USE DEF RInv
<1> DEFINE x == [n |-> nb, c |-> c, g |-> gen[c]]
<1>0. TypeOK BY DEF IInv
<1>1. PICK then : then = (IF Names(Bev, c) THEN "direct" ELSE "pair") /\ Looks(c, then)
      BY DEF BcChoose
<1>2. /\ bpc = "visit" /\ c \in todo /\ bpc' = then /\ todo' = todo \ {c}
      /\ at'.c = c /\ at'.g = gen[c] /\ Pair1(nb, at') = x
      BY <1>0, <1>1, AtType DEF Looks, BcChoose, Wanted, Visits
<1>3. UNCHANGED <<pub, nb, em, ne, fleft, gen, out>> /\ [Next]_vars
  <2>1. UNCHANGED <<pub, nb, em, ne, fleft, gen, out>>
        BY DEF BcChoose, newEvent, matcher, clients, channels
  <2>2. Next BY DEF Next, Broadcaster
  <2> QED BY <2>1, <2>2
<1>4. Line' /\ Sent'
  <2>1. nb \in Nat /\ ne \in Nat BY <1>0, PubType DEF TypeOK
  <2> QED BY <1>3, <2>1, SameLine, SameSent
<1>5. \A y : NotYet(y)' = NotYet(y) BY <1>3 DEF NotYet, Of
<1>6. Fresh' BY <1>2, <1>3, <1>5 DEF Fresh, Now
<1>7. Decided'
  <2>1. NotYet(x) BY <1>2 DEF Fresh, Now
  <2>2. NotYet(x)' BY <1>3, <2>1 DEF NotYet, Of
  <2>3. Direct(x) <=> Names(Bev, c) BY DEF Direct, D!Addressee, Names, Bev
  <2>4. bpc' = "direct" <=> Direct(x) BY <1>1, <1>2, <2>3
  <2>5. Direct(x)' <=> Direct(x) BY <1>3 DEF Direct, D!Addressee
  <2>6. Pair1(nb, at)' = x BY <1>2, <1>3 DEF Pair1
  <2>7. NotYet(Pair1(nb, at))'
        BY <1>2, <1>3, <2>1, <2>6 DEF NotYet, Of, Pair1
  <2>8. Direct(Pair1(nb, at))' <=> Direct(x)
        BY <1>2, <1>3 DEF Direct, D!Addressee, Pair1
  <2> QED BY <1>2, <2>4, <2>7, <2>8 DEF Decided
<1>8. Within' BY <1>3 DEF Within, HadOf, Hits, Quota
<1> QED BY <1>4, <1>6, <1>7, <1>8

(* A client that was sent nothing of the event yet gets it at once.        *)
LEMMA DirectR == ASSUME RInv, IInv', BcDirect PROVE RInv'
<1> USE DEF RInv
<1> DEFINE y == Pair1(nb, at)
<1>0. TypeOK BY DEF IInv
<1>1. /\ bpc = "direct" /\ y \in Pair /\ y.n = nb /\ y.c = at.c /\ at.c \in Clients
      /\ out' = [out EXCEPT ![y.c] = Append(@, Made(y, TRUE))] /\ todo' = {}
      /\ bpc' = "visit"
      /\ UNCHANGED <<pub, nb, em, ne, fleft, gen>>
      BY <1>0, AtFacts DEF BcDirect, newEvent, matcher, clients, Pair1, Made
<1>2. nb \in 1..Len(pub) BY <1>1 DEF IInv, BevPublic
<1>3. NotYet(y) /\ Direct(y) BY <1>1 DEF Decided
<1> HIDE DEF y
<1>4. [Next]_vars BY DEF Next, Broadcaster
<1>5. Line'
  <2>1. nb \in Nat BY <1>2
  <2> QED BY <1>1, <1>4, <2>1, SameLine
<1>6. Sent'
  <2> SUFFICES ASSUME NEW c \in Clients, NEW i \in 1..Len(out'[c])
               PROVE  /\ out'[c][i].n \in 1..nb
                      /\ IF out'[c][i].direct THEN Direct(OutPair(c, i))'
                         ELSE \E j \in 1..ne : em[j] = OutPair(c, i)'
      BY <1>1 DEF Sent
  <2>1. CASE i \in 1..Len(out[c]) /\ out'[c][i] = out[c][i]
    <3>1. OutPair(c, i)' = OutPair(c, i) BY <2>1 DEF OutPair
    <3>2. Direct(OutPair(c, i))' <=> Direct(OutPair(c, i))
          BY <1>1, <3>1 DEF Direct, D!Addressee, OutPair
    <3> QED BY <2>1, <3>1, <3>2 DEF Sent
  <2>2. CASE c = y.c /\ out'[c][i] = Made(y, TRUE)
    <3>1. OutPair(c, i)' = y /\ out'[c][i].direct = TRUE /\ out'[c][i].n = y.n
          BY <1>1, <2>2 DEF OutPair, Made, Pair
    <3>2. Direct(OutPair(c, i))'
      <4>1. pub[y.n].kind = "dm" /\ pub[y.n].to = <<y.c, y.g>>
            BY <1>3 DEF Direct, D!Addressee
      <4>2. OutPair(c, i)'.n = y.n /\ OutPair(c, i)'.c = y.c /\ OutPair(c, i)'.g = y.g
            BY <3>1
      <4> QED BY <1>1, <4>1, <4>2 DEF Direct, D!Addressee, OutPair
    <3>3. nb \in 1..nb BY <1>2
    <3> QED BY <1>1, <3>1, <3>2, <3>3
  <2>3. \/ i \in 1..Len(out[c]) /\ out'[c][i] = out[c][i]
        \/ c = y.c /\ out'[c][i] = Made(y, TRUE)
    <3>1. TypeOK /\ y \in Pair /\ out' = [out EXCEPT ![y.c] = Append(@, Made(y, TRUE))]
          BY <1>0, <1>1
    <3> QED BY <3>1, Sending
  <2> QED BY <2>1, <2>2, <2>3
<1>7. Fresh' /\ Decided' BY <1>1 DEF Fresh, Decided
<1>8. Within'
  <2> SUFFICES ASSUME fleft > 0 PROVE HadOf(em[ne])' + fleft <= Quota(em[ne])
      BY <1>1 DEF Within, HadOf, Hits, Quota
  <2>1. ne \in 1..Len(em) BY <1>0, Current
  <2>2. em[ne] # y /\ em[ne] \in Pair BY <1>3, <2>1, Front DEF NotYet
  <2>3. HadOf(em[ne])' = HadOf(em[ne])
    <3>1. \A x \in Pair : x # y => HadOf(x)' = HadOf(x) BY <1>0, <1>1, Sending
    <3>2. HadOf(em[ne])' = Cardinality(Hits(out'[em[ne].c], em[ne]))
          BY <1>1 DEF HadOf, Hits
    <3> QED BY <2>2, <3>1, <3>2 DEF HadOf, Hits
  <2> QED BY <2>3 DEF Within
<1> QED BY <1>5, <1>6, <1>7, <1>8

(* The new pair is the last one, and the first of its connection.          *)
LEMMA PairR == ASSUME RInv, IInv', BcPair PROVE RInv'
<1> USE DEF RInv
<1> DEFINE y == Pair1(nb, at)
<1>0. TypeOK BY DEF IInv
<1>1. /\ bpc = "pair" /\ y \in Pair /\ y.n = nb /\ y.c = at.c /\ y.g = at.g
      /\ em' = Append(em, y) /\ todo' = todo /\ bpc' = "visit"
      /\ UNCHANGED <<pub, nb, ne, fleft, gen, out>>
      BY <1>0, AtFacts DEF BcPair, newEvent, matcher, clients, channels
<1>2. NotYet(y) /\ ~Direct(y) /\ (y.c \in todo => y.g # gen[y.c])
      BY <1>1 DEF Decided
<1> HIDE DEF y
<1>3. /\ Len(em) \in Nat /\ Len(em') = Len(em) + 1 /\ em'[Len(em) + 1] = y
      /\ \A i \in 1..Len(em) : em'[i] = em[i]
      BY <1>0, <1>1 DEF TypeOK
<1>4. \A i \in 1..Len(em') : i \in 1..Len(em) \/ i = Len(em) + 1 BY <1>3
<1>5. [Next]_vars BY DEF Next, Broadcaster
<1>6. Line'
  <2>0. \A x : Direct(x)' = Direct(x) BY <1>1 DEF Direct, D!Addressee
  <2>1. \A i \in 1..Len(em) : em[i].n <= nb /\ em[i] # y
        BY <1>2, Front DEF NotYet
  <2>2. ASSUME NEW i \in 1..Len(em') PROVE em'[i].n <= nb /\ ~Direct(em'[i])
    <3>1. nb \in Nat BY <1>0, PubType
    <3> QED BY <1>1, <1>2, <1>3, <1>4, <3>1 DEF Line
  <2>3. ASSUME NEW i \in 1..Len(em'), NEW j \in 1..Len(em'), i < j
        PROVE  em'[i].n <= em'[j].n /\ em'[i] # em'[j]
    <3>1. i \in 1..Len(em) /\ em'[i] = em[i] BY <1>3, <1>4, <2>3
    <3>2. CASE j \in 1..Len(em) BY <1>3, <2>3, <3>1, <3>2 DEF Line
    <3>3. CASE j = Len(em) + 1 BY <1>1, <1>3, <2>1, <3>1, <3>3
    <3> QED BY <1>4, <3>2, <3>3
  <2>4. \A i \in 1..Len(em') : ~(/\ pub[em'[i].n].kind = "dm"
                                /\ pub[em'[i].n].to = <<em'[i].c, em'[i].g>>)
        BY <2>2 DEF Direct, D!Addressee
  <2> QED BY <1>1, <2>2, <2>3, <2>4 DEF Line, Direct, D!Addressee
<1>7. Sent'
  <2>1. nb \in Nat /\ ne \in Nat /\ \A j \in 1..ne : em'[j] = em[j]
        BY <1>0, <1>3, PubType DEF TypeOK
  <2>2. nb' = nb /\ ne' = ne /\ out' = out BY <1>1
  <2> QED BY <1>5, <2>1, <2>2, SameSent
<1>8. Fresh'
  <2> SUFFICES ASSUME NEW c \in todo PROVE NotYet(Now(nb, c))'
      BY <1>1 DEF Fresh, NotYet, Now, Of
  <2>1. NotYet(Now(nb, c)) BY <1>1 DEF Fresh
  <2>2. Now(nb, c) # y BY <1>2 DEF Now
  <2>3. \A i \in 1..Len(em') : em'[i] # Now(nb, c)
        BY <1>3, <1>4, <2>1, <2>2 DEF NotYet
  <2>4. Now(nb, c)' = Now(nb, c) BY <1>1 DEF Now
  <2> QED BY <1>1, <2>1, <2>3, <2>4 DEF NotYet, Of, Now
<1>9. Decided' BY <1>1 DEF Decided
<1>10. Within'
  <2> SUFFICES ASSUME fleft > 0 PROVE Within' BY <1>1 DEF Within
  <2>1. em'[ne] = em[ne] BY <1>0, <1>3, Current
  <2> QED BY <1>1, <2>1 DEF Within, HadOf, Hits, Quota
<1> QED BY <1>6, <1>7, <1>8, <1>9, <1>10

(* Nothing was sent of a pair that is still in chEM: all that was came     *)
(* from pairs before it, or directly.                                      *)
LEMMA Unsent ==
    ASSUME RInv, NEW k \in 1..Len(em), k > ne
    PROVE  HadOf(em[k]) = 0
<1>0. ne \in Nat BY DEF RInv, IInv, TypeOK
<1>1. em[k].c \in Clients /\ em[k] \in Pair BY Front
<1>2. ASSUME NEW i \in 1..Len(out[em[k].c]), Of(em[k].c, i, em[k]) PROVE FALSE
  <2>1. OutPair(em[k].c, i) = em[k] BY <1>1, <1>2 DEF OutPair, Of, Pair
  <2>2. CASE out[em[k].c][i].direct
    <3>1. Direct(OutPair(em[k].c, i)) BY <1>1, <2>2 DEF RInv, Sent
    <3> QED BY <2>1, <3>1 DEF RInv, Line
  <2>3. CASE ~out[em[k].c][i].direct
    <3>1. PICK j \in 1..ne : em[j] = OutPair(em[k].c, i)
          BY <1>1, <2>3 DEF RInv, Sent
    <3>2. j \in 1..Len(em) /\ j < k BY <1>0
    <3> QED BY <2>1, <3>1, <3>2 DEF RInv, Line
  <2> QED BY <2>2, <2>3
<1> QED BY <1>2, NoHits

LEMMA MatchR == ASSUME RInv, IInv', FmTake PROVE RInv'
<1> USE DEF RInv
<1>0. TypeOK BY DEF IInv
<1>1. /\ fleft = 0 /\ ne < Len(em) /\ ne' = ne + 1 /\ fleft' = Sends(em[ne + 1])
      /\ UNCHANGED <<pub, nb, bpc, todo, at, em, gen, out>>
      BY DEF FmTake, newEvent, broadcaster, clients, channels
<1>2. ne + 1 \in 1..Len(em) /\ ne \in Nat /\ nb \in Nat /\ ne + 1 > ne
      BY <1>0, <1>1, PubType DEF TypeOK
<1>3. [Next]_vars BY DEF Next, Matcher
<1>4. Line' /\ Sent' BY <1>1, <1>2, <1>3, SameLine, SameSent
<1>5. Fresh' BY <1>1 DEF Fresh, NotYet, Of, Now
<1>6. Decided' BY <1>1 DEF Decided, NotYet, Of, Pair1, Direct, D!Addressee
<1>7. Within'
  <2>1. fleft' = 0 \/ fleft' = Quota(em[ne + 1])
        BY <1>1, Zenon DEF Sends, Quota
  <2>2. HadOf(em[ne + 1]) = 0 BY <1>2, Unsent
  <2>3. Quota(em[ne + 1]) \in Nat BY <1>2, Front
  <2>4. fleft' > 0 => HadOf(em[ne + 1]) + fleft' <= Quota(em[ne + 1])
        BY <2>1, <2>2, <2>3
  <2> QED BY <1>1, <2>4 DEF Within, HadOf, Hits, Quota
<1> QED BY <1>4, <1>5, <1>6, <1>7

LEMMA SendR == ASSUME RInv, IInv', FmSend PROVE RInv'
<1> USE DEF RInv
<1> DEFINE y == em[ne]
<1>0. TypeOK BY DEF IInv
<1>1. fleft > 0 BY <1>0 DEF FmSend, TypeOK
<1>2. /\ ne \in 1..Len(em) /\ y \in Pair /\ y.c \in Clients /\ y.n <= nb /\ nb \in Nat
      /\ y.n \in 1..Len(pub) /\ HadOf(y) \in Nat /\ Quota(y) \in Nat
      BY <1>0, <1>1, Current, Front
<1>3. /\ fleft' = fleft - 1 /\ out' = [out EXCEPT ![y.c] = Append(@, Made(y, FALSE))]
      /\ UNCHANGED <<pub, nb, bpc, todo, at, em, ne, gen>>
      BY DEF FmSend, newEvent, broadcaster, clients, Made
<1>4. [Next]_vars BY DEF Next, Matcher
<1>5. Line' BY <1>2, <1>3, <1>4, SameLine
<1>6. /\ \A x \in Pair : HadOf(x)' = IF x = y THEN HadOf(x) + 1 ELSE HadOf(x)
      /\ \A c \in Clients : \A i \in 1..Len(out'[c]) :
            \/ i \in 1..Len(out[c]) /\ out'[c][i] = out[c][i]
            \/ c = y.c /\ out'[c][i] = Made(y, FALSE)
      BY <1>0, <1>2, <1>3, Sending
<1>7. Sent'
  <2> SUFFICES ASSUME NEW c \in Clients, NEW i \in 1..Len(out'[c])
               PROVE  /\ out'[c][i].n \in 1..nb
                      /\ IF out'[c][i].direct THEN Direct(OutPair(c, i))'
                         ELSE \E j \in 1..ne : em[j] = OutPair(c, i)'
      BY <1>3 DEF Sent
  <2>1. CASE i \in 1..Len(out[c]) /\ out'[c][i] = out[c][i]
    <3>1. OutPair(c, i)' = OutPair(c, i) BY <2>1 DEF OutPair
    <3>2. Direct(OutPair(c, i))' <=> Direct(OutPair(c, i))
          BY <1>3, <3>1 DEF Direct, D!Addressee, OutPair
    <3> QED BY <2>1, <3>1, <3>2 DEF Sent
  <2>2. CASE c = y.c /\ out'[c][i] = Made(y, FALSE)
    <3>1. OutPair(c, i)' = y /\ out'[c][i].direct = FALSE /\ out'[c][i].n = y.n
          BY <1>2, <2>2 DEF OutPair, Made, Pair
    <3>2. y.n \in 1..nb /\ ne \in 1..ne BY <1>2
    <3> QED BY <3>1, <3>2
  <2> QED BY <1>6, <2>1, <2>2
<1>8. \A x \in Pair : NotYet(x) => NotYet(x)'
  <2> SUFFICES ASSUME NEW x \in Pair, NotYet(x) PROVE NotYet(x)' OBVIOUS
  <2>1. x # y BY <1>2 DEF NotYet
  <2> QED BY <1>0, <1>2, <1>3, <2>1, StillNotYet
<1>9. Fresh'
  <2> SUFFICES ASSUME bpc # "recv", NEW c \in todo PROVE NotYet(Now(nb, c))'
      BY <1>3 DEF Fresh, NotYet, Now, Of
  <2>1. c \in Clients BY <1>0, BcType
  <2>2. NotYet(Now(nb, c)) /\ Now(nb, c) \in Pair BY <1>0, <2>1, NowType DEF Fresh
  <2>3. \A i \in 1..Len(out'[c]) : ~(out'[c][i].n = nb /\ out'[c][i].g = gen[c])
    <3> SUFFICES ASSUME NEW x, x = Now(nb, c)
                 PROVE  \A i \in 1..Len(out'[c]) : ~(out'[c][i].n = nb /\ out'[c][i].g = gen[c])
        OBVIOUS
    <3>1. NotYet(x)' BY <1>8, <2>2
    <3>2. x.n = nb /\ x.g = gen[c] /\ x.c = c BY DEF Now
    <3> QED BY <3>1, <3>2 DEF NotYet, Of
  <2> QED BY <1>3, <2>2, <2>3 DEF NotYet, Now, Of
<1>10. Decided'
  <2> SUFFICES ASSUME bpc \in {"direct", "pair"} PROVE Decided' BY <1>3 DEF Decided
  <2>1. NotYet(Pair1(nb, at)) /\ Pair1(nb, at) \in Pair BY <1>0, AtFacts DEF Decided
  <2>2. \A i \in 1..Len(out'[at.c]) : ~(out'[at.c][i].n = nb /\ out'[at.c][i].g = at.g)
    <3> SUFFICES ASSUME NEW x, x = Pair1(nb, at)
                 PROVE  \A i \in 1..Len(out'[at.c]) :
                          ~(out'[at.c][i].n = nb /\ out'[at.c][i].g = at.g)
        OBVIOUS
    <3>1. NotYet(x)' BY <1>8, <2>1
    <3>2. x.n = nb /\ x.g = at.g /\ x.c = at.c BY DEF Pair1
    <3> QED BY <3>1, <3>2 DEF NotYet, Of
  <2>3. NotYet(Pair1(nb, at))' BY <1>3, <2>1, <2>2 DEF NotYet, Pair1, Of
  <2>4. Direct(Pair1(nb, at))' <=> Direct(Pair1(nb, at))
        BY <1>3 DEF Direct, D!Addressee, Pair1
  <2> QED BY <1>3, <2>3, <2>4 DEF Decided
<1>11. Within'
  <2>1. HadOf(y) + fleft <= Quota(y) BY <1>1 DEF Within
  <2>2. HadOf(y)' = HadOf(y) + 1
    <3>1. HadOf(y)' = Cardinality(Hits(out'[y.c], y)) BY <1>3 DEF HadOf, Hits
    <3> SUFFICES ASSUME NEW x \in Pair, x = y
                 PROVE  Cardinality(Hits(out'[x.c], x)) = HadOf(x) + 1
        BY <1>2, <3>1
    <3>2. HadOf(x)' = HadOf(x) + 1 BY <1>6
    <3> QED BY <3>2 DEF HadOf, Hits
  <2>3. Quota(y)' = Quota(y) BY <1>3 DEF Quota
  <2>4. fleft \in Nat BY <1>0 DEF TypeOK
  <2> QED BY <1>2, <1>3, <2>1, <2>2, <2>3, <2>4 DEF Within
<1> QED BY <1>5, <1>7, <1>9, <1>10, <1>11

(* A connection that begins was sent nothing, and chosen for nothing.      *)
LEMMA RegisterR == ASSUME RInv, IInv', NEW c \in Clients, Register(c) PROVE RInv'
<1> USE DEF RInv
<1>0. TypeOK BY DEF IInv
<1>1. /\ gen' = [gen EXCEPT ![c] = @ + 1] /\ out' = [out EXCEPT ![c] = <<>>]
      /\ todo' = todo \/ todo' = todo \cup {c}
      /\ bpc' = bpc \/ (bpc' = "stuck" /\ bpc = "direct")
      /\ UNCHANGED <<pub, nb, at, em, ne, fleft>>
      BY DEF Register, newEvent
<1>2. /\ gen'[c] = gen[c] + 1 /\ out'[c] = <<>> /\ gen[c] \in Nat
      /\ \A d \in Clients \ {c} : gen'[d] = gen[d] /\ out'[d] = out[d]
      BY <1>0, <1>1, ClientsType, OutType
<1>3. bpc = "recv" => todo' = todo BY DEF Register
<1>4. [Next]_vars BY DEF Next, Client
<1>5. Line' /\ Sent'
  <2>1. nb \in Nat /\ ne \in Nat BY <1>0, PubType DEF TypeOK
  <2>2. \A d \in Clients : out'[d] = out[d] \/ out'[d] = <<>> BY <1>2
  <2> QED BY <1>1, <1>4, <2>1, <2>2, SameLine, SameSent
<1>6. Fresh'
  <2> SUFFICES ASSUME bpc # "recv", NEW d \in todo' PROVE NotYet(Now(nb, d))'
      BY <1>1, <1>3 DEF Fresh, NotYet, Now, Of
  <2>0. d \in Clients BY DEF IInv, TypeOK
  <2>1. CASE d = c
    <3>1. \A i \in 1..Len(em) : em[i] # [n |-> nb, c |-> c, g |-> gen[c] + 1]
      <4>1. \A i \in 1..Len(em) : em[i].g \in Nat /\ em[i].g <= gen[em[i].c]
            BY Front
      <4> QED BY <1>2, <4>1
    <3> QED BY <1>1, <1>2, <2>1, <3>1 DEF NotYet, Now, Of
  <2>2. CASE d # c
    <3>1. NotYet(Now(nb, d)) BY <1>1, <2>2 DEF Fresh
    <3>2. gen'[d] = gen[d] /\ out'[d] = out[d] BY <1>2, <2>0, <2>2
    <3> QED BY <1>1, <3>1, <3>2 DEF NotYet, Now, Of
  <2> QED BY <2>1, <2>2
<1>7. Decided'
  <2> SUFFICES ASSUME bpc' \in {"direct", "pair"} PROVE Decided' BY DEF Decided
  <2>1. bpc' = bpc BY <1>1
  <2>2. at.c \in Clients /\ at.g \in Nat /\ Pair1(nb, at).c = at.c BY <1>0, <2>1, AtFacts
  <2>3. NotYet(Pair1(nb, at)) /\ (at.c \in todo => at.g # gen[at.c])
        BY <2>1 DEF Decided
  <2>4. NotYet(Pair1(nb, at))'
    <3>1. \A i \in 1..Len(out'[at.c]) : ~(out'[at.c][i].n = nb /\ out'[at.c][i].g = at.g)
      <4>1. CASE at.c = c BY <1>2, <4>1
      <4>2. CASE at.c # c BY <1>2, <2>2, <2>3, <4>2 DEF NotYet, Of, Pair1
      <4> QED BY <4>1, <4>2
    <3> QED BY <1>1, <2>3, <3>1 DEF NotYet, Of, Pair1
  <2>5. Direct(Pair1(nb, at))' <=> Direct(Pair1(nb, at))
        BY <1>1 DEF Direct, D!Addressee, Pair1
  <2>6. at.c \in todo' => at.g # gen'[at.c]
    <3>1. CASE at.c = c
      <4>1. Fit(Pair1(nb, at)) BY <2>1 DEF IInv, AtChosen, ChosenFit
      <4>2. at.g <= gen[c] BY <3>1, <4>1 DEF Fit, Pair1
      <4> QED BY <1>2, <2>2, <3>1, <4>2
    <3>2. CASE at.c # c BY <1>1, <1>2, <2>2, <2>3, <3>2
    <3> QED BY <3>1, <3>2
  <2> QED BY <1>1, <2>1, <2>3, <2>4, <2>5, <2>6 DEF Decided
<1>8. Within'
  <2> SUFFICES ASSUME fleft > 0 PROVE HadOf(em[ne])' + fleft <= Quota(em[ne])
      BY <1>1 DEF Within, HadOf, Hits, Quota
  <2>1. ne \in 1..Len(em) /\ fleft \in Nat BY <1>0, Current DEF TypeOK
  <2>2. HadOf(em[ne]) + fleft <= Quota(em[ne]) /\ HadOf(em[ne]) \in Nat
        /\ Quota(em[ne]) \in Nat /\ em[ne].c \in Clients
        BY <2>1, Front DEF Within
  <2>3. HadOf(em[ne])' = Cardinality(Hits(out'[em[ne].c], em[ne]))
        BY <1>1 DEF HadOf, Hits
  <2>4. CASE em[ne].c = c
    <3>1. Hits(out'[em[ne].c], em[ne]) = {} BY <1>2, <2>4 DEF Hits
    <3>2. HadOf(em[ne])' = 0 BY <2>3, <3>1, FS_EmptySet
    <3> QED BY <2>1, <2>2, <3>2
  <2>5. CASE em[ne].c # c BY <1>2, <2>2, <2>3, <2>5 DEF HadOf
  <2> QED BY <2>4, <2>5
<1> QED BY <1>5, <1>6, <1>7, <1>8

LEMMA StepRInv == RInv /\ [Next]_vars => RInv'
<1> SUFFICES ASSUME RInv, [Next]_vars PROVE RInv' OBVIOUS
<1>0. IInv /\ IInv' /\ TypeOK
      BY TypeStep, SourcesStep, BevStep, ChosenStep, AtStep, EmStep, OutStep
      DEF RInv, IInv
<1>1. CASE UNCHANGED vars
      BY <1>0, <1>1, Aside DEF vars, broadcaster, matcher, clients, channels
<1>2. ASSUME NEW e \in Events, Publish(e) PROVE RInv'
      BY <1>0, <1>2, Aside DEF Publish, broadcaster, matcher, clients, channels
<1>3. CASE Broadcaster
  <2>1. CASE BcEnd
        BY <1>0, <2>1, Aside DEF BcEnd, matcher, clients, channels
  <2>2. ASSUME NEW c \in Clients, BcSkip(c) PROVE RInv'
        BY <1>0, <2>2, Aside DEF BcSkip, matcher, clients, channels
  <2>3. ASSUME NEW c \in Clients, BcGiveUp(c) PROVE RInv'
        BY <1>0, <2>3, Aside DEF BcGiveUp, Looks, Visits, matcher, clients, channels
  <2>4. CASE BcEvict
    <3>1. /\ bpc' = "visit" /\ bpc # "recv" /\ todo' \subseteq todo /\ fleft' = fleft
          /\ UNCHANGED <<nb, em, ne, out, gen>>
          BY <2>4 DEF BcEvict, matcher, clients, channels
    <3>2. RInv /\ IInv' /\ [Next]_vars BY <1>0
    <3> QED BY <3>1, <3>2, Aside
  <2> QED BY <1>0, <1>3, <2>1, <2>2, <2>3, <2>4, TakeR, ChooseR, DirectR, PairR
          DEF Broadcaster
<1>4. CASE Matcher BY <1>0, <1>4, MatchR, SendR DEF Matcher
<1>5. CASE FmTimeout
      BY <1>0, <1>5, Aside DEF FmTimeout, broadcaster, clients, channels
<1>6. ASSUME NEW c \in Clients, WriterTakes(c) PROVE RInv'
      BY <1>0, <1>6, Aside DEF WriterTakes, broadcaster, matcher, clients
<1>7. ASSUME NEW c \in Clients, Client(c) PROVE RInv'
  <2>1. CASE PeerStops(c) \/ WriterEnds(c) \/ RemoveChannel(c) \/ Subscribe(c)
             \/ Unsubscribe(c) \/ SetFilters(c) \/ Authenticate(c) \/ GrowOld(c)
    <3>1. UNCHANGED <<broadcaster, em, matcher, gen, out>>
          BY <2>1 DEF PeerStops, WriterEnds, RemoveChannel, Subscribe, Unsubscribe,
                      SetFilters, Authenticate, GrowOld, channels
    <3> QED BY <1>0, <3>1, Aside DEF broadcaster, matcher
  <2>2. CASE RemoveFromLedger(c) \/ SsEvict(c)
    <3>1. todo' \subseteq todo /\ UNCHANGED <<nb, bpc, at, em, matcher, gen, out>>
          BY <2>2 DEF RemoveFromLedger, SsEvict, clients, channels
    <3> QED BY <1>0, <3>1, Aside DEF matcher
  <2>3. CASE Register(c) BY <1>0, <2>3, RegisterR
  <2> QED BY <1>7, <2>1, <2>2, <2>3 DEF Client
<1> QED BY <1>1, <1>2, <1>3, <1>4, <1>5, <1>6, <1>7 DEF Next

LEMMA RInvariant == Spec => []RInv
BY InitRInv, StepRInv, PTL DEF Spec

-----------------------------------------------------------------------------
(* The refinement.                                                         *)

LEMMA CardinalityD == \A S : D!Cardinality(S) = Cardinality(S)
BY DEF D!Cardinality, Cardinality, D!IsFiniteSet, IsFiniteSet

LEMMA HadD == ASSUME NEW x PROVE D!Had(x) = HadOf(x)
BY CardinalityD DEF D!Had, HadOf, Hits

(* A message sent directly is the first and only one of its pair.          *)
LEMMA DirectDelivers ==
    ASSUME RInv, BcDirect
    PROVE  Pair1(nb, at) \in chosen /\ D!Deliver(Pair1(nb, at))
<1> DEFINE y == Pair1(nb, at)
<1>0. TypeOK BY DEF RInv, IInv
<1>1. /\ bpc = "direct" /\ y \in Pair /\ y.n = nb /\ y.c = at.c
      /\ out' = [out EXCEPT ![y.c] = Append(@, [n |-> y.n, direct |-> TRUE, g |-> y.g])]
      /\ UNCHANGED <<pub, by, gen, authed, chosen>>
      BY <1>0, AtFacts DEF BcDirect, newEvent, clients
<1>2. y \in chosen BY <1>1 DEF RInv, IInv, AtChosen
<1>3. NotYet(y) /\ Direct(y) BY <1>1 DEF RInv, Decided
<1> HIDE DEF y
<1>4. D!Addressee(y) = TRUE /\ D!Share(y) = 1
      BY <1>3, Zenon DEF Direct, D!Addressee, D!Share
<1>5. D!Had(y) = 0 BY <1>3, HadD, NoHits DEF NotYet
<1>6. D!Deliver(y) BY <1>1, <1>4, <1>5 DEF D!Deliver
<1> QED BY <1>2, <1>6 DEF y

(* One that was sent by a filter follows those of the pairs before it, and *)
(* is not one too many.                                                    *)
LEMMA SendDelivers ==
    ASSUME RInv, FmSend PROVE em[ne] \in chosen /\ D!Deliver(em[ne])
<1> DEFINE p == em[ne]
<1>0. TypeOK BY DEF RInv, IInv
<1>1. fleft > 0 /\ fleft \in Nat BY <1>0 DEF FmSend, TypeOK
<1>2. /\ ne \in 1..Len(em) /\ p \in Pair /\ p.c \in Clients /\ p.n \in Nat
      /\ HadOf(p) \in Nat /\ Quota(p) \in Nat /\ out[p.c] \in Seq(Entry)
      BY <1>0, <1>1, Current, Front
<1>3. /\ out' = [out EXCEPT ![p.c] = Append(@, [n |-> p.n, direct |-> FALSE, g |-> p.g])]
      /\ UNCHANGED <<pub, by, gen, authed, chosen>>
      BY DEF FmSend, newEvent, clients
<1>4. p \in chosen BY <1>2 DEF RInv, IInv, EmChosen
<1>5. D!Addressee(p) = FALSE BY <1>2 DEF RInv, Line, Direct, D!Addressee
<1>6. D!Share(p) = Quota(p) BY <1>5, Zenon DEF D!Share, Quota
<1>7. D!Had(p) < D!Share(p)
  <2>1. HadOf(p) + fleft <= Quota(p) BY <1>1 DEF RInv, Within
  <2> QED BY <1>1, <1>2, <1>6, <2>1, HadD
<1>8. ASSUME NEW i \in 1..Len(out[p.c]), ~out[p.c][i].direct
      PROVE  out[p.c][i].n <= p.n
  <2>1. PICK j \in 1..ne : em[j] = OutPair(p.c, i) BY <1>2, <1>8 DEF RInv, Sent
  <2>2. j \in 1..Len(em) /\ (j = ne \/ j < ne) BY <1>2
  <2>3. em[j].n = out[p.c][i].n BY <2>1 DEF OutPair
  <2> QED BY <1>2, <2>2, <2>3 DEF RInv, Line
<1>9. \A i \in 1..Len(out[p.c]) : FALSE \/ out[p.c][i].direct \/ out[p.c][i].n <= p.n
      BY <1>8
<1>10. D!Deliver(p) BY <1>3, <1>5, <1>7, <1>9 DEF D!Deliver
<1> QED BY <1>4, <1>10

(* Whatever clients come, go and come back, and however long events are on *)
(* their way: what Broadcast sends is what Delivery allows, step by step.  *)
THEOREM BroadcastImplementsDelivery == Spec => Delivered
<1>1. Init => D!Init
  <2> SUFFICES ASSUME Init PROVE D!Init OBVIOUS
  <2>1. authed \in [Clients -> BOOLEAN] BY DEF Init
  <2> QED BY <2>1 DEF Init, D!Init
<1>2. RInv /\ [Next]_vars => [D!Next]_(D!deliveryVars)
  <2> SUFFICES ASSUME RInv, Next \/ UNCHANGED vars
               PROVE  D!Next \/ UNCHANGED <<pub, by, gen, authed, chosen, out>>
      BY DEF D!deliveryVars
  <2>0. TypeOK /\ IInv BY DEF RInv, IInv
  <2>1. ASSUME NEW e \in Events, Publish(e) PROVE D!Announce(e)
        BY <2>1 DEF Publish, D!Announce, clients, channels
  <2>2. ASSUME NEW c \in Clients, Authenticate(c) PROVE D!Authenticate(c)
        BY <2>2 DEF Authenticate, D!Authenticate, newEvent, channels
  <2>3. ASSUME NEW c \in Clients, Register(c) PROVE D!Renew(c)
        BY <2>3 DEF Register, D!Renew, newEvent
  <2>4. ASSUME NEW c \in Clients, BcChoose(c) PROVE D!Choose(c, nb) /\ nb \in 1..Len(pub)
    <3>1. PICK then : Looks(c, then) BY <2>4 DEF BcChoose
    <3>2. Pair1(nb, at') = [n |-> nb, c |-> c, g |-> gen[c]]
          BY <2>0, <3>1, AtType
    <3>3. nb \in 1..Len(pub) /\ pub[nb].kind # "auth"
          BY <2>0, <2>4 DEF IInv, BevPublic, Bev, BcChoose, Wanted, Visits
    <3>4. D!MayHave(nb, c)
          BY <2>4, <3>3 DEF D!MayHave, BcChoose, Wanted, Own, Bev
    <3> QED BY <2>4, <3>2, <3>3, <3>4 DEF D!Choose, BcChoose, newEvent, clients, channels
  <2>5. CASE BcDirect BY <2>5, DirectDelivers DEF D!Next
  <2>6. CASE FmSend BY <2>6, SendDelivers DEF D!Next
  <2>7. CASE UNCHANGED <<pub, by, gen, authed, chosen, out>> BY <2>7
  <2>8. ASSUME NEW c \in Clients, Client(c), ~Register(c), ~Authenticate(c)
        PROVE  UNCHANGED <<pub, by, gen, authed, chosen, out>>
        BY <2>8
        DEF Client, PeerStops, WriterEnds, RemoveFromLedger, RemoveChannel, Subscribe,
            Unsubscribe, SetFilters, GrowOld, SsEvict, newEvent, clients, channels
  <2>9. ASSUME \/ BcTake \/ BcEvict \/ BcPair \/ BcEnd \/ FmTake \/ FmTimeout
               \/ \E c \in Clients : BcSkip(c) \/ BcGiveUp(c) \/ WriterTakes(c)
               \/ UNCHANGED vars
        PROVE  UNCHANGED <<pub, by, gen, authed, chosen, out>>
        BY <2>9
        DEF BcTake, BcEvict, BcPair, BcEnd, FmTake, FmTimeout, BcSkip, BcGiveUp,
            WriterTakes, vars, newEvent, clients, channels
  <2> QED
      BY <2>1, <2>2, <2>3, <2>4, <2>5, <2>6, <2>7, <2>8, <2>9
      DEF Next, Broadcaster, Matcher, D!Next
<1> QED BY <1>1, <1>2, RInvariant, PTL DEF Spec, Delivered, D!Spec

-----------------------------------------------------------------------------
(* Nothing is lost.                                                        *)

(* A client to which an event is due was there when it was published, and  *)
(* is as it was then.                                                      *)
Entitled(n, c) ==
    /\ c \in ledger /\ Working(c) /\ Usable(c)
    /\ pub[n].kind # "auth" /\ pub[n].src # c
    /\ pub[n].kind = "dm" => authed[c]
    /\ pub[n].kind = "dm" /\ pub[n].to # Nobody => Names(pub[n], c)
DueInv == \A n \in 1..Len(pub) : \A c \in due[n] : Entitled(n, c)

(* On its way: the client is still to be visited; the broadcaster has just *)
(* decided for it; it got the event as its addressee; or a pair waits, is  *)
(* in front, or was dealt with.                                            *)
Left(j) == IF j = ne THEN fleft ELSE 0
ToVisit(n, c) == n = nb /\ bpc # "recv" /\ c \in todo
InHand(n, c)  == n = nb /\ bpc \in {"direct", "pair"} /\ Pair1(nb, at) = Now(nb, c)
Told(n, c)    == Direct(Now(n, c)) /\ HadOf(Now(n, c)) = 1
Queued(n, c, j) ==
    /\ em[j] = Now(n, c)
    /\ j <= ne => HadOf(Now(n, c)) + Left(j) = Quota(Now(n, c))
Progress(n, c) == \/ ToVisit(n, c) \/ InHand(n, c) \/ Told(n, c)
                  \/ \E j \in 1..Len(em) : Queued(n, c, j)
Underway == \A n \in 1..nb : \A c \in due[n] : Progress(n, c)

LInv == RInv /\ DueInv /\ Underway

LEMMA Copied == ASSUME NEW n, NEW c PROVE Copies(c, n) = HadOf(Now(n, c))
BY DEF Copies, HadOf, Hits, Now

(* A pair that waits goes on waiting while nothing of it is sent.          *)
LEMMA QueuedKept ==
    ASSUME NEW n, NEW c, NEW j, Queued(n, c, j), em'[j] = em[j],
           Now(n, c)' = Now(n, c), Quota(Now(n, c))' = Quota(Now(n, c)),
           j <= ne' => /\ j <= ne /\ HadOf(Now(n, c))' = HadOf(Now(n, c))
                       /\ Left(j)' = Left(j)
    PROVE  Queued(n, c, j)'
<1>1. em'[j] = Now(n, c)' BY DEF Queued
<1>2. ASSUME j <= ne' PROVE HadOf(Now(n, c))' + Left(j)' = Quota(Now(n, c))'
  <2>1. HadOf(Now(n, c)) + Left(j) = Quota(Now(n, c)) BY <1>2 DEF Queued
  <2> QED BY <1>2, <2>1
<1> QED BY <1>1, <1>2 DEF Queued

(* The message of an event to a client is the same while the event and the *)
(* client's connection are.                                                *)
LEMMA SameNow ==
    ASSUME NEW n, NEW c, pub'[n] = pub[n], gen'[c] = gen[c]
    PROVE  /\ Now(n, c)' = Now(n, c)
           /\ Now(n, c).c = c /\ Now(n, c).n = n /\ Now(n, c).g = gen[c]
           /\ Quota(Now(n, c))' = Quota(Now(n, c))
           /\ Direct(Now(n, c))' = Direct(Now(n, c))
<1>1. Now(n, c)' = Now(n, c) BY DEF Now
<1>2. Now(n, c).c = c /\ Now(n, c).n = n /\ Now(n, c).g = gen[c] BY DEF Now
<1>3. Quota(Now(n, c))' = Quota(Now(n, c))
  <2>1. Quota(Now(n, c)) = Matching[pub[Now(n, c).n], Now(n, c).c]
        BY Zenon DEF Quota
  <2>2. Quota(Now(n, c)) = Matching[pub[n], c] BY <1>2, <2>1, Zenon
  <2>3. Quota(Now(n, c))' = Matching[pub'[Now(n, c)'.n], Now(n, c)'.c]
        BY Zenon DEF Quota
  <2>4. Quota(Now(n, c))' = Matching[pub'[n], c] BY <1>1, <1>2, <2>3, Zenon
  <2> QED BY <2>2, <2>4
<1>4. Direct(Now(n, c))' = Direct(Now(n, c))
  <2>1. Direct(Now(n, c)) = (pub[n].kind = "dm" /\ pub[n].to = <<c, gen[c]>>)
        BY DEF Direct, D!Addressee, Now
  <2>2. Direct(Now(n, c))' = (pub'[n].kind = "dm" /\ pub'[n].to = <<c, gen'[c]>>)
        BY DEF Direct, D!Addressee, Now
  <2>3. (pub'[n].kind = "dm" /\ pub'[n].to = <<c, gen'[c]>>)
          = (pub[n].kind = "dm" /\ pub[n].to = <<c, gen[c]>>)
        OBVIOUS
  <2> QED BY <2>1, <2>2, <2>3, Zenon
<1> QED BY <1>1, <1>2, <1>3, <1>4

(* A sequence and one more element.                                        *)
LEMMA OneMore ==
    ASSUME NEW S, NEW s \in Seq(S), NEW e
    PROVE  /\ Len(s) \in Nat /\ Len(Append(s, e)) = Len(s) + 1
           /\ Append(s, e)[Len(s) + 1] = e
           /\ \A i \in 1..Len(s) : i \in 1..(Len(s) + 1) /\ Append(s, e)[i] = s[i]
OBVIOUS

LEMMA Dues ==
    ASSUME LInv, NEW n \in 1..nb, NEW c \in due[n]
    PROVE  /\ n \in 1..Len(pub) /\ c \in Clients /\ Entitled(n, c) /\ Progress(n, c)
           /\ n \in Nat /\ gen[c] \in Nat /\ Now(n, c) \in Pair
           /\ Now(n, c).c = c /\ Now(n, c).n = n /\ Now(n, c).g = gen[c]
<1>0. TypeOK BY DEF LInv, RInv, IInv
<1>1. n \in 1..Len(pub) /\ n \in Nat BY <1>0, PubType
<1>2. due[n] \subseteq Clients BY <1>0, <1>1, ElementOfSeq, DueType
<1>3. gen[c] \in Nat BY <1>0, <1>2, ClientsType
<1>4. Entitled(n, c) /\ Progress(n, c) BY <1>1 DEF LInv, DueInv, Underway
<1> QED BY <1>1, <1>2, <1>3, <1>4 DEF Now, Pair

LEMMA QuietLost == LInv => NothingLost
<1> SUFFICES ASSUME LInv, Quiet, NEW n \in 1..Len(pub), NEW c \in due[n]
             PROVE  Copies(c, n) = Expected(c, n)
    BY DEF NothingLost
<1>1. n \in 1..nb /\ bpc = "recv" /\ ne = Len(em) /\ fleft = 0 BY DEF Quiet
<1>2. Progress(n, c) /\ Now(n, c).c = c /\ Now(n, c).n = n /\ Now(n, c).g = gen[c]
      BY <1>1, Dues
<1>3. Direct(Now(n, c)) <=> Names(pub[n], c) BY <1>2 DEF Direct, D!Addressee, Names
<1>4. CASE Told(n, c) BY <1>3, <1>4, Copied DEF Told, Expected
<1>5. ASSUME NEW j \in 1..Len(em), Queued(n, c, j) PROVE Copies(c, n) = Expected(c, n)
  <2>1. em[j] = Now(n, c) BY <1>5 DEF Queued
  <2>2. ~Direct(em[j]) /\ HadOf(em[j]) \in Nat /\ j <= ne
        BY <1>1, Front DEF LInv, RInv, Line
  <2>3. Left(j) = 0 BY <1>1 DEF Left
  <2>4. HadOf(Now(n, c)) = Quota(Now(n, c)) BY <1>5, <2>1, <2>2, <2>3 DEF Queued
  <2>5. Expected(c, n) = Quota(Now(n, c))
        BY <1>2, <1>3, <2>1, <2>2, Zenon DEF Expected, Quota
  <2> QED BY <2>4, <2>5, Copied
<1> QED BY <1>1, <1>2, <1>4, <1>5 DEF Progress, ToVisit, InHand

LEMMA InitLInv == Init => LInv
<1> SUFFICES ASSUME Init PROVE LInv OBVIOUS
<1>1. RInv BY InitRInv
<1>2. Len(pub) = 0 /\ nb = 0 BY DEF Init
<1> QED BY <1>1, <1>2 DEF LInv, DueInv, Underway

(* Who leaves the ledger, changes its subscription or loses its connection *)
(* is not owed anything; and whatever is owed was announced to somebody    *)
(* present.                                                                *)
LEMMA StaysDue ==
    ASSUME LInv, [Next]_vars, pub' = pub, \A n \in 1..Len(pub) : due'[n] \subseteq due[n],
           \A n \in 1..Len(pub) : \A c \in due'[n] : c \in Clients /\ Entitled(n, c) =>
                /\ c \in ledger' /\ conn'[c] \in {"up", "deaf"}
                /\ subd'[c] = subd[c] /\ gen'[c] = gen[c]
    PROVE  DueInv'
<1> SUFFICES ASSUME NEW n \in 1..Len(pub), NEW c \in due'[n] PROVE Entitled(n, c)'
    BY DEF DueInv
<1>0. TypeOK BY DEF LInv, RInv, IInv
<1>1. c \in due[n] /\ Entitled(n, c) BY DEF LInv, DueInv
<1>2. c \in Clients BY <1>0, <1>1, ElementOfSeq, DueType
<1>3. authed[c] /\ gen'[c] = gen[c] => authed'[c] BY <1>0, <1>2, History
<1> QED BY <1>1, <1>2, <1>3 DEF Entitled, Working, Usable, Names

LEMMA PublishDue == ASSUME LInv, NEW e \in Events, Publish(e) PROVE DueInv'
<1>0. TypeOK BY DEF LInv, RInv, IInv
<1>1. /\ pub' = Append(pub, e) /\ due' = Append(due, Audience(e))
      /\ UNCHANGED <<ledger, conn, gen, subd, authed>>
      BY DEF Publish, clients
<1>2. /\ Len(pub') = Len(pub) + 1 /\ Len(pub) \in Nat /\ Len(due) = Len(pub)
      /\ pub'[Len(pub) + 1] = e /\ due'[Len(pub) + 1] = Audience(e)
      /\ \A n \in 1..Len(pub) : pub'[n] = pub[n] /\ due'[n] = due[n]
      BY <1>0, <1>1, PubType, DueType
<1> SUFFICES ASSUME NEW n \in 1..Len(pub'), NEW c \in due'[n] PROVE Entitled(n, c)'
    BY DEF DueInv
<1>3. CASE n \in 1..Len(pub)
  <2>1. Entitled(n, c) /\ pub'[n] = pub[n] BY <1>2, <1>3 DEF LInv, DueInv
  <2> QED BY <1>1, <2>1 DEF Entitled, Working, Usable, Names
<1>4. CASE n = Len(pub) + 1
  <2>1. pub'[n] = e /\ c \in Audience(e) BY <1>2, <1>4
  <2>2. /\ c \in ledger /\ Working(c) /\ Usable(c) /\ e.kind # "auth" /\ e.src # c
        /\ e.kind = "dm" => authed[c]
        /\ e.kind = "dm" /\ e.to # Nobody => Names(e, c)
        BY <2>1 DEF Audience
  <2> QED BY <1>1, <2>1, <2>2 DEF Entitled, Working, Usable, Names
<1> QED BY <1>2, <1>3, <1>4

LEMMA Forgotten ==
    ASSUME TypeOK, NEW d, Forget(d)
    PROVE  \A n \in 1..Len(pub) : due'[n] = due[n] \ {d}
BY DueType DEF Forget

LEMMA DueStep ==
    ASSUME LInv, [Next]_vars
    PROVE  DueInv'
<1>0. TypeOK BY DEF LInv, RInv, IInv
<1>1. CASE UNCHANGED <<pub, due, ledger, conn, gen, subd>>
      BY <1>1, StaysDue DEF Entitled, Working
<1>2. ASSUME NEW d, Forget(d), UNCHANGED <<pub, gen>>,
             \A c \in Clients \ {d} :
                /\ c \in ledger => c \in ledger'
                /\ conn'[c] = conn[c] /\ subd'[c] = subd[c]
      PROVE  DueInv'
  <2>1. \A n \in 1..Len(pub) : due'[n] = due[n] \ {d} BY <1>0, <1>2, Forgotten
  <2> QED BY <1>2, <2>1, StaysDue DEF Entitled, Working
<1>3. CASE BcEvict
  <2>1. /\ Forget(at.c) /\ ledger' = ledger \ {at.c} /\ UNCHANGED <<pub, gen, conn, subd>>
        BY <1>3 DEF BcEvict, newEvent, clients
  <2> QED BY <1>2, <2>1
<1>4. ASSUME NEW d \in Clients, WriterEnds(d) \/ Subscribe(d) \/ Unsubscribe(d) \/ SsEvict(d)
      PROVE  DueInv'
  <2>1. /\ Forget(d) /\ UNCHANGED <<pub, gen>>
        /\ \A c \in Clients \ {d} :
              /\ c \in ledger => c \in ledger'
              /\ conn'[c] = conn[c] /\ subd'[c] = subd[c]
        BY <1>0, <1>4, ClientsType
        DEF WriterEnds, Subscribe, Unsubscribe, SsEvict, newEvent, clients
  <2> QED BY <1>2, <2>1
<1>5. CASE FmTimeout
  <2>1. /\ due' = [due EXCEPT ![em[ne].n] = @ \ {em[ne].c}]
        /\ UNCHANGED <<pub, ledger, conn, gen, subd>>
        BY <1>5 DEF FmTimeout, newEvent, clients
  <2>2. \A n \in 1..Len(pub) : due'[n] \subseteq due[n] BY <1>0, <2>1, DueType
  <2> QED BY <2>1, <2>2, StaysDue DEF Entitled, Working
<1>6. ASSUME NEW d \in Clients, RemoveFromLedger(d) PROVE DueInv'
  <2>1. conn[d] = "dead" /\ ledger' = ledger \ {d}
        /\ UNCHANGED <<pub, due, conn, gen, subd>>
        BY <1>6 DEF RemoveFromLedger, newEvent, clients
  <2> QED BY <2>1, StaysDue DEF Entitled, Working
<1>7. ASSUME NEW d \in Clients,
             PeerStops(d) \/ RemoveChannel(d) \/ Register(d) \/ SetFilters(d)
      PROVE  DueInv'
  <2>1. UNCHANGED <<pub, due>> /\ ledger \subseteq ledger'
        BY <1>7 DEF PeerStops, RemoveChannel, Register, SetFilters, newEvent
  <2>2. \A c \in Clients \ {d} : /\ conn'[c] = conn[c] /\ subd'[c] = subd[c]
                                 /\ gen'[c] = gen[c]
        BY <1>0, <1>7, ClientsType DEF PeerStops, RemoveChannel, Register, SetFilters
  <2>3. \/ conn[d] \notin {"up", "deaf"} \/ subd[d] # "yes"
        \/ conn'[d] = "deaf" /\ UNCHANGED <<subd, gen>>
        BY <1>0, <1>7, ClientsType DEF PeerStops, RemoveChannel, Register, SetFilters
  <2> QED BY <2>1, <2>2, <2>3, StaysDue DEF Entitled, Working, Usable
<1>8. ASSUME ~(\E e \in Events : Publish(e)), ~BcEvict, ~FmTimeout,
             \A d \in Clients : ~(\/ WriterEnds(d) \/ Subscribe(d) \/ Unsubscribe(d)
                                  \/ SsEvict(d) \/ RemoveFromLedger(d) \/ PeerStops(d)
                                  \/ RemoveChannel(d) \/ Register(d) \/ SetFilters(d))
      PROVE  UNCHANGED <<pub, due, ledger, conn, gen, subd>>
      BY <1>8
      DEF Next, vars, Broadcaster, BcTake, BcEnd, BcSkip, BcGiveUp, BcChoose, BcDirect,
          BcPair, Matcher, FmTake, FmSend, WriterTakes, Client, Authenticate, GrowOld,
          newEvent, clients
<1> QED BY <1>1, <1>3, <1>4, <1>5, <1>6, <1>7, <1>8, PublishDue

(* A client that is owed nothing new, and whose message of event n is not  *)
(* sent in this step.                                                      *)
LEMMA ProgressKept ==
    ASSUME LInv, NEW n \in 1..nb, NEW c \in due[n],
           UNCHANGED <<nb, ne, fleft>>, pub'[n] = pub[n], gen'[c] = gen[c],
           HadOf(Now(n, c))' = HadOf(Now(n, c)),
           \A j \in 1..Len(em) : j \in 1..Len(em') /\ em'[j] = em[j],
           ToVisit(n, c) => Progress(n, c)', InHand(n, c) => Progress(n, c)'
    PROVE  Progress(n, c)'
<1>1. Progress(n, c) BY Dues
<1>2. Now(n, c)' = Now(n, c) BY SameNow
<1>3. Quota(Now(n, c))' = Quota(Now(n, c)) BY SameNow
<1>4. Direct(Now(n, c))' = Direct(Now(n, c)) BY SameNow
<1>5. CASE Told(n, c) BY <1>4, <1>5 DEF Progress, Told
<1>6. ASSUME NEW j \in 1..Len(em), Queued(n, c, j) PROVE Progress(n, c)'
  <2>1. Left(j)' = Left(j) BY DEF Left
  <2>2. em'[j] = em[j] OBVIOUS
  <2>3. Queued(n, c, j)' BY <1>2, <1>3, <1>6, <2>1, <2>2, QueuedKept
  <2> QED BY <2>3 DEF Progress
<1> QED BY <1>1, <1>5, <1>6 DEF Progress

LEMMA AsideUnderway ==
    ASSUME LInv, [Next]_vars, UNCHANGED <<nb, em, ne, fleft>>,
           \A n \in 1..nb : \A c \in due'[n] :
              c \in due[n] /\ (Entitled(n, c) => gen'[c] = gen[c] /\ out'[c] = out[c]),
           \A c \in due'[nb] : Entitled(nb, c) =>
              /\ bpc # "recv" /\ c \in todo => bpc' # "recv" /\ c \in todo'
              /\ bpc \in {"direct", "pair"} /\ at.c = c => UNCHANGED <<bpc, at>>
    PROVE  Underway'
<1> SUFFICES ASSUME NEW n \in 1..nb, NEW c \in due'[n] PROVE Progress(n, c)'
    BY DEF Underway
<1>0. TypeOK BY DEF LInv, RInv, IInv
<1>1. c \in due[n] OBVIOUS
<1>2. n \in 1..Len(pub) /\ Entitled(n, c) BY <1>1, Dues
<1>3. pub'[n] = pub[n] BY <1>0, <1>2, History
<1>4. gen'[c] = gen[c] /\ out'[c] = out[c] BY <1>2
<1>5. HadOf(Now(n, c))' = HadOf(Now(n, c)) BY <1>4 DEF HadOf, Hits, Now
<1>6. ASSUME ToVisit(n, c) PROVE Progress(n, c)'
  <2>1. ToVisit(n, c)' BY <1>2, <1>6 DEF ToVisit
  <2> QED BY <2>1 DEF Progress
<1>7. ASSUME InHand(n, c) PROVE Progress(n, c)'
  <2>1. at.c = c /\ n = nb /\ bpc \in {"direct", "pair"} BY <1>7 DEF InHand, Pair1, Now
  <2>2. UNCHANGED <<bpc, at>> BY <1>2, <2>1
  <2>3. InHand(n, c)' BY <1>4, <1>7, <2>2 DEF InHand, Pair1, Now
  <2> QED BY <2>3 DEF Progress
<1> QED BY <1>1, <1>3, <1>4, <1>5, <1>6, <1>7, ProgressKept

LEMMA TakeU == ASSUME LInv, BcTake PROVE Underway'
<1>0. TypeOK BY DEF LInv, RInv, IInv
<1>1. /\ nb' = nb + 1 /\ nb \in Nat /\ nb + 1 \in 1..Len(pub) /\ bpc = "recv"
      /\ UNCHANGED <<pub, em, ne, fleft, out, gen, due>>
      BY <1>0, PubType DEF BcTake, newEvent, matcher, clients, channels
<1> SUFFICES ASSUME NEW n \in 1..(nb + 1), NEW c \in due[n] PROVE Progress(n, c)'
    BY <1>1 DEF Underway
<1>2. CASE n = nb + 1
  <2>1. Entitled(n, c) BY <1>1, <1>2 DEF LInv, DueInv
  <2>2. pub[nb + 1].kind # "auth" /\ c \in ledger BY <1>2, <2>1 DEF Entitled
  <2>3. bpc' = "visit" /\ todo' = ledger BY <2>2 DEF BcTake
  <2>4. ToVisit(n, c)' BY <1>1, <1>2, <2>2, <2>3 DEF ToVisit
  <2> QED BY <2>4 DEF Progress
<1>3. CASE n # nb + 1
  <2>1. n \in 1..nb BY <1>1, <1>3
  <2>2. Progress(n, c) BY <2>1, Dues
  <2>3. Now(n, c)' = Now(n, c) BY <1>1 DEF Now
  <2>4. CASE Told(n, c) BY <1>1, <2>3, <2>4 DEF Progress, Told, Direct, D!Addressee, HadOf, Hits
  <2>5. ASSUME NEW j \in 1..Len(em), Queued(n, c, j) PROVE Progress(n, c)'
    <3>1. HadOf(Now(n, c))' = HadOf(Now(n, c)) BY <1>1, <2>3 DEF HadOf, Hits
    <3>2. Quota(Now(n, c))' = Quota(Now(n, c)) BY <1>1, SameNow
    <3>3. Left(j)' = Left(j) BY <1>1 DEF Left
    <3>4. Queued(n, c, j)' BY <1>1, <2>3, <2>5, <3>1, <3>2, <3>3, QueuedKept
    <3> QED BY <1>1, <3>4 DEF Progress
  <2> QED BY <1>1, <2>2, <2>4, <2>5 DEF Progress, ToVisit, InHand
<1> QED BY <1>2, <1>3

(* The client is looked at: the event is due to it, so it is chosen.       *)
LEMMA ChooseU == ASSUME LInv, NEW d \in Clients, BcChoose(d) PROVE Underway'
<1>0. TypeOK BY DEF LInv, RInv, IInv
<1>1. PICK then : then = (IF Names(Bev, d) THEN "direct" ELSE "pair") /\ Looks(d, then)
      BY DEF BcChoose
<1>2. /\ bpc = "visit" /\ bpc' \in {"direct", "pair"} /\ todo' = todo \ {d}
      /\ Pair1(nb, at') = [n |-> nb, c |-> d, g |-> gen[d]]
      BY <1>0, <1>1, AtType DEF Looks, BcChoose, Wanted, Visits
<1>3. UNCHANGED <<pub, nb, em, ne, fleft, gen, out, due>>
      BY DEF BcChoose, newEvent, matcher, clients, channels
<1> SUFFICES ASSUME NEW n \in 1..nb, NEW c \in due[n] PROVE Progress(n, c)'
    BY <1>3 DEF Underway
<1>4. ASSUME ToVisit(n, c) PROVE Progress(n, c)'
  <2>1. CASE c = d
    <3>1. InHand(n, c)' BY <1>2, <1>3, <1>4, <2>1 DEF ToVisit, InHand, Pair1, Now
    <3> QED BY <3>1 DEF Progress
  <2>2. CASE c # d
    <3>1. ToVisit(n, c)' BY <1>2, <1>3, <1>4, <2>2 DEF ToVisit
    <3> QED BY <3>1 DEF Progress
  <2> QED BY <2>1, <2>2
<1>5. ~InHand(n, c) BY <1>2 DEF InHand
<1>6. HadOf(Now(n, c))' = HadOf(Now(n, c)) BY <1>3 DEF HadOf, Hits, Now
<1> QED BY <1>3, <1>4, <1>5, <1>6, ProgressKept

LEMMA DirectU == ASSUME LInv, BcDirect PROVE Underway'
<1> DEFINE y == Pair1(nb, at)
<1>0. TypeOK /\ RInv BY DEF LInv, RInv, IInv
<1>1. /\ bpc = "direct" /\ y \in Pair /\ y.n = nb /\ y.c = at.c /\ y.g = at.g
      /\ at.c \in Clients /\ out' = [out EXCEPT ![y.c] = Append(@, Made(y, TRUE))]
      /\ UNCHANGED <<pub, nb, em, ne, fleft, gen, due>>
      BY <1>0, AtFacts DEF BcDirect, newEvent, matcher, clients, Made
<1>2. NotYet(y) /\ Direct(y) BY <1>0, <1>1 DEF RInv, Decided
<1> HIDE DEF y
<1> SUFFICES ASSUME NEW n \in 1..nb, NEW c \in due[n] PROVE Progress(n, c)'
    BY <1>1 DEF Underway
<1>3. /\ n \in 1..Len(pub) /\ c \in Clients /\ Entitled(n, c) /\ Now(n, c) \in Pair
      /\ Now(n, c).c = c /\ Now(n, c).n = n /\ Now(n, c).g = gen[c]
      BY Dues
<1>4. \A x \in Pair : HadOf(x)' = IF x = y THEN HadOf(x) + 1 ELSE HadOf(x)
      BY <1>0, <1>1, Sending
<1>5. HadOf(Now(n, c))' = Cardinality(Hits(out'[c], Now(n, c)))
      BY <1>1, <1>3 DEF HadOf, Hits, Now
<1>6. ASSUME NEW x \in Pair, x = Now(n, c)
      PROVE  HadOf(Now(n, c))' = IF x = y THEN HadOf(x) + 1 ELSE HadOf(x)
  <2>1. HadOf(x)' = Cardinality(Hits(out'[c], x)) BY <1>3, <1>6 DEF HadOf, Hits
  <2> QED BY <1>4, <1>5, <1>6, <2>1
<1>7. CASE n = nb
  <2>1. Now(n, c) = y
    <3>1. pub[nb].kind = "dm" /\ pub[nb].to = <<at.c, at.g>>
          BY <1>1, <1>2 DEF Direct, D!Addressee
    <3>2. at.g \in Nat BY <1>1 DEF Pair
    <3>3. pub[nb].to # Nobody BY <1>1, <3>1, <3>2, BroadcastAssumption
    <3>4. pub[nb].to = <<c, gen[c]>> BY <1>3, <1>7, <3>1, <3>3 DEF Entitled, Names
    <3>5. c = at.c /\ gen[c] = at.g BY <3>1, <3>4
    <3> QED BY <1>1, <1>3, <1>7, <3>5 DEF Pair
  <2>2. HadOf(y) = 0 BY <1>2, NoHits DEF NotYet
  <2>3. HadOf(Now(n, c))' = 1 BY <1>3, <1>6, <2>1, <2>2
  <2>4. Direct(Now(n, c))'
        BY <1>1, <1>2, <2>1 DEF Direct, D!Addressee, Now
  <2> QED BY <2>3, <2>4 DEF Progress, Told
<1>8. CASE n # nb
  <2>1. Now(n, c) # y BY <1>1, <1>3, <1>8
  <2>2. HadOf(Now(n, c))' = HadOf(Now(n, c)) BY <1>3, <1>6, <2>1
  <2>3. ~ToVisit(n, c) /\ ~InHand(n, c) BY <1>8 DEF ToVisit, InHand
  <2> QED BY <1>1, <2>2, <2>3, ProgressKept
<1> QED BY <1>7, <1>8

LEMMA PairU == ASSUME LInv, BcPair PROVE Underway'
<1> DEFINE y == Pair1(nb, at)
<1>0. TypeOK BY DEF LInv, RInv, IInv
<1>1. /\ bpc = "pair" /\ bpc' = "visit" /\ em' = Append(em, y) /\ y \in Pair
      /\ UNCHANGED <<pub, nb, todo, ne, fleft, out, gen, due>>
      BY <1>0, AtFacts DEF BcPair, newEvent, matcher, clients, channels
<1>2. y = Pair1(nb, at) OBVIOUS
<1> HIDE DEF y
<1>3. /\ Len(em) \in Nat /\ Len(em') = Len(em) + 1 /\ em'[Len(em) + 1] = y
      /\ \A i \in 1..Len(em) : i \in 1..Len(em') /\ em'[i] = em[i]
      /\ Len(em) + 1 \in 1..Len(em') /\ ~(Len(em) + 1 <= ne)
  <2>1. em \in Seq(Pair) /\ ne \in 0..Len(em) BY <1>0 DEF TypeOK
  <2>2. /\ Len(em) \in Nat /\ Len(em') = Len(em) + 1 /\ em'[Len(em) + 1] = y
        /\ \A i \in 1..Len(em) : i \in 1..(Len(em) + 1) /\ em'[i] = em[i]
        BY <1>1, <2>1, OneMore
  <2>3. Len(em) + 1 \in 1..Len(em') /\ ~(Len(em) + 1 <= ne) BY <2>1, <2>2
  <2> QED BY <2>2, <2>3
<1> SUFFICES ASSUME NEW n \in 1..nb, NEW c \in due[n] PROVE Progress(n, c)'
    BY <1>1 DEF Underway
<1>4. ASSUME InHand(n, c) PROVE Progress(n, c)'
  <2>1. y = Now(n, c) BY <1>2, <1>4 DEF InHand
  <2>2. Now(n, c)' = Now(n, c) BY <1>1 DEF Now
  <2>3. PICK j \in 1..Len(em') : em'[j] = y /\ ~(j <= ne) BY <1>3
  <2>4. em'[j] = Now(n, c)' /\ ~(j <= ne') BY <1>1, <2>1, <2>2, <2>3
  <2>5. Queued(n, c, j)' BY <2>4 DEF Queued
  <2> QED BY <2>3, <2>5 DEF Progress
<1>5. ASSUME ToVisit(n, c) PROVE Progress(n, c)'
      BY <1>1, <1>5 DEF Progress, ToVisit
<1>6. HadOf(Now(n, c))' = HadOf(Now(n, c)) BY <1>1 DEF HadOf, Hits, Now
<1> QED BY <1>1, <1>3, <1>4, <1>5, <1>6, ProgressKept

(* The pair that is taken is of a client that was not sent the event.      *)
LEMMA MatchU == ASSUME LInv, FmTake PROVE Underway'
<1>0. TypeOK /\ RInv BY DEF LInv, RInv, IInv
<1>1. /\ fleft = 0 /\ ne < Len(em) /\ ne' = ne + 1 /\ fleft' = Sends(em[ne + 1])
      /\ UNCHANGED <<pub, nb, bpc, todo, at, em, out, gen, due>>
      BY DEF FmTake, newEvent, broadcaster, clients, channels
<1>2. ne + 1 \in 1..Len(em) /\ ne \in Nat
  <2>1. em \in Seq(Pair) /\ ne \in 0..Len(em) BY <1>0 DEF TypeOK
  <2> QED BY <1>1, <2>1
<1> SUFFICES ASSUME NEW n \in 1..nb, NEW c \in due[n] PROVE Progress(n, c)'
    BY <1>1 DEF Underway
<1>3. Progress(n, c) /\ Entitled(n, c) /\ Now(n, c).c = c BY Dues
<1>4. Now(n, c)' = Now(n, c) /\ HadOf(Now(n, c))' = HadOf(Now(n, c))
      /\ Quota(Now(n, c))' = Quota(Now(n, c)) /\ Direct(Now(n, c))' = Direct(Now(n, c))
      BY <1>1 DEF Now, HadOf, Hits, Quota, Direct, D!Addressee
<1>5. ASSUME NEW j \in 1..Len(em), Queued(n, c, j) PROVE Progress(n, c)'
  <2>0. em[j] = Now(n, c) BY <1>5 DEF Queued
  <2>1. CASE j <= ne
    <3>1. Left(j) = 0 /\ Left(j)' = 0 BY <1>1, <1>2, <2>1 DEF Left
    <3>2. Queued(n, c, j)' BY <1>1, <1>4, <1>5, <2>1, <3>1, QueuedKept
    <3> QED BY <1>1, <3>2 DEF Progress
  <2>2. CASE j = ne + 1
    <3>1. Left(j)' = Quota(Now(n, c))
      <4>1. subd[em[ne + 1].c] = "yes" BY <1>3, <2>0, <2>2 DEF Entitled, Usable
      <4>2. fleft' = Quota(em[ne + 1]) BY <1>1, <4>1, Zenon DEF Sends, Quota
      <4> QED BY <1>1, <2>0, <2>2, <4>2 DEF Left
    <3>2. HadOf(em[j]) = 0 BY <1>0, <1>2, <2>2, Unsent
    <3>3. Quota(em[j]) \in Nat BY <1>0, Front
    <3>4. em'[j] = Now(n, c)' BY <1>1, <1>4, <2>0
    <3>5. HadOf(Now(n, c))' + Left(j)' = Quota(Now(n, c))'
          BY <1>4, <2>0, <3>1, <3>2, <3>3
    <3>6. Queued(n, c, j)' BY <3>4, <3>5 DEF Queued
    <3> QED BY <1>1, <3>6 DEF Progress
  <2>3. CASE j > ne + 1
    <3>1. ~(j <= ne') BY <1>1, <1>2, <2>3
    <3>2. Queued(n, c, j)' BY <1>1, <1>4, <1>5, <3>1, QueuedKept
    <3> QED BY <1>1, <3>2 DEF Progress
  <2> QED BY <1>2, <2>1, <2>2, <2>3
<1>6. CASE Told(n, c) BY <1>4, <1>6 DEF Progress, Told
<1>7. CASE ToVisit(n, c) BY <1>1, <1>7 DEF Progress, ToVisit
<1>8. CASE InHand(n, c)
  <2>1. InHand(n, c)' BY <1>1, <1>8 DEF InHand, Pair1, Now
  <2> QED BY <2>1 DEF Progress
<1> QED BY <1>3, <1>5, <1>6, <1>7, <1>8 DEF Progress

(* The pair in front is the only one of its event and connection.          *)
LEMMA OnePair ==
    ASSUME LInv, NEW i \in 1..Len(em), NEW j \in 1..Len(em), em[i] = em[j]
    PROVE  i = j
<1>1. i < j \/ j < i \/ i = j OBVIOUS
<1> QED BY <1>1 DEF LInv, RInv, Line

LEMMA SendU == ASSUME LInv, FmSend PROVE Underway'
<1> DEFINE y == em[ne]
<1>0. TypeOK /\ RInv BY DEF LInv, RInv, IInv
<1>1. fleft > 0 /\ fleft \in Nat BY <1>0 DEF FmSend, TypeOK
<1>2. /\ ne \in 1..Len(em) /\ y \in Pair /\ y.c \in Clients
      /\ HadOf(y) \in Nat /\ Quota(y) \in Nat
      BY <1>0, <1>1, Current, Front
<1>3. /\ fleft' = fleft - 1 /\ out' = [out EXCEPT ![y.c] = Append(@, Made(y, FALSE))]
      /\ UNCHANGED <<pub, nb, bpc, todo, at, em, ne, gen, due>>
      BY DEF FmSend, newEvent, broadcaster, clients, Made
<1>4. \A x \in Pair : HadOf(x)' = IF x = y THEN HadOf(x) + 1 ELSE HadOf(x)
      BY <1>0, <1>2, <1>3, Sending
<1> SUFFICES ASSUME NEW n \in 1..nb, NEW c \in due[n] PROVE Progress(n, c)'
    BY <1>3 DEF Underway
<1>5. Progress(n, c) /\ Now(n, c) \in Pair /\ Now(n, c).c = c BY Dues
<1>6. Now(n, c)' = Now(n, c) /\ Quota(Now(n, c))' = Quota(Now(n, c))
      /\ Direct(Now(n, c))' = Direct(Now(n, c))
      /\ HadOf(Now(n, c))' = Cardinality(Hits(out'[c], Now(n, c)))
      BY <1>3, <1>5 DEF Now, HadOf, Hits, Quota, Direct, D!Addressee
<1>7. ASSUME NEW x \in Pair, x = Now(n, c)
      PROVE  HadOf(Now(n, c))' = IF x = y THEN HadOf(x) + 1 ELSE HadOf(x)
  <2>1. HadOf(x)' = Cardinality(Hits(out'[c], x)) BY <1>5, <1>7 DEF HadOf, Hits
  <2> QED BY <1>4, <1>6, <1>7, <2>1
<1>8. CASE Now(n, c) = y
  <2>1. ~Direct(y) BY <1>0, <1>2 DEF RInv, Line
  <2>2. ~ToVisit(n, c) BY <1>0, <1>2, <1>8 DEF ToVisit, RInv, Fresh, NotYet
  <2>3. ~InHand(n, c) BY <1>0, <1>2, <1>8 DEF InHand, RInv, Decided, NotYet
  <2>4. PICK j \in 1..Len(em) : Queued(n, c, j)
        BY <1>5, <1>8, <2>1, <2>2, <2>3 DEF Progress, Told
  <2>5. j = ne BY <1>2, <1>8, <2>4, OnePair DEF Queued
  <2>6. HadOf(y) + fleft = Quota(y)
        BY <1>2, <1>8, <2>4, <2>5 DEF Queued, Left
  <2>7. HadOf(Now(n, c))' = HadOf(y) + 1 BY <1>2, <1>7, <1>8
  <2>8. HadOf(Now(n, c))' + fleft' = Quota(y) BY <1>1, <1>2, <1>3, <2>6, <2>7
  <2>9. em'[j] = Now(n, c)' BY <1>3, <1>6, <1>8, <2>5
  <2>10. Left(j)' = fleft' BY <1>3, <2>5 DEF Left
  <2>11. HadOf(Now(n, c))' + Left(j)' = Quota(Now(n, c))'
    <3>1. Quota(Now(n, c))' = Quota(y) BY <1>6, <1>8
    <3> QED BY <2>8, <2>10, <3>1
  <2>12. Queued(n, c, j)' BY <2>9, <2>11 DEF Queued
  <2> QED BY <1>2, <1>3, <2>12 DEF Progress
<1>9. CASE Now(n, c) # y
  <2>1. HadOf(Now(n, c))' = HadOf(Now(n, c)) BY <1>5, <1>7, <1>9
  <2>2. ASSUME NEW j \in 1..Len(em), Queued(n, c, j) PROVE Progress(n, c)'
    <3>1. j # ne BY <1>9, <2>2 DEF Queued
    <3>2. Left(j)' = Left(j) BY <1>3, <3>1 DEF Left
    <3>3. Queued(n, c, j)' BY <1>3, <1>6, <2>1, <2>2, <3>2, QueuedKept
    <3> QED BY <1>3, <3>3 DEF Progress
  <2>3. CASE Told(n, c) BY <1>6, <2>1, <2>3 DEF Progress, Told
  <2>4. CASE ToVisit(n, c) BY <1>3, <2>4 DEF Progress, ToVisit
  <2>5. CASE InHand(n, c)
    <3>1. InHand(n, c)' BY <1>3, <2>5 DEF InHand, Pair1, Now
    <3> QED BY <3>1 DEF Progress
  <2> QED BY <1>5, <2>2, <2>3, <2>4, <2>5 DEF Progress
<1> QED BY <1>8, <1>9

LEMMA TimeoutU == ASSUME LInv, FmTimeout PROVE Underway'
<1>0. TypeOK /\ RInv BY DEF LInv, RInv, IInv
<1>1. /\ fleft > 0 /\ due' = [due EXCEPT ![em[ne].n] = @ \ {em[ne].c}]
      /\ UNCHANGED <<pub, nb, bpc, todo, at, em, ne, out, gen>>
      BY <1>0 DEF FmTimeout, newEvent, broadcaster, clients, channels, TypeOK
<1>2. ne \in 1..Len(em) /\ em[ne].n \in 1..Len(pub) BY <1>0, <1>1, Current, Front
<1> SUFFICES ASSUME NEW n \in 1..nb, NEW c \in due'[n] PROVE Progress(n, c)'
    BY <1>1 DEF Underway
<1>3. c \in due[n] /\ ~(n = em[ne].n /\ c = em[ne].c)
  <2>1. n \in DOMAIN due BY <1>0, PubType, DueType
  <2> QED BY <1>1, <2>1
<1>4. Progress(n, c) /\ Now(n, c).c = c /\ Now(n, c).n = n BY <1>3, Dues
<1>5. Now(n, c)' = Now(n, c) /\ HadOf(Now(n, c))' = HadOf(Now(n, c))
      /\ Quota(Now(n, c))' = Quota(Now(n, c)) /\ Direct(Now(n, c))' = Direct(Now(n, c))
      BY <1>1 DEF Now, HadOf, Hits, Quota, Direct, D!Addressee
<1>6. ASSUME NEW j \in 1..Len(em), Queued(n, c, j) PROVE Progress(n, c)'
  <2>1. j # ne BY <1>3, <1>4, <1>6 DEF Queued
  <2>2. Left(j)' = Left(j) BY <1>1, <2>1 DEF Left
  <2>3. Queued(n, c, j)' BY <1>1, <1>5, <1>6, <2>2, QueuedKept
  <2> QED BY <1>1, <2>3 DEF Progress
<1>7. CASE Told(n, c) BY <1>5, <1>7 DEF Progress, Told
<1>8. CASE ToVisit(n, c) BY <1>1, <1>8 DEF Progress, ToVisit
<1>9. CASE InHand(n, c)
  <2>1. InHand(n, c)' BY <1>1, <1>9 DEF InHand, Pair1, Now
  <2> QED BY <2>1 DEF Progress
<1> QED BY <1>4, <1>6, <1>7, <1>8, <1>9 DEF Progress

LEMMA UnderwayStep ==
    ASSUME LInv, [Next]_vars PROVE Underway'
<1>0. TypeOK /\ nb \in Nat BY PubType DEF LInv, RInv, IInv
<1>1. ASSUME \A n \in 1..nb : due'[n] \subseteq due[n],
             UNCHANGED <<nb, bpc, at, em, ne, fleft, gen, out>>,
             bpc # "recv" => \A c \in due'[nb] : Entitled(nb, c) /\ c \in todo => c \in todo'
      PROVE  Underway'
      BY <1>1, AsideUnderway
<1>2. CASE UNCHANGED vars
      BY <1>1, <1>2 DEF vars, broadcaster, matcher, clients, channels
<1>3. ASSUME NEW e \in Events, Publish(e) PROVE Underway'
  <2>1. /\ due' = Append(due, Audience(e))
        /\ UNCHANGED <<nb, bpc, at, todo, em, ne, fleft, gen, out>>
        BY <1>3 DEF Publish, broadcaster, matcher, clients, channels
  <2>2. \A n \in 1..nb : due'[n] = due[n] BY <1>0, <2>1, PubType, DueType
  <2> QED BY <1>1, <2>1, <2>2
<1>4. CASE BcEnd
  <2>1. /\ bpc = "visit" /\ todo = {}
        /\ UNCHANGED <<nb, at, em, ne, fleft, gen, out, due>>
        BY <1>4 DEF BcEnd, matcher, clients, channels
  <2> QED BY <2>1, AsideUnderway
<1>5. ASSUME NEW d \in Clients, BcSkip(d) PROVE Underway'
  <2>1. /\ bpc = "visit" /\ todo' = todo \ {d}
        /\ UNCHANGED <<nb, bpc, at, em, ne, fleft, gen, out, due>>
        /\ Bev.src = d \/ ~Usable(d) \/ (Bev.kind = "dm" /\ ~authed[d])
        BY <1>5 DEF BcSkip, Visits, Own, Bev, matcher, clients, channels
  <2>2. ~Entitled(nb, d) BY <2>1 DEF Entitled, Bev
  <2> QED BY <1>1, <2>1, <2>2
<1>6. ASSUME NEW d \in Clients, BcGiveUp(d) PROVE Underway'
  <2>1. /\ bpc = "visit" /\ bpc' = "evict" /\ todo' = todo \ {d} /\ ~Usable(d)
        /\ UNCHANGED <<nb, em, ne, fleft, gen, out, due>>
        BY <1>6 DEF BcGiveUp, Visits, Looks, matcher, clients, channels
  <2>2. ~Entitled(nb, d) BY <2>1 DEF Entitled
  <2> QED BY <2>1, <2>2, AsideUnderway
<1>7. CASE BcEvict
  <2>1. /\ bpc = "evict" /\ bpc' = "visit" /\ Forget(at.c)
        /\ UNCHANGED <<nb, todo, em, ne, fleft, gen, out>>
        BY <1>7 DEF BcEvict, matcher, clients, channels
  <2>2. \A n \in 1..nb : due'[n] \subseteq due[n] BY <1>0, <2>1, PubType, Forgotten
  <2> QED BY <1>0, <2>1, <2>2, AsideUnderway
<1>8. ASSUME NEW d \in Clients, WriterTakes(d) PROVE Underway'
  <2>1. UNCHANGED <<nb, bpc, at, todo, em, ne, fleft, gen, out, due>>
        BY <1>8 DEF WriterTakes, broadcaster, matcher, clients
  <2> QED BY <1>1, <2>1
<1>9. ASSUME NEW d \in Clients, WriterEnds(d) \/ Subscribe(d) \/ Unsubscribe(d)
      PROVE  Underway'
  <2>1. Forget(d) /\ UNCHANGED <<nb, bpc, at, todo, em, ne, fleft, gen, out>>
        BY <1>9 DEF WriterEnds, Subscribe, Unsubscribe, broadcaster, matcher, channels
  <2>2. \A n \in 1..nb : due'[n] \subseteq due[n] BY <1>0, <2>1, PubType, Forgotten
  <2> QED BY <1>1, <2>1, <2>2
<1>10. ASSUME NEW d \in Clients, SsEvict(d) PROVE Underway'
  <2>1. /\ Forget(d) /\ todo' = todo \ {d}
        /\ UNCHANGED <<nb, bpc, at, em, ne, fleft, gen, out>>
        BY <1>10 DEF SsEvict, matcher, clients, channels
  <2>2. \A n \in 1..nb : due'[n] = due[n] \ {d} BY <1>0, <2>1, PubType, Forgotten
  <2>3. bpc # "recv" => nb \in 1..nb BY <1>0, BcType
  <2> QED BY <1>1, <2>1, <2>2, <2>3
<1>11. ASSUME NEW d \in Clients, RemoveFromLedger(d) PROVE Underway'
  <2>1. /\ conn[d] = "dead" /\ todo' = todo \ {d}
        /\ UNCHANGED <<nb, bpc, at, em, ne, fleft, gen, out, due>>
        BY <1>11 DEF RemoveFromLedger, matcher, clients, channels
  <2>2. ~Entitled(nb, d) BY <2>1 DEF Entitled, Working
  <2> QED BY <1>1, <2>1, <2>2
<1>12. ASSUME NEW d \in Clients, Register(d) PROVE Underway'
  <2>1. /\ conn[d] = "nil" /\ todo \subseteq todo'
        /\ gen' = [gen EXCEPT ![d] = @ + 1] /\ out' = [out EXCEPT ![d] = <<>>]
        /\ UNCHANGED <<nb, at, em, ne, fleft, due>>
        BY <1>12 DEF Register
  <2>2. (bpc # "recv" => bpc' # "recv") /\ (bpc' = bpc \/ at.c = d)
        BY <1>12 DEF Register
  <2>3. \A n : \A c : Entitled(n, c) => c # d BY <2>1 DEF Entitled, Working
  <2>4. \A n \in 1..nb : \A c \in due'[n] :
           c \in due[n] /\ (Entitled(n, c) => gen'[c] = gen[c] /\ out'[c] = out[c])
    <3> SUFFICES ASSUME NEW n \in 1..nb, NEW c \in due[n], Entitled(n, c)
                 PROVE  gen'[c] = gen[c] /\ out'[c] = out[c]
        BY <2>1
    <3>1. c \in Clients /\ c # d BY <2>3, Dues
    <3> QED BY <1>0, <2>1, <3>1, ClientsType, OutType
  <2> QED BY <2>1, <2>2, <2>3, <2>4, AsideUnderway
<1>13. ASSUME NEW d \in Clients,
              \/ PeerStops(d) \/ RemoveChannel(d) \/ SetFilters(d)
              \/ Authenticate(d) \/ GrowOld(d)
       PROVE  Underway'
  <2>1. UNCHANGED <<nb, bpc, at, todo, em, ne, fleft, gen, out, due>>
        BY <1>13 DEF PeerStops, RemoveChannel, SetFilters, Authenticate, GrowOld,
                     broadcaster, matcher, channels
  <2> QED BY <1>1, <2>1
<1>14. CASE Broadcaster
      BY <1>4, <1>5, <1>6, <1>7, <1>14, TakeU, ChooseU, DirectU, PairU DEF Broadcaster
<1>15. ASSUME NEW d \in Clients, Client(d) PROVE Underway'
      BY <1>9, <1>10, <1>11, <1>12, <1>13, <1>15 DEF Client
<1> QED BY <1>2, <1>3, <1>8, <1>14, <1>15, MatchU, SendU, TimeoutU DEF Next, Matcher

(* However the pipeline is filled, and whoever comes, goes, stops to read  *)
(* or dies: what was owed to a client that stayed, as its connection was   *)
(* and with the same subscription, has reached it when the pipeline is     *)
(* empty, once per matching filter.                                        *)
THEOREM BroadcastComplete == Spec => []NothingLost
<1>1. Init => LInv BY InitLInv
<1>2. LInv /\ [Next]_vars => LInv'
  <2> SUFFICES ASSUME LInv, [Next]_vars PROVE LInv' OBVIOUS
  <2>1. RInv' BY StepRInv DEF LInv
  <2> QED BY <2>1, DueStep, UnderwayStep DEF LInv
<1>3. LInv => NothingLost BY QuietLost
<1> QED BY <1>1, <1>2, <1>3, PTL DEF Spec
=============================================================================

---------------------------- MODULE SupplyProofs ----------------------------
(***************************************************************************)
(* Proofs about Supply, for any handlers, events, requests and limits:     *)
(* what a subscription is sent, from the query and from the broadcast.     *)
(*                                                                         *)
(* The store does in Supply what it does alone, so what EventStoreProofs   *)
(* shows of StoreSpec holds here as well.  The lemmas about the queries    *)
(* say of LastN what its readers need: that it is sorted, and that nothing *)
(* newer than one of its documents is missing.                             *)
(***************************************************************************)
EXTENDS Supply, EventStoreProofs, FiniteSetTheorems

USE RequestAssumption, LimitAssumption, FilterAssumption, StoreAssumption DEF Event

-----------------------------------------------------------------------------
(* The store.                                                              *)

LEMMA StoreSteps == [Next]_vars => [StoreNext]_storeVars
BY DEF Next, vars, Subscribe, Supply, Deliver

(* The subscriber and the broadcaster only read what the store does: every *)
(* behaviour of the composition is one of EventStore.                      *)
THEOREM SupplyUsesStore == Spec => StoreSpec
BY StoreSteps, PTL DEF Spec, Init, StoreSpec

(* What was acknowledged stays in the database, a subscriber beside it.    *)
THEOREM SuppliedAckedStays == Spec => []AckedStays
BY SupplyUsesStore, AckedForGood, PTL

(* A contact list that was acknowledged is only ever replaced.             *)
THEOREM SuppliedListsSurvive == Spec => []ListSurvives
BY SupplyUsesStore, ListsSurvive, PTL

(* Whoever subscribes and queries, the database is an archive that events  *)
(* enter at once.                                                          *)
THEOREM SupplyImplementsArchive == Spec => Archived
BY SupplyUsesStore, StoreImplementsArchive, PTL

(* A step of the store adds one document at most, and appends one event at *)
(* most to NewEvent.                                                       *)
LEMMA DocsGrow == [StoreNext]_storeVars => \E x : docs' \subseteq docs \cup {x}
<1> SUFFICES ASSUME [StoreNext]_storeVars PROVE \E x : docs' \subseteq docs \cup {x}
    OBVIOUS
<1> USE DEF store, cleaning
<1>1. CASE UNCHANGED storeVars BY <1>1 DEF storeVars
<1>2. ASSUME NEW h \in Handlers, Handle(h) PROVE \E x : docs' \subseteq docs \cup {x}
  <2>1. CASE (\E ev \in Incoming : Submit(h, ev)) \/ FindList(h) \/ SkipAuth(h)
             \/ CreateExists(h) \/ Acknowledge(h) \/ RequestFails(h)
        BY <2>1 DEF Submit, FindList, SkipAuth, CreateExists, Acknowledge, RequestFails
  <2>2. CASE DeleteList(h) BY <2>2 DEF DeleteList
  <2>3. CASE Create(h) \/ SetTags(h) BY <2>3 DEF Create, SetTags
  <2> QED BY <1>2, <2>1, <2>2, <2>3 DEF Handle, Storing
<1>3. CASE Clean BY <1>3 DEF Clean, CleanQuery, CleanDelete
<1> QED BY <1>1, <1>2, <1>3 DEF StoreNext

LEMMA PubGrows ==
    [StoreNext]_storeVars =>
        \/ UNCHANGED <<pub, acked>>
        \/ \E ev \in acked' : /\ acked' = acked \cup {ev}
                              /\ \/ pub' = pub /\ ev.kind = ContactList
                                 \/ pub' = Append(pub, ev)
<1> SUFFICES ASSUME [StoreNext]_storeVars, ~UNCHANGED <<pub, acked>>
             PROVE  \E ev \in acked' :
                        /\ acked' = acked \cup {ev}
                        /\ \/ pub' = pub /\ ev.kind = ContactList
                           \/ pub' = Append(pub, ev)
    OBVIOUS
<1>1. \E h \in Handlers : Acknowledge(h)
  <2>1. ~UNCHANGED storeVars BY DEF storeVars
  <2>2. ~Clean BY DEF Clean, CleanQuery, CleanDelete
  <2>3. PICK h \in Handlers : Handle(h) BY <2>1, <2>2 DEF StoreNext
  <2> QED BY <2>3 DEF Handle, Storing, Submit, FindList, DeleteList, SkipAuth, Create,
             CreateExists, SetTags, RequestFails
<1> QED BY <1>1 DEF Acknowledge

-----------------------------------------------------------------------------
(* The queries.                                                            *)

(* The cardinality of the library's sequences is the usual one.            *)
LEMMA SameCardinality == \A S : SE!Cardinality(S) = Cardinality(S)
BY DEF SE!Cardinality, Cardinality, SE!IsFiniteSet, IsFiniteSet

LEMMA ChoicesAre ==
    ASSUME NEW D, IsFiniteSet(D), NEW n, NEW s \in Choices(D, n)
    PROVE  /\ s \in Seq(D) /\ Len(s) <= n
           /\ \A i, j \in 1..Len(s) : i # j => s[i] # s[j]
<1>1. PICK T \in SUBSET D : s \in SE!SetToSeqs(T)
      BY DEF Choices, SE!SetToAllKPermutations
<1>2. Cardinality(T) \in Nat BY FS_Subset, FS_CardinalityType
<1>3. /\ s \in [1..Cardinality(T) -> T]
      /\ \A i, j \in 1..Cardinality(T) : i # j => s[i] # s[j]
      BY <1>1, SameCardinality DEF SE!SetToSeqs
<1>4. s \in Seq(D) /\ Len(s) = Cardinality(T) BY <1>2, <1>3
<1> QED BY <1>3, <1>4 DEF Choices

(* OrderBy("CreatedAt", Desc): newest first, and nothing newer is missing. *)
LEMMA LastNIs ==
    ASSUME NEW D \in SUBSET Event, IsFiniteSet(D), NEW n, NEW s \in LastN(D, n)
    PROVE  /\ s \in Seq(D) /\ Len(s) <= n
           /\ \A i \in 1..Len(s) : \A j \in 1..(i - 1) :
                  s[j] # s[i] /\ s[j].at >= s[i].at
           /\ \A d \in D, i \in 1..Len(s) : s[i].at < d.at =>
                  \E k \in 1..Len(s) : s[k] = d
<1>1. s \in Choices(D, n) BY DEF LastN
<1>2. /\ s \in Seq(D) /\ Len(s) <= n
      /\ \A i, j \in 1..Len(s) : i # j => s[i] # s[j]
      BY <1>1, ChoicesAre
<1>3. ASSUME NEW i \in 1..Len(s), NEW d \in D, d \notin {s[k] : k \in 1..i}
      PROVE  d.at <= s[i].at
      BY <1>3 DEF LastN
<1>4. ASSUME NEW i \in 1..Len(s), NEW j \in 1..(i - 1)
      PROVE  s[j] # s[i] /\ s[j].at >= s[i].at
  <2>1. j \in 1..Len(s) /\ Len(s) \in Nat BY <1>2
  <2>2. s[i] \in D /\ s[j] \in D BY <1>2, <2>1
  <2>3. s[i] \notin {s[k] : k \in 1..j}
        BY <1>2, <2>1
  <2>4. s[i].at <= s[j].at BY <1>3, <2>1, <2>2, <2>3
  <2>5. s[i].at \in Nat /\ s[j].at \in Nat BY <2>2
  <2> QED BY <2>1, <2>4, <2>5, <1>2
<1>5. ASSUME NEW d \in D, NEW i \in 1..Len(s), s[i].at < d.at
      PROVE  \E k \in 1..Len(s) : s[k] = d
  <2>1. s[i] \in D /\ Len(s) \in Nat BY <1>2
  <2>2. s[i].at \in Nat /\ d.at \in Nat BY <2>1
  <2>3. ~(d.at <= s[i].at) BY <1>5, <2>2
  <2>4. d \in {s[k] : k \in 1..i} BY <1>3, <2>3
  <2> QED BY <2>1, <2>4
<1> QED BY <1>2, <1>4, <1>5

LEMMA SubSeqs == ASSUME NEW S, NEW T, S \subseteq T PROVE Seq(S) \subseteq Seq(T)
OBVIOUS

LEMMA Numbers == /\ \A ev \in Event : ev.at \in Nat
                 /\ \A f \in Filter : f.since \in Nat /\ f.until \in Nat
BY DEF Filter

LEMMA BatchType == ASSUME NEW S, NEW s \in Seq(S) PROVE Batch(s) \in Seq(S)
BY DEF Batch

LEMMA MaxEvents == \A f \in Filter : max_events(f) \in Nat
BY DEF max_events, Filter

(* A query returns nothing, or some of the documents it selects: D is what *)
(* it asks for, and n how many.                                            *)
LEMMA FoundIs ==
    ASSUME NEW S, NEW o \in Found(S) PROVE o.res \in S /\ o.ok = (o.res # <<>>)
BY DEF Found

Selected(f, K, D) == {d \in D : d.kind \in K /\ Between(f, d)}

LEMMA FetchCases ==
    ASSUME NEW D, NEW f \in Filter, NEW t \in BOOLEAN, NEW o \in fetchData(f, t, D)
    PROVE  \/ o.res = <<>>
           \/ \E K \in Cut(f.kinds, MaxKinds) :
                  o.res \in LastN(Selected(f, K, D), max_events(f))
           \/ o.res \in LastN({d \in D : Between(f, d)}, max_events(f))
           \/ o.res \in LastN(D, max_events(f))
           \/ \E E \in SUBSET D : o.res \in Choices(E, max_events(f))
<1>1. CASE o \in Error \cup NoQuery BY <1>1 DEF Error, NoQuery
<1>2. CASE o \in Found(LastN(D, max_events(f))) BY <1>2, FoundIs
<1>3. CASE o \in GetEvents(f, D) BY <1>3, FoundIs DEF GetEvents
<1>4. CASE o \in GetEventsByKinds(f, D)
  <2>1. PICK K \in Cut(f.kinds, MaxKinds) :
            o \in Found(LastN(Selected(f, K, D), max_events(f)))
        BY <1>4 DEF GetEventsByKinds, Selected
  <2> QED BY <2>1, FoundIs
<1>5. CASE o \in GetEventsBtAuthorsAndKinds(f, D)
  <2> DEFINE By(P, K) == {d \in D : d.pubkey \in P /\ d.kind \in K /\ Between(f, d)}
             Read(P, K) == Found(Choices(By(P, K), max_events(f)))
             As == Cut(f.authors \cap Short, AuthorsCut)
             Ks == Cut(f.kinds, KindsCut)
  <2>1. o \in UNION {UNION {Read(P, K) : K \in Ks} : P \in As}
        BY <1>5 DEF GetEventsBtAuthorsAndKinds
  <2> HIDE DEF Read, As, Ks
  <2>2. PICK P \in As, K \in Ks : o \in Read(P, K) BY <2>1
  <2>3. o.res \in Choices(By(P, K), max_events(f)) BY <2>2, FoundIs DEF Read
  <2>4. By(P, K) \in SUBSET D OBVIOUS
  <2> QED BY <2>3, <2>4
<1> QED BY <1>1, <1>2, <1>3, <1>4, <1>5 DEF fetchData

(* What any query returns: documents, no more than asked for.              *)
LEMMA FetchType ==
    ASSUME NEW D \in SUBSET Event, IsFiniteSet(D), NEW f \in Filter, NEW t \in BOOLEAN,
           NEW o \in fetchData(f, t, D)
    PROVE  o.res \in Seq(Event) /\ Len(o.res) <= max_events(f)
<1>0. max_events(f) \in Nat BY MaxEvents
<1>1. ASSUME NEW E \in SUBSET D, o.res \in Choices(E, max_events(f))
      PROVE  o.res \in Seq(Event) /\ Len(o.res) <= max_events(f)
  <2>1. IsFiniteSet(E) BY FS_Subset
  <2>2. o.res \in Seq(E) /\ Len(o.res) <= max_events(f) BY <1>1, <2>1, ChoicesAre
  <2>3. Seq(E) \subseteq Seq(Event) BY SubSeqs
  <2> QED BY <2>2, <2>3
<1>2. ASSUME NEW E \in SUBSET D, o.res \in LastN(E, max_events(f))
      PROVE  o.res \in Choices(E, max_events(f))
      BY <1>2 DEF LastN
<1>3. Selected(f, f.kinds, D) \in SUBSET D /\ {d \in D : Between(f, d)} \in SUBSET D
      /\ \A K : Selected(f, K, D) \in SUBSET D
      BY DEF Selected
<1>4. CASE o.res = <<>> BY <1>0, <1>4
<1>5. CASE \E E \in SUBSET D : o.res \in Choices(E, max_events(f)) BY <1>1, <1>5
<1>6. CASE \E K \in Cut(f.kinds, MaxKinds) :
              o.res \in LastN(Selected(f, K, D), max_events(f))
  <2>1. PICK K \in Cut(f.kinds, MaxKinds) : o.res \in LastN(Selected(f, K, D), max_events(f))
        BY <1>6
  <2> QED BY <1>1, <1>2, <1>3, <2>1
<1>7. CASE o.res \in LastN({d \in D : Between(f, d)}, max_events(f))
      BY <1>1, <1>2, <1>3, <1>7
<1>8. CASE o.res \in LastN(D, max_events(f)) BY <1>1, <1>2, <1>8
<1> QED BY <1>4, <1>5, <1>6, <1>7, <1>8, FetchCases

-----------------------------------------------------------------------------
(* The filters that the query heeds, or that it and the matching follow.   *)

LEMMA NoTags ==
    ASSUME Asked \in Followed \cup Queried
    PROVE  TagsOf(flt) = {} /\ MayHaveTags(flt) = {FALSE}
<1>1. flt.given \subseteq {"authors", "kinds", "since", "until", "limit"}
      BY DEF Asked, Followed, Queried
<1> QED BY <1>1 DEF TagsOf, TagKeys, MayHaveTags

(* Which query they lead to.                                               *)
LEMMA FollowedCase ==
    ASSUME Asked \in Followed
    PROVE  /\ "kinds" \in flt.given => QueryCase(flt, FALSE) = "kinds"
           /\ "kinds" \notin flt.given /\ "limit" \in flt.given =>
                  QueryCase(flt, FALSE) = "limit"
           /\ "kinds" \notin flt.given /\ "limit" \notin flt.given =>
                  QueryCase(flt, FALSE) = IF Since(flt) > 0 THEN "window" ELSE "none"
<1> DEFINE lists == (flt.given \cap Lists) \cup {}
<1>1. CASE "kinds" \in flt.given
  <2>1. lists = {"kinds"} BY <1>1 DEF Asked, Followed, Lists
  <2>2. (CHOOSE x \in {"kinds"} : TRUE) = "kinds" OBVIOUS
  <2> QED BY <1>1, <2>1, <2>2 DEF QueryCase
<1>2. CASE "kinds" \notin flt.given
  <2>1. lists = {} BY <1>2 DEF Asked, Followed, Lists
  <2> QED BY <1>2, <2>1 DEF QueryCase
<1> QED BY <1>1, <1>2

LEMMA CutIs ==
    ASSUME NEW S, IsFiniteSet(S), NEW n \in Nat, NEW T \in Cut(S, n)
    PROVE  T \subseteq S /\ (Cardinality(S) <= n => T = S)
<1>1. T \subseteq S BY DEF Cut
<1>2. ASSUME Cardinality(S) <= n PROVE T = S
  <2>1. Cardinality(T) = Cardinality(S) BY <1>2 DEF Cut
  <2> QED BY <1>1, <2>1, FS_Subset
<1> QED BY <1>1, <1>2

(* They return the last of the documents they select, among which are all *)
(* those that satisfy the filter.                                          *)
LEMMA FollowedQuery ==
    ASSUME NEW D \in SUBSET Event, flt \in Requests, Asked \in Followed,
           NEW o \in fetchData(flt, FALSE, D), Cardinality(flt.kinds) <= MaxKinds
    PROVE  \E E \in SUBSET D :
              /\ o.res = <<>> \/ o.res \in LastN(E, max_events(flt))
              /\ \A d \in D : Matches(flt, d) /\ Inside(flt, d) => d \in E
<1> flt \in Filter /\ flt.since \in Nat /\ flt.until \in Nat BY DEF Filter
<1>1. CASE "kinds" \in flt.given
  <2>1. o \in GetEventsByKinds(flt, D) BY <1>1, FollowedCase DEF fetchData
  <2>2. PICK K \in Cut(flt.kinds, MaxKinds) :
            o \in Found(LastN(Selected(flt, K, D), max_events(flt)))
        BY <2>1 DEF GetEventsByKinds, Selected
  <2>3. K = flt.kinds BY CutIs DEF MaxKinds
  <2>4. ASSUME NEW d \in D, Matches(flt, d), Inside(flt, d)
        PROVE  d \in Selected(flt, K, D)
        BY <1>1, <2>3, <2>4 DEF Matches, Holds, Inside, Between, Since, Until, Selected
  <2>5. o.res \in LastN(Selected(flt, K, D), max_events(flt)) BY <2>2, FoundIs
  <2>6. Selected(flt, K, D) \in SUBSET D BY DEF Selected
  <2> QED BY <2>4, <2>5, <2>6
<1>2. CASE "kinds" \notin flt.given /\ "limit" \in flt.given
  <2>1. o \in Found(LastN(D, max_events(flt))) BY <1>2, FollowedCase DEF fetchData
  <2>2. o.res \in LastN(D, max_events(flt)) BY <2>1, FoundIs
  <2> QED BY <2>2
<1>3. CASE "kinds" \notin flt.given /\ "limit" \notin flt.given /\ Since(flt) > 0
  <2> DEFINE E == {d \in D : Between(flt, d)}
  <2>1. o \in GetEvents(flt, D) BY <1>3, FollowedCase DEF fetchData
  <2>2. o.res \in LastN(E, max_events(flt)) BY <2>1, FoundIs DEF GetEvents
  <2>3. ASSUME NEW d \in D, Inside(flt, d) PROVE Between(flt, d)
        BY <2>3 DEF Inside, Between, Since, Until
  <2> QED BY <2>2, <2>3
<1>4. CASE "kinds" \notin flt.given /\ "limit" \notin flt.given /\ ~(Since(flt) > 0)
  <2>1. o \in NoQuery BY <1>4, FollowedCase DEF fetchData
  <2>2. o.res = <<>> BY <2>1 DEF NoQuery
  <2> QED BY <2>2
<1> QED BY <1>1, <1>2, <1>3, <1>4

(* What a heeded filter gets satisfies it.                                 *)
LEMMA HeededCase ==
    ASSUME Heeded
    PROVE  \/ QueryCase(flt, FALSE) = "kinds" /\ Asked \cap Lists = {"kinds"}
           \/ /\ QueryCase(flt, FALSE) = "window"
              /\ Asked \cap Lists = {} /\ "limit" \notin flt.given
           \/ /\ QueryCase(flt, FALSE) = "authors and kinds"
              /\ Asked \cap Lists = {"authors", "kinds"}
<1> DEFINE lists == (flt.given \cap Lists) \cup {}
<1> Asked \in Queried BY DEF Heeded
<1>0. lists = Asked \cap Lists BY DEF Asked, Lists
<1>1. CASE Asked \in {{"kinds"}, {"kinds", "since"}, {"kinds", "until"},
                      {"kinds", "since", "until"}}
  <2>1. lists = {"kinds"} BY <1>0, <1>1 DEF Lists
  <2>2. (CHOOSE x \in {"kinds"} : TRUE) = "kinds" OBVIOUS
  <2> QED BY <1>0, <2>1, <2>2 DEF QueryCase
<1>2. CASE Asked \in {{"since"}, {"since", "until"}}
  <2>1. lists = {} /\ "since" \in flt.given BY <1>0, <1>2 DEF Lists, Asked
  <2>2. Since(flt) > 0 /\ "limit" \notin flt.given
        BY <2>1 DEF Since, Heeded, Positive, Lists
  <2>3. lists \notin {{"authors"}, {"ids"}, {"kinds"}, {"tags"}} BY <2>1
  <2> QED BY <1>0, <2>1, <2>2, <2>3 DEF QueryCase
<1>3. CASE Asked \in {{"authors", "kinds"}, {"authors", "kinds", "until"}}
  <2>1. lists = {"authors", "kinds"} /\ "since" \notin flt.given
        BY <1>0, <1>3 DEF Lists, Asked
  <2>2. ~(Since(flt) > 0) BY <2>1 DEF Since
  <2>3. lists \notin {{"authors"}, {"ids"}, {"kinds"}, {"tags"}} /\ lists # {} BY <2>1
  <2> QED BY <1>0, <2>1, <2>2, <2>3 DEF QueryCase
<1> QED BY <1>1, <1>2, <1>3 DEF Queried

(* Where both bounds are positive, what is between them is in the window.  *)
LEMMA BetweenMatches ==
    ASSUME flt \in Filter, Heeded, NEW d \in Event, Between(flt, d),
           "kinds" \in Asked => d.kind \in flt.kinds,
           "authors" \in Asked => d.pubkey \in flt.authors
    PROVE  Matches(flt, d)
<1>1. d.at \in Nat /\ flt.since \in Nat /\ flt.until \in Nat BY Numbers
<1>2. "since" \in Asked => flt.since < d.at
      BY <1>1 DEF Heeded, Positive, Between, Since, Asked
<1>3. "until" \in Asked => d.at < flt.until
      BY <1>1 DEF Heeded, Positive, Between, Until, Asked
<1>4. Asked \subseteq {"authors", "kinds", "since", "until"} BY DEF Heeded, Queried
<1> QED BY <1>1, <1>2, <1>3, <1>4 DEF Matches, Holds, Asked

Orderly(s) ==
    \A i \in 1..Len(s) : \A j \in 1..(i - 1) :
        s[j] # s[i] /\ ("authors" \notin flt.given => s[j].at >= s[i].at)

LEMMA HeededQuery ==
    ASSUME NEW D \in SUBSET Event, IsFiniteSet(D), flt \in Requests, Heeded,
           NEW o \in fetchData(flt, FALSE, D), o.res # <<>>
    PROVE  Orderly(o.res) /\ \A i \in 1..Len(o.res) : Matches(flt, o.res[i])
<1> DEFINE n == max_events(flt)
<1> flt \in Filter OBVIOUS
<1>1. ASSUME NEW E \in SUBSET D, o.res \in LastN(E, n), \A d \in E : Matches(flt, d)
      PROVE  Orderly(o.res) /\ \A i \in 1..Len(o.res) : Matches(flt, o.res[i])
  <2>1. IsFiniteSet(E) /\ E \in SUBSET Event BY FS_Subset
  <2> HIDE DEF n
  <2>2. /\ o.res \in Seq(E)
        /\ \A i \in 1..Len(o.res) : \A j \in 1..(i - 1) :
               o.res[j] # o.res[i] /\ o.res[j].at >= o.res[i].at
        BY <1>1, <2>1, LastNIs
  <2> QED BY <1>1, <2>2 DEF Orderly
<1>2. CASE QueryCase(flt, FALSE) = "kinds" /\ Asked \cap Lists = {"kinds"}
  <2>1. PICK K \in Cut(flt.kinds, MaxKinds) : o \in Found(LastN(Selected(flt, K, D), n))
        BY <1>2 DEF fetchData, GetEventsByKinds, Selected
  <2>2. K \subseteq flt.kinds BY CutIs DEF MaxKinds
  <2>3. o.res \in LastN(Selected(flt, K, D), n) BY <2>1, FoundIs
  <2>4. \A d \in Selected(flt, K, D) : Matches(flt, d)
        BY <1>2, <2>2, BetweenMatches DEF Selected, Lists
  <2>5. Selected(flt, K, D) \in SUBSET D BY DEF Selected
  <2> HIDE DEF n
  <2> QED BY <1>1, <2>3, <2>4, <2>5
<1>3. CASE QueryCase(flt, FALSE) = "window" /\ Asked \cap Lists = {}
  <2> DEFINE E == {d \in D : Between(flt, d)}
  <2>1. o \in GetEvents(flt, D) BY <1>3 DEF fetchData
  <2>2. o.res \in LastN(E, n) BY <2>1, FoundIs DEF GetEvents
  <2>3. \A d \in E : Matches(flt, d) BY <1>3, BetweenMatches DEF Lists
  <2>4. E \in SUBSET D OBVIOUS
  <2> HIDE DEF n, E
  <2> QED BY <1>1, <2>2, <2>3, <2>4
<1>4. CASE /\ QueryCase(flt, FALSE) = "authors and kinds"
           /\ Asked \cap Lists = {"authors", "kinds"}
  <2> DEFINE By(P, K) == {d \in D : d.pubkey \in P /\ d.kind \in K /\ Between(flt, d)}
             Read(P, K) == Found(Choices(By(P, K), n))
             As == Cut(flt.authors \cap Short, AuthorsCut)
             Ks == Cut(flt.kinds, KindsCut)
  <2>1. o \in UNION {UNION {Read(P, K) : K \in Ks} : P \in As}
        BY <1>4 DEF fetchData, GetEventsBtAuthorsAndKinds
  <2> HIDE DEF Read, As, Ks, n
  <2>2. PICK P \in As, K \in Ks : o \in Read(P, K) BY <2>1
  <2>3. o.res \in Choices(By(P, K), n) BY <2>2, FoundIs DEF Read
  <2>4. P \subseteq flt.authors /\ K \subseteq flt.kinds BY DEF As, Ks, Cut
  <2>5. \A d \in By(P, K) : Matches(flt, d) BY <1>4, <2>4, BetweenMatches DEF Lists
  <2>6. IsFiniteSet(By(P, K)) BY FS_Subset
  <2> HIDE DEF By
  <2>7. /\ o.res \in Seq(By(P, K))
        /\ \A i, j \in 1..Len(o.res) : i # j => o.res[i] # o.res[j]
        BY <2>3, <2>6, ChoicesAre
  <2>8. "authors" \in flt.given BY <1>4 DEF Asked
  <2>9. Orderly(o.res)
    <3> SUFFICES ASSUME NEW i \in 1..Len(o.res), NEW j \in 1..(i - 1)
                 PROVE  o.res[j] # o.res[i]
        BY <2>8 DEF Orderly
    <3>1. Len(o.res) \in Nat BY <2>7
    <3>2. j \in 1..Len(o.res) /\ j # i BY <3>1
    <3> QED BY <2>7, <3>2
  <2> QED BY <2>5, <2>7, <2>9
<1> QED BY <1>2, <1>3, <1>4, HeededCase

-----------------------------------------------------------------------------
(* Types.                                                                  *)

HIDE DEF Event

SupplyInv == /\ StoreInv /\ IsFiniteSet(docs) /\ flt \in Requests /\ TypeOK
             /\ Len(result) <= max_events(flt)

(* A step of the store leaves the subscriber alone.                        *)
LEMMA StoreKeepsTypes ==
    ASSUME SupplyInv, [StoreNext]_storeVars, UNCHANGED <<subscriber, delivery>>
    PROVE  SupplyInv'
<1> USE DEF SupplyInv
<1>1. StoreInv' BY StoreStep
<1>2. IsFiniteSet(docs')
  <2>1. PICK x : docs' \subseteq docs \cup {x} BY DocsGrow
  <2> QED BY <2>1, FS_AddElement, FS_Subset
<1>3. nb' \in 0..Len(pub')
  <2>1. pub \in Seq(Event) /\ nb' = nb /\ nb \in 0..Len(pub)
        BY DEF StoreInv, StoreTypeOK, TypeOK, delivery
  <2>2. CASE pub' = pub BY <2>1, <2>2
  <2>3. CASE \E ev : pub' = Append(pub, ev)
    <3>1. Len(pub') = Len(pub) + 1 BY <2>1, <2>3
    <3> QED BY <2>1, <3>1
  <2> QED BY <2>2, <2>3, PubGrows
<1>4. TypeOK' BY <1>1, <1>3 DEF StoreInv, TypeOK, subscriber, delivery
<1> QED BY <1>1, <1>2, <1>4 DEF subscriber, max_events

LEMMA SubscribeKeepsTypes ==
    ASSUME SupplyInv, Subscribe PROVE SupplyInv'
<1>1. StoreInv' BY StoreStep DEF SupplyInv, Subscribe
<1>2. TypeOK' BY <1>1 DEF SupplyInv, TypeOK, Subscribe, storeVars, store, delivery, StoreInv
<1> QED BY <1>1, <1>2 DEF SupplyInv, Subscribe, storeVars, store, max_events

(* What the query is, and what is sent of it.                              *)
LEMMA SupplyKeepsTypes ==
    ASSUME SupplyInv, Supply PROVE SupplyInv'
<1> USE DEF SupplyInv
<1>1. StoreInv' /\ docs' = docs /\ flt' = flt /\ Len(pub') = Len(pub)
      BY StoreStep DEF Supply, storeVars, store
<1>2. PICK t \in MayHaveTags(flt) : \E o \in fetchData(flt, t, docs) :
        /\ spc' = IF o.ok THEN "supplied" ELSE "failed"
        /\ result' = o.res /\ sent' = Batch(o.res)
      BY DEF Supply
<1>2a. PICK o \in fetchData(flt, t, docs) :
        /\ spc' = IF o.ok THEN "supplied" ELSE "failed"
        /\ result' = o.res /\ sent' = Batch(o.res)
      BY <1>2
<1>3. t \in BOOLEAN BY DEF MayHaveTags
<1>4. docs \subseteq Event /\ flt \in Filter BY DEF StoreInv, StoreTypeOK
<1>5. o.res \in Seq(Event) /\ Len(o.res) <= max_events(flt) BY <1>3, <1>4, FetchType
<1>6. sent' \in Seq(Event) BY <1>2a, <1>5, BatchType
<1>7. TypeOK' BY <1>1, <1>2a, <1>5, <1>6 DEF TypeOK, Supply, delivery, StoreInv
<1> QED BY <1>1, <1>2a, <1>5, <1>7 DEF max_events

LEMMA DeliverKeepsTypes ==
    ASSUME SupplyInv, Deliver PROVE SupplyInv'
<1> USE DEF SupplyInv
<1>1. StoreInv' /\ docs' = docs /\ pub' = pub /\ UNCHANGED subscriber
      BY StoreStep DEF Deliver, storeVars, store
<1>2. pub \in Seq(Event) /\ nb \in 0..Len(pub) /\ nb < Len(pub) /\ nb' = nb + 1
      BY DEF StoreInv, StoreTypeOK, TypeOK, Deliver
<1>3. nb' \in 0..Len(pub') /\ pub[nb + 1] \in Event BY <1>1, <1>2
<1>4. /\ offered' \subseteq offered \cup {pub[nb + 1]}
      /\ live' \subseteq offered'
      BY DEF Deliver, TypeOK
<1>5. TypeOK' BY <1>1, <1>3, <1>4 DEF TypeOK, StoreInv, subscriber
<1> QED BY <1>1, <1>5 DEF subscriber, max_events

LEMMA SupplyTypesInv == Init => SupplyInv
<1> SUFFICES ASSUME Init PROVE SupplyInv OBVIOUS
<1>1. StoreInv BY InitInv DEF Init
<1>2. flt \in Filter /\ max_events(flt) \in Nat BY MaxEvents DEF Init
<1>3. docs = {} /\ Len(pub) = 0 /\ Len(result) = 0 BY DEF Init, StoreInit
<1>4. TypeOK BY <1>1, <1>2, <1>3 DEF StoreInv, TypeOK, Init
<1> QED BY <1>1, <1>2, <1>3, <1>4, FS_EmptySet DEF SupplyInv, Init

LEMMA SupplyStep == SupplyInv /\ [Next]_vars => SupplyInv'
<1> SUFFICES ASSUME SupplyInv, [Next]_vars PROVE SupplyInv' OBVIOUS
<1>1. CASE UNCHANGED vars \/ (StoreNext /\ UNCHANGED <<subscriber, delivery>>)
      BY <1>1, StoreKeepsTypes DEF vars
<1> QED BY <1>1, SubscribeKeepsTypes, SupplyKeepsTypes, DeliverKeepsTypes DEF Next

LEMMA AlwaysSupplyInv == Spec => []SupplyInv
BY SupplyTypesInv, SupplyStep, PTL DEF Spec

(* The types of the composition: what is broadcast was published, what is  *)
(* sent was broadcast, and the batch consists of events.                   *)
THEOREM SupplyTypes == Spec => []TypeOK
<1>1. SupplyInv => TypeOK BY DEF SupplyInv
<1> QED BY <1>1, AlwaysSupplyInv, PTL

-----------------------------------------------------------------------------
(* What is sent live.                                                      *)

(* Without tags, the bits of the filter are its conditions.                *)
LEMMA BitsAre ==
    ASSUME flt \in Filter, TagsOf(flt) = {}, NEW st \in parseFilter(flt)
    PROVE  st = Asked
<1>1. st = flt.given \cap (Lists \cup Window)
      BY DEF parseFilter, MayHaveTags
<1>2. flt.given \subseteq Lists \cup Window \cup TagKeys \cup {"limit"}
      BY DEF Filter
<1>3. flt.given \cap TagKeys = {} BY DEF TagsOf
<1>4. "limit" \notin Lists \cup Window BY DEF Lists, Window
<1> QED BY <1>1, <1>2, <1>3, <1>4 DEF Asked

LEMMA FollowedMatches ==
    ASSUME Asked \in Followed, NEW ev, Matches(flt, ev), Inside(flt, ev)
    PROVE  filterMatchSingle(Asked, flt, ev)
<1>1. CASE Asked \in FallOut BY <1>1 DEF filterMatchSingle
<1>2. CASE Asked = {"kinds", "since"}
      BY <1>2 DEF Asked, Matches, Holds, Inside, filterMatchSingle
<1> QED BY <1>1, <1>2 DEF Followed, FallOut

(* Only Deliver touches what was offered and sent.                         *)
LEMMA OnlyDeliver ==
    [Next]_vars => Deliver \/ UNCHANGED <<nb, offered, live>>
BY DEF Next, vars, delivery, Subscribe, Supply

LEMMA FilterStays == [Next]_vars => flt' = flt
BY DEF Next, vars, subscriber, Subscribe, Supply, Deliver

(* Of the filters that NoGap is about, no matching event is withheld.      *)
LiveFollows ==
    Asked \in Followed =>
        \A ev \in offered : Matches(flt, ev) /\ Inside(flt, ev) => ev \in live

LEMMA FollowsStep == SupplyInv /\ LiveFollows /\ [Next]_vars => LiveFollows'
<1> SUFFICES ASSUME SupplyInv, LiveFollows, [Next]_vars,
                    (Asked \in Followed)', NEW ev \in offered',
                    Matches(flt, ev)', Inside(flt, ev)'
             PROVE  ev \in live'
    BY DEF LiveFollows
<1>1. flt' = flt BY FilterStays
<1>2. Asked \in Followed /\ TagsOf(flt) = {} BY <1>1, NoTags DEF Asked
<1>3. Matches(flt, ev) /\ Inside(flt, ev)
      BY <1>1 DEF Matches, Holds, Inside
<1>4. CASE ev \in offered
  <2>1. ev \in live BY <1>2, <1>3, <1>4 DEF LiveFollows
  <2>2. live \subseteq live' BY OnlyDeliver DEF Deliver
  <2> QED BY <2>1, <2>2
<1>5. CASE ev \notin offered
  <2>1. Deliver BY <1>5, OnlyDeliver
  <2>2. flt \in Filter BY DEF SupplyInv
  <2>3. PICK st \in parseFilter(flt) :
            /\ ev = pub[nb + 1] /\ Installed /\ ev.kind # AuthKind
            /\ filterMatchSingle(st, flt, ev) => ev \in live'
        BY <1>5, <2>1 DEF Deliver
  <2>4. st = Asked BY <1>2, <2>2, BitsAre
  <2> QED BY <1>2, <1>3, <2>3, <2>4, FollowedMatches
<1> QED BY <1>4, <1>5

LEMMA AlwaysFollows == Spec => []LiveFollows
<1>1. Init => LiveFollows BY DEF Init, LiveFollows
<1> QED BY <1>1, FollowsStep, AlwaysSupplyInv, PTL DEF Spec

-----------------------------------------------------------------------------
(* What the query supplies.                                                *)

(* Only Supply sets the result.                                            *)
LEMMA OnlySupply ==
    [Next]_vars => UNCHANGED <<spc, result>> \/ Supply \/ (Subscribe /\ spc' # "supplied")
BY DEF Next, vars, subscriber, Subscribe, Deliver

(* The query of a filter without tags, as the subscriber sees it.          *)
LEMMA SupplyIs ==
    ASSUME SupplyInv, Supply, Asked \in Followed \cup Queried
    PROVE  /\ IsFiniteSet(docs) /\ docs \in SUBSET Event /\ flt \in Requests
           /\ \E o \in fetchData(flt, FALSE, docs) : result' = o.res
<1>1. IsFiniteSet(docs) /\ docs \subseteq Event /\ flt \in Requests
      BY DEF SupplyInv, StoreInv, StoreTypeOK
<1>2. PICK o \in fetchData(flt, FALSE, docs) : result' = o.res
      BY NoTags DEF Supply
<1> QED BY <1>1, <1>2

(* A limit is at most the one asked for, if that is allowed.               *)
LEMMA Limits ==
    ASSUME flt \in Filter, NEW l \in Nat, l <= max_events(flt)
    PROVE  /\ l <= IF "limit" \notin flt.given THEN DefaultLimit ELSE MaxLimit
           /\ "limit" \in flt.given /\ flt.limit \in 1..MaxLimit => l <= flt.limit
<1>1. flt.limit \in Nat BY DEF Filter
<1> QED BY <1>1 DEF max_events

LEMMA SuppliedStep == SupplyInv /\ SuppliedMatch /\ [Next]_vars => SuppliedMatch'
<1> SUFFICES ASSUME SupplyInv, SuppliedMatch, [Next]_vars PROVE SuppliedMatch'
    OBVIOUS
<1>1. flt' = flt BY FilterStays
<1>2. CASE UNCHANGED result
      BY <1>1, <1>2 DEF SuppliedMatch, Heeded, Asked, Positive, Matches, Holds
<1>3. CASE Supply
  <2>1. SupplyInv' BY SupplyStep
  <2>2. /\ result' \in Seq(Event) /\ Len(result') <= max_events(flt) /\ flt \in Filter
        BY <1>1, <2>1 DEF SupplyInv, TypeOK, max_events
  <2>3. Len(result') \in Nat BY <2>2
  <2>4. (/\ Len(result) <= IF "limit" \notin flt.given THEN DefaultLimit ELSE MaxLimit
         /\ "limit" \in flt.given /\ flt.limit \in 1..MaxLimit =>
                Len(result) <= flt.limit)'
        BY <1>1, <2>2, <2>3, Limits
  <2>5. ASSUME Heeded
        PROVE  Orderly(result') /\ \A i \in 1..Len(result') : Matches(flt, result'[i])
    <3>1. Asked \in Queried BY <2>5 DEF Heeded
    <3>2. PICK o \in fetchData(flt, FALSE, docs) : result' = o.res
          BY <1>3, <3>1, SupplyIs
    <3>3. CASE o.res = <<>>
      <4>1. Len(result') = 0 BY <3>2, <3>3
      <4> QED BY <4>1 DEF Orderly
    <3>4. CASE o.res # <<>>
      <4>1. IsFiniteSet(docs) /\ docs \in SUBSET Event /\ flt \in Requests
            BY <1>3, <3>1, SupplyIs
      <4> QED BY <2>5, <3>2, <3>4, <4>1, HeededQuery
    <3> QED BY <3>3, <3>4
  <2>6. Heeded' => Heeded BY <1>1 DEF Heeded, Asked, Positive
  <2> QED BY <1>1, <2>4, <2>5, <2>6 DEF SuppliedMatch, Orderly, Matches, Holds
<1> QED BY <1>2, <1>3, OnlySupply DEF Subscribe

(* What the initial query returns is within the limit and, to a filter     *)
(* whose conditions it looks at, satisfies the filter, newest first, no    *)
(* document twice: for any documents, limit and order in which Firestore   *)
(* returns documents of the same second.                                   *)
THEOREM SuppliedEventsMatch == Spec => []SuppliedMatch
<1>1. Init => SuppliedMatch
  <2> SUFFICES ASSUME Init PROVE SuppliedMatch OBVIOUS
  <2>1. Len(result) = 0 BY DEF Init
  <2> QED BY <2>1 DEF SuppliedMatch
<1> QED BY <1>1, SuppliedStep, AlwaysSupplyInv, PTL DEF Spec

-----------------------------------------------------------------------------
(* No gap.  What was in NewEvent before the subscriber installed its       *)
(* filter was acknowledged, so the query finds it; what comes later is     *)
(* offered.                                                                *)

Announced == \A ev \in acked : ev.kind # ContactList => \E k \in 1..Len(pub) : pub[k] = ev
Promises  == \A k \in 1..Len(pub) : pub[k] \in acked
Covered(ev) ==
    /\ Kept(ev) /\ Matches(flt, ev) /\ Inside(flt, ev)
    /\ \E i \in 1..Len(result) : result[i].at < ev.at
    => \E i \in 1..Len(result) : result[i] = ev
Seen == spc = "supplied" /\ Asked \in Followed /\ Cardinality(flt.kinds) <= MaxKinds =>
            \A k \in 1..nb : pub[k] \in offered \/ Covered(pub[k])
GapInv == Announced /\ Promises /\ Seen

LEMMA CleanedStays == [Next]_vars => cleaned \subseteq cleaned'
<1> SUFFICES ASSUME [Next]_vars PROVE cleaned \subseteq cleaned' OBVIOUS
<1>1. [StoreNext]_storeVars BY StoreSteps
<1> QED BY <1>1 DEF StoreNext, storeVars, cleaning, Handle, Clean, CleanQuery, CleanDelete

LEMMA AnnouncedStep ==
    ASSUME SupplyInv, Announced, Promises, [Next]_vars
    PROVE  /\ Announced' /\ Promises' /\ Len(pub) <= Len(pub')
           /\ \A k \in 1..Len(pub) : pub'[k] = pub[k]
<1>1. pub \in Seq(Event) /\ Len(pub) \in Nat BY DEF SupplyInv, StoreInv, StoreTypeOK
<1>2. CASE UNCHANGED <<pub, acked>> BY <1>1, <1>2 DEF Announced, Promises
<1>3. ASSUME NEW ev \in acked', acked' = acked \cup {ev}, pub' = pub, ev.kind = ContactList
      PROVE  /\ Announced' /\ Promises' /\ Len(pub) <= Len(pub')
             /\ \A k \in 1..Len(pub) : pub'[k] = pub[k]
      BY <1>1, <1>3 DEF Announced, Promises
<1>4. ASSUME NEW ev \in acked', acked' = acked \cup {ev}, pub' = Append(pub, ev)
      PROVE  /\ Announced' /\ Promises' /\ Len(pub) <= Len(pub')
             /\ \A k \in 1..Len(pub) : pub'[k] = pub[k]
  <2>1. /\ Len(pub') = Len(pub) + 1 /\ pub'[Len(pub) + 1] = ev
        /\ \A k \in 1..Len(pub) : pub'[k] = pub[k]
        BY <1>1, <1>4
  <2>2. Announced' BY <1>1, <1>4, <2>1 DEF Announced
  <2>3. Promises' BY <1>1, <1>4, <2>1 DEF Promises
  <2> QED BY <1>1, <2>1, <2>2, <2>3
<1>5. [StoreNext]_storeVars BY StoreSteps
<1> QED BY <1>2, <1>3, <1>4, <1>5, PubGrows

(* The query finds what was acknowledged, if it gets that far.             *)
LEMMA QueryCovers ==
    ASSUME SupplyInv, Supply, Asked \in Followed, Cardinality(flt.kinds) <= MaxKinds,
           NEW ev \in acked
    PROVE  Covered(ev)'
<1>1. UNCHANGED <<flt, cleaned>> BY DEF Supply, storeVars, cleaning
<1> SUFFICES ASSUME Kept(ev), Matches(flt, ev), Inside(flt, ev),
                    NEW i \in 1..Len(result'), result'[i].at < ev.at
             PROVE  \E j \in 1..Len(result') : result'[j] = ev
    BY <1>1 DEF Covered, Kept, Matches, Holds, Inside
<1>2. ev \in docs BY DEF SupplyInv, StoreInv, AckedIsIn, Whole
<1>3. IsFiniteSet(docs) /\ docs \in SUBSET Event /\ flt \in Requests BY SupplyIs
<1>4. PICK o \in fetchData(flt, FALSE, docs) : result' = o.res BY SupplyIs
<1>5. result' # <<>> OBVIOUS
<1>6. PICK E \in SUBSET docs : result' \in LastN(E, max_events(flt)) /\ ev \in E
      BY <1>2, <1>3, <1>4, <1>5, FollowedQuery
<1>7. IsFiniteSet(E) /\ E \in SUBSET Event BY <1>3, FS_Subset
<1>8. PICK j \in 1..Len(result') : result'[j] = ev BY <1>6, <1>7, LastNIs
<1> QED BY <1>8

LEMMA SeenStep == SupplyInv /\ GapInv /\ [Next]_vars => Seen'
<1> SUFFICES ASSUME SupplyInv, GapInv, [Next]_vars, (spc = "supplied")',
                    (Asked \in Followed)', (Cardinality(flt.kinds) <= MaxKinds)',
                    NEW k \in 1..nb'
             PROVE  pub'[k] \in offered' \/ Covered(pub[k])'
    BY DEF Seen
<1> USE DEF GapInv
<1>1. flt' = flt /\ cleaned \subseteq cleaned' BY FilterStays, CleanedStays
<1>2. Asked \in Followed /\ Cardinality(flt.kinds) <= MaxKinds BY <1>1 DEF Asked, MaxKinds
<1>3. /\ nb \in 0..Len(pub) /\ Len(pub) \in Nat /\ offered \subseteq offered'
      /\ \A i \in 1..Len(pub) : pub'[i] = pub[i]
      BY AnnouncedStep, OnlyDeliver
         DEF SupplyInv, TypeOK, StoreInv, StoreTypeOK, Deliver
<1>4. CASE Supply
  <2>1. nb' = nb /\ k \in 1..Len(pub) BY <1>3, <1>4 DEF Supply, delivery
  <2>2. pub[k] \in acked BY <2>1 DEF Promises
  <2>3. \A ev : ev \in acked => Covered(ev)' BY <1>2, <1>4, QueryCovers
  <2>4. pub' = pub BY <1>4 DEF Supply, storeVars
  <2> QED BY <2>2, <2>3, <2>4
<1>5. CASE UNCHANGED <<spc, result>> /\ k <= nb
  <2>1. k \in 1..nb /\ k \in 1..Len(pub) BY <1>3, <1>5
  <2>2. pub[k] \in offered \/ Covered(pub[k]) BY <1>2, <1>5, <2>1 DEF Seen
  <2>3. pub'[k] = pub[k] BY <1>3, <2>1
  <2>4. CASE Covered(pub[k])
    <3>1. Kept(pub[k])' => Kept(pub[k]) BY <1>1, <2>3 DEF Kept
    <3> QED BY <1>1, <1>5, <2>3, <2>4, <3>1 DEF Covered, Matches, Holds, Inside
  <2> QED BY <1>3, <2>2, <2>3, <2>4
<1>6. CASE UNCHANGED <<spc, result>> /\ ~(k <= nb)
  <2>1. Deliver BY <1>3, <1>6, OnlyDeliver
  <2>2. k = nb + 1 /\ pub' = pub BY <1>3, <1>6, <2>1 DEF Deliver, storeVars
  <2>3. Installed BY <1>6 DEF Installed
  <2>4. CASE pub[k].kind = AuthKind
    <3>1. ~Kept(pub[k])' BY <2>2, <2>4 DEF Kept
    <3> QED BY <3>1 DEF Covered
  <2>5. CASE pub[k].kind # AuthKind
        BY <2>1, <2>2, <2>3, <2>5 DEF Deliver
  <2> QED BY <2>4, <2>5
<1> QED BY <1>4, <1>5, <1>6, OnlySupply

LEMMA GapStep == SupplyInv /\ GapInv /\ [Next]_vars => GapInv'
BY AnnouncedStep, SeenStep DEF GapInv

(* No event falls between the query and the broadcast, however storing     *)
(* and announcing events, the cleaning and the REQ interleave, for any     *)
(* handlers, events, limits and documents.                                 *)
THEOREM NothingFallsBetween == Spec => []NoGap
<1>1. Init => GapInv
  <2> SUFFICES ASSUME Init PROVE GapInv OBVIOUS
  <2>1. acked = {} /\ Len(pub) = 0 /\ spc = "none" BY DEF Init, StoreInit
  <2> QED BY <2>1 DEF GapInv, Announced, Promises, Seen
<1>2. SupplyInv /\ GapInv /\ LiveFollows => NoGap
  <2> SUFFICES ASSUME SupplyInv, GapInv, LiveFollows, spc = "supplied", nb = Len(pub),
                      Asked \in Followed, Cardinality(flt.kinds) <= MaxKinds,
                      NEW ev \in acked, Kept(ev), Matches(flt, ev), Inside(flt, ev),
                      \E i \in 1..Len(result) : result[i].at < ev.at
               PROVE  ev \in live \/ \E i \in 1..Len(result) : result[i] = ev
      BY DEF NoGap
  <2>1. ev \in Incoming /\ ev.kind # ContactList
        BY DEF SupplyInv, StoreInv, FromPeers, Kept
  <2>2. PICK k \in 1..nb : pub[k] = ev BY <2>1 DEF GapInv, Announced
  <2>3. ev \in offered \/ Covered(ev) BY <2>2 DEF GapInv, Seen
  <2> QED BY <2>3 DEF Covered, LiveFollows
<1> QED BY <1>1, <1>2, GapStep, AlwaysSupplyInv, AlwaysFollows, PTL DEF Spec
=============================================================================

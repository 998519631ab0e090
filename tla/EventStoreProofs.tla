-------------------------- MODULE EventStoreProofs --------------------------
(***************************************************************************)
(* Proofs about EventStore: what was acknowledged stays in the database,   *)
(* for any handlers, any events and any number of them.                    *)
(*                                                                         *)
(* The inductive invariant follows an event from Create to the             *)
(* acknowledgement, and says of what a handler is about to delete that it  *)
(* has the id of a contact list, and of what -clean is about to delete     *)
(* that it has that of an event of the cleaned author.  Ids are not taken  *)
(* to determine events: that documents have different ids, and that the    *)
(* one between Create and the tags is the handler's own, comes from Create *)
(* failing for an id that exists, and is part of the invariant.            *)
(***************************************************************************)
EXTENDS EventStore, TLAPS

USE FilterAssumption, StoreAssumption DEF Event

(* A document is an event, or one whose tags are not set.                  *)
Stems(d) == \E ev \in Incoming : d = ev \/ d = Bare(ev)

DocsStem   == \A d \in docs : Stems(d)
OneOfAnId  == \A d, x \in docs : d.id = x.id => d = x
FoundList  == \A h \in Handlers : hpc[h] = "delete" =>
                  Stems(found[h]) /\ found[h].kind = ContactList
(* Between Create and the tags, nobody else can store under the id.        *)
Underway   == \A h \in Handlers : hpc[h] = "tags" =>
                  /\ \A d \in docs : d.id = hev[h].id => d = Bare(hev[h])
                  /\ Kept(hev[h]) => Bare(hev[h]) \in docs
StoredIsIn == \A h \in Handlers : hpc[h] = "stored" /\ Kept(hev[h]) => hev[h] \in Whole
AckedIsIn  == \A ev \in acked : Kept(ev) => ev \in Whole
Doomed     == \A id \in doomed : \E ev \in Incoming : ev.id = id /\ ev.pubkey \in cleaned
FindsLists == \A h \in Handlers : hpc[h] = "find" => hev[h].kind = ContactList
FromPeers  == acked \subseteq Incoming /\ \A h \in Handlers : hev[h] \in Incoming

StoreInv == /\ StoreTypeOK /\ FromPeers /\ FindsLists /\ DocsStem /\ OneOfAnId
            /\ FoundList /\ Underway /\ StoredIsIn /\ AckedIsIn /\ Doomed

(* The event without its tags: a document of the same id, kind and author. *)
LEMMA BareEvent ==
    ASSUME NEW ev \in Incoming
    PROVE  /\ Bare(ev) \in Event /\ Bare(ev).id = ev.id /\ Bare(ev).kind = ev.kind
           /\ Bare(ev).pubkey = ev.pubkey
           /\ ~HasTags(ev) => Bare(ev) = ev
BY DEF Bare, HasTags

(* A document has the id, the kind and the author of an event.             *)
LEMMA StemOf ==
    ASSUME NEW d, Stems(d)
    PROVE  \E x \in Incoming : d.id = x.id /\ d.kind = x.kind /\ d.pubkey = x.pubkey
BY BareEvent DEF Stems

(* The invariant holds initially.                                          *)
LEMMA InitInv == StoreInit => StoreInv
<1> SUFFICES ASSUME StoreInit PROVE StoreInv OBVIOUS
<1> DEFINE some == CHOOSE ev \in Incoming : TRUE
<1>1. some \in Incoming OBVIOUS
<1>2. hev = [h \in Handlers |-> some] /\ found = hev BY DEF StoreInit
<1> HIDE DEF some
<1>3. StoreTypeOK BY <1>1, <1>2 DEF StoreInit, StoreTypeOK
<1>4. FromPeers BY <1>1, <1>2 DEF StoreInit, FromPeers
<1>5. FindsLists /\ DocsStem /\ OneOfAnId /\ FoundList /\ Underway /\ StoredIsIn
      /\ AckedIsIn /\ Doomed
      BY DEF StoreInit, FindsLists, DocsStem, OneOfAnId, FoundList, Underway, StoredIsIn,
         AckedIsIn, Doomed
<1> QED BY <1>3, <1>4, <1>5 DEF StoreInv

(* What is left to show of a step: that what must be kept stays whole, and *)
(* that what it stores or acknowledges is whole.                           *)
WholeStays == \A ev \in Incoming : Kept(ev) /\ ev \in Whole => ev \in Whole'

LEMMA InStays ==
    ASSUME StoreInv, WholeStays, \A ev : Kept(ev)' => Kept(ev),
           \A h \in Handlers : hpc'[h] = "stored" =>
               /\ hev'[h] = hev[h]
               /\ hpc[h] = "stored" \/ ~Kept(hev[h]) \/ hev[h] \in Whole',
           \A ev \in acked' : \/ ev \in acked
                              \/ \E h \in Handlers : hpc[h] = "stored" /\ ev = hev[h]
    PROVE  StoredIsIn' /\ AckedIsIn'
<1> USE DEF StoreInv, WholeStays
<1>1. StoredIsIn'
  <2> SUFFICES ASSUME NEW h \in Handlers, hpc'[h] = "stored", Kept(hev[h])'
               PROVE  (hev[h] \in Whole)'
      BY DEF StoredIsIn
  <2>1. PICK ev \in Incoming : ev = hev[h] /\ hev'[h] = ev BY DEF FromPeers
  <2>2. Kept(ev)' BY <2>1 DEF Kept
  <2>3. Kept(ev) BY <2>2
  <2>4. hpc[h] = "stored" => ev \in Whole BY <2>1, <2>3 DEF StoredIsIn
  <2> QED BY <2>1, <2>3, <2>4
<1>2. AckedIsIn'
  <2> SUFFICES ASSUME NEW ev \in acked', Kept(ev)' PROVE ev \in Whole'
      BY DEF AckedIsIn
  <2>1. Kept(ev) OBVIOUS
  <2>2. ev \in Incoming /\ ev \in Whole
        BY <2>1 DEF FromPeers, AckedIsIn, StoredIsIn
  <2> QED BY <2>1, <2>2
<1> QED BY <1>1, <1>2

LEMMA SameKept == ASSUME UNCHANGED cleaned PROVE \A ev : Kept(ev)' <=> Kept(ev)
BY DEF Kept

(* A step that leaves the documents alone, and creates none, changes       *)
(* nothing of what is said of them.                                        *)
LEMMA QuietStays ==
    ASSUME StoreInv, UNCHANGED <<docs, cleaned, doomed>>,
           \A h \in Handlers : hpc'[h] = "tags" => hpc[h] = "tags" /\ hev'[h] = hev[h]
    PROVE  DocsStem' /\ OneOfAnId' /\ Doomed' /\ Underway' /\ WholeStays
<1> USE DEF StoreInv
<1>1. DocsStem' /\ OneOfAnId' /\ Doomed'
      BY DEF DocsStem, OneOfAnId, Doomed, Stems, Bare
<1>2. Underway'
  <2> SUFFICES ASSUME NEW h \in Handlers, hpc'[h] = "tags"
               PROVE  (/\ \A d \in docs : d.id = hev[h].id => d = Bare(hev[h])
                       /\ Kept(hev[h]) => Bare(hev[h]) \in docs)'
      BY DEF Underway
  <2>1. /\ \A d \in docs : d.id = hev[h].id => d = Bare(hev[h])
        /\ Kept(hev[h]) => Bare(hev[h]) \in docs
        BY DEF Underway
  <2> QED BY <2>1 DEF Kept, Bare
<1>3. WholeStays BY DEF WholeStays, Whole
<1> QED BY <1>1, <1>2, <1>3

-----------------------------------------------------------------------------
(* Steps that leave the documents alone preserve the invariant.            *)

LEMMA SubmitKeeps ==
    ASSUME StoreInv, NEW h \in Handlers, NEW ev \in Incoming, Submit(h, ev), UNCHANGED cleaning
    PROVE  StoreInv'
<1> USE DEF StoreInv, cleaning
<1>1. /\ StoreTypeOK' /\ FromPeers' /\ FindsLists'
      BY DEF Submit, FromPeers, FindsLists, StoreTypeOK, store, To
<1>2. FoundList' BY DEF Submit, FoundList, To, StoreTypeOK, Stems, Bare
<1>3. UNCHANGED <<docs, cleaned, doomed, acked>> BY DEF Submit, store
<1>4. \A g \in Handlers : hpc'[g] \in {"tags", "stored"} => hpc'[g] = hpc[g] /\ hev'[g] = hev[g]
      BY DEF Submit, To, StoreTypeOK
<1>5. DocsStem' /\ OneOfAnId' /\ Doomed' /\ Underway' /\ WholeStays
      BY <1>3, <1>4, QuietStays
<1>6. StoredIsIn' /\ AckedIsIn' BY <1>3, <1>4, <1>5, SameKept, InStays
<1> QED BY <1>1, <1>2, <1>5, <1>6

LEMMA FindListKeeps ==
    ASSUME StoreInv, NEW h \in Handlers, FindList(h), UNCHANGED cleaning
    PROVE  StoreInv'
<1> USE DEF StoreInv, cleaning
<1>1. PICK f \in docs \cup {found[h]} :
        /\ found' = [found EXCEPT ![h] = f]
        /\ hpc'[h] = "delete" => f \in docs /\ f.kind = ContactList
        /\ hpc'[h] \in {"create", "delete", "stored"}
  <2>1. CASE hpc' = [hpc EXCEPT ![h] = "create"] /\ UNCHANGED found
        BY <2>1 DEF StoreTypeOK
  <2>2. CASE hpc' = [hpc EXCEPT ![h] = "stored"] /\ UNCHANGED found
        BY <2>2 DEF StoreTypeOK
  <2>3. CASE /\ hpc' = [hpc EXCEPT ![h] = "delete"]
             /\ \E d \in Latest(ListsOf(hev[h].pubkey)) : found' = [found EXCEPT ![h] = d]
        BY <2>3 DEF StoreTypeOK, Latest, ListsOf
  <2> QED BY <2>1, <2>2, <2>3 DEF FindList, To
<1>2. PICK pc \in {"create", "delete", "stored"} : hpc' = [hpc EXCEPT ![h] = pc]
      BY DEF FindList, To
<1>3. /\ hpc[h] = "find" /\ hev[h].kind \in Kinds
      /\ UNCHANGED <<docs, ghosts, mtx, hev, pub, acked, broken, submits>>
      BY DEF FindList, store, StoreTypeOK
<1>4. StoreTypeOK' BY <1>1, <1>2, <1>3 DEF StoreTypeOK
<1>5. FromPeers' BY <1>3 DEF FromPeers
<1>6. FindsLists' BY <1>2, <1>3 DEF FindsLists, StoreTypeOK
<1>7. FoundList'
      BY <1>1, <1>2, <1>3 DEF FoundList, DocsStem, StoreTypeOK, Stems, Bare
<1>8. \A g \in Handlers : hpc'[g] = "tags" => hpc[g] = "tags" BY <1>2 DEF StoreTypeOK
<1>9. DocsStem' /\ OneOfAnId' /\ Doomed' /\ Underway' /\ WholeStays
      BY <1>3, <1>8, QuietStays
<1>10. ~Kept(hev[h]) BY <1>3 DEF FindsLists, FromPeers, Kept
<1>11. \A g \in Handlers : hpc'[g] = "stored" => hpc[g] = "stored" \/ ~Kept(hev[g])
       BY <1>2, <1>10 DEF StoreTypeOK
<1>12. StoredIsIn' /\ AckedIsIn' BY <1>3, <1>9, <1>11, SameKept, InStays
<1> QED BY <1>4, <1>5, <1>6, <1>7, <1>9, <1>12

(* AUTH events need not be in the database.                                *)
LEMMA SkipAuthKeeps ==
    ASSUME StoreInv, NEW h \in Handlers, SkipAuth(h), UNCHANGED cleaning
    PROVE  StoreInv'
<1> USE DEF StoreInv, cleaning
<1>1. /\ StoreTypeOK' /\ FromPeers' /\ FindsLists'
      BY DEF SkipAuth, FromPeers, FindsLists, StoreTypeOK, store, To
<1>2. FoundList' BY DEF SkipAuth, FoundList, To, StoreTypeOK, Stems, Bare
<1>3. UNCHANGED <<docs, cleaned, doomed, acked, hev>> BY DEF SkipAuth, store
<1>4. hpc' = [hpc EXCEPT ![h] = "stored"] /\ ~Kept(hev[h]) BY DEF SkipAuth, To, Kept
<1>5. \A g \in Handlers : hpc'[g] = "tags" => hpc[g] = "tags" BY <1>4 DEF StoreTypeOK
<1>6. DocsStem' /\ OneOfAnId' /\ Doomed' /\ Underway' /\ WholeStays
      BY <1>3, <1>5, QuietStays
<1>7. \A g \in Handlers : hpc'[g] = "stored" => hpc[g] = "stored" \/ ~Kept(hev[g])
      BY <1>4 DEF StoreTypeOK
<1>8. StoredIsIn' /\ AckedIsIn' BY <1>3, <1>6, <1>7, SameKept, InStays
<1> QED BY <1>1, <1>2, <1>6, <1>8

(* A handler that gives up; what it had created stays without its tags.    *)
LEMMA GiveUpKeeps ==
    ASSUME StoreInv, NEW h \in Handlers, CreateExists(h) \/ RequestFails(h), UNCHANGED cleaning
    PROVE  StoreInv'
<1> USE DEF StoreInv, cleaning
<1>1. /\ StoreTypeOK' /\ FromPeers' /\ FindsLists'
      BY DEF CreateExists, RequestFails, FromPeers, FindsLists, StoreTypeOK, store, To
<1>2. /\ UNCHANGED <<docs, cleaned, doomed, acked, hev, found>>
      /\ hpc' = [hpc EXCEPT ![h] = "idle"]
      BY DEF CreateExists, RequestFails, store, To
<1>3. FoundList'
  <2>1. \A g \in Handlers : hpc'[g] = "delete" => hpc[g] = "delete"
        BY <1>2 DEF StoreTypeOK
  <2> QED BY <1>2, <2>1 DEF FoundList, Stems, Bare
<1>4. \A g \in Handlers : hpc'[g] \in {"tags", "stored"} => hpc'[g] = hpc[g]
      BY <1>2 DEF StoreTypeOK
<1>5. DocsStem' /\ OneOfAnId' /\ Doomed' /\ Underway' /\ WholeStays
      BY <1>2, <1>4, QuietStays
<1>6. StoredIsIn' /\ AckedIsIn' BY <1>2, <1>4, <1>5, SameKept, InStays
<1> QED BY <1>1, <1>3, <1>5, <1>6

(* Only an event that is stored is acknowledged.                           *)
LEMMA AcknowledgeKeeps ==
    ASSUME StoreInv, NEW h \in Handlers, Acknowledge(h), UNCHANGED cleaning
    PROVE  StoreInv'
<1> USE DEF StoreInv, cleaning
<1>1. StoreTypeOK'
  <2>1. hev[h] \in Event /\ pub \in Seq(Event) BY DEF StoreTypeOK
  <2>2. pub' \in Seq(Event)
    <3>1. CASE hev[h].kind = ContactList BY <2>1, <3>1 DEF Acknowledge
    <3>2. CASE hev[h].kind # ContactList
      <4>1. pub' = Append(pub, hev[h]) BY <3>2 DEF Acknowledge
      <4> HIDE DEF Event
      <4> QED BY <2>1, <4>1
    <3> QED BY <3>1, <3>2
  <2>3. acked' \subseteq Event BY <2>1 DEF Acknowledge, StoreTypeOK
  <2> QED BY <2>2, <2>3 DEF Acknowledge, StoreTypeOK, store, To
<1>2. FromPeers' /\ FindsLists'
      BY DEF Acknowledge, FromPeers, FindsLists, StoreTypeOK, To
<1>3. FoundList' BY DEF Acknowledge, FoundList, To, StoreTypeOK, Stems, Bare
<1>4. /\ UNCHANGED <<docs, cleaned, doomed, hev>> /\ hpc' = [hpc EXCEPT ![h] = "idle"]
      /\ hpc[h] = "stored" /\ acked' = acked \cup {hev[h]}
      BY DEF Acknowledge, store, To
<1>5. \A g \in Handlers : hpc'[g] \in {"tags", "stored"} => hpc'[g] = hpc[g]
      BY <1>4 DEF StoreTypeOK
<1>6. DocsStem' /\ OneOfAnId' /\ Doomed' /\ Underway' /\ WholeStays
      BY <1>4, <1>5, QuietStays
<1>7. StoredIsIn' /\ AckedIsIn' BY <1>4, <1>5, <1>6, SameKept, InStays
<1> QED BY <1>1, <1>2, <1>3, <1>6, <1>7

-----------------------------------------------------------------------------
(* Steps that change the documents.                                        *)

(* Deleting the document of an id, if no event that must be kept has it.   *)
LEMMA DeleteStays ==
    ASSUME StoreInv, NEW id, docs' = {d \in docs : d.id # id} \/ docs' = docs,
           UNCHANGED <<hev, cleaned>>, \A ev \in Incoming : Kept(ev) => ev.id # id,
           \A h \in Handlers : hpc'[h] = "tags" => hpc[h] = "tags"
    PROVE  DocsStem' /\ OneOfAnId' /\ Underway' /\ WholeStays
<1> USE DEF StoreInv
<1>1. docs' \subseteq docs /\ \A d \in docs : d.id # id => d \in docs' OBVIOUS
<1>2. DocsStem' /\ OneOfAnId' BY <1>1 DEF DocsStem, OneOfAnId, Stems, Bare
<1>3. Underway'
  <2> SUFFICES ASSUME NEW h \in Handlers, hpc'[h] = "tags"
               PROVE  (/\ \A d \in docs : d.id = hev[h].id => d = Bare(hev[h])
                       /\ Kept(hev[h]) => Bare(hev[h]) \in docs)'
      BY DEF Underway
  <2>1. /\ \A d \in docs : d.id = hev[h].id => d = Bare(hev[h])
        /\ Kept(hev[h]) => Bare(hev[h]) \in docs
        BY DEF Underway
  <2>2. Kept(hev[h]) => Bare(hev[h]) \in docs'
    <3>1. hev[h] \in Incoming BY DEF FromPeers
    <3>2. Bare(hev[h]).id = hev[h].id BY <3>1, BareEvent
    <3> QED BY <1>1, <2>1, <3>1, <3>2
  <2>3. \A d \in docs' : d.id = hev[h].id => d = Bare(hev[h]) BY <1>1, <2>1
  <2> QED BY <2>2, <2>3 DEF Kept, Bare
<1>4. WholeStays BY <1>1 DEF WholeStays, Whole
<1> QED BY <1>2, <1>3, <1>4

(* Only a document of the id of a contact list is deleted.                 *)
LEMMA DeleteListKeeps ==
    ASSUME StoreInv, NEW h \in Handlers, DeleteList(h), UNCHANGED cleaning
    PROVE  StoreInv'
<1> USE DEF StoreInv, cleaning
<1>1. PICK x \in Incoming : found[h].id = x.id /\ x.kind = ContactList
      BY StemOf DEF DeleteList, FoundList
<1>2. \A ev \in Incoming : Kept(ev) => ev.id # x.id BY <1>1 DEF Kept
<1>3. /\ docs' = {d \in docs : d.id # x.id} /\ hpc' = [hpc EXCEPT ![h] = "create"]
      /\ UNCHANGED <<hev, cleaned, acked>>
      BY <1>1 DEF DeleteList, To
<1>4. /\ StoreTypeOK' /\ FromPeers' /\ FindsLists'
      BY DEF DeleteList, FromPeers, FindsLists, StoreTypeOK, To
<1>5. FoundList' BY DEF DeleteList, FoundList, To, StoreTypeOK, Stems, Bare
<1>6. \A g \in Handlers : hpc'[g] \in {"tags", "stored"} => hpc'[g] = hpc[g]
      BY <1>3 DEF StoreTypeOK
<1>7. DocsStem' /\ OneOfAnId' /\ Underway' /\ WholeStays
      BY <1>2, <1>3, <1>6, DeleteStays
<1>8. StoredIsIn' /\ AckedIsIn' BY <1>3, <1>6, <1>7, SameKept, InStays
<1>9. Doomed' BY DEF Doomed
<1> QED BY <1>4, <1>5, <1>7, <1>8, <1>9

(* A document is created under an id that no document has.                 *)
LEMMA CreateKeeps ==
    ASSUME StoreInv, NEW h \in Handlers, Create(h), UNCHANGED cleaning
    PROVE  StoreInv'
<1> USE DEF StoreInv, cleaning
<1>1. /\ hpc[h] = "create" /\ mtx = NoHandler
      /\ docs' = docs \cup {Bare(hev[h])} /\ \A d \in docs : d.id # hev[h].id
      /\ UNCHANGED <<ghosts, hev, found, pub, acked, broken, submits>>
      BY DEF Create, Taken
<1>2. hev[h] \in Incoming /\ hev[h] \in Event BY DEF FromPeers
<1>3. \/ /\ HasTags(hev[h]) /\ mtx' = h
         /\ hpc' = [hpc EXCEPT ![h] = "tags"]
      \/ /\ ~HasTags(hev[h]) /\ mtx' = mtx
         /\ hpc' = [hpc EXCEPT ![h] = "stored"]
      BY DEF Create, To
<1>4. StoreTypeOK'
  <2>1. docs' \subseteq Event BY <1>1, <1>2, BareEvent DEF StoreTypeOK
  <2>2. \A g \in Handlers : hpc'[g] = "tags" <=> mtx' = g
        BY <1>1, <1>3 DEF StoreTypeOK
  <2> QED BY <2>1, <2>2, <1>1, <1>3 DEF StoreTypeOK
<1>5. FromPeers' BY <1>1 DEF FromPeers
<1>6. FindsLists' BY <1>1, <1>3 DEF FindsLists, StoreTypeOK
<1>7. DocsStem' BY <1>1, <1>2 DEF DocsStem, Stems, Bare
<1>8. OneOfAnId' BY <1>1, <1>2, BareEvent DEF OneOfAnId
<1>9. FoundList' BY <1>1, <1>3 DEF FoundList, StoreTypeOK, Stems, Bare
<1>10. \A g \in Handlers : hpc'[g] = "tags" => g = h
       BY <1>1, <1>3 DEF StoreTypeOK
<1>11. Underway'
  <2>1. \A d \in docs' : d.id = hev[h].id => d = Bare(hev[h]) BY <1>1
  <2> QED BY <2>1, <1>1, <1>10 DEF Underway, Kept, Bare
<1>12. WholeStays BY <1>1, <1>10 DEF WholeStays, Whole
<1>13. ~HasTags(hev[h]) => hev[h] \in Whole'
  <2> SUFFICES ASSUME ~HasTags(hev[h]) PROVE hev[h] \in Whole' OBVIOUS
  <2>1. hev[h] \in docs' BY <1>1, <1>2, BareEvent
  <2>2. \A g \in Handlers : hpc'[g] # "tags" BY <1>1, <1>3 DEF StoreTypeOK
  <2> QED BY <2>1, <2>2, <1>2 DEF Whole
<1>14. \A g \in Handlers : hpc'[g] = "stored" => hpc[g] = "stored" \/ hev[g] \in Whole'
       BY <1>3, <1>13 DEF StoreTypeOK
<1>15. StoredIsIn' /\ AckedIsIn' BY <1>1, <1>12, <1>14, SameKept, InStays
<1>16. Doomed' BY DEF Doomed
<1> QED BY <1>4, <1>5, <1>6, <1>7, <1>8, <1>9, <1>11, <1>15, <1>16

(* The document whose place is taken is that of the same event.            *)
LEMMA SetTagsKeeps ==
    ASSUME StoreInv, NEW h \in Handlers, SetTags(h), UNCHANGED cleaning
    PROVE  StoreInv'
<1> USE DEF StoreInv, cleaning
<1>1. /\ hpc[h] = "tags" /\ mtx' = NoHandler
      /\ hpc' = [hpc EXCEPT ![h] = "stored"]
      /\ UNCHANGED <<hev, found, pub, acked, broken, submits>>
      BY DEF SetTags, To
<1>2. hev[h] \in Incoming /\ hev[h] \in Event BY DEF FromPeers
<1>3. \/ /\ Bare(hev[h]) \in docs /\ ghosts' = ghosts
         /\ docs' = (docs \ {Bare(hev[h])}) \cup {hev[h]}
      \/ /\ Bare(hev[h]) \notin docs /\ docs' = docs
         /\ ghosts' = ghosts \cup {hev[h].id}
      BY DEF SetTags
<1>4. \A d \in docs : d.id = hev[h].id => d = Bare(hev[h]) BY <1>1 DEF Underway
<1>5. mtx = h BY <1>1 DEF StoreTypeOK
<1>6. StoreTypeOK'
  <2>1. docs' \subseteq Event /\ ghosts' \subseteq Ids
        BY <1>2, <1>3 DEF StoreTypeOK
  <2>2. \A g \in Handlers : hpc'[g] = "tags" <=> mtx' = g
        BY <1>1, <1>5 DEF StoreTypeOK
  <2> QED BY <2>1, <2>2, <1>1 DEF StoreTypeOK
<1>7. FromPeers' BY <1>1 DEF FromPeers
<1>8. FindsLists' BY <1>1 DEF FindsLists, StoreTypeOK
<1>9. DocsStem' BY <1>2, <1>3 DEF DocsStem, Stems, Bare
<1>10. OneOfAnId' BY <1>3, <1>4 DEF OneOfAnId
<1>11. FoundList' BY <1>1 DEF FoundList, StoreTypeOK, Stems, Bare
<1>12. \A g \in Handlers : hpc'[g] # "tags" BY <1>1, <1>5 DEF StoreTypeOK
<1>13. Underway' BY <1>12 DEF Underway
<1>14. \A d \in docs : d.id # hev[h].id => d \in docs' BY <1>2, <1>3, BareEvent
<1>15. WholeStays BY <1>1, <1>12, <1>14 DEF WholeStays, Whole
<1>16. Kept(hev[h]) => hev[h] \in Whole'
       BY <1>1, <1>2, <1>3, <1>12 DEF Underway, Whole
<1>17. \A g \in Handlers : hpc'[g] = "stored" =>
           hpc[g] = "stored" \/ ~Kept(hev[g]) \/ hev[g] \in Whole'
       BY <1>1, <1>16 DEF StoreTypeOK
<1>18. StoredIsIn' /\ AckedIsIn' BY <1>1, <1>15, <1>17, SameKept, InStays
<1>19. Doomed' BY DEF Doomed
<1> QED BY <1>6, <1>7, <1>8, <1>9, <1>10, <1>11, <1>13, <1>18, <1>19

-----------------------------------------------------------------------------
(* Steps of -clean.                                                        *)

(* The ids that are to be deleted are those of one author.                 *)
LEMMA CleanQueryKeeps ==
    ASSUME StoreInv, NEW ev \in Incoming, CleanQuery(ev.pubkey)
    PROVE  StoreInv'
<1> USE DEF StoreInv, store, handlers
<1>1. /\ cleaned = {} /\ cleaned' = {ev.pubkey} /\ ev.pubkey \in Pubkeys
      /\ doomed' = {d.id : d \in {x \in docs : x.pubkey = ev.pubkey}}
      /\ UNCHANGED <<docs, ghosts, mtx, hpc, hev, found, submits, pub, acked, broken>>
      BY DEF CleanQuery
<1>2. doomed' \subseteq Ids BY <1>1 DEF StoreTypeOK
<1>3. StoreTypeOK' BY <1>1, <1>2 DEF StoreTypeOK
<1>4. FromPeers' /\ FindsLists' BY <1>1 DEF FromPeers, FindsLists
<1>5. DocsStem' /\ OneOfAnId' /\ FoundList'
      BY <1>1 DEF DocsStem, OneOfAnId, FoundList, Stems, Bare
<1>6. \A x : Kept(x)' => Kept(x) BY <1>1 DEF Kept
<1>7. Underway' BY <1>1, <1>6 DEF Underway, Kept, Bare
<1>8. Whole' = Whole BY <1>1 DEF Whole
<1>9. StoredIsIn' /\ AckedIsIn' BY <1>1, <1>6, <1>8, InStays DEF WholeStays
<1>10. Doomed'
  <2> SUFFICES ASSUME NEW id \in doomed'
               PROVE  \E x \in Incoming : x.id = id /\ x.pubkey \in cleaned'
      BY DEF Doomed
  <2>1. PICK d \in docs : d.pubkey = ev.pubkey /\ d.id = id BY <1>1
  <2>2. Stems(d) BY DEF DocsStem
  <2> QED BY <2>1, <2>2, <1>1, StemOf
<1> QED BY <1>3, <1>4, <1>5, <1>7, <1>9, <1>10

LEMMA CleanDeleteKeeps ==
    ASSUME StoreInv, NEW id \in doomed, CleanDelete(id)
    PROVE  StoreInv'
<1> USE DEF StoreInv, store, handlers
<1>1. /\ doomed' = doomed \ {id} /\ cleaned' = cleaned
      /\ docs' = {d \in docs : d.id # id} \/ docs' = docs
      /\ docs' \subseteq docs /\ ghosts' \subseteq ghosts
      /\ UNCHANGED <<mtx, hpc, hev, found, submits, pub, acked, broken>>
      BY DEF CleanDelete
<1>2. \A ev \in Incoming : Kept(ev) => ev.id # id BY DEF Doomed, Kept
<1>3. StoreTypeOK' BY <1>1 DEF StoreTypeOK
<1>4. FromPeers' /\ FindsLists' BY <1>1 DEF FromPeers, FindsLists
<1>5. FoundList' BY <1>1 DEF FoundList, Stems, Bare
<1>6. DocsStem' /\ OneOfAnId' /\ Underway' /\ WholeStays BY <1>1, <1>2, DeleteStays
<1>7. StoredIsIn' /\ AckedIsIn' BY <1>1, <1>6, SameKept, InStays
<1>8. Doomed' BY <1>1 DEF Doomed
<1> QED BY <1>3, <1>4, <1>5, <1>6, <1>7, <1>8

-----------------------------------------------------------------------------
(* Theorems.                                                               *)

LEMMA StoreStep == StoreInv /\ [StoreNext]_storeVars => StoreInv'
<1> SUFFICES ASSUME StoreInv, [StoreNext]_storeVars PROVE StoreInv'
    OBVIOUS
<1>1. CASE UNCHANGED storeVars
  <2>1. UNCHANGED <<docs, cleaned, doomed, hpc, hev, acked>>
        BY <1>1 DEF storeVars, store, handlers, cleaning
  <2>2. DocsStem' /\ OneOfAnId' /\ Doomed' /\ Underway' /\ WholeStays BY <2>1, QuietStays
  <2>3. StoredIsIn' /\ AckedIsIn' BY <2>1, <2>2, SameKept, InStays
  <2> QED BY <1>1, <2>2, <2>3 DEF storeVars, store, handlers, cleaning, StoreInv, StoreTypeOK,
             FromPeers, FindsLists, FoundList, Stems, Bare
<1>2. ASSUME NEW h \in Handlers, Handle(h)
      PROVE  StoreInv'
  <2>0. UNCHANGED cleaning BY <1>2 DEF Handle
  <2>1. ASSUME NEW ev \in Incoming, Submit(h, ev) PROVE StoreInv'
        BY <2>0, <2>1, SubmitKeeps
  <2>2. CASE FindList(h) BY <2>0, <2>2, FindListKeeps
  <2>3. CASE DeleteList(h) BY <2>0, <2>3, DeleteListKeeps
  <2>4. CASE SkipAuth(h) BY <2>0, <2>4, SkipAuthKeeps
  <2>5. CASE Create(h) BY <2>0, <2>5, CreateKeeps
  <2>6. CASE CreateExists(h) \/ RequestFails(h) BY <2>0, <2>6, GiveUpKeeps
  <2>7. CASE SetTags(h) BY <2>0, <2>7, SetTagsKeeps
  <2>8. CASE Acknowledge(h) BY <2>0, <2>8, AcknowledgeKeeps
  <2> QED BY <1>2, <2>1, <2>2, <2>3, <2>4, <2>5, <2>6, <2>7, <2>8
          DEF Handle, Storing
<1>3. CASE Clean
  <2>1. ASSUME NEW ev \in Incoming, CleanQuery(ev.pubkey) PROVE StoreInv'
        BY <2>1, CleanQueryKeeps
  <2>2. ASSUME NEW id \in doomed, CleanDelete(id) PROVE StoreInv'
        BY <2>2, CleanDeleteKeeps
  <2> QED BY <1>3, <2>1, <2>2 DEF Clean
<1> QED BY <1>1, <1>2, <1>3 DEF StoreNext

THEOREM StoreInvariant == StoreSpec => []StoreInv
BY InitInv, StoreStep, PTL DEF StoreSpec

(* What was acknowledged with OK true stays in the database with its tags, *)
(* whatever the other handlers of EVENT messages (StoreEvent,              *)
(* StoreEventK3) and -clean do at the same time, unless its id is that of  *)
(* a contact list or of an event whose author is cleaned.                  *)
THEOREM AckedForGood == StoreSpec => []AckedStays
<1>1. StoreInv => AckedStays BY DEF StoreInv, AckedIsIn, AckedStays, Whole
<1> QED BY <1>1, StoreInvariant, PTL

(* The types, and that Create and the tags exclude each other (r.mtx).     *)
THEOREM StoreTypes == StoreSpec => []StoreTypeOK
<1>1. StoreInv => StoreTypeOK BY DEF StoreInv
<1> QED BY <1>1, StoreInvariant, PTL

-----------------------------------------------------------------------------
(* Contact lists.  An author who was promised one has one, or a handler is *)
(* about to store one of the author's, or a ghost is in its place, which   *)
(* keeps later ones from being stored: for the authors whose lists have    *)
(* ids of their own.                                                       *)

ListOf(ev, pk) == ev.kind = ContactList /\ ev.pubkey = pk
Promised(pk) == \/ \E ev \in acked : ListOf(ev, pk)
                \/ \E h \in Handlers : hpc[h] = "stored" /\ ListOf(hev[h], pk)
Provided(pk) == \/ ListsOf(pk) # {}
                \/ \E h \in Handlers : hpc[h] = "create" /\ ListOf(hev[h], pk)
                \/ \E ev \in Incoming : ev.id \in ghosts /\ ListOf(ev, pk)
ListKept == \A pk \in Pubkeys :
                Promised(pk) /\ Unshared(pk) => pk \in broken \cup cleaned \/ Provided(pk)
(* What a handler deletes is the list of the author it has a list of.      *)
OwnList == \A h \in Handlers : hpc[h] = "delete" => ListOf(hev[h], found[h].pubkey)

ListInv == OwnList /\ ListKept

(* Nothing of pk is taken away, and nothing more promised to it.           *)
LEMMA ListAlone ==
    ASSUME ListKept, NEW pk \in Pubkeys, broken \subseteq broken', cleaned \subseteq cleaned',
           Promised(pk)' => Promised(pk), Unshared(pk),
           Provided(pk) => pk \in broken' \cup cleaned' \/ Provided(pk)'
    PROVE  Promised(pk)' => pk \in broken' \cup cleaned' \/ Provided(pk)'
BY DEF ListKept

(* Where the lists have ids of their own, a document of the id of one of   *)
(* the author's lists is one.                                              *)
LEMMA OwnDoc ==
    ASSUME NEW pk, Unshared(pk), NEW ev \in Incoming, ListOf(ev, pk),
           NEW d, Stems(d), d.id = ev.id
    PROVE  ListOf(d, pk)
<1>1. PICK x \in Incoming : d.id = x.id /\ d.kind = x.kind /\ d.pubkey = x.pubkey
      BY StemOf
<1>2. x = ev BY <1>1 DEF Unshared, ListOf
<1> QED BY <1>1, <1>2 DEF ListOf

LEMMA ListInit == StoreInit => ListInv
BY DEF StoreInit, ListInv, OwnList, ListKept, Promised

LEMMA SubmitKeepsList ==
    ASSUME StoreInv, ListInv, NEW h \in Handlers, NEW ev \in Incoming, Submit(h, ev),
           UNCHANGED cleaning
    PROVE  ListInv'
<1> USE DEF ListInv
<1>1. /\ hpc[h] = "idle" /\ hev' = [hev EXCEPT ![h] = ev]
      /\ UNCHANGED <<docs, ghosts, found, acked, broken, cleaned>>
      BY DEF Submit, store, cleaning
<1>2. PICK pc \in {"find", "create"} : hpc' = [hpc EXCEPT ![h] = pc]
      BY DEF Submit, To
<1>3. OwnList' BY <1>1, <1>2 DEF OwnList, ListOf, StoreInv, StoreTypeOK
<1>4. ASSUME NEW pk \in Pubkeys
      PROVE  /\ Promised(pk)' => Promised(pk)
             /\ Provided(pk) => Provided(pk)'
      BY <1>1, <1>2 DEF Promised, Provided, ListOf, ListsOf, StoreInv, StoreTypeOK
<1> QED BY <1>1, <1>3, <1>4, ListAlone DEF ListKept

(* The lists that were found are the author's; a handler that is done has  *)
(* found one.                                                              *)
LEMMA FindListKeepsList ==
    ASSUME StoreInv, ListInv, NEW h \in Handlers, FindList(h), UNCHANGED cleaning
    PROVE  ListInv'
<1> USE DEF ListInv
<1>1. /\ hpc[h] = "find" /\ ListOf(hev[h], hev[h].pubkey)
      /\ UNCHANGED <<docs, ghosts, hev, acked, broken, cleaned>>
      BY DEF FindList, store, cleaning, StoreInv, FindsLists, ListOf
<1>2. \/ hpc' = [hpc EXCEPT ![h] = "create"] /\ UNCHANGED found
      \/ /\ hpc' = [hpc EXCEPT ![h] = "stored"] /\ UNCHANGED found
         /\ ListsOf(hev[h].pubkey) # {}
      \/ /\ hpc' = [hpc EXCEPT ![h] = "delete"]
         /\ \E d \in ListsOf(hev[h].pubkey) : found' = [found EXCEPT ![h] = d]
      BY DEF FindList, To, Latest
<1>3. OwnList'
      BY <1>1, <1>2 DEF OwnList, ListOf, ListsOf, StoreInv, StoreTypeOK
<1>4. ASSUME NEW pk \in Pubkeys
      PROVE  Provided(pk) => Provided(pk)'
      BY <1>1, <1>2 DEF Provided, ListOf, ListsOf, StoreInv, StoreTypeOK
<1>5. ASSUME NEW pk \in Pubkeys, Promised(pk)', ~Promised(pk)
      PROVE  Provided(pk)'
  <2>1. PICK g \in Handlers : hpc'[g] = "stored" /\ ListOf(hev[g], pk)
        BY <1>1, <1>5 DEF Promised, ListOf
  <2>2. g = h /\ hpc'[h] = "stored"
        BY <1>2, <1>5, <2>1 DEF Promised, StoreInv, StoreTypeOK
  <2>3. ListsOf(pk) # {} BY <1>2, <2>1, <2>2 DEF ListOf, StoreInv, StoreTypeOK
  <2> QED BY <1>1, <2>3 DEF Provided, ListsOf
<1> QED BY <1>1, <1>3, <1>4, <1>5, ListAlone DEF ListKept

(* The document and the ghost that are deleted are of the author whose     *)
(* next list is to be stored.                                              *)
LEMMA DeleteListKeepsList ==
    ASSUME StoreInv, ListInv, NEW h \in Handlers, DeleteList(h), UNCHANGED cleaning
    PROVE  ListInv'
<1> USE DEF ListInv
<1>1. /\ hpc[h] = "delete" /\ hpc' = [hpc EXCEPT ![h] = "create"]
      /\ docs' = {d \in docs : d.id # found[h].id} /\ ghosts' = ghosts \ {found[h].id}
      /\ UNCHANGED <<hev, found, acked, broken, cleaned>>
      BY DEF DeleteList, To, cleaning
<1>2. OwnList' BY <1>1 DEF OwnList, ListOf, StoreInv, StoreTypeOK
<1>3. Stems(found[h]) /\ ListOf(found[h], found[h].pubkey) /\ ListOf(hev[h], found[h].pubkey)
      BY <1>1 DEF StoreInv, FoundList, OwnList, ListOf
(* An event of another author's list, or a document of one, has another id *)
<1>4. ASSUME NEW pk \in Pubkeys, Unshared(pk), pk # found[h].pubkey,
             NEW ev \in Incoming, ListOf(ev, pk)
      PROVE  ev.id # found[h].id
      BY <1>3, <1>4, OwnDoc DEF ListOf
<1>5. ASSUME NEW pk \in Pubkeys, Unshared(pk), pk # found[h].pubkey,
             NEW d \in docs, ListOf(d, pk)
      PROVE  d.id # found[h].id
  <2>1. PICK x \in Incoming : d.id = x.id /\ ListOf(x, pk)
        BY <1>5, StemOf DEF StoreInv, DocsStem, ListOf
  <2> QED BY <1>4, <1>5, <2>1
<1>6. ASSUME NEW pk \in Pubkeys
      PROVE  Promised(pk)' => Promised(pk)
      BY <1>1 DEF Promised, ListOf, StoreInv, StoreTypeOK
<1>7. ASSUME NEW pk \in Pubkeys, Provided(pk), Unshared(pk)
      PROVE  Provided(pk)'
  <2>1. CASE pk = found[h].pubkey
        BY <2>1, <1>1, <1>3 DEF Provided, ListOf, StoreInv, StoreTypeOK
  <2>2. CASE pk # found[h].pubkey
        BY <2>2, <1>1, <1>4, <1>5, <1>7
        DEF Provided, ListOf, ListsOf, StoreInv, StoreTypeOK
  <2> QED BY <2>1, <2>2
<1> QED BY <1>1, <1>2, <1>6, <1>7, ListAlone DEF ListKept

LEMMA CreateKeepsList ==
    ASSUME StoreInv, ListInv, NEW h \in Handlers, Create(h) \/ CreateExists(h),
           UNCHANGED cleaning
    PROVE  ListInv'
<1> USE DEF ListInv
<1>1. /\ hpc[h] = "create" /\ hev[h] \in Incoming
      /\ UNCHANGED <<ghosts, hev, found, acked, broken, cleaned>>
      BY DEF Create, CreateExists, store, cleaning, StoreInv, FromPeers
<1>2. \/ docs' = docs \cup {Bare(hev[h])} /\ hpc' = [hpc EXCEPT ![h] = "tags"]
      \/ docs' = docs \cup {Bare(hev[h])} /\ hpc' = [hpc EXCEPT ![h] = "stored"]
      \/ docs' = docs /\ Taken(hev[h].id) /\ hpc' = [hpc EXCEPT ![h] = "idle"]
      BY DEF Create, CreateExists, To, store
<1>3. OwnList' BY <1>1, <1>2 DEF OwnList, ListOf, StoreInv, StoreTypeOK
<1>4. ASSUME NEW pk \in Pubkeys, ListOf(hev[h], pk), Unshared(pk) PROVE Provided(pk)'
  <2>1. CASE docs' = docs /\ Taken(hev[h].id)
    <3>1. CASE hev[h].id \in ghosts BY <1>1, <1>4, <3>1 DEF Provided, ListOf
    <3>2. CASE \E d \in docs : d.id = hev[h].id
      <4>1. ListsOf(pk) # {}
            BY <1>1, <1>4, <3>2, OwnDoc DEF StoreInv, DocsStem, ListsOf, ListOf
      <4> QED BY <4>1, <2>1 DEF Provided, ListsOf
    <3> QED BY <2>1, <3>1, <3>2 DEF Taken
  <2>2. CASE docs' = docs \cup {Bare(hev[h])}
    <3>1. Bare(hev[h]).kind = ContactList /\ Bare(hev[h]).pubkey = pk
          BY <1>1, <1>4, BareEvent DEF ListOf
    <3>2. Bare(hev[h]) \in ListsOf(pk)' BY <2>2, <3>1 DEF ListsOf
    <3> QED BY <3>2 DEF Provided
  <2> QED BY <1>2, <2>1, <2>2
<1>5. ASSUME NEW pk \in Pubkeys, Provided(pk), Unshared(pk) PROVE Provided(pk)'
  <2>1. CASE \E g \in Handlers : hpc[g] = "create" /\ ListOf(hev[g], pk) /\ g = h
        BY <1>5, <2>1, <1>4
  <2>2. CASE \E g \in Handlers : hpc[g] = "create" /\ ListOf(hev[g], pk) /\ g # h
        BY <2>2, <1>1, <1>2 DEF Provided, ListOf, StoreInv, StoreTypeOK
  <2>3. CASE ListsOf(pk) # {}
    <3>1. docs \subseteq docs' BY <1>2
    <3>2. ListsOf(pk) \subseteq ListsOf(pk)' BY <3>1 DEF ListsOf
    <3> QED BY <2>3, <3>2 DEF Provided
  <2>4. CASE \E ev \in Incoming : ev.id \in ghosts /\ ListOf(ev, pk)
        BY <2>4, <1>1 DEF Provided, ListOf
  <2> QED BY <1>5, <2>1, <2>2, <2>3, <2>4 DEF Provided
<1>6. ASSUME NEW pk \in Pubkeys, Promised(pk)', ~Promised(pk), Unshared(pk)
      PROVE  Provided(pk)'
  <2>1. PICK g \in Handlers : hpc'[g] = "stored" /\ ListOf(hev[g], pk)
        BY <1>1, <1>6 DEF Promised, ListOf
  <2>2. g = h BY <1>1, <1>2, <1>6, <2>1 DEF Promised, StoreInv, StoreTypeOK
  <2> QED BY <1>4, <1>6, <2>1, <2>2
<1> QED BY <1>1, <1>3, <1>5, <1>6, ListAlone DEF ListKept

(* With the tags, a document remains; without it, a ghost does.            *)
LEMMA SetTagsKeepsList ==
    ASSUME StoreInv, ListInv, NEW h \in Handlers, SetTags(h), UNCHANGED cleaning
    PROVE  ListInv'
<1> USE DEF ListInv
<1>1. /\ hpc[h] = "tags" /\ hpc' = [hpc EXCEPT ![h] = "stored"] /\ hev[h] \in Incoming
      /\ UNCHANGED <<hev, found, acked, broken, cleaned>>
      BY DEF SetTags, To, cleaning, StoreInv, FromPeers
<1>2. \/ docs' = (docs \ {Bare(hev[h])}) \cup {hev[h]} /\ ghosts' = ghosts
      \/ docs' = docs /\ ghosts' = ghosts \cup {hev[h].id}
      BY DEF SetTags
<1>3. OwnList' BY <1>1 DEF OwnList, ListOf, StoreInv, StoreTypeOK
<1>4. ASSUME NEW pk \in Pubkeys, ListOf(hev[h], pk) PROVE Provided(pk)'
      BY <1>1, <1>2, <1>4 DEF Provided, ListOf, ListsOf
<1>5. ASSUME NEW pk \in Pubkeys, Provided(pk) PROVE Provided(pk)'
  <2>1. CASE ListsOf(pk) # {}
    <3>1. PICK d \in ListsOf(pk) : TRUE BY <2>1
    <3>2. CASE d = Bare(hev[h])
      <4>1. ListOf(hev[h], pk)
            BY <3>1, <3>2, <1>1, BareEvent DEF ListsOf, ListOf
      <4> QED BY <4>1, <1>4
    <3>3. CASE d # Bare(hev[h]) BY <3>1, <3>3, <1>2 DEF Provided, ListsOf
    <3> QED BY <3>2, <3>3
  <2>2. CASE ListsOf(pk) = {}
        BY <1>1, <1>2, <1>5, <2>2 DEF Provided, ListOf, StoreInv, StoreTypeOK
  <2> QED BY <2>1, <2>2
<1>6. ASSUME NEW pk \in Pubkeys, Promised(pk)', ~Promised(pk)
      PROVE  Provided(pk)'
  <2>1. PICK g \in Handlers : hpc'[g] = "stored" /\ ListOf(hev[g], pk)
        BY <1>1, <1>6 DEF Promised, ListOf
  <2>2. g = h BY <1>1, <1>6, <2>1 DEF Promised, StoreInv, StoreTypeOK
  <2> QED BY <1>4, <1>6, <2>1, <2>2
<1> QED BY <1>1, <1>3, <1>5, <1>6, ListAlone DEF ListKept

(* A handler that gives up is noted, if it had a list to store.            *)
LEMMA DoneKeepsList ==
    ASSUME StoreInv, ListInv, NEW h \in Handlers,
           SkipAuth(h) \/ Acknowledge(h) \/ RequestFails(h), UNCHANGED cleaning
    PROVE  ListInv'
<1> USE DEF ListInv
<1>1. UNCHANGED <<docs, ghosts, hev, found, cleaned>>
      BY DEF SkipAuth, Acknowledge, RequestFails, store, cleaning
<1>2. \/ /\ hpc[h] = "create" /\ hev[h].kind = AuthKind /\ UNCHANGED <<acked, broken>>
         /\ hpc' = [hpc EXCEPT ![h] = "stored"]
      \/ /\ hpc[h] = "stored" /\ acked' = acked \cup {hev[h]} /\ UNCHANGED broken
         /\ hpc' = [hpc EXCEPT ![h] = "idle"]
      \/ /\ hpc[h] # "stored" /\ hpc' = [hpc EXCEPT ![h] = "idle"] /\ UNCHANGED acked
         /\ \/ hpc[h] = "find" /\ broken' = broken
            \/ broken' = broken \cup {hev[h].pubkey}
      BY DEF SkipAuth, Acknowledge, RequestFails, To
<1>3. OwnList' BY <1>1, <1>2 DEF OwnList, ListOf, StoreInv, StoreTypeOK
<1>4. ASSUME NEW pk \in Pubkeys PROVE Promised(pk)' => Promised(pk)
      BY <1>1, <1>2 DEF Promised, ListOf, StoreInv, StoreTypeOK
<1>5. ASSUME NEW pk \in Pubkeys, Provided(pk), pk \notin broken'
      PROVE  Provided(pk)'
      BY <1>1, <1>2, <1>5 DEF Provided, ListOf, ListsOf, StoreInv, StoreTypeOK
<1> QED BY <1>1, <1>2, <1>3, <1>4, <1>5 DEF ListKept

(* What -clean deletes is of an author that is noted.                      *)
LEMMA CleanKeepsList ==
    ASSUME StoreInv, ListInv, Clean
    PROVE  ListInv'
<1> USE DEF ListInv
<1>1. ASSUME NEW ev \in Incoming, CleanQuery(ev.pubkey) PROVE ListInv'
  <2>1. /\ cleaned \subseteq cleaned'
        /\ UNCHANGED <<docs, ghosts, hpc, hev, found, acked, broken>>
        BY <1>1 DEF CleanQuery, store, handlers
  <2>2. OwnList' BY <2>1 DEF OwnList, ListOf
  <2>3. \A pk \in Pubkeys : Promised(pk)' = Promised(pk) /\ Provided(pk)' = Provided(pk)
        BY <2>1 DEF Promised, Provided, ListOf, ListsOf
  <2> QED BY <2>1, <2>2, <2>3 DEF ListKept
<1>2. ASSUME NEW id \in doomed, CleanDelete(id) PROVE ListInv'
  <2>1. /\ \A d \in docs : d.id # id => d \in docs'
        /\ \A x \in ghosts : x # id => x \in ghosts'
        /\ UNCHANGED <<hpc, hev, found, acked, broken, cleaned>>
        BY <1>2 DEF CleanDelete, store, handlers
  <2>2. OwnList' BY <2>1 DEF OwnList, ListOf
  <2>3. ASSUME NEW pk \in Pubkeys, Unshared(pk), pk \notin cleaned,
               NEW ev \in Incoming, ListOf(ev, pk)
        PROVE  ev.id # id
        BY <2>3 DEF StoreInv, Doomed, Unshared, ListOf
  <2>4. ASSUME NEW pk \in Pubkeys, Unshared(pk), pk \notin cleaned,
               NEW d \in docs, ListOf(d, pk)
        PROVE  d.id # id
    <3>1. PICK x \in Incoming : d.id = x.id /\ ListOf(x, pk)
          BY <2>4, StemOf DEF StoreInv, DocsStem, ListOf
    <3> QED BY <2>3, <2>4, <3>1
  <2>5. ASSUME NEW pk \in Pubkeys, pk \notin cleaned, Provided(pk), Unshared(pk)
        PROVE  Provided(pk)'
        BY <2>1, <2>3, <2>4, <2>5 DEF Provided, ListOf, ListsOf
  <2>6. \A pk \in Pubkeys : Promised(pk)' = Promised(pk)
        BY <2>1 DEF Promised, ListOf
  <2> QED BY <2>1, <2>2, <2>5, <2>6 DEF ListKept
<1> QED BY <1>1, <1>2 DEF Clean

LEMMA ListStep == StoreInv /\ ListInv /\ [StoreNext]_storeVars => ListInv'
<1> SUFFICES ASSUME StoreInv, ListInv, [StoreNext]_storeVars PROVE ListInv'
    OBVIOUS
<1>1. CASE UNCHANGED storeVars
      BY <1>1 DEF storeVars, store, handlers, cleaning, ListInv, OwnList, ListKept,
         Promised, Provided, ListOf, ListsOf
<1>2. ASSUME NEW h \in Handlers, Handle(h) PROVE ListInv'
  <2>1. UNCHANGED cleaning BY <1>2 DEF Handle
  <2> QED BY <1>2, <2>1, SubmitKeepsList, FindListKeepsList, DeleteListKeepsList,
             CreateKeepsList, SetTagsKeepsList, DoneKeepsList
          DEF Handle, Storing
<1>3. CASE Clean BY <1>3, CleanKeepsList
<1> QED BY <1>1, <1>2, <1>3 DEF StoreNext

(* An author who had a contact list acknowledged keeps one, however many   *)
(* handlers replace it at once (StoreEventK3 finds, deletes and creates in *)
(* three requests without the mutex), unless a request failed after the    *)
(* search, a ghost was left behind, the author's events were cleaned, or   *)
(* another event came under the id of one of the author's lists.           *)
THEOREM ListsSurvive == StoreSpec => []ListSurvives
<1>1. StoreInv /\ ListInv => ListSurvives
  <2> SUFFICES ASSUME StoreInv, ListInv, NEW ev \in acked, ev.kind = ContactList,
                      ev.pubkey \notin broken \cup cleaned, Unshared(ev.pubkey),
                      \A x \in Incoming : x.id \in ghosts => x.pubkey # ev.pubkey,
                      \A h \in Handlers : hev[h].pubkey = ev.pubkey => hpc[h] = "idle"
               PROVE  ListsOf(ev.pubkey) # {}
      BY DEF ListSurvives, Idle
  <2>1. ev.pubkey \in Pubkeys BY DEF StoreInv, StoreTypeOK
  <2>2. Promised(ev.pubkey) BY DEF Promised, ListOf
  <2> QED BY <2>1, <2>2 DEF ListInv, ListKept, Provided, ListOf
<1> QED BY <1>1, ListInit, ListStep, StoreInvariant, PTL DEF StoreSpec

-----------------------------------------------------------------------------
(* The refinement of Archive: what each step does to the whole events.     *)

LEMMA OneWhole ==
    ASSUME StoreInv PROVE \A x, y \in Whole : x.id = y.id => x = y
BY DEF StoreInv, OneOfAnId, Whole

(* Deleting the document of an id drops one event, or none.                *)
LEMMA DropsOne ==
    ASSUME StoreInv, NEW id, docs' = {d \in docs : d.id # id},
           UNCHANGED <<acked, cleaned, hev>>,
           \A h \in Handlers : hpc'[h] = "tags" <=> hpc[h] = "tags",
           \A ev \in Incoming : ev.id = id => ~A!Lasting(ev)
    PROVE  [A!Next]_(A!archiveVars)
<1>1. Whole' = {d \in Whole : d.id # id} BY DEF Whole
<1>2. CASE \E ev \in Whole : ev.id = id
  <2>1. PICK ev \in Whole : ev.id = id BY <1>2
  <2>2. ev \in Incoming BY DEF Whole
  <2>3. Whole' = Whole \ {ev} BY <1>1, <2>1, OneWhole
  <2>4. A!Drop(ev) BY <2>1, <2>2, <2>3 DEF A!Drop
  <2> QED BY <2>2, <2>4 DEF A!Next
<1>3. CASE \A ev \in Whole : ev.id # id
  <2>1. Whole' = Whole BY <1>1, <1>3
  <2> QED BY <2>1 DEF A!archiveVars
<1> QED BY <1>2, <1>3

(* An event that gets whole when none of its id is, is kept.               *)
LEMMA KeepsWhole ==
    ASSUME NEW ev \in Incoming, UNCHANGED <<acked, cleaned>>,
           \A x \in Whole : x.id # ev.id,
           Whole' \in {Whole, Whole \cup {ev}}
    PROVE  [A!Next]_(A!archiveVars)
<1>1. CASE Whole' = Whole \cup {ev}
  <2>1. A!Keep(ev) BY <1>1 DEF A!Keep
  <2> QED BY <2>1 DEF A!Next
<1>2. CASE Whole' = Whole BY <1>2 DEF A!archiveVars
<1> QED BY <1>1, <1>2

(* Only an event without tags gets whole at once.                          *)
LEMMA CreateRefines ==
    ASSUME StoreInv, NEW h \in Handlers, Create(h), UNCHANGED cleaning
    PROVE  [A!Next]_(A!archiveVars)
<1>1. hev[h] \in Incoming /\ Bare(hev[h]).id = hev[h].id
      BY BareEvent DEF StoreInv, FromPeers
<1>2. /\ docs' = docs \cup {Bare(hev[h])} /\ UNCHANGED <<acked, cleaned, hev>>
      /\ mtx = NoHandler /\ \A d \in docs : d.id # hev[h].id
      BY DEF Create, Taken, cleaning
<1>3. \A g \in Handlers : hpc[g] # "tags" BY <1>2 DEF StoreInv, StoreTypeOK
<1>4. CASE HasTags(hev[h])
  <2>1. hpc' = [hpc EXCEPT ![h] = "tags"] BY <1>4 DEF Create, To
  <2>2. \A g \in Handlers : hpc'[g] = "tags" <=> g = h
        BY <1>3, <2>1 DEF StoreInv, StoreTypeOK
  <2>3. Whole' = Whole BY <1>1, <1>2, <1>3, <2>2 DEF Whole
  <2> QED BY <1>2, <2>3 DEF A!archiveVars
<1>5. CASE ~HasTags(hev[h])
  <2>1. hpc' = [hpc EXCEPT ![h] = "stored"] BY <1>5 DEF Create, To
  <2>2. \A g \in Handlers : hpc'[g] # "tags"
        BY <1>3, <2>1 DEF StoreInv, StoreTypeOK
  <2>3. Bare(hev[h]) = hev[h] BY <1>1, <1>5, BareEvent
  <2>4. Whole' = Whole \cup {hev[h]} BY <1>1, <1>2, <1>3, <2>2, <2>3 DEF Whole
  <2>5. \A x \in Whole : x.id # hev[h].id BY <1>2 DEF Whole
  <2> QED BY <1>1, <1>2, <2>4, <2>5, KeepsWhole
<1> QED BY <1>4, <1>5

(* The handler that had its document to itself is done with it: what is    *)
(* stored under the id, if it is an event, is whole from now on.           *)
LEMMA TagsEnd ==
    ASSUME StoreInv, NEW h \in Handlers, hpc[h] = "tags",
           \A g \in Handlers : hpc'[g] # "tags", UNCHANGED <<acked, cleaned>>,
           \A d \in docs : d.id # hev[h].id => d \in docs',
           NEW x, \A d \in docs' : (d \in docs /\ d.id # hev[h].id) \/ d = x,
           x.id = hev[h].id
    PROVE  [A!Next]_(A!archiveVars)
<1>1. \A g \in Handlers : hpc[g] = "tags" => g = h BY DEF StoreInv, StoreTypeOK
<1>2. Whole = {d \in docs \cap Incoming : d.id # hev[h].id} BY <1>1 DEF Whole
<1>3. Whole' = docs' \cap Incoming BY DEF Whole
<1>4. Whole' \in {Whole, Whole \cup {x}} BY <1>2, <1>3
<1>5. \A y \in Whole : y.id # x.id BY <1>2
<1>6. CASE x \in Incoming BY <1>4, <1>5, <1>6, KeepsWhole
<1>7. CASE x \notin Incoming
  <2>1. Whole' = Whole BY <1>3, <1>4, <1>7
  <2> QED BY <2>1 DEF A!archiveVars
<1> QED BY <1>6, <1>7

LEMMA SetTagsRefines ==
    ASSUME StoreInv, NEW h \in Handlers, SetTags(h) \/ (RequestFails(h) /\ hpc[h] = "tags"),
           UNCHANGED cleaning
    PROVE  [A!Next]_(A!archiveVars)
<1>1. hev[h] \in Incoming /\ Bare(hev[h]).id = hev[h].id
      BY BareEvent DEF StoreInv, FromPeers
<1>2. /\ hpc[h] = "tags" /\ UNCHANGED <<acked, cleaned>>
      /\ hpc' = [hpc EXCEPT ![h] = "stored"] \/ hpc' = [hpc EXCEPT ![h] = "idle"]
      BY DEF SetTags, RequestFails, cleaning, To
<1>3. \A g \in Handlers : hpc[g] = "tags" => g = h BY <1>2 DEF StoreInv, StoreTypeOK
<1>4. \A g \in Handlers : hpc'[g] # "tags" BY <1>2, <1>3 DEF StoreInv, StoreTypeOK
<1>5. \A d \in docs : d.id = hev[h].id => d = Bare(hev[h]) BY <1>2 DEF StoreInv, Underway
<1>6. CASE docs' = (docs \ {Bare(hev[h])}) \cup {hev[h]}
  <2>1. \A d \in docs : d.id # hev[h].id => d \in docs' BY <1>1, <1>6
  <2>2. \A d \in docs' : (d \in docs /\ d.id # hev[h].id) \/ d = hev[h] BY <1>5, <1>6
  <2> QED BY <1>2, <1>4, <2>1, <2>2, TagsEnd
<1>7. CASE docs' = docs
  <2>1. \A d \in docs' : (d \in docs /\ d.id # hev[h].id) \/ d = Bare(hev[h]) BY <1>5, <1>7
  <2> QED BY <1>1, <1>2, <1>4, <1>7, <2>1, TagsEnd
<1> QED BY <1>6, <1>7 DEF SetTags, RequestFails, store

(* What is acknowledged is in the archive, or need not be.                 *)
LEMMA AcknowledgeRefines ==
    ASSUME StoreInv, NEW h \in Handlers, Acknowledge(h), UNCHANGED cleaning
    PROVE  [A!Next]_(A!archiveVars)
<1>1. hpc[h] = "stored" /\ hev[h] \in Incoming
      BY DEF Acknowledge, StoreInv, FromPeers
<1>2. /\ acked' = acked \cup {hev[h]} /\ UNCHANGED <<docs, cleaned, hev>>
      /\ hpc' = [hpc EXCEPT ![h] = "idle"]
      BY DEF Acknowledge, cleaning, store, To
<1>3. Kept(hev[h]) => hev[h] \in Whole BY <1>1 DEF StoreInv, StoredIsIn
<1>4. \/ hev[h] \in Whole \/ ~A!Lasting(hev[h])
      \/ hev[h].kind = AuthKind
      BY <1>1, <1>3 DEF Kept, A!Lasting
<1>5. \A g \in Handlers : hpc'[g] = "tags" <=> hpc[g] = "tags"
      BY <1>1, <1>2 DEF StoreInv, StoreTypeOK
<1>6. Whole' = Whole BY <1>2, <1>5 DEF Whole
<1>7. A!Promise(hev[h]) BY <1>2, <1>4, <1>6 DEF A!Promise
<1> QED BY <1>1, <1>7 DEF A!Next

LEMMA DeleteListRefines ==
    ASSUME StoreInv, NEW h \in Handlers, DeleteList(h), UNCHANGED cleaning
    PROVE  [A!Next]_(A!archiveVars)
<1>1. PICK x \in Incoming : found[h].id = x.id /\ x.kind = ContactList
      BY StemOf DEF DeleteList, StoreInv, FoundList
<1>2. \A ev \in Incoming : ev.id = x.id => ~A!Lasting(ev)
      BY <1>1 DEF A!Lasting
<1>3. /\ docs' = {d \in docs : d.id # x.id} /\ UNCHANGED <<acked, cleaned, hev>>
      /\ hpc[h] = "delete" /\ hpc' = [hpc EXCEPT ![h] = "create"]
      BY <1>1 DEF DeleteList, cleaning, To
<1>4. \A g \in Handlers : hpc'[g] = "tags" <=> hpc[g] = "tags"
      BY <1>3 DEF StoreInv, StoreTypeOK
<1> QED BY <1>2, <1>3, <1>4, DropsOne

LEMMA CleanRefines ==
    ASSUME StoreInv, Clean
    PROVE  [A!Next]_(A!archiveVars)
<1>1. ASSUME NEW ev \in Incoming, CleanQuery(ev.pubkey)
      PROVE  [A!Next]_(A!archiveVars)
  <2>1. cleaned' = cleaned \cup {ev.pubkey} /\ UNCHANGED <<docs, acked, hpc, hev>>
        BY <1>1 DEF CleanQuery, store, handlers
  <2>2. Whole' = Whole BY <2>1 DEF Whole
  <2>3. A!Purge(ev.pubkey) BY <2>1, <2>2 DEF A!Purge
  <2> QED BY <2>3 DEF A!Next
<1>2. ASSUME NEW id \in doomed, CleanDelete(id)
      PROVE  [A!Next]_(A!archiveVars)
  <2>1. UNCHANGED <<acked, cleaned, hpc, hev>> BY <1>2 DEF CleanDelete, handlers
  <2>2. \A ev \in Incoming : ev.id = id => ~A!Lasting(ev)
        BY DEF StoreInv, Doomed, A!Lasting
  <2>3. CASE docs' = {d \in docs : d.id # id} BY <2>1, <2>2, <2>3, DropsOne
  <2>4. CASE docs' = docs BY <2>1, <2>4 DEF A!archiveVars, Whole
  <2> QED BY <1>2, <2>3, <2>4 DEF CleanDelete, store
<1> QED BY <1>1, <1>2 DEF Clean

(* The other steps change neither the documents nor who is at the tags.    *)
LEMMA IdleRefines ==
    ASSUME StoreInv, NEW h \in Handlers, UNCHANGED cleaning,
           \/ \E ev \in Incoming : Submit(h, ev)
           \/ FindList(h) \/ SkipAuth(h) \/ CreateExists(h)
           \/ RequestFails(h) /\ hpc[h] # "tags"
    PROVE  [A!Next]_(A!archiveVars)
<1>1. UNCHANGED <<docs, acked, cleaned>>
      BY DEF Submit, FindList, SkipAuth, CreateExists, RequestFails, store, cleaning
<1>2. /\ hpc[h] # "tags"
      /\ \E pc \in {"idle", "find", "create", "stored", "delete"} :
            hpc' = [hpc EXCEPT ![h] = pc]
      /\ \A g \in Handlers : g # h => hev'[g] = hev[g]
      BY DEF Submit, FindList, SkipAuth, CreateExists, RequestFails, To, StoreInv, StoreTypeOK
<1>3. \A g \in Handlers : /\ hpc'[g] = "tags" <=> hpc[g] = "tags"
                          /\ hpc[g] = "tags" => hev'[g] = hev[g]
      BY <1>2 DEF StoreInv, StoreTypeOK
<1>4. Whole' = Whole BY <1>1, <1>3 DEF Whole
<1> QED BY <1>1, <1>4 DEF A!archiveVars

LEMMA HandleRefines ==
    ASSUME StoreInv, NEW h \in Handlers, Handle(h)
    PROVE  [A!Next]_(A!archiveVars)
<1>1. UNCHANGED cleaning BY DEF Handle
<1>2. CASE \/ \E ev \in Incoming : Submit(h, ev)
           \/ FindList(h) \/ SkipAuth(h) \/ CreateExists(h)
           \/ RequestFails(h) /\ hpc[h] # "tags"
      BY <1>1, <1>2, IdleRefines
<1>3. CASE DeleteList(h) BY <1>1, <1>3, DeleteListRefines
<1>4. CASE Create(h) BY <1>1, <1>4, CreateRefines
<1>5. CASE SetTags(h) \/ (RequestFails(h) /\ hpc[h] = "tags")
      BY <1>1, <1>5, SetTagsRefines
<1>6. CASE Acknowledge(h) BY <1>1, <1>6, AcknowledgeRefines
<1> QED BY <1>2, <1>3, <1>4, <1>5, <1>6 DEF Handle, Storing

(* The event store implements Archive: for its readers, an event appears   *)
(* at once, before it is acknowledged, and nothing but a replaced contact  *)
(* list or a purge takes away what is stored under its id.                 *)
THEOREM StoreImplementsArchive == StoreSpec => Archived
<1>1. StoreInit => A!Init BY DEF StoreInit, A!Init, Whole
<1>2. StoreInv /\ [StoreNext]_storeVars => [A!Next]_(A!archiveVars)
  <2> SUFFICES ASSUME StoreInv, [StoreNext]_storeVars
               PROVE  [A!Next]_(A!archiveVars)
      OBVIOUS
  <2>1. CASE UNCHANGED storeVars
        BY <2>1 DEF storeVars, store, handlers, cleaning, A!archiveVars, Whole
  <2>2. CASE \E h \in Handlers : Handle(h) BY <2>2, HandleRefines
  <2>3. CASE Clean BY <2>3, CleanRefines
  <2> QED BY <2>1, <2>2, <2>3 DEF StoreNext
<1> QED BY <1>1, <1>2, StoreInvariant, PTL DEF StoreSpec, Archived, A!Spec
=============================================================================

----------------------------- MODULE EventStore -----------------------------
(***************************************************************************)
(* How the handlers of concurrent EVENT messages store events              *)
(* (StoreEvent and StoreEventK3, internal/data/firestoredb/nostr-repo.go,  *)
(* called from handlerEventMsgs, services/client.go).                      *)
(*                                                                         *)
(* Storing takes several requests to Firestore: the document is created    *)
(* without its tags, which a second request adds, both under the mutex     *)
(* mtx; a contact list (kind 3) first looks for its predecessor and        *)
(* deletes it, without the mutex.  Each request is a step and may fail.    *)
(*                                                                         *)
(* Meanwhile the program may be run a second time, with -clean, to delete  *)
(* the events of an author (main and DeleteEventsByPubKey).                *)
(*                                                                         *)
(* A document is found by its event's id, which is the peer's choice: the  *)
(* signature is looked at, the id is not compared with the hash, and so    *)
(* different events may come under one id.                                 *)
(***************************************************************************)
EXTENDS Filters

CONSTANTS Handlers, NoHandler,     \* connections whose peers send events
          Incoming,                \* what they send
          ContactList, AuthKind,   \* the kinds 3 and 22242
          MaxSubmits               \* bound on what they send

ASSUME StoreAssumption ==
    /\ Incoming \subseteq Event /\ Incoming # {} /\ NoHandler \notin Handlers
    /\ ContactList # AuthKind /\ MaxSubmits \in Nat

VARIABLES
    docs,      \* the documents of the collection
    ghosts,    \* ids of documents that have nothing but tags
    mtx,       \* the mutex of the repository
    hpc, hev,  \* the handlers and the events they store
    found,     \* the document StoreEventK3 is about to delete
    pub,       \* what was put in NewEvent
    acked,     \* history: events acknowledged with OK true
    broken,    \* history: authors whose contact list was deleted in vain
    submits,
    cleaned,   \* the author whose events are deleted, in a set
    doomed     \* ids of the documents that are still to be deleted

handlers == <<mtx, hpc, hev, found, submits>>
store    == <<docs, ghosts>>
cleaning == <<cleaned, doomed>>
storeVars == <<store, handlers, pub, acked, broken, cleaning>>

HasTags(ev) == ev.refs \cup ev.marks # {}
(* ec.Tags = nil                                                           *)
Bare(ev) == [ev EXCEPT !.refs = {}, !.marks = {}]
ListsOf(pk) == {d \in docs : d.kind = ContactList /\ d.pubkey = pk}
Latest(D) == {d \in D : \A x \in D : x.at <= d.at}

StoreInit ==
    /\ docs = {} /\ ghosts = {} /\ mtx = NoHandler
    /\ hpc = [h \in Handlers |-> "idle"]
    /\ hev = [h \in Handlers |-> CHOOSE ev \in Incoming : TRUE] /\ found = hev
    /\ pub = <<>> /\ acked = {} /\ broken = {} /\ submits = 0
    /\ cleaned = {} /\ doomed = {}

To(h, pc) == hpc' = [hpc EXCEPT ![h] = pc]

(* handlerEventMsgs calls StoreEventK3 for kind 3, StoreEvent otherwise.   *)
Submit(h, ev) ==
    /\ hpc[h] = "idle" /\ submits < MaxSubmits
    /\ submits' = submits + 1
    /\ hev' = [hev EXCEPT ![h] = ev]
    /\ To(h, IF ev.kind = ContactList THEN "find" ELSE "create")
    /\ UNCHANGED <<store, mtx, found, pub, acked, broken>>

(* StoreEventK3: a list without tags replaces nothing, and is not stored.  *)
FindList(h) ==
    /\ hpc[h] = "find"
    /\ LET lists == ListsOf(hev[h].pubkey) IN
       \/ lists = {} /\ To(h, "create") /\ UNCHANGED found
       \/ lists # {} /\ ~HasTags(hev[h]) /\ To(h, "stored") /\ UNCHANGED found
       \/ /\ HasTags(hev[h]) /\ To(h, "delete")
          /\ \E d \in Latest(lists) : found' = [found EXCEPT ![h] = d]
    /\ UNCHANGED <<store, mtx, hev, pub, acked, broken, submits>>

(* MUTANT: having deleted the old list, it is done. *)
MutDeleteList(h) ==
    /\ hpc[h] = "delete"
    /\ docs' = {d \in docs : d.id # found[h].id}
    /\ ghosts' = ghosts \ {found[h].id}
    /\ To(h, "stored")
    /\ UNCHANGED <<mtx, hev, found, pub, acked, broken, submits>>
(* Whatever is stored under that id by now; no error if nothing is.        *)
DeleteList(h) ==
    /\ hpc[h] = "delete"
    /\ docs' = {d \in docs : d.id # found[h].id}
    /\ ghosts' = ghosts \ {found[h].id}
    /\ To(h, "create")
    /\ UNCHANGED <<mtx, hev, found, pub, acked, broken, submits>>

(* StoreEvent: an AUTH event is not stored, which is no error.             *)
SkipAuth(h) ==
    /\ hpc[h] = "create" /\ hev[h].kind = AuthKind
    /\ To(h, "stored")
    /\ UNCHANGED <<store, mtx, hev, found, pub, acked, broken, submits>>

Taken(id) == id \in ghosts \/ \E d \in docs : d.id = id

(* MUTANT: Set instead of Create. *)
MutCreate(h) ==
    /\ hpc[h] = "create" /\ hev[h].kind # AuthKind /\ mtx = NoHandler
    /\ docs' = {d \in docs : d.id # hev[h].id} \cup {Bare(hev[h])}
    /\ IF HasTags(hev[h]) THEN To(h, "tags") /\ mtx' = h
                          ELSE To(h, "stored") /\ UNCHANGED mtx
    /\ UNCHANGED <<ghosts, hev, found, pub, acked, broken, submits>>
Create(h) ==
    /\ hpc[h] = "create" /\ hev[h].kind # AuthKind /\ mtx = NoHandler
    /\ ~Taken(hev[h].id)
    /\ docs' = docs \cup {Bare(hev[h])}
    /\ IF HasTags(hev[h]) THEN To(h, "tags") /\ mtx' = h
                          ELSE To(h, "stored") /\ UNCHANGED mtx
    /\ UNCHANGED <<ghosts, hev, found, pub, acked, broken, submits>>

(* Create fails for an id that exists, also if this is a contact list      *)
(* whose predecessor was just deleted.                                     *)
CreateExists(h) ==
    /\ hpc[h] = "create" /\ hev[h].kind # AuthKind /\ mtx = NoHandler
    /\ Taken(hev[h].id)
    /\ To(h, "idle")
    /\ UNCHANGED <<store, mtx, hev, found, pub, acked, broken, submits>>

(* Set(MergeAll) adds the tags, to a document of its own if the one just   *)
(* created was deleted meanwhile.                                          *)
SetTags(h) ==
    /\ hpc[h] = "tags"
    /\ IF Bare(hev[h]) \in docs
       THEN docs' = (docs \ {Bare(hev[h])}) \cup {hev[h]} /\ UNCHANGED ghosts
       ELSE ghosts' = ghosts \cup {hev[h].id} /\ UNCHANGED docs
    /\ mtx' = NoHandler /\ To(h, "stored")
    /\ UNCHANGED <<hev, found, pub, acked, broken, submits>>

(* MUTANT: the event is announced and acknowledged before it is stored. *)
MutAcknowledge(h) ==
    /\ hpc[h] \in {"create", "stored"}
    /\ pub' = IF hev[h].kind = ContactList THEN pub ELSE Append(pub, hev[h])
    /\ acked' = acked \cup {hev[h]}
    /\ To(h, IF hpc[h] = "create" THEN "create" ELSE "idle")
    /\ UNCHANGED <<store, mtx, hev, found, broken, submits>>
(* NewEvent <- e, but for contact lists, and OK true.                      *)
Acknowledge(h) ==
    /\ hpc[h] = "stored"
    /\ pub' = IF hev[h].kind = ContactList THEN pub ELSE Append(pub, hev[h])
    /\ acked' = acked \cup {hev[h]}
    /\ To(h, "idle")
    /\ UNCHANGED <<store, mtx, hev, found, broken, submits>>

(* MUTANT: the mutex is not released when the tags cannot be set. *)
MutRequestFails(h) ==
    /\ \/ hpc[h] \in {"find", "delete", "tags"}
       \/ hpc[h] = "create" /\ hev[h].kind # AuthKind /\ mtx = NoHandler
    /\ broken' = IF hpc[h] = "find" THEN broken ELSE broken \cup {hev[h].pubkey}
    /\ To(h, "idle")
    /\ UNCHANGED <<store, mtx, hev, found, pub, acked, submits>>
(* A request fails: OK false, and whatever was done stays done.  (The      *)
(* connection is stuck then, see ClientConn; h stands for the next one.)   *)
RequestFails(h) ==
    /\ \/ hpc[h] \in {"find", "delete", "tags"}
       \/ hpc[h] = "create" /\ hev[h].kind # AuthKind /\ mtx = NoHandler
    /\ mtx' = IF mtx = h THEN NoHandler ELSE mtx
    /\ broken' = IF hpc[h] = "find" THEN broken ELSE broken \cup {hev[h].pubkey}
    /\ To(h, "idle")
    /\ UNCHANGED <<store, hev, found, pub, acked, submits>>

Storing(h) == \/ FindList(h) \/ DeleteList(h) \/ SkipAuth(h) \/ Create(h)
              \/ CreateExists(h) \/ SetTags(h) \/ Acknowledge(h)

Handle(h) == /\ \/ \E ev \in Incoming : Submit(h, ev)
                \/ Storing(h) \/ RequestFails(h)
             /\ UNCHANGED cleaning

-----------------------------------------------------------------------------
(* DeleteEventsByPubKey, in a process of its own; once.                    *)

(* MUTANT: the documents of all authors. *)
MutCleanQuery(pk) ==
    /\ cleaned = {} /\ cleaned' = {pk}
    /\ doomed' = {d.id : d \in docs}
    /\ UNCHANGED <<store, handlers, pub, acked, broken>>
(* Where("PubKey", "==", pubkey), which ghosts do not have.                *)
CleanQuery(pk) ==
    /\ cleaned = {} /\ cleaned' = {pk}
    /\ doomed' = {d.id : d \in {x \in docs : x.pubkey = pk}}
    /\ UNCHANGED <<store, handlers, pub, acked, broken>>

(* Whatever is stored under an id by now is deleted; a request that fails  *)
(* is only logged.                                                         *)
CleanDelete(id) ==
    /\ id \in doomed /\ doomed' = doomed \ {id}
    /\ \/ docs' = {d \in docs : d.id # id} /\ ghosts' = ghosts \ {id}
       \/ UNCHANGED store
    /\ UNCHANGED <<handlers, pub, acked, broken, cleaned>>

Clean == \/ \E ev \in Incoming : CleanQuery(ev.pubkey)
         \/ \E id \in doomed : CleanDelete(id)

StoreNext == (\E h \in Handlers : Handle(h)) \/ Clean

StoreSpec == StoreInit /\ [][StoreNext]_storeVars

-----------------------------------------------------------------------------
(* Properties.                                                             *)

Idle(h) == hpc[h] = "idle"
(* Events that nothing may take out of the database: DeleteList and        *)
(* CleanDelete delete whatever is stored under the id of a contact list or *)
(* of an event of the author whose events are cleaned.                     *)
Kept(ev) ==
    /\ ev.kind # AuthKind
    /\ \A x \in Incoming : x.id = ev.id => x.kind # ContactList /\ x.pubkey \notin cleaned
(* No other event comes under the id of one of the author's contact lists. *)
Unshared(pk) ==
    \A x, y \in Incoming :
        x.id = y.id /\ x.kind = ContactList /\ x.pubkey = pk => x = y

(* Types; the mutex is held between Create and the tags.                   *)
StoreTypeOK ==
    /\ docs \subseteq Event /\ ghosts \subseteq Ids
    /\ mtx \in Handlers \cup {NoHandler}
    /\ hpc \in [Handlers -> {"idle", "find", "delete", "create", "tags", "stored"}]
    /\ \A h \in Handlers : hpc[h] = "tags" <=> mtx = h
    /\ hev \in [Handlers -> Event] /\ found \in [Handlers -> Event]
    /\ pub \in Seq(Event) /\ acked \subseteq Event /\ broken \subseteq Pubkeys
    /\ submits \in Nat /\ cleaned \subseteq Pubkeys /\ doomed \subseteq Ids

(* What was acknowledged is in the store, tags and all, and stays there:   *)
(* no handler's contact list, retry, failure or event of the same id takes *)
(* it away, and -clean none but those of its author.  Left out are AUTH    *)
(* events, which are acknowledged without being stored, and the ids of     *)
(* contact lists, which are deleted.                                       *)
AckedStays == \A ev \in acked : Kept(ev) => ev \in docs

(* An author who had a contact list acknowledged has one whenever no       *)
(* handler works on the author's events, unless a request failed, a ghost  *)
(* of the author's was left behind, or another event came under the id of  *)
(* one of the author's lists.                                              *)
ListSurvives ==
    \A ev \in acked :
        /\ ev.kind = ContactList /\ ev.pubkey \notin broken \cup cleaned
        /\ Unshared(ev.pubkey)
        /\ \A x \in Incoming : x.id \in ghosts => x.pubkey # ev.pubkey
        /\ \A h \in Handlers : hev[h].pubkey = ev.pubkey => Idle(h)
        => ListsOf(ev.pubkey) # {}

(* nostr-repo.go, StoreEventK3: a contact list "should overwrite the       *)
(* existing contact list for the same PubKey".  When all the handlers are  *)
(* done, no author has two.                                                *)
OneContactList ==
    (\A h \in Handlers : Idle(h)) =>
        \A pk \in Pubkeys : Cardinality(ListsOf(pk)) <= 1

-----------------------------------------------------------------------------
(* The documents that are whole events, but for those whose tags are yet   *)
(* to be set, are the archive of module Archive.                           *)
Whole == {d \in docs \cap Incoming :
            \A h \in Handlers : hpc[h] = "tags" => d.id # hev[h].id}
A == INSTANCE Archive WITH archive <- Whole, promised <- acked, purged <- cleaned

(* Storing an event, in however many requests, and with whatever fails or  *)
(* is deleted in between, implements putting it into the archive at once,  *)
(* before it is acknowledged.                                              *)
Archived == A!Spec
=============================================================================

------------------------------- MODULE Archive -------------------------------
(***************************************************************************)
(* What the event store promises to those who publish events: an abstract  *)
(* specification, of which EventStore is an implementation.                *)
(*                                                                         *)
(* The archive holds whole events, each put there at once, and one of an   *)
(* id.  What was promised to be there was there at that moment, and stays, *)
(* unless its id is that of a contact list, or of an event of an author    *)
(* whom the operator has purged.                                           *)
(***************************************************************************)

CONSTANTS Incoming,                \* the events
          ContactList, AuthKind    \* the kinds that are replaced, not kept

VARIABLES archive, promised, purged

archiveVars == <<archive, promised, purged>>

Lasting(ev) ==
    \A x \in Incoming : x.id = ev.id => x.kind # ContactList /\ x.pubkey \notin purged

Init == archive = {} /\ promised = {} /\ purged = {}

Keep(ev) ==
    /\ \A x \in archive : x.id # ev.id
    /\ archive' = archive \cup {ev}
    /\ UNCHANGED <<promised, purged>>

Drop(ev) ==
    /\ ~Lasting(ev)
    /\ archive' = archive \ {ev}
    /\ UNCHANGED <<promised, purged>>

Promise(ev) ==
    /\ ev \in archive \/ ~Lasting(ev) \/ ev.kind = AuthKind
    /\ promised' = promised \cup {ev}
    /\ UNCHANGED <<archive, purged>>

Purge(pk) ==
    /\ purged' = purged \cup {pk}
    /\ UNCHANGED <<archive, promised>>

Next == \/ \E ev \in Incoming : Keep(ev) \/ Drop(ev) \/ Promise(ev)
        \/ \E ev \in Incoming : Purge(ev.pubkey)

Spec == Init /\ [][Next]_archiveVars
=============================================================================

------------------------------ MODULE MCSupply ------------------------------
(* Instances of Supply for TLC.                                            *)
EXTENDS Supply

CONSTANTS n1, n2, n3, n4, n5, n6, p1, p2, junk, h1, h2

Ev(id, pk, kind, at, refs, marks) ==
    [id |-> id, pubkey |-> pk, kind |-> kind, at |-> at, refs |-> refs,
     marks |-> marks]
(* A note and another author's answer to it, contact lists of one author,  *)
(* the last of them empty, and an AUTH event.                              *)
Notes    == {Ev(n1, p1, 1, 1, {}, {}), Ev(n2, p2, 1, 2, {n1}, {p1})}
Contacts == {Ev(n3, p1, 3, 1, {}, {p2}), Ev(n4, p1, 3, 2, {}, {p1})}
NoContacts == {Ev(n5, p1, 3, 2, {}, {})}
AuthEv   == {Ev(n6, p1, 22242, 2, {}, {})}
(* Events under the id of another one: of the note, by the same author,    *)
(* and of the answer, which is then the id of a contact list.              *)
Clashes  == {Ev(n1, p1, 1, 2, {}, {}), Ev(n2, p2, 3, 1, {}, {p1})}
Mixed    == Notes \cup Contacts \cup NoContacts \cup AuthEv \cup Clashes

None == [given |-> {}, authors |-> {}, kinds |-> {}, ids |-> {}, e |-> {},
         p |-> {}, since |-> 0, until |-> 0, limit |-> 0]
(* Every combination of up to three conditions.                            *)
Keys == Lists \cup Window \cup {"#e", "#p", "#bad", "limit"}
Ask(G, who, s, u) ==
    [given |-> G,
     authors |-> IF "authors" \in G THEN {p1} ELSE {},
     kinds |-> IF "kinds" \in G THEN {1} ELSE {},
     ids |-> IF "ids" \in G THEN {n1} ELSE {},
     e |-> IF "#e" \in G THEN {who} ELSE {},
     p |-> IF "#p" \in G THEN {p1} ELSE {},
     since |-> IF "since" \in G THEN s ELSE 0,
     until |-> IF "until" \in G THEN u ELSE 0,
     limit |-> IF "limit" \in G THEN 1 ELSE 0]
AnyFilter == {Ask(G, x, 1, 3) : G \in {K \in SUBSET Keys : Cardinality(K) <= 3},
                                x \in {n1, junk}}
Follow == {Ask(G, n1, s, 3) : G \in Followed \cup Queried, s \in {0, 1}}
AllRequests == {None} \cup AnyFilter \cup Follow

(* Two handlers and contact lists, or an author whose events are deleted,  *)
(* without a subscriber; two handlers and a subscriber whose filter can be *)
(* followed; one handler and any filter.                                   *)
Used == {hev[h] : h \in {g \in Handlers : hpc[g] # "idle"}} \cup acked \cup docs
Ones(S) == \A ev \in Used : \E x \in S : x.id = ev.id
OneTopic ==
    \/ /\ flt = None /\ spc = "none" /\ nb = 0
       /\ Ones(Contacts \cup NoContacts \cup Notes)
       /\ cleaned = {} \/ submits <= 2
    \/ flt \in Follow /\ submits <= 2 /\ Ones(Notes) /\ cleaned \subseteq {p1}
    \/ flt \in AnyFilter /\ submits <= 2 /\ hpc[h2] = "idle"
                        /\ Ones(Notes \cup AuthEv) /\ broken = {}
                        /\ cleaned = {}
=============================================================================

---------------------------- MODULE MCBroadcast ----------------------------
(* Instances of Broadcast for TLC.                                         *)
EXTENDS Broadcast

CONSTANTS a, b, c

Ev(src, kind, to) == [src |-> src, kind |-> kind, to |-> to]
ThreeClients == {a, b, c}
NoClients    == {}
A1  == {a}
B1  == {b}
AC  == {a, c}

(* Notes of two clients, direct messages to a client's first user and to   *)
(* an unknown npub, an AUTH event sent as an EVENT.                         *)
AllKinds == {Ev(a, "note", Nobody), Ev(a, "dm", <<b, 1>>), Ev(b, "dm", Nobody),
             Ev(a, "auth", Nobody)}
Notes    == {Ev(a, "note", Nobody), Ev(b, "note", Nobody)}
Dms      == {Ev(a, "dm", Nobody)}

(* One filter matches; for c two do for what a sends, none for b's.        *)
OneMatch == [p \in Events \X Clients |-> 1]
TwoMatch == [p \in Events \X Clients |-> 2]
Mixed    == [p \in Events \X Clients |->
                IF p[2] # c THEN 1 ELSE IF p[1].src = a THEN 2 ELSE 0]

(* A second event is published only while at most one thing at a time is   *)
(* the matter with b; with one event, everything may.                      *)
Is(x) == IF x THEN 1 ELSE 0
Matters == Is(conn[b] # "up") + gen[b] - 1 + Is(subd[b] # "yes") + Is(old[b])
           + Is(authed[b])
OneAtATime == Len(pub) < MaxEvents \/ Matters <= 1
=============================================================================

---------------------------- MODULE MCClientConn ----------------------------
(* Instances of ClientConn for TLC: the messages of the peer.              *)
EXTENDS ClientConn

CONSTANTS s1, s2

Msg1(type, how, sid, nf) == [type |-> type, how |-> how, sid |-> sid, nf |-> nf]
Event(how) == Msg1("EVENT", how, s1, 0)
AuthOk     == Msg1("AUTH", "ok", s1, 0)

(* Every kind of EVENT, with the authentication some of them need.         *)
EventMsgs == {Event(x) : x \in {"malformed", "blocked", "badsig", "contacts",
                                "dm", "authkind", "note"}} \cup {AuthOk}
(* Subscriptions: updates, closes of the right and of the wrong one.       *)
ReqMsgs == {Msg1("REQ", "ok", s1, 2), Msg1("REQ", "ok", s2, 0),
            Msg1("REQ", "badfilter", s1, 0), Msg1("CLOSE", "ok", s1, 0),
            Msg1("CLOSE", "bad", s1, 0), Msg1("ping", "-", s1, 0)}
(* A bit of everything, for the authenticated relay.                       *)
AuthMsgs == {Msg1("AUTH", x, s1, 0) : x \in {"malformed", "badurl", "wrongkind",
                                             "mismatch", "ok"}}
            \cup {Event("note"), Event("dm"), Msg1("REQ", "ok", s1, 1),
                  Msg1("badjson", "-", s1, 0)}
(* What ends goroutines.                                                   *)
EndMsgs == {Msg1("badutf8", "-", s1, 0), Msg1("ping", "-", s1, 0),
            Msg1("text", "-", s1, 0), Msg1("ignored", "-", s1, 0),
            Msg1("REQ", "ok", s1, 1)}
LiveMsgs == {Msg1("badutf8", "-", s1, 0), Msg1("ping", "-", s1, 0),
             Event("note"), Msg1("CLOSE", "ok", s1, 0), Msg1("REQ", "ok", s1, 2)}
(* One kind of message is enough to refute a promise about it.             *)
CloseMsgs == {Msg1("CLOSE", "ok", s1, 0)}
TwoSids == {s1, s2}
AllMsgs == EventMsgs \cup ReqMsgs \cup AuthMsgs \cup EndMsgs

(* A peer talks about one thing, on a relay for which it matters, and the  *)
(* leftovers of a recycled client matter to subscriptions.                 *)
Said == {inb[k] : k \in 1..Len(inb)} \cup (IF rpc = "offer" THEN {pend} ELSE {})
Leftovers == sub # NoSub /\ \A m \in Said : m.type # "REQ"
OneTopic ==
    \/ /\ access = "public" /\ ~Leftovers
       /\ Said \subseteq EventMsgs \/ Said \subseteq EndMsgs
    \/ access = "unknown" /\ Said \subseteq ReqMsgs
    \/ /\ access = "authenticated" /\ Said \subseteq AuthMsgs
       /\ Leftovers => Cardinality(Said) <= 1 /\ Len(inb) <= 2
=============================================================================

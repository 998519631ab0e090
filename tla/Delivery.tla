------------------------------ MODULE Delivery ------------------------------
(***************************************************************************)
(* What the broadcast of new events promises to the clients: an abstract   *)
(* specification, of which Broadcast is an implementation.                 *)
(*                                                                         *)
(* There are no channels and no goroutines: clients are chosen for an      *)
(* event that was announced, and it is delivered to one in a single step,  *)
(* or never.  A client has one connection after the other.                 *)
(***************************************************************************)
EXTENDS Integers, Sequences, FiniteSets

CONSTANTS Clients, Events, Matching       \* as in Broadcast

VARIABLES pub, by,   \* the events, in the order of their announcement, and
                     \* the connections of their sources
          gen,       \* which connection each client has
          authed,    \* the clients that authenticated
          chosen,    \* which connections were chosen for which events
          sent       \* what was delivered to each client's connection

deliveryVars == <<pub, by, gen, authed, chosen, sent>>

(* No AUTH events, not one's own, and direct messages only for those who   *)
(* authenticated.                                                          *)
MayHave(n, c) == /\ pub[n].kind # "auth"
                 /\ ~(pub[n].src = c /\ by[n] = gen[c])
                 /\ pub[n].kind = "dm" => authed[c]

(* How often: as the addressee, or once per matching filter.               *)
Addressee(x) == pub[x.n].kind = "dm" /\ pub[x.n].to = <<x.c, x.g>>
Share(x) == IF Addressee(x) THEN 1 ELSE Matching[pub[x.n], x.c]
Had(x) == Cardinality({i \in 1..Len(sent[x.c]) : /\ sent[x.c][i].n = x.n
                                                /\ sent[x.c][i].g = x.g})

Init == /\ pub = <<>> /\ by = <<>> /\ chosen = {}
        /\ gen = [c \in Clients |-> 1]
        /\ authed \in [Clients -> BOOLEAN]
        /\ sent = [c \in Clients |-> <<>>]

Announce(e) ==
    /\ pub' = Append(pub, e) /\ by' = Append(by, gen[e.src])
    /\ UNCHANGED <<gen, authed, chosen, sent>>

Authenticate(c) ==
    /\ authed' = [authed EXCEPT ![c] = TRUE]
    /\ UNCHANGED <<pub, by, gen, chosen, sent>>

(* Another connection, to which nothing was sent yet.                      *)
Renew(c) ==
    /\ gen' = [gen EXCEPT ![c] = @ + 1]
    /\ authed' = [authed EXCEPT ![c] = FALSE]
    /\ sent' = [sent EXCEPT ![c] = <<>>]
    /\ UNCHANGED <<pub, by, chosen>>

Choose(c, n) ==
    /\ MayHave(n, c)
    /\ chosen' = chosen \cup {[n |-> n, c |-> c, g |-> gen[c]]}
    /\ UNCHANGED <<pub, by, gen, authed, sent>>

(* After what was announced later, only a direct message to its addressee. *)
Deliver(x) ==
    LET direct == Addressee(x)
    IN  /\ Had(x) < Share(x)
        /\ \A i \in 1..Len(sent[x.c]) :
              direct \/ sent[x.c][i].direct \/ sent[x.c][i].n <= x.n
        /\ sent' = [sent EXCEPT ![x.c] =
                        Append(@, [n |-> x.n, direct |-> direct, g |-> x.g])]
        /\ UNCHANGED <<pub, by, gen, authed, chosen>>

Next == \/ \E e \in Events : Announce(e)
        \/ \E c \in Clients : \/ Authenticate(c) \/ Renew(c)
                              \/ \E n \in 1..Len(pub) : Choose(c, n)
        \/ \E x \in chosen : Deliver(x)

Spec == Init /\ [][Next]_deliveryVars
=============================================================================

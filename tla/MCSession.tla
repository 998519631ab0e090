----------------------------- MODULE MCSession -----------------------------
(* Instances of Session for TLC.                                           *)
EXTENDS Session, TLC

CONSTANTS r1, r2, r3, o1, o2, o3, c1, c2, c3, a1, a2, n1, n2

AllTasks == {"HandleClient", "ReceiveMsg"} \X Requests
Alike == Permutations(Requests) \cup Permutations(IPs) \cup Permutations(Names)

(* Two connections and a third, of the same name, that uses again what is  *)
(* released, or two of the same address that are evicted, one of which     *)
(* authenticates or subscribes.                                            *)
Evicted == \E r \in Requests :
    /\ at[r] \in {"registered", "greeted", "accepted"}
    /\ key[r] \notin DOMAIN ledger
Refused == {r \in Requests : at[r] \in {"dropped", "unserved"}}
Used == {r \in Requests : at[r] # "new"}
Quiet == /\ bc = NoClient /\ ~Evicted
         /\ \A o \in Clients : ~sub[o] /\ ~authed[o]
Again == /\ \E r \in Requests : at[r] \in {"new", "returned", "gone"}
         /\ Cardinality(made) <= 4
         /\ \/ Cardinality(Used) <= 2
            \/ \A o, p \in Clients :
                   NoKey \in {cname[o], cname[p]} \/ cname[o] = cname[p]
OneTopic ==
    \/ Quiet /\ Again /\ Cardinality(Refused) <= 1
       /\ (Refused # {} => Cardinality(Used) <= 2)
    \/ /\ Cardinality(Used) <= 2 /\ Refused = {}
       /\ \A r, x \in Requests : NoKey \in {ip[r], ip[x]} \/ ip[r] = ip[x]
       /\ Cardinality({o \in Clients : sub[o]})
          + Cardinality({o \in Clients : authed[o]}) <= 1
=============================================================================

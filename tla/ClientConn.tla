----------------------------- MODULE ClientConn -----------------------------
(***************************************************************************)
(* One websocket connection of the relay, from the return of               *)
(* Session.Register to the hand-over of the client to Session.Remove.      *)
(*                                                                         *)
(* Client.ReceiveMsg (internal/services/client.go) runs three goroutines:  *)
(* the reader (websocket -> inmsg), the dispatcher (inmsg -> handlers ->   *)
(* msgwt) and the writer (msgwt -> websocket).  They meet in two buffered  *)
(* channels, in a cancellable context, in a WaitGroup and in the variable  *)
(* errch, which the writer and the dispatcher share without a lock.        *)
(*                                                                         *)
(* A handler is a script: the sequence of its effects in program order,    *)
(* one of which is performed per step, so that the other goroutines and    *)
(* the broadcaster interleave with every send, store and assignment.       *)
(* A channel is its history and the number of elements taken from it.      *)
(***************************************************************************)
EXTENDS Integers, Sequences, FiniteSets

CONSTANTS PeerMsgs,      \* the messages the peer may send
          Sids, NoSub,   \* subscription ids, and the empty string
          Leftover,      \* subscriptions a recycled client may start with
          RelayAccess,   \* the values of relay_access in the configuration
          InmsgCap, MsgwtCap, NewEventCap,
          MayStop,       \* whether the peer may stop reading
          MaxMsgs, MaxBcasts   \* bounds on the environment

Access    == {"public", "authenticated", "paid", "unknown"}
MsgType   == {"ignored", "badutf8", "ping", "text", "badjson", "other",
              "EVENT", "REQ", "CLOSE", "AUTH"}
How       == {"-", "ok", "malformed", "badsig", "blocked", "contacts", "dm",
              "authkind", "note", "badfilter", "bad", "wrongkind", "badurl",
              "mismatch"}
Message   == [type : MsgType, how : How, sid : Sids, nf : 0..8]

ASSUME CapAssumption ==
    /\ InmsgCap \in Nat \ {0} /\ MsgwtCap \in Nat \ {0}
    /\ NewEventCap \in Nat \ {0}
    /\ MaxMsgs \in Nat /\ MaxBcasts \in Nat /\ MayStop \in BOOLEAN
ASSUME DataAssumption ==
    /\ PeerMsgs \subseteq Message
    /\ Sids # {} /\ NoSub \notin Sids
    /\ Leftover \subseteq Sids \cup {NoSub}
    /\ RelayAccess \subseteq Access

VARIABLES
    access,     \* relay_access, which NewSession sets once
    peer,       \* "up", "gone" (vanished), "closed" (the connection is)
    reads,      \* the peer reads what it is sent
    werr,       \* gorilla's sticky write error: "none", "close", "other"
    rpc, pend,  \* the reader, and the message it offers to inmsg
    inb, h,     \* inmsg: what was put in it, how much the dispatcher took
    cancelled,  \* the context is done
    dpc, todo,  \* the dispatcher, and what is left of the handler it runs
    sub, nfil,  \* Subscription_id, len(Filetrs)
    authed,     \* Authed
    wpc,        \* the writer
    out, w,     \* msgwt: what was put in it, how much the writer took
    errch,      \* the shared error variable: "nil", "close", "other", "critical"
    stored,     \* the EVENT messages whose event is in the database
    pub, taken  \* NewEvent: what this client put in it, how much was taken

reader     == <<rpc, pend, inb>>
dispatcher == <<h, dpc, todo, sub, nfil, authed, stored, pub>>
writer     == <<wpc, w>>
network    == <<access, peer, reads, werr>>
vars == <<reader, dispatcher, writer, network, out, cancelled, errch, taken>>

-----------------------------------------------------------------------------
(* What the client is told.  re = 0 marks what answers no message of it.   *)

Reply == [re : Nat, what : {"OK", "NotOK", "NOTICE", "PONG", "EVENTS", "EOSE",
                            "AUTH", "BCAST"}, f : Nat]
Reply1(n, what, f) == [re |-> n, what |-> what, f |-> f]

(* MUTANT: an off-by-one in the capacity. *)
MutRoom(s, n, cap) == Len(s) - n <= cap
(* Room in a channel of capacity cap that took s and gave n.               *)
Room(s, n, cap) == Len(s) - n < cap

(* The steps of a handler.                                                 *)
OpNames == {"put", "fetch", "store", "publish", "sub", "unsub", "auth", "errFM"}
Op(o, n)        == [op |-> o, re |-> n, what |-> "NOTICE", left |-> {}]
Put(n, what)    == [op |-> "put", re |-> n, what |-> what, left |-> {}]
(* MUTANT: a filter's goroutine that never returns. *)
MutFetch(n, batch) == [op |-> "fetch", re |-> n, what |-> "EVENTS",
                       left |-> batch \cup {0}]
Fetch(n, batch) == [op |-> "fetch", re |-> n, what |-> "EVENTS", left |-> batch]

-----------------------------------------------------------------------------
(* The handlers: the message's number and content, and what the            *)
(* environment answers, determine the script.                              *)

(* What StoreEvent / StoreEventK3 may answer.  "partial": the document was *)
(* created, its tags were not.  "skipped": nil without storing, for an     *)
(* AUTH event and for a contact list without tags.                         *)
StoreResults(m) ==
    CASE m.how = "authkind" -> {"skipped", "failed"}
      [] m.how = "contacts" -> {"stored", "skipped", "partial", "failed"}
      [] OTHER              -> {"stored", "partial", "failed"}

StoreSteps(n, res) == IF res \in {"stored", "partial"}
                      THEN <<Op("store", n)>> ELSE <<>>
(* MUTANT: only notes are announced. *)
MutPublishSteps(n, m) == IF m.how = "note" THEN <<>> ELSE <<Op("publish", n)>>
(* Only handlers past the switch on the kind announce the event.           *)
PublishSteps(n, m) == IF m.how = "contacts" THEN <<>> ELSE <<Op("publish", n)>>

handlerEventMsgs(n, m, res) ==
    CASE m.how \in {"malformed", "badsig"} ->
            <<Put(n, "NotOK"), Op("errFM", n)>>
      [] m.how = "blocked" ->
            <<Put(n, "NOTICE"), Op("errFM", n)>>
      [] m.how = "dm" /\ ~authed ->
            <<Put(n, "NOTICE"), Put(n, "NotOK")>>
      [] OTHER ->
            StoreSteps(n, res) \o
            (IF res \in {"stored", "skipped"}
             THEN PublishSteps(n, m) \o <<Put(n, "OK")>>
             ELSE <<Put(n, "NotOK"), Op("errFM", n)>>)

(* MUTANT: EOSE without waiting for the filters. *)
MutSubscriptionSuplier(n, m, failing) ==
    <<Put(n, "EOSE"), Fetch(n, (1..m.nf) \ failing)>>
(* One goroutine per filter queries and sends one batch; eg.Wait() joins   *)
(* them and returns an error if one of them failed.                        *)
SubscriptionSuplier(n, m, failing) ==
    <<Fetch(n, (1..m.nf) \ failing)>> \o
    (IF failing = {} THEN <<Put(n, "EOSE")>> ELSE <<Op("errFM", n)>>)

handlerReqMsgs(n, m, failing) ==
    IF m.how # "ok"          \* missing or bad id, invalid filter
    THEN <<Put(n, "NOTICE"), Op("errFM", n)>>
    ELSE <<Op("sub", n), Put(n, "NOTICE")>> \o SubscriptionSuplier(n, m, failing)

(* The error is sent to errFM whatever the result.                         *)
handlerCloseSubsMsgs(n, m) ==
    (IF m.how = "ok" /\ m.sid = sub THEN <<Op("unsub", n)>> ELSE <<>>)
    \o <<Put(n, "NOTICE"), Op("errFM", n)>>

handlerAuthMsgs(n, m) ==
    CASE m.how = "malformed" ->     \* no return: the nil map fails again
            <<Put(n, "NotOK"), Put(n, "NotOK"), Op("errFM", n)>>
      [] m.how = "wrongkind" -> <<Put(n, "NotOK")>>
      [] m.how = "badurl" ->
            <<Put(n, "NOTICE"), Put(n, "NotOK"), Op("errFM", n)>>
      [] m.how = "ok" -> <<Op("auth", n), Put(n, "OK")>>
      [] OTHER -> <<Put(n, "NotOK"), Op("errFM", n)>>

(* MUTANT: the gate only knows the paid relay. *)
MutGated(m) == access = "paid" /\ m.type # "AUTH" /\ ~authed
(* Restricted relays serve nothing but AUTH before authentication.         *)
Gated(m) == /\ access \in {"authenticated", "paid"}
            /\ m.type # "AUTH"
            /\ ~authed

dispatchNostrMsgs(n, m, res, failing) ==
    CASE m.type = "badjson" -> <<>>
      [] m.type # "badjson" /\ Gated(m) -> <<Put(n, "NOTICE"), Op("errFM", n)>>
      [] m.type = "EVENT" /\ ~Gated(m) -> handlerEventMsgs(n, m, res)
      [] m.type = "REQ"   /\ ~Gated(m) -> handlerReqMsgs(n, m, failing)
      [] m.type = "CLOSE" /\ ~Gated(m) -> handlerCloseSubsMsgs(n, m)
      [] m.type = "AUTH"  -> handlerAuthMsgs(n, m)
      [] OTHER -> <<Put(n, "NOTICE")>>

Script(n, m, res, failing) ==
    CASE m.type = "ignored" -> <<>>
      [] m.type = "ping"    -> <<Put(n, "PONG")>>
      [] m.type = "text"    -> <<Put(n, "NOTICE")>>
      [] OTHER              -> dispatchNostrMsgs(n, m, res, failing)

-----------------------------------------------------------------------------
(* Session.Register: fresh channels, nobody authenticated, the greeting    *)
(* already in msgwt.  The subscription is that of the recycled object.     *)

Greeting == IF access = "public" THEN <<>>
            ELSE <<Reply1(0, IF access = "authenticated" THEN "AUTH"
                             ELSE "NOTICE", 0)>>

NoMsg == [type |-> "ignored", how |-> "-", sid |-> CHOOSE s \in Sids : TRUE,
          nf |-> 0]

Init ==
    /\ access \in RelayAccess
    /\ peer = "up" /\ reads = TRUE /\ werr = "none"
    /\ rpc = "read" /\ pend = NoMsg /\ inb = <<>> /\ h = 0
    /\ cancelled = FALSE
    /\ dpc = "recv" /\ todo = <<>>
    /\ sub \in Leftover /\ nfil \in (IF sub = NoSub THEN {0} ELSE 0..1)
    /\ authed = FALSE
    /\ wpc = "recv" /\ out = Greeting /\ w = 0
    /\ errch = "nil"
    /\ stored = {} /\ pub = <<>> /\ taken = 0

-----------------------------------------------------------------------------
(* WriteJSON has no deadline (TuneClientConn): it does not return while    *)
(* the peer is connected and does not read.                                *)
WriteHangs == wpc = "write" /\ peer = "up" /\ ~reads /\ werr = "none"

(* The server sends a close frame, after which no write succeeds; one that *)
(* has to wait for a write is given up instead, after a second or two.     *)
CloseFrame ==
    werr' \in IF werr # "none" \/ WriteHangs THEN {werr}
              ELSE IF reads THEN {"close"} ELSE {"close", "other"}

(* The reader.                                                             *)

(* ReadMessage returned a message.                                         *)
ReaderRead(m) ==
    /\ rpc = "read" /\ peer # "closed" /\ Len(inb) < MaxMsgs
    /\ pend' = m /\ rpc' = "offer"
    /\ UNCHANGED <<dispatcher, writer, network, inb, out, cancelled, errch, taken>>

(* ReadMessage failed: the peer vanished, or it sent a close frame, upon   *)
(* which the close handler closes the network connection.                  *)
ReaderFails(closing) ==
    /\ rpc = "read"
    /\ \/ closing /\ peer = "up" /\ peer' = "closed"
          /\ werr' = (IF werr = "none" THEN "close" ELSE werr)
          /\ UNCHANGED <<access, reads>>
       \/ ~closing /\ peer = "gone" /\ UNCHANGED network
    /\ cancelled' = TRUE /\ rpc' = "wait"
    /\ UNCHANGED <<dispatcher, writer, pend, inb, out, errch, taken>>

(* It failed because of the message: an oversized one, which gorilla       *)
(* answers with a close frame.                                             *)
ReaderRefuses ==
    /\ rpc = "read" /\ peer = "up" /\ CloseFrame
    /\ cancelled' = TRUE /\ rpc' = "wait"
    /\ UNCHANGED <<dispatcher, writer, access, peer, reads, pend, inb, out, errch,
                   taken>>

(* select { case <-ctx.Done(): ... case c.inmsg <- ...: }                  *)
ReaderOffers ==
    /\ rpc = "offer" /\ Room(inb, h, InmsgCap)
    /\ inb' = Append(inb, pend) /\ rpc' = "read"
    /\ UNCHANGED <<dispatcher, writer, network, pend, out, cancelled, errch, taken>>

ReaderSeesDone ==
    /\ rpc = "offer" /\ cancelled
    /\ rpc' = "waitFM"
    /\ UNCHANGED <<dispatcher, writer, network, pend, inb, out, cancelled, errch, taken>>

(* MUTANT: the WaitGroup counts the writer only. *)
MutReaderJoins ==
    /\ rpc \in {"wait", "waitFM"} /\ wpc = "done"
    /\ rpc' = IF rpc = "wait" THEN "handover" ELSE "stuck"
    /\ UNCHANGED <<dispatcher, writer, network, pend, inb, out, cancelled, errch, taken>>

(* MUTANT: only the path through ctx.Done() counts down the WaitGroup. *)
MutReaderJoinsDone ==
    /\ rpc = "waitFM" /\ wpc = "done" /\ dpc = "done"
    /\ rpc' = "stuck"
    /\ UNCHANGED <<dispatcher, writer, network, pend, inb, out, cancelled, errch, taken>>

(* wg.Wait() returned.  On the way through ctx.Done() the reader then      *)
(* sends to errFM, which nobody receives from: "stuck" has no way out.     *)
ReaderJoins ==
    /\ rpc \in {"wait", "waitFM"} /\ wpc = "done" /\ dpc = "done"
    /\ rpc' = IF rpc = "wait" THEN "handover" ELSE "stuck"
    /\ UNCHANGED <<dispatcher, writer, network, pend, inb, out, cancelled, errch, taken>>

(* clientCH <- c                                                           *)
ReaderHandsOver ==
    /\ rpc = "handover" /\ rpc' = "done"
    /\ UNCHANGED <<dispatcher, writer, network, pend, inb, out, cancelled, errch, taken>>

Reader == ReaderOffers \/ ReaderSeesDone \/ ReaderJoins \/ ReaderHandsOver

-----------------------------------------------------------------------------
(* The dispatcher.                                                         *)

(* The next message is taken when the handler of the last one returned.    *)
Idle == dpc = "recv" /\ todo = <<>>

(* MUTANT: a goroutine per message, the new handler overtakes the old one. *)
MutBegin(script) == /\ dpc = "recv" /\ h < Len(inb)
                    /\ h' = h + 1
                    /\ todo' = script \o todo

Begin(script) == /\ Idle /\ h < Len(inb)
                 /\ h' = h + 1
                 /\ todo' = script

Dispatch ==
    /\ h < Len(inb) /\ inb[h + 1].type # "badutf8"
    /\ \E res \in StoreResults(inb[h + 1]), failing \in SUBSET (1..inb[h + 1].nf) :
        /\ inb[h + 1].type # "EVENT" => res = "failed"
        /\ inb[h + 1].type # "REQ" => failing = {}
        /\ Begin(Script(h + 1, inb[h + 1], res, failing))
    /\ UNCHANGED <<reader, writer, network, dpc, sub, nfil, authed, out,
                   cancelled, errch, stored, pub, taken>>

(* Invalid utf8: a close frame is sent, the dispatcher returns a CRITICAL  *)
(* error, which the loop around it stores in errch.                        *)
DispatchBadUtf8 ==
    /\ h < Len(inb) /\ inb[h + 1].type = "badutf8"
    /\ Begin(<<>>) /\ CloseFrame
    /\ errch' = "critical" /\ dpc' = "check"
    /\ UNCHANGED <<reader, writer, access, peer, reads, sub, nfil, authed, out,
                   cancelled, stored, pub, taken>>

(* errch is read again, whoever wrote it last.                             *)
DispatcherChecks ==
    /\ dpc = "check"
    /\ IF errch = "critical"
       THEN cancelled' = TRUE /\ dpc' = "done"
       ELSE dpc' = (IF cancelled THEN "done" ELSE "recv") /\ UNCHANGED cancelled
    /\ UNCHANGED <<reader, writer, network, h, todo, sub, nfil, authed, out,
                   errch, stored, pub, taken>>

(* The head of the script is the operation o.                              *)
Doing(o) == dpc = "recv" /\ todo # <<>> /\ Head(todo).op = o
Now  == Head(todo).re
Msg  == inb[Now]
Next_op == todo' = Tail(todo)

DoPut ==
    /\ Doing("put") /\ Room(out, w, MsgwtCap)
    /\ out' = Append(out, Reply1(Now, Head(todo).what, 0))
    /\ Next_op
    /\ UNCHANGED <<reader, writer, network, h, dpc, sub, nfil, authed,
                   cancelled, errch, stored, pub, taken>>

(* One of the filters' goroutines sends its batch.                         *)
DoFetch(f) ==
    /\ Doing("fetch") /\ f \in Head(todo).left /\ Room(out, w, MsgwtCap)
    /\ out' = Append(out, Reply1(Now, "EVENTS", f))
    /\ todo' = <<Fetch(Now, Head(todo).left \ {f})>> \o Tail(todo)
    /\ UNCHANGED <<reader, writer, network, h, dpc, sub, nfil, authed,
                   cancelled, errch, stored, pub, taken>>

(* eg.Wait() returns.                                                      *)
DoFetched ==
    /\ Doing("fetch") /\ Head(todo).left = {}
    /\ Next_op
    /\ UNCHANGED <<reader, writer, network, h, dpc, sub, nfil, authed, out,
                   cancelled, errch, stored, pub, taken>>

DoStore ==
    /\ Doing("store") /\ stored' = stored \cup {Now}
    /\ Next_op
    /\ UNCHANGED <<reader, writer, network, h, dpc, sub, nfil, authed, out,
                   cancelled, errch, pub, taken>>

(* NewEvent <- e                                                           *)
DoPublish ==
    /\ Doing("publish") /\ Room(pub, taken, NewEventCap)
    /\ pub' = Append(pub, Now)
    /\ Next_op
    /\ UNCHANGED <<reader, writer, network, h, dpc, sub, nfil, authed, out,
                   cancelled, errch, stored, taken>>

(* A first subscription appends its filters, a later one replaces them.    *)
DoSub ==
    /\ Doing("sub")
    /\ sub' = Msg.sid
    /\ nfil' = IF sub # NoSub THEN Msg.nf ELSE nfil + Msg.nf
    /\ Next_op
    /\ UNCHANGED <<reader, writer, network, h, dpc, authed, out, cancelled,
                   errch, stored, pub, taken>>

(* MUTANT: CLOSE keeps the filters. *)
MutDoUnsub ==
    /\ Doing("unsub") /\ sub' = NoSub
    /\ Next_op
    /\ UNCHANGED <<reader, writer, network, h, dpc, nfil, authed, out, cancelled,
                   errch, stored, pub, taken>>

DoUnsub ==
    /\ Doing("unsub") /\ sub' = NoSub /\ nfil' = 0
    /\ Next_op
    /\ UNCHANGED <<reader, writer, network, h, dpc, authed, out, cancelled,
                   errch, stored, pub, taken>>

DoAuth ==
    /\ Doing("auth") /\ authed' = TRUE
    /\ Next_op
    /\ UNCHANGED <<reader, writer, network, h, dpc, sub, nfil, out, cancelled,
                   errch, stored, pub, taken>>

(* errFM is unbuffered and has no receiver: a goroutine at an "errFM" step *)
(* stays there, so there is no action for it.                              *)

DoStep == \/ DoPut \/ DoFetched \/ DoStore \/ DoPublish \/ DoSub \/ DoUnsub
          \/ DoAuth
          \/ \E f \in 1..8 : DoFetch(f)

Dispatcher == Dispatch \/ DispatchBadUtf8 \/ DispatcherChecks \/ DoStep

-----------------------------------------------------------------------------
(* The writer.                                                             *)

WriterTakes ==
    /\ wpc = "recv" /\ w < Len(out)
    /\ w' = w + 1 /\ wpc' = "write"
    /\ UNCHANGED <<reader, dispatcher, network, out, cancelled, errch, taken>>

(* A write to a peer that vanished may still be buffered by the kernel.    *)
WriteOutcomes == IF werr # "none" THEN {werr}
                 ELSE IF peer = "gone" THEN {"none", "other"} ELSE {"none"}

(* MUTANT: the writer leaves its loop after a successful write. *)
MutWriterWrites ==
    /\ wpc = "write"
    /\ \E r \in WriteOutcomes :
        /\ werr' = r
        /\ IF r = "none" THEN wpc' = "done" /\ UNCHANGED errch
                         ELSE wpc' = "check" /\ errch' = r
    /\ UNCHANGED <<reader, dispatcher, access, peer, reads, w, out, cancelled, taken>>

(* For how long the system buffers what a peer does not read is not known. *)
WriterWrites ==
    /\ wpc = "write"
    /\ \E r \in WriteOutcomes :
        /\ werr' = r
        /\ IF r = "none" THEN wpc' = "recv" /\ UNCHANGED errch
                         ELSE wpc' = "check" /\ errch' = r
    /\ UNCHANGED <<reader, dispatcher, access, peer, reads, w, out, cancelled, taken>>

(* Again errch as it is now.                                               *)
WriterChecks ==
    /\ wpc = "check"
    /\ IF errch = "close"
       THEN cancelled' = TRUE /\ wpc' = "done"
       ELSE wpc' = (IF cancelled THEN "done" ELSE "recv") /\ UNCHANGED cancelled
    /\ UNCHANGED <<reader, dispatcher, network, w, out, errch, taken>>

Writer == WriterTakes \/ WriterWrites \/ WriterChecks

-----------------------------------------------------------------------------
(* The environment: the peer, and the broadcaster's goroutines.            *)

PeerVanishes ==
    /\ peer = "up" /\ peer' = "gone"
    /\ UNCHANGED <<reader, dispatcher, writer, access, reads, werr, out, cancelled,
                   errch, taken>>

(* For good: one that pauses is a slow one.                                *)
PeerStops ==
    /\ MayStop /\ peer = "up" /\ reads /\ reads' = FALSE
    /\ UNCHANGED <<reader, dispatcher, writer, access, peer, werr, out, cancelled,
                   errch, taken>>

Bcasts == Cardinality({i \in 1..Len(out) : out[i].what = "BCAST"})

(* filterMatchSingle or NewEventBroadcaster put an event of another client *)
(* in msgwt.  They read the subscription before: the event may arrive      *)
(* after a CLOSE, and after the hand-over.                                 *)
EverSubscribed ==
    \/ sub # NoSub
    \/ \E k \in 1..h : inb[k].type \in {"REQ", "CLOSE"} /\ inb[k].how = "ok"

Broadcast ==
    /\ EverSubscribed
    /\ Bcasts < MaxBcasts /\ Room(out, w, MsgwtCap)
    /\ out' = Append(out, Reply1(0, "BCAST", 0))
    /\ UNCHANGED <<reader, dispatcher, writer, network, cancelled, errch, taken>>

BroadcasterTakes ==
    /\ taken < Len(pub) /\ taken' = taken + 1
    /\ UNCHANGED <<reader, dispatcher, writer, network, out, cancelled, errch>>

Environment == \/ \E m \in PeerMsgs : ReaderRead(m)
               \/ \E closing \in BOOLEAN : ReaderFails(closing)
               \/ ReaderRefuses
               \/ PeerVanishes \/ PeerStops \/ Broadcast \/ BroadcasterTakes

Next == Reader \/ Dispatcher \/ Writer \/ Environment

Spec == Init /\ [][Next]_vars

(* The Go scheduler runs every goroutine that can run.  Nothing is assumed *)
(* of the peer or of the broadcaster: a write returns if the peer reads,   *)
(* or the connection is gone, or was written off.                          *)
FairSpec == /\ Spec /\ WF_vars(Reader) /\ WF_vars(Dispatcher)
            /\ WF_vars(WriterTakes \/ WriterChecks)
            /\ WF_vars(~WriteHangs /\ WriterWrites)

-----------------------------------------------------------------------------
(* Properties.                                                             *)

Steps == [op : OpNames, re : Nat, what : {"OK", "NotOK", "NOTICE", "PONG",
          "EVENTS", "EOSE", "AUTH", "BCAST"}, left : SUBSET (1..8)]

(* Every variable has its type, and no channel holds more than it can.     *)
TypeOK ==
    /\ access \in RelayAccess
    /\ peer \in {"up", "gone", "closed"} /\ reads \in BOOLEAN /\ werr \in {"none", "close", "other"}
    /\ rpc \in {"read", "offer", "wait", "waitFM", "handover", "stuck", "done"}
    /\ pend \in Message /\ inb \in Seq(Message)
    /\ h \in 0..Len(inb) /\ Len(inb) - h <= InmsgCap
    /\ cancelled \in BOOLEAN
    /\ dpc \in {"recv", "check", "done"} /\ todo \in Seq(Steps)
    /\ sub \in Sids \cup {NoSub} /\ nfil \in Nat /\ authed \in BOOLEAN
    /\ wpc \in {"recv", "write", "check", "done"}
    /\ out \in Seq(Reply) /\ w \in 0..Len(out) /\ Len(out) - w <= MsgwtCap
    /\ errch \in {"nil", "close", "other", "critical"}
    /\ stored \subseteq Nat /\ pub \in Seq(Nat)
    /\ taken \in 0..Len(pub) /\ Len(pub) - taken <= NewEventCap

(* Once the reader is past wg.Wait(), and so once Session.Remove may close *)
(* the connection and recycle the client, no goroutine of this connection  *)
(* runs a handler or holds a message it took from msgwt (ReceiveMsg).      *)
HandoverQuiescent ==
    rpc \in {"handover", "stuck", "done"} =>
        /\ wpc = "done" /\ dpc = "done" /\ todo = <<>> /\ cancelled

(* The peer is answered in the order in which it asked: all the replies to *)
(* a message, the batches of its filters included, precede all the replies *)
(* to a later one, whatever the broadcaster puts between them.             *)
RepliesInOrder ==
    \A i, j \in 1..Len(out) :
        i < j /\ out[i].re > 0 /\ out[j].re > 0 => out[i].re <= out[j].re

(* EOSE is sent after the batch of every filter of its REQ, each of which  *)
(* was sent once, and it is the last reply to that REQ                     *)
(* (SubscriptionSuplier, fetchAllFilters).                                 *)
EoseIsLast ==
    \A j \in 1..Len(out) : out[j].what = "EOSE" =>
        /\ \A f \in 1..inb[out[j].re].nf :
              Cardinality({i \in 1..(j - 1) : /\ out[i].what = "EVENTS"
                                             /\ out[i].re = out[j].re
                                             /\ out[i].f = f}) = 1
        /\ \A i \in (j + 1)..Len(out) : out[i].re # out[j].re

Answers(n, verdict) == \E i \in 1..Len(out) : out[i].re = n /\ out[i].what = verdict
(* Kinds the relay acknowledges without keeping them.                      *)
Kept(m) == m.type = "EVENT" /\ m.how \notin {"authkind", "contacts"}

(* An EVENT acknowledged with OK true is in the database and was handed to *)
(* the broadcaster before the acknowledgement (handlerEventMsgs); no EVENT *)
(* is both accepted and rejected.                                          *)
OkMeansKept ==
    \A n \in 1..Len(inb) :
        /\ Kept(inb[n]) /\ Answers(n, "OK")
             => n \in stored /\ \E k \in 1..Len(pub) : pub[k] = n
        /\ inb[n].type = "EVENT" => ~(Answers(n, "OK") /\ Answers(n, "NotOK"))

Restricted == access \in {"authenticated", "paid"}
(* What a peer gets by asking for it.                                      *)
Granted == {"OK", "EVENTS", "EOSE"}

(* While a peer has not authenticated, no request of its has an effect on  *)
(* a restricted relay: no event is stored or announced, no subscription    *)
(* installed, changed or closed, no event returned; on any relay no direct *)
(* message is stored (dispatchNostrMsgs, handlerEventMsgs).  It need not   *)
(* ask, though: what the broadcaster sends it for a subscription that the  *)
(* recycled client still has is not its request.                           *)
RequestsNeedAuth ==
    [][~authed =>
        /\ Restricted =>
            /\ UNCHANGED <<sub, nfil, stored, pub>>
            /\ \A i \in (Len(out) + 1)..Len(out') : out'[i].what \notin Granted
        /\ \A n \in stored' \ stored : inb[n].how # "dm"]_vars

(* A subscription the client closed has no filters left, so that the first *)
(* REQ after a CLOSE, which appends, installs its own filters only.        *)
NoSubNoFilters == sub = NoSub => nfil = 0

Handled(n) == h > n \/ (h = n /\ Idle)

(* The sends on which the dispatcher may wait for ever.                    *)
Blocked ==
    \/ Doing("errFM")
    \/ Doing("publish") /\ ~Room(pub, taken, NewEventCap)
    \/ /\ Doing("put") \/ Doing("fetch")
       /\ ~Room(out, w, MsgwtCap) /\ (wpc = "done" \/ WriteHangs)
Wedged == Blocked \/ dpc = "done"

(* Every message in inmsg is handled, unless the dispatcher is wedged for  *)
(* ever: it sends to errFM, NewEvent is full, msgwt is full and the writer *)
(* ended or hangs in a write to a peer that does not read, or the          *)
(* dispatcher itself ended.  A slow peer wedges nobody, nor do concurrent  *)
(* broadcasts, nor does the error variable the goroutines share.           *)
HandledOrWedged ==
    \A n \in 1..MaxMsgs : (Len(inb) >= n) ~> (Handled(n) \/ []Wedged)

(* A goroutine of the connection that nothing will wake: it ranges over a  *)
(* channel that is empty and that nobody closes, or it is blocked, in a    *)
(* send or in a write.                                                     *)
Parked == \/ wpc = "recv" /\ w = Len(out)
          \/ WriteHangs
          \/ Idle /\ h = Len(inb)
          \/ Blocked

(* Once the read failed, the client is sent to clientCH and released by    *)
(* Session.Remove, unless from some point on the writer or the dispatcher  *)
(* is parked (ReceiveMsg cancels the context and waits for both).          *)
DisconnectEnds == (rpc = "wait") ~> (rpc = "done" \/ []Parked)

(* Whatever was put in msgwt is written, unless a write failed or hangs    *)
(* for ever; whatever the dispatcher, the filters and errch do meanwhile.  *)
WrittenOrFailed ==
    \A n \in 1..(MaxMsgs + 1) :
        (Len(out) >= n) ~>
            ((w >= n /\ wpc # "write") \/ werr # "none" \/ []WriteHangs)

-----------------------------------------------------------------------------
(* What comments of the code say, and the code does not do.                *)

(* client.go, dispatchNostrMsgs: "independently of the result the clients  *)
(* connection must be closed".  Once a CLOSE was taken from inmsg, the     *)
(* connection is eventually closed.                                        *)
CloseClosesConnection ==
    \A n \in 1..MaxMsgs :
        (h >= n /\ inb[n].type = "CLOSE") ~> (rpc = "done" \/ peer # "up")
=============================================================================

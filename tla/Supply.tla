------------------------------- MODULE Supply -------------------------------
(***************************************************************************)
(* One subscription with one filter, from its REQ on, while other clients' *)
(* events are stored and broadcast: the handler of the REQ installs the    *)
(* filter, then queries the database (fetchData) and sends a batch; the    *)
(* broadcaster sends every event that is published while the filter is     *)
(* installed and matches it (filterMatchSingle).                           *)
(*                                                                         *)
(* Composes EventStore, FetchData and FilterMatch.  The channels between   *)
(* them, and the other clients, are the subject of module Broadcast.       *)
(***************************************************************************)
EXTENDS EventStore, FetchData, FilterMatch

CONSTANT Requests          \* the filters the subscriber may send
ASSUME RequestAssumption ==
    Requests \subseteq Filter /\ \A f \in Requests : IsFiniteSet(f.kinds)

VARIABLES
    spc,      \* "none", "rejected", "subscribed", "failed", "supplied"
    flt,      \* the filter
    result,   \* what the query returned
    sent,     \* the batch that was sent
    nb,       \* how much was taken from NewEvent
    offered,  \* history: events broadcast since the filter was installed
    live      \* those that were sent

subscriber == <<spc, flt, result, sent>>
delivery   == <<nb, offered, live>>
vars == <<storeVars, subscriber, delivery>>

Init ==
    /\ StoreInit
    /\ spc = "none" /\ flt \in Requests /\ result = <<>> /\ sent = <<>>
    /\ nb = 0 /\ offered = {} /\ live = {}

(* handlerReqMsgs: an invalid filter ends the REQ.                         *)
Subscribe ==
    /\ spc = "none"
    /\ spc' = IF validateSubsFilters(flt) THEN "subscribed" ELSE "rejected"
    /\ UNCHANGED <<storeVars, flt, result, sent, delivery>>

(* The handler appends the filter before it calls SubscriptionSuplier.     *)
Installed == spc \notin {"none", "rejected"}

(* SubscriptionSuplier: the query, on the database as it is by now.        *)
Supply ==
    /\ spc = "subscribed"
    /\ \E t \in MayHaveTags(flt) : \E o \in fetchData(flt, t, docs) :
        /\ spc' = IF o.ok THEN "supplied" ELSE "failed"
        /\ result' = o.res /\ sent' = Batch(o.res)
    /\ UNCHANGED <<storeVars, flt, delivery>>

(* NewEventBroadcaster and filterMatch: AUTH events go nowhere.            *)
Deliver ==
    /\ nb < Len(pub) /\ nb' = nb + 1
    /\ LET ev == pub[nb + 1]
           to == Installed /\ ev.kind # AuthKind
       IN  \E st \in parseFilter(flt) :
            /\ offered' = IF to THEN offered \cup {ev} ELSE offered
            /\ live' = IF to /\ filterMatchSingle(st, flt, ev)
                       THEN live \cup {ev} ELSE live
    /\ UNCHANGED <<storeVars, subscriber>>

Next == \/ StoreNext /\ UNCHANGED <<subscriber, delivery>>
        \/ Subscribe \/ Supply \/ Deliver

Spec == Init /\ [][Next]_vars

-----------------------------------------------------------------------------
(* Properties.                                                             *)

TypeOK ==
    /\ StoreTypeOK
    /\ spc \in {"none", "rejected", "subscribed", "failed", "supplied"}
    /\ flt \in Filter /\ result \in Seq(Event) /\ sent \in Seq(Event)
    /\ nb \in 0..Len(pub) /\ live \subseteq offered /\ offered \subseteq Event

Asked == flt.given \ {"limit"}

(* Filters whose conditions the query looks at, all of them.  (authors or  *)
(* ids alone are always an error; tags, and until alone, are not looked    *)
(* at; with since, other lists than kinds alone are not; with a limit and  *)
(* no list, the window is not; and a bound of 0 is none.)                  *)
Queried == {{"kinds"}, {"kinds", "since"}, {"kinds", "until"},
            {"kinds", "since", "until"}, {"since"}, {"since", "until"},
            {"authors", "kinds"}, {"authors", "kinds", "until"}}
Positive == /\ "since" \in flt.given => flt.since > 0
            /\ "until" \in flt.given => flt.until > 0
Heeded == /\ Asked \in Queried /\ Positive
          /\ "limit" \in flt.given => "kinds" \in flt.given

(* The query returns no more than the limit asked for, or allowed (a limit *)
(* of 0 counts as one above MaxLimit, and is replaced by that).  What it   *)
(* returns to a filter that it heeds satisfies the filter, no document     *)
(* twice, and newest first, for which authors and kinds do not ask.        *)
SuppliedMatch ==
    /\ Len(result) <= IF "limit" \notin flt.given THEN DefaultLimit ELSE MaxLimit
    /\ "limit" \in flt.given /\ flt.limit \in 1..MaxLimit => Len(result) <= flt.limit
    /\ Heeded =>
        \A i \in 1..Len(result) :
            /\ Matches(flt, result[i])
            /\ \A j \in 1..(i - 1) :
                  /\ result[j] # result[i]
                  /\ "authors" \notin flt.given => result[j].at >= result[i].at

(* Filters whose conditions the query and the matching both know.          *)
Followed == {{"kinds"}, {"kinds", "since"}, {"kinds", "since", "until"},
             {"since"}, {"since", "until"}}

(* No gap between the query and the broadcast: an event that was           *)
(* acknowledged and matches is in the query's result or, once what is in   *)
(* NewEvent was broadcast, was sent as a new event (perhaps both), however *)
(* storing it, announcing it and the REQ interleave.  Not so when the      *)
(* result, cut off by a limit or a failing read, ends before it reaches    *)
(* what is older than the event, nor of kinds beyond MaxKinds.             *)
NoGap ==
    spc = "supplied" /\ nb = Len(pub) /\ Asked \in Followed
    /\ Cardinality(flt.kinds) <= MaxKinds =>
        \A ev \in acked :
            /\ Kept(ev) /\ Matches(flt, ev) /\ Inside(flt, ev)
            /\ \E i \in 1..Len(result) : result[i].at < ev.at
            => ev \in live \/ \E i \in 1..Len(result) : result[i] = ev
=============================================================================

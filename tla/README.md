# ivmostr in TLA+

A verification project for the nostr relay `ivmostr` (Go). The modules model the
relay's own core logic: the goroutines of a client connection, the
broadcasting of new events, the matching of filters, the storing of events, the
sessions and the pools behind them, and the admission of connections. TLC checks
them on small instances, TLAPS proves the invariants, the action property and the
refinements for every value of the constants.

All paths below are relative to the repository. `services/` stands for
`internal/services/`.

## 1. Inventory

| component | state it keeps | operations | talks to |
|---|---|---|---|
| client connection, `services/client.go` | channels `msgwt` (20), `inmsg` (10), `errFM` (unbuffered), subscription, filters, `Authed`, a context and a WaitGroup, the shared variable `errch` | `ReceiveMsg` (reader), `dispatcher` and the handlers of EVENT, REQ, CLOSE, AUTH, `writeT` | repository (store, query), `NewEvent`, `clientCH`, the peer |
| event broadcasting, `services/session.go`, `services/auxfun.go` | channels `NewEvent` (100), `chEM` (300), the ledger of clients | `NewEventBroadcaster`, `filterMatch` | every client's `msgwt`, ledger, `IPCount` |
| filter matching, `services/auxfun.go`, `services/defs.go` | none | `parseFilter`, `filterMatchSingle`, the validators | |
| initial query, `services/client.go` | none | `fetchData` | repository, `msgwt` |
| session, `services/session.go`, `ledger.go`, `clientspool.go`, `wspool.go`, `tools/ipcount.go` | ledger, pools of clients and connections, `seq`, connections per address | `Register`, `Remove`, removal by age in the broadcaster and in `sessionState` | `clientCH`, `pool` |
| goroutine pool, `pkg/gopool/gopool.go` | channels `sem` and `work` | `NewPool`, `Schedule`, `ScheduleTimeout`, `worker` | connection manager |
| connection manager, `internal/server/ivmws/websocket.go` | | `connman` | session, goroutine pool |
| event store, `internal/data/firestoredb/nostr-repo.go` | documents by event id | `StoreEvent`, `StoreEventK3`, queries, deletions | Firestore, client pool |
| Firestore client pool, `pkg/fspool/fspool.go` | a map of clients, the list of busy ones | `NewConnectionPool`, `GetClient`, `ReleaseClient` | repositories |
| lists repository, `internal/data/firestoredb/list-repo.go` | documents of the white and the black list | `GetWLIPS`, `GetBLIPS`, `StoreBlackList` | Firestore, client pool |
| rate limiter, `internal/server/router/middlewares.go`, `tools/tools.go` | an entry per address (`WSConns`), the lists `WList` and `BList` | `rateLimiter`, `AddToBlacklist` | lists repository, `IPCount` |
| main, `cmd/ivmostr/ivmostr.go` | | start (pool, lists, router), `-clean` | everything |
| address counter, `tools/ipcount.go` | map of counters | `Add`, `Remove`, `TopIP` | session, rate limiter |
| metrics, HTTP server and other handlers, NIP-11 document, configuration, list of active filters, command line tools | counters, files | | |

### Behaviours that are hard, and what makes a component correct

- **Client connection.** Three goroutines meet in two bounded channels, a
  context, a WaitGroup and an error variable without a lock; `errFM` has no
  receiver; nobody closes a channel; `fetchAllFilters` adds a goroutine per
  filter. Correct means: a reply comes after the replies to earlier messages,
  EOSE after every batch, OK true only for what is stored and announced, no request
  is served before authentication where that is required, the client is handed
  over only when its goroutines ended, and no message is forgotten.
- **Event broadcasting.** What the broadcaster saw of a client (its
  subscription, its authentication, its place in the ledger) is acted upon two
  channels later, when the client may have closed or changed the subscription,
  been evicted, died with a full `msgwt`, or been given to another connection.
  Correct means: nobody is sent what was not chosen for it, whoever stayed
  registered with one subscription gets what matches, once per filter and in
  order, and one client cannot hold up the others.
- **Session and pools.** Objects are used again while the goroutine that
  releases them still works on them; keys and addresses are read from fields
  that a new owner overwrites; several parties count and discount addresses.
  Correct means: no object is held by two connections, no entry of the ledger
  outlives the removal of its connection, the counts are right, a connection is
  handled once.
- **Event store.** Storing is several requests, each of which may fail, with
  other handlers in between, and an id is what the peer says it is. Correct
  means: an acknowledged event stays, unless something under its id is to be
  deleted, and an author has one contact list.
- **Admission.** Requests of one address look at its entry, and at the lists, and
  change them later, most of it without a lock; listing an address is an append in
  memory and a request to the database; the program may crash and read the lists
  again. Correct means: the limit holds but for the requests that overlap,
  nobody is turned away who kept to it, who is listed stays out, and
  the pool of clients keeps one that works.
- **Query and matching.** Two switches over combinations of conditions, which
  differ, and an iteration over a map whose order is not determined. Correct
  means: what a query returns satisfies the filter, and nothing falls between the
  query and the broadcast.

All these hazards are listed, each at its line, in `PROJECT.json`.

## 2. Modules

| module | models | composes |
|---|---|---|
| `ClientConn` | `ReceiveMsg`, `dispatcher`, `writeT`, the handlers | |
| `Broadcast` | `NewEvent` → `NewEventBroadcaster` → `chEM` → `filterMatch` → `msgwt` | |
| `Filters` | events, filters, `validateSubsFilters`, what nip-01 says of a match | |
| `FilterMatch` | `parseFilter`, `filterMatchSingle` | uses `Filters` |
| `FetchData` | `fetchData` and the queries of the repository | uses `Filters` |
| `Delivery` | abstract: a connection is chosen for an announced event, which reaches it at once, or never | implemented by `Broadcast` |
| `Archive` | abstract: whole events are kept at once, then promised | implemented by `EventStore` |
| `EventStore` | `StoreEvent`, `StoreEventK3`, `DeleteEventsByPubKey` request by request | uses `Filters` |
| `Supply` | one subscription against concurrent EVENTs | `EventStore`, `FetchData`, `FilterMatch` |
| `GoPool` | `gopool.Pool` | |
| `Session` | `connman`, `Register`, `HandleClient`, `Remove`, evictions | `GoPool` |
| `FsPool` | `fspool.ConnectionPool` | |
| `Admission` | `rateLimiter`, `AddToBlacklist`, the lists, start and crash | `FsPool` |
| `MC…` | instances for TLC | |
| `ClientConnProofs`, `ClientConnAnswers`, `BroadcastProofs`, `BroadcastRefines`, `EventStoreProofs`, `SupplyProofs`, `AdmissionProofs`, `SessionProofs` | theorems | |

`PROJECT.json` maps every definition to the lines it stands for.

**`ClientConn`.** A handler is computed, when its message is taken from `inmsg`,
as the *script* of its effects in program order (`handlerEventMsgs`,
`handlerReqMsgs`, …); every send, store and assignment is then a step
of its own, between which reader, writer, broadcaster and peer take theirs. What
the database answers is chosen with the message (`StoreResults`, `failing`). A
channel is the history of what was put in it and the number of elements taken,
so that the properties can speak of order. A send to `errFM` has no
action: that is the model of a channel without receiver.

What a write to the peer may do is in `WriteHangs`: `reads` says whether the peer
still reads, and while it does not, and is connected, `WriteJSON` neither returns
nor fails, as `session.go:316-317` sets no write deadline.

**`Broadcast`.** `BcTake`, `BcSkip`, `BcGiveUp` and `BcChoose` are the
branches of the loop over the ledger, whose map order is the choice of `c`; what it
decides is done a step later (`BcEvict`, `BcDirect`, `BcPair`), as the client may
change in between. `FmTake`, `FmSend`, `FmTimeout` are filterMatch and its
goroutines, which read the filters when the pair is taken. `Matching` says how many
filters of a client match an event. A client is an object of the pool: when its
connection has ended (`WriterEnds`) and `Remove` is through (`RemoveFromLedger`,
`RemoveChannel`), `Register` gives it to another connection, with another id and
`msgwt`, not authenticated, but with the subscription it had; `gen` counts its
connections, and pairs and messages carry the number for which they were chosen.
Who waits to send on the channel that `Register` replaced waits for ever (`"stuck"`,
`held`). A REQ, an update and a CLOSE change id and filters in two steps (`subd` is
`"filling"` or `"closing"` in between), in which the broadcaster takes the client for
one without subscription. `SsEvict` is `sessionState`. History variables: `due`, the
clients to which an event was owed when it was published, less those that changed
their subscription, were evicted, died, or ran into the five seconds' timeout
since; and `chosen`, the pairs the broadcaster decided for. The refinement mapping to
`Delivery` is `sent <- out`: the sequences of what was put in each `msgwt` are
the deliveries; the ledger, `NewEvent`, `chEM` and the goroutines of filterMatch
disappear, and what they hold is chosen and not delivered yet.

**`EventStore`, `FetchData`, `FilterMatch`, `Supply`.** A filter is a record of
the keys its Go map has and of their values; the order in which the map is
iterated decides whether it "has tags" (`MayHaveTags`). A query is the set of
results it may have: documents of the same second in any order, reading that
stops early. `Supply` lets two handlers store events while a subscriber's REQ
installs its filter and queries, and the broadcaster takes what is announced.
`CleanQuery` and `CleanDelete` are a second process started with `-clean` while the
relay runs. Ids are what the peers say: different events may come under one id, as the
handler does not compare it with the hash (`client.go:339`). The refinement mapping to
`Archive` is `archive <- Whole`, the documents that are whole events, but for those
whose tags are yet to be set, `promised <- acked`, `purged <- cleaned`: `SetTags`,
or what ends the time a handler has the document to itself, is the abstract
`Keep`, deletions are `Drop`, and the other requests are stutters. A crash of the relay
between two requests of the store leaves what `RequestFails` of every handler does.

**`GoPool`, `Session`.** The `select` of `schedule` is the choice between
`Enqueue`, `Start` and `TimeOut`. `Session` has one action per shared table or
pool that `connman`, `Register` and `Remove` touch, because every other
connection may run in between. `off` is a history variable of the addresses whose
count is disturbed by AUTH, evictions, or a client used again too early.

**`FsPool`, `Admission`.** A request goes through `rateLimiter` in steps, one per
access to shared data: `Arrive`, `CheckWhite`, `CheckBlack`, `Lookup`, `Create`,
`Decide`, and `Count` or `Reset`. An entry of `WSConns` is named after the
request that created it, as two first requests create two, of which the map keeps
one. The goroutine of `AddToBlacklist` goes on where the refused request ends
(`ReadBList` … `StoreBlackList`). `Start`, `LoadWhite`, `LoadBlack` are main and
`Crash` puts everything but the database back. `raced`, `off`, `out`, `saved` and
`late` are history variables: addresses two requests of which overlapped, whose
count was disturbed, which are listed by now in memory and in the database, and the
requests of listed addresses.

### Abstractions

- Messages carry what the handlers branch on; texts, signatures, logging and
  metrics are left out, and the metrics channel is assumed to be drained.
- Inputs on which a type assertion or an index panics, and the runtime's
  own crash on a concurrent map access, end the process and are left out.
- Storing an error in `errch` and testing it are separate steps; a torn read is not modelled.
- A failed request to Firestore is assumed to have had no effect.
- Hex strings are in lower case; `since` and `until` are numbers.
- The ages of 300 s and of the monitor's interval are nondeterministic
  (`GrowOld`, `BcFind`, `MonitorEvicts`), so are the timeouts of 1 ms and 5 s.
- In `Session`, `Fill` and `RmClear` are each one step, and a connection may end at
  any time (`EndReceive`), although `ClientConn` shows that it often does not.
- In `EventStore` a handler whose request failed goes on with another event; it
  stands for the next connection, as the failed one is stuck at `errFM`.
- The failures of the websocket handshake are left out.
- The slices `WList` and `BList` are sets; an append is a read and a write, and of two
  at once one may be lost. The white list of the program is appended anew by every
  request, so what is lost of it is not modelled. `ExpiresAt` of a black-listed
  address is written and never looked at.
- The clock of `Admission` moves in steps between which any number of requests run.

## 3. Runs

Fairness is assumed in `ClientConn_live`, `ClientConn_close`, `Broadcast_safe` and
`Broadcast_stall`, which check liveness, and nowhere else. Deadlock is not reported:
the environment's inputs are bounded, and the code has states in which everything
waits for ever, some of which are findings; the liveness properties say which.

| run | question | bounds |
|---|---|---|
| `ClientConn_safe` | replies in order, EOSE last, OK only for what is kept, no request served before authentication, filters gone after CLOSE, quiescent hand-over | 3 messages (`MaxMsgs`) out of 24, 1 broadcast (`MaxBcasts`), `inmsg` and `msgwt` 2, `NewEvent` 1, three kinds of relay, a recycled client. The constraint `OneTopic` keeps to four families: all kinds of EVENT; all kinds of REQ and CLOSE; AUTH and what it gates, for a client with a leftover subscription too (up to two messages of one kind then); invalid utf8 and disconnects |
| `ClientConn_live` | every message is handled and every reply written, and a connection that ended is handed over for release, or it is in one of the listed dead ends (`Wedged`, `Parked`, `WriteHangs`) | 2 messages, 1 broadcast, all capacities 1, a peer that may stop reading (`MayStop`) |
| `ClientConn_close` | a promise of a comment, refuted | 2 messages |
| `Broadcast_safe` | only what is legal, nothing lost, the refinement of `Delivery`, and that what is due is delivered unless a client whose peer does not read holds up all | 3 clients, of which one subscribes, closes, authenticates, ages, is evicted, stops reading, dies and is used for a second connection (`MaxGen`); 2 events (`MaxEvents`) of 4 kinds, all capacities 1, a restricted relay. The constraint `OneAtATime`: the second event is published only while at most one of these things is the matter with that client; with one event all of them may be, in any order |
| `Broadcast_stall` | a promise of a comment, refuted | 1 event, two matching filters |
| `Broadcast_dm` | a promise of a comment, refuted | 1 direct message, a second connection |
| `Supply_safe` | acknowledged events stay, the refinement of `Archive`, contact lists survive, the query against nip-01, no gap | 2 handlers, 8 events (two notes, three contact lists, an AUTH event, another note and a contact list under the ids of the notes), 3 submissions (`MaxSubmits`), one `-clean`, every filter of up to three of nine keys. The constraint `OneTopic` separates storing (no subscriber), the filters whose query can be relied on (2 submissions, two handlers) and any filter (2 submissions, one handler) |
| `Supply_lists` | a promise of a comment, refuted | as above |
| `Session_safe` | no object held twice, no entry left behind, counts, handled once | 3 requests, 2 addresses, 2 names, 3 clients and connections, 2 workers, queue 1, `clientCH` 1. The constraint `OneTopic`: two connections and a third, of the same name, that uses again what is released; or two of one address that are evicted, one of which subscribes or authenticates |
| `Session_reuse` | a promise of a comment, refuted | as above |
| `Admission_safe` | the limit of requests, the cap of white-listed connections, listed addresses stay out, the client pool serves | 4 requests, 2 addresses and a white-listed one, 3 clients, limits 1 and 2, `Duration` 2, `WhiteMax` 1, 2 requests of an address in flight (`MaxInFlight`), clock to 3 (`MaxTime`), 2 starts (`MaxStarts`). The constraint `OneTopic`: one address up to a limit of two; one address with a second start; two addresses listed at once; a white-listed one |
| `Admission_window` | what the configuration promises of the limit, refuted | as above |

Why these bounds are enough. With capacities of one or two, every channel is full
after an element or two and every sender meets it. Three messages are a REQ, its CLOSE
and another REQ, or an AUTH between two gated messages. Two events
are needed for order, three clients for a publisher, a receiver and one that
disturbs, and one second connection for a pair that outlives the first.
Two handlers and three submissions let a contact list replace one that
another handler is replacing. A third request is the first that can take an
object while `Remove` is still at work on it and a second client is registered.
Four requests are a limit of two, reached, one that is turned away and one that comes
after it was listed; a clock of three with a window of two lets a request fall into
the same window as its predecessor, and out of it. Each start has a new pool and
closes two clients of it at most, so with three clients one stays open, and with
the two that are closed every request to the database may fail.
Symmetry in `MCSession` is sound: requests, addresses and names are only compared;
objects, among which the pools `CHOOSE`, are not declared symmetric. So are the
clients in `MCAdmission`.
The constraints cut off mixtures of the families only; what a family does by
itself is explored to the end.

Fairness. The Go scheduler runs each goroutine that can run: weak fairness of
reader, dispatcher and writer, of the broadcaster and of filterMatch. A write
to the peer is another matter: `session.go:316` says "DO NOT set timeout to the
write!!!", and line 317 sets a zero deadline, which is none. So a write is assumed to
return only while the peer reads, or once the connection has failed: in
`ClientConn` the writer's fairness is that of `~WriteHangs /\ WriterWrites`, in
`Broadcast` that of `WriterTakes`, which is not enabled for a client that is
`"deaf"` (`PeerStops`). A peer that stays connected and does not read is one of the dead ends
the liveness properties name (`Blocked`, `Parked`, `Stalled`). Nothing is assumed of the
peer, of the environment or of timeouts (`FmTimeout` never has to happen).

### What the violated runs show

1. `ClientConn_close`: after a CLOSE the dispatcher sends to `errFM`, which
   nobody reads, and is stuck; the connection stays open, unserved. The comment at
   `client.go:290` says it must be closed.
2. `Broadcast_stall`: a client whose peer does not read, or whose writer ended, and
   whose `msgwt` is full stops the delivery to everybody.
3. `Broadcast_dm`: a direct message that waits in `chEM` for an authenticated client is
   sent to the next connection that gets the client object, which has not
   authenticated.
4. `Session_reuse`: `Remove` puts the client back in the pool and strips it of its
   channels afterwards, when it may already serve a new connection.
5. `Supply_lists`: two handlers leave two contact lists of one author.
6. `Admission_window`: each admitted request begins `rate_limit_duration` anew while the
   number goes on, so an address is turned away and black-listed although it never came
   more than `rate_limit_max` times within that duration (`configs/config.yaml:31-33`).

### Noted while modelling, without a run

- The peer disconnects; writer and dispatcher wait in `range` over channels nobody
  closes, `wg.Wait()` does not return, and the client is not sent to `clientCH`
  (`client.go:129`). `DisconnectEnds` says that this, or a goroutine that is stuck, is
  the only way in which a client is not released.
- A client from the pool keeps the subscription of its former user
  (`session.go:130-159`), and the broadcaster asks for authentication for direct
  messages only: a connection to a restricted relay that has not authenticated
  is sent new events for that subscription, against "Not authenticated clients are
  not served!" (`client.go:276`). `RequestsNeedAuth` is about what a peer asks for;
  `Broadcast` has the behaviour (`Register`, `Wanted`).
- An EVENT of a blocked account gets a NOTICE and no OK (`client.go:335`).
- The boolean that `CheckSignature` returns is not looked at, and the id of an event is
  not compared with its hash (`client.go:339-344`). A contact list under an id that is
  taken deletes its predecessor (`nostr-repo.go:117`) and is not stored itself, and the
  deletion of a contact list takes whatever is stored under its id by then.
  `AckedStays` and `ListSurvives` leave those ids out (`Kept`, `Unshared`).
- The batch of an initial query repeats its last event: all of its events are
  decoded into one map (`client.go:1020`). `Batch` models it; `SuppliedMatch` and
  `NoGap` are about what the query returned.
- The extra field `ExpireAt` of an event (`nostr-repo.go:43`) is kept by go-nostr in an
  unexported map, which the Firestore encoder passes over, and nothing under `src/` reads
  it or removes what it is set on; `EventStore` has no expiry.
- A client that updates its subscription has no filters for a moment
  (`client.go:452`): the broadcaster passes over it then, or evicts it when it is older
  than 300 s, and the events of that moment are lost to it. `NothingLost` leaves out
  those who update.
- A client evicted from the ledger stays connected, and gets no new events when it
  subscribes later (`session.go:377`); `Broadcast` has the behaviour, no text
  says what should happen.
- Where the switch of `filterMatchSingle` falls out, in eight combinations of conditions,
  the event is sent although a condition fails (`auxfun.go:225`), while lines 199 and
  219 say that all conditions must match; and the strict comparison with `since`
  (line 359) is not that of line 197. `FilterMatch` has all of it, and no property
  says of new events more than what `NoGap` needs.
- A limit of 0 is taken for one that is too large (`client.go:764`).
- A filter with authors, ids or #e alone always ends in an error, as `[]any` from
  JSON is not the `[]string` that `client.go:805`, `823` and `886` expect.
- `IsRegistered` looks for an address among keys `name:address`, so the answer
  "Already connected" (`websocket.go:112`) is never given; `randName` likewise
  never finds its name taken.
- When `Register` returns nil or the pool times out, `connman` leaves websocket,
  client, ledger entry and count behind.
- AUTH counts the address again, evictions discount it again; `IPCounted` is
  restricted accordingly.
- `HandleClient` schedules a task of the pool from within one and waits for it.
  When all workers do that and the queue is full, no task is taken any more.
- Requests of one address that overlap exceed the limit, by one each
  (`middlewares.go:130`, `143`); `WindowBound` is restricted to those that do not,
  `Overshoot` bounds the others.
- A black-listed address is stored with `ExpiresAt`, which nobody looks at: it is
  refused for good (`ListedStaysOut`).
- `GetWLIPS` and `GetBLIPS` continue their loop on any error of the iterator, which
  returns the same error ever after: main does not come to listen (`LoadSpins`).
- No client of the Firestore pool is ever found busy, since the addresses of
  copies are compared with those of the originals (`fspool.go:64`); each released
  client is closed and handed out again, so later requests through it fail.
- The tags of an event are stored as a map from positions to tags (`nostr-repo.go:838`)
  and read back in the order in which that map is iterated (`nostr-repo.go:873`). Moreover
  `GetHashtag_E_Events` asks for `TagsMap` in Latin letters, while the key that is
  stored begins with a Cyrillic one (`nostr-repo.go:663`, `852`).

## 4. Proofs

TLAPS proves, for every value of the constants under their named assumptions
(capacities positive, the sets of messages and events typed, limits and bounds natural
numbers, filters with finite lists of kinds, three Firestore clients or more, which
main needs, and a copy of a client never the client itself; nothing is assumed of the
ids of events):

| theorem | states |
|---|---|
| `ClientConnProofs!TypeCorrect` | types and channel capacities |
| `ClientConnProofs!HandoverSafe` | past `wg.Wait()`, no goroutine of the connection runs |
| `ClientConnProofs!RepliesOrdered` | replies in the order of the messages |
| `ClientConnProofs!NoStaleFilters` | no subscription, no filters |
| `ClientConnAnswers!AuthFirst` | no request of a peer has an effect before the AUTH demanded of it |
| `ClientConnAnswers!OkTrue` | OK true for what was stored and published, never next to OK false |
| `ClientConnAnswers!EoseLast` | EOSE after one batch per filter, and last |
| `BroadcastProofs!TypeCorrect` | types and channel capacities |
| `BroadcastProofs!BroadcastLegal` | no connection is sent an AUTH event, its own event, or, unauthenticated, a direct message chosen for it |
| `BroadcastRefines!BroadcastImplementsDelivery` | the broadcast implements `Delivery` |
| `BroadcastRefines!BroadcastComplete` | what is owed has arrived when the pipeline is empty |
| `EventStoreProofs!AckedForGood` | an acknowledged event stays in the database, unless its id is that of something to be deleted |
| `EventStoreProofs!StoreTypes` | types; who holds the mutex is between Create and the tags |
| `EventStoreProofs!ListsSurvive` | who had a contact list acknowledged keeps one, but for failed requests and shared ids |
| `EventStoreProofs!StoreImplementsArchive` | storing request by request implements `Archive` |
| `SupplyProofs!SupplyUsesStore` | `Supply` is an `EventStore`: the four theorems above hold in it (`SuppliedAckedStays`, `SuppliedListsSurvive`, `SupplyImplementsArchive`) |
| `SupplyProofs!SupplyTypes` | types; what was sent was broadcast, what is broadcast was published |
| `SupplyProofs!SuppliedEventsMatch` | the result of the query is within the limit, and matches, newest first, if the query looks at the conditions (`Heeded`) |
| `SupplyProofs!NothingFallsBetween` | no event falls between the query and the broadcast |
| `AdmissionProofs!AdmissionTypes` | types |
| `AdmissionProofs!ListedForGood` | who was listed is refused for good, a restart included |
| `AdmissionProofs!OvershootBounded` | by how much overlapping requests can exceed the limit |
| `AdmissionProofs!WindowsBounded` | the limit holds in every window of an address whose requests do not overlap |
| `AdmissionProofs!WhiteListCapped` | the cap of white-listed connections, but for those in flight |
| `AdmissionProofs!PoolAlwaysServes` | some Firestore client can be had and is open |
| `SessionProofs!SessionTypes` | types, and what pool and ledger may hold |
| `SessionProofs!HeldByOne` | no client and no connection is held by two connections, or in its pool while held |
| `SessionProofs!NoEntryOutlivesRemoval` | no entry of the ledger is left when `Remove` is through with its connection |
| `SessionProofs!CountExact` | the count of an address is right where nothing disturbs it |
| `SessionProofs!RunsOnce` | both tasks of a connection run once |

**ClientConn.** The inductive invariant adds three facts. `TodoInv`: what is
left of a script answers the message taken last and no other, which needs lemmas
on every handler's script (`EventScript`, `OtherScripts`, `ScriptType`).
`ControlInv`: the reader has cancelled the context before it waits, and is past
the WaitGroup only when both others ended; a goroutine that left its loop runs no
handler. `OrderInv`: no reply runs ahead of the dispatcher. Order follows
because a reply is appended only by the script in progress.
`ClientConnAnswers` adds to it what may be left of a script (`AInv`): its steps are
allowed by the messages before the one at hand (`LegalStep`); an OK true that is still
to come stands behind the store and the publication that earn it (`OkPlan`), and a
script never holds both verdicts (`Verdict`); an EOSE that is still to come stands
behind the filters whose batches were not sent, the others having sent one each
(`PlanFor`). `Recent`, with `OrderInv`, keeps messages that were not taken free of
effects, so that appending them to `inmsg` disturbs none of this.

**Broadcast.** The broadcaster tests whether an event is for a client, and the
message is sent much later, perhaps to another connection. `ChosenFit` says of each
pair in `chosen` that its connection may have the event (`Fit`): it is not the one the event
came from, and if it is still the client's present one, and the event a direct message, it
is authenticated, which `Register` alone takes back, along with the connection. What the
broadcaster has in hand, what is in `chEM` and what was sent was chosen (`AtChosen`,
`EmChosen`, `OutChosen`).
For the refinement the invariant `RInv` adds what makes a delivery the next one in
order and one of not too many: the pairs in `chEM` are sorted by event and all
different (`Line`); what a connection was sent comes from a pair that was taken, or
went directly (`Sent`); a client that is still to be visited, and the one decided for, have no
pair and no message of the event yet (`Fresh`, `Decided`); and what the goroutines of the pair
in front have sent and have still to send is no more than the filters that match (`Within`).
`BcChoose` is the abstract `Choose`, `FmSend` and `BcDirect` are `Deliver`, `Publish` is
`Announce`, `Register` is `Renew`, and every other action but `Authenticate` is a stutter.
`Delivery` bounds what is sent from above; `BroadcastComplete` bounds it from below
(`LInv`), by following each event to each client it is owed to (`Underway`): the client is
still to be visited, or in the broadcaster's hand, or was sent the event as its addressee, or
has a pair, for which the messages sent and those still to send make up the filters that
match. A client that is owed something is one the broadcaster does not pass over and
filterMatch does not find without filters, as nobody is owed anything past a change of its
subscription, its eviction or the end of its connection (`DueInv`).

**EventStore.** `StoreInv` follows an event from Create over the tags to the
acknowledgement (`Underway`, `StoredIsIn`, `AckedIsIn`), and says of what a handler is about
to delete that it has the id of a contact list (`FoundList`). That two documents have
different ids (`OneOfAnId`) is not assumed of events but follows from Create, which
fails for an id that exists; the handler that waits for its tags is the only one with a
document of that id, since it holds the mutex. So what is acknowledged is in the store
unless its own id is one that may be deleted (`Kept`). The theorem is about `StoreSpec`; the
steps of `Supply` that are not the store's leave its variables alone. With `-clean` the
invariant also says that an id about to be deleted is that of an event of the cleaned
author (`Doomed`). `StoreImplementsArchive` takes each
action, under the same invariant, to the abstract step named above or to a stutter:
`Promise` is enabled at an acknowledgement because the event is whole by then,
and a deletion is a `Drop` because of what is in `found` and in `doomed`.
For `ListsSurvive`, `ListKept` says where the list of an author is who had one acknowledged
(`Provided`): in the database, or with a handler that is about to create it, or a ghost is in its
place. Search and deletion are outside the mutex, so several handlers may replace the list
at once; but each deletes only a list of the author it brings one of (`OwnList`), and goes on to create
that one unless a request fails.

**Supply.** The steps of the subscriber and of the broadcaster do not touch the store, so
`Spec => StoreSpec` carries the theorems of `EventStoreProofs` over.
`SuppliedEventsMatch` rests on lemmas about `LastN` and on one for the queries that heed their
filters (`HeededQuery`): their results are without repetition, sorted, and miss no
document newer than one they have. The last is what `NothingFallsBetween` needs, besides
that a filter of `Followed` sends every new event that matches (`LiveFollows`, from
`filterMatchSingle`, taken apart once for those cases of its switch).
`GapInv` says that what was acknowledged is in `NewEvent` (`Announced`) and that what is in
`NewEvent` was acknowledged (`Promises`), and is therefore whole in the database. So what was
broadcast before the query ran is found by it, if it reaches back that far, and what is
broadcast later meets the filter, which was installed before (`Seen`). Two
restrictions of `NoGap` came out of the proof, each with a counterexample: documents of the
same second, of which a read that stops early may leave out any, so that the
result has to contain something strictly older than the event; and lists of kinds
beyond `MaxKinds`, of which the query takes the first thirty and the broadcast all.

**Admission.** `ListInv` ties the copies of a list together: `out` is part of `BList`,
and of what every goroutine has read that is about to write it; `saved` is part of
what is stored. That is why two goroutines that list addresses at once add
nothing to `out`: the second would take away what the first wrote. Before the black list
was read nothing is known and nobody runs (`Quiet`). A late request is then at the gate,
or does not pass it (`Late`). `OverInv` bounds the requests of an entry by those that may
still count: a request counts for an entry only if it has its address (`Owner`), no
more than `MaxInFlight` are under way at once (`Few`), and when one decides to count,
the entry is below the limit.
`WindowsBounded` is about an address whose requests do not overlap.
`AddrInv` says of it that its requests are decided one after the other (`Orderly`), on the
one entry in the map (`OneEntry`), and that those the entry counts are a *run* (`Run`): as many
as its number, none of them later than the `Timestamp`; who was admitted before the run
arrived a whole `Duration` ago. So a window that ends at the newest request holds requests of
the run only, and a run is never longer than the limit. The steps of other
addresses leave all of this alone (`AddrOther`), as an entry has one owner.
`Counted` ties the count of a white-listed address to its connections: each
connection that is made passed the gate when the count was below `WhiteMax`, with all
but the others in flight already in it. For the pool, `Closed` says that main closes one client with each of the
two lists, and nothing else ever closes one.

**Session.** The five invariants of `Session_safe` hold only together. The first section
of `SessionProofs` shows of the pool alone that no task is in the queue, or with a worker, twice (`Fit`);
so a connection ends once, and is put in `clientCH` once (`Handled`). `Removing` says
that what `Remove` holds and what waits for it are requests that ended, all different;
hence an object goes back to its pool once, after its connection has ended, which is
`NoSharing`; that `Remove` goes on to use the client it has put back is not excluded, but
refuted by `Session_reuse`. As a client that is held is not shared,
its name and address are those of its request (`Named`) when `HandleClient` puts the key
together; `Remove` thus takes the right entry from the ledger (`Alive`) and the right
address from the counts, unless the client was used again in between, which `off` records.

Every invariant and refinement that the passing runs check is thus proved. Only model-checked
are the four liveness properties (`HandledOrWedged`, `WrittenOrFailed`, `DisconnectEnds`,
`DeliveredOrStalled`), as fairness and ENABLED are beyond the provers. The counterexamples
of the violated runs are behaviours, and nothing is proved about them.

## 5. Not modelled

- Metrics, configuration, routing, the API handler, the NIP-11 document, address
  parsing and the command line tools keep no state another component depends on.
- `DeleteEvent`, `DeleteEvents`, `StoreWhiteList`, `GetWhiteList` and `GetBlackList`
  are called from nowhere; `GetEventsByAuthors`, `GetEventsByIds` and
  `GetHashtag_E_Events` are not reached by any filter that came as JSON (see above).
- The shutdown, `Session.Close`, is called from nowhere.
- The crash of the Go runtime on a map that is read and written at once
  (`session.go:369`, `middlewares.go:116`, `123`) is `Crash` in `Admission`, and left out elsewhere.

## 6. Plan

Done, in this order: the connection and the broadcaster (the path of every
message), storing and querying, the session and its pools, admission, the two abstract
specifications. What is left:

1. Progress of `GoPool`: a task that was scheduled is run unless the workers
   wait for each other.
2. Proofs: the safety part of the liveness properties, namely that outside the states that
   `Wedged` and `Parked` name some goroutine of a connection can take a step.

# A TLA+ model of hookie

Hookie receives webhooks over HTTP (the *ingest* service), keeps them in Redis
streams, and hands them to command line clients over gRPC (the *relay* service);
the client prints each one and may forward it to a local server. This directory
holds the TLA+ specifications of the parts whose correctness depends on order,
concurrency and failure, the TLC configurations that check them on small
instances, and proofs for every instance that TLAPS checks.

Paths of source files are relative to the repository; `service.go` and
`subscriber.go` are `backend/relay/internal/grpc/service.go` and
`backend/relay/internal/redis/subscriber.go`.

## The system

| component | code | state | operations | talks to |
|---|---|---|---|---|
| publishing | `backend/ingest/internal/handlers`, `.../redis/client.go` | none of its own | check for listeners, XADD with MAXLEN | Redis |
| event delivery | `subscriber.go`, `Subscribe` and `handleAnonymousSubscribe` in `service.go` | stream, consumer group, pending entries; per subscription a reader goroutine, a channel of events, a throttle channel, a Ready channel, the handler's loop | subscribe, read, queue, acknowledge, send, await Ready, cancel | Redis, the client |
| pruner | `backend/relay/internal/redis/pruner.go` | none | delete stale streams, delete expired anonymous channels | Redis |
| tracking of listeners | `Track-`, `UntrackTopicSubscription`, `CleanupInstanceTopics` in `subscriber.go`; `backend/relay/main.go` | the sets `relay:topics:<topic>` and `relay:instances:<instance>:topics` | track, untrack, clean up, expire | ingest reads the first |
| machine registry | `service.go`, `backend/relay/internal/supabase/client.go` | `machines`, `dbMachineToContexts`, the rows of connected_clients | first and last subscription of a machine, connection count, remote disconnect | Postgres, its change feed |
| anonymous channels | `service.go`, `subscriber.go`, `pruner.go`, `backend/ingest/internal/middleware/ratelimit.go`, `.../supabase/client.go` | `anon:channels`, `anon:meta:*`, `anon:ip:*`, `anon:topics:*`, rows of `anonymous_topics` | create under a limit per IP, validate, publish, count, expire, clean up | Redis, Supabase |
| realtime client | `backend/relay/internal/realtime` | websocket, channels, two Go channels per Subscribe, handlers, the presence tracker's map | connect, join, reply, close, error, change events, track, untrack, disconnect | Supabase |
| rate limiter and tiers | `backend/ingest/internal/ratelimit`, `.../middleware` | two sorted sets per topic, cached tier | admit, deny, resolve a tier | Redis, Supabase |
| CLI listen loop | `cli/cmd/listen.go`, `cli/cmd/anonymous.go`, `cli/internal/relay` | event counter, results waiting to be printed, two mutexes | receive, print, forward, Ready | relay, GUI |
| CLI events GUI | `cli/internal/gui`, `apps/gui/src/App.tsx` | a bounded list of events, streams; what a page shows | add, list, stream, clear | browser |
| CLI account | `cli/internal/config`, `cli/internal/auth/clerk.go`, `cli/cmd/login.go`, `logout.go` | `~/.hookie/config.json`, the keyring, the callback server of a login | load, migrate, login, logout | browser, Clerk |
| relay's token check | `backend/relay/internal/auth` | none | validate a token | Clerk |
| web application, documentation | `apps/web`, `apps/docs` | Postgres rows, component state | request by request | Postgres |

What makes this hard to test: every subscription is served by four goroutines
(reader, handler, receiver, and the gRPC stack) that share three channels and a
context; all instances of the relay share one consumer group per topic; Redis
deletes (MAXLEN, the pruner, expiry) behind everybody's back; failures of Redis
calls are logged and passed over; and cleanup runs under contexts that are
cancelled. `PROJECT.json` lists each hazard at the line where it bites, with the
properties that cover it, or why none does.

What makes each component correct:

- *Delivery*: a webhook is sent at most once; a topic's webhooks are sent in
  order; at most one is with a client that has not asked for more; Redis keeps an
  entry until a channel holds it; a reader runs ahead of its client only by a
  window; what waits is read while somebody listens.
- *Tracking*: ingest drops nothing while somebody listens; the two kinds of sets
  agree; a shutdown leaves no trace of the instance.
- *Registry*: the count in the database becomes the number of subscriptions; a
  machine with subscriptions can be found and disconnected; a reconnected client
  is not disconnected by the echo of its past.
- *Anonymous channels*: an IP exceeds the limit only by calls that race; slots come
  back; a disabled channel takes nothing in; one that has run out is removed and
  stays removed.
- *Rate limiter*: never more admitted in a window than the limit; a denied request
  does not count against others once it is taken out.
- *Realtime*: every Subscribe comes back, and one that reports success is heard;
  what blocks the reader of the websocket is known; the presence that is shown is
  that of the tracker's map.
- *CLI*: results are printed in order, and come out when there is no gap before
  them; the loop and the logger wait for each other only in one known way; what the
  GUI's pages miss is known; machine_id, relay_url and token survive the commands; every
  command ends.

## Modules

| module | what it is |
|---|---|
| `WebhookDelivery` | abstract: an accepted webhook waits, is assigned to one connection, is sent on it or lost; sent and lost are final |
| `EventDelivery` | the detailed delivery path; its instance `Promise` maps it to `WebhookDelivery` |
| `EventDelivery_proofs` | its invariants, the flow control between reader, loop and client, and that it implements `WebhookDelivery` |
| `MCEventDelivery` | constants for TLC |
| `SubscriptionTracking`, `MCSubscriptionTracking` | who is listed as listening to a topic, as handlers open, close and fail on several instances |
| `SubscriptionTracking_proofs` | that the sets agree, the cleanup is complete and a listener alone loses nothing |
| `MachineRegistry`, `MCMachineRegistry` | which streams of which machines a relay knows and can cancel, and what `connected_clients` says of them |
| `MachineRegistry_proofs` | that streams can be found and the table is right, for any streams, contexts and machines |
| `RateLimiter`, `MCRateLimiter` | the windows of a minute and of a day of one topic, under concurrent requests |
| `RateLimiter_proofs` | that the limits hold, for every number of requests |
| `AnonymousChannels`, `MCAnonymousChannels` | the channels without a login, from the relay's check of the IP to the pruner, and the webhooks for them in ingest |
| `AnonymousChannels_proofs` | that the limit, the slots, the mark, the counter and the removal hold |
| `RealtimeChannel`, `MCRealtimeChannel` | a websocket client of the relay, its reader, its channels and the calls that subscribe, track and disconnect |
| `RealtimeChannel_proofs` | when the reader stops, who is heard and what presence is shown, for any calls on a client |
| `ForwardLogger` | the loop of `hookie listen`, the forwarding goroutines and the logger, and their two mutexes |
| `EventStorage` | the GUI server's list of events, its streams and its pages |
| `CliListen`, `MCCliListen` | the composition of the two: the loop that forwards also posts to the GUI |
| `CliListen_proofs` | that results come in order and what pages may miss, for any events, pages and capacities |
| `CliAccount`, `MCCliAccount` | the configuration file and the keyring under concurrent commands, and the callback server of a login |
| `CliAccount_proofs` | that settings and token survive any number of commands, but for the exceptions that are named |

### EventDelivery

| model | code |
|---|---|
| `published` | every XADD of `PublishWebhook`, in order; an event is the number of its XADD |
| `stream`, `group`, `lastId`, `pel` | the key `topics:<id>`: entries, whether the group `relay-consumers` exists, its cursor, its pending entries per consumer |
| `doomed` | between the two calls of `PruneStaleStreams` for a stream |
| `conn` | where the loop of `Subscribe` is: not begun, in its select, waiting for Ready, returned |
| `reader` | where `readFromStream(s)` is: at the throttle, in XREADGROUP, sending on `eventsCh`, in XACK, stopped |
| `log`, `queued`, `taken` | all a reader has received; what of it has been put in, and taken out of, `eventsCh`, whose content is the part in between |
| `pending`, `throttle` | `pendingCount`; whether `throttleCh` holds its signal |
| `unread`, `readyWire`, `readyCh` | events the client has not answered, Ready messages under way, and in `readyCh` |
| `ctx`, `gone`, `recvErr` | the handler's context is cancelled, the client has hung up, `recvErrCh` has an error |

Actions are the steps between which another goroutine can be seen: each Redis
call, each channel operation, each message. `Publish` trims as XADD with an
approximate MAXLEN does: any prefix, but never below `MaxLen` entries. `Fetch` is
one XREADGROUP with `>`, for all streams of the subscription, and returns at most
`ReadCount` entries of each, in any order of the streams; `FetchReplyLost` is one
whose reply is lost after Redis has moved the cursor. `ReaderCancelled` stands for
all the places where a reader looks at its context. A subscription to several
topics is read by `readFromStreams`, which ignores the throttle; one with a single
topic by `readFromStream`.

`Unreadable` are the events that `convertToProtoEvent` rejects. In the code it
may reject any event, for the lookup of the topic's application may fail; every
event is converted at most once, so a constant set says as much as a choice at
each conversion, and the runs choose sets for which something happens. Consumer
names are the nanoseconds of the clock and are taken to differ. An anonymous
stream goes through the same reader and a loop of the same shape, so it is an
element of `Subs` with one topic (the pruner's `topics:*` does not match its key).

### SubscriptionTracking

`instances[t]` is the Redis set `relay:topics:<t>`, `topics[i]` the set
`relay:instances:<i>:topics`. `handler`, `todo` and `live` are, for each stream,
where its handler is, over which topics its tracking or untracking loop has still
to go, and whether its context is alive: a call under a cancelled context always
fails, any other may. `server` and `members` follow `main` and
`CleanupInstanceTopics` through the shutdown. A pipeline is one step, for Redis
runs the commands of one short write one after the other. `Drops(t)` is the check
of the ingest handlers. `late` and `expired` are history, for the properties only.

### MachineRegistry

A context is a machine used by a user for an organisation. `machines` and
`contexts` are the two `sync.Map`s of the service (`machines`,
`dbMachineToContexts`); `list` and `known` are the fields `subscriptions` and
`machineID` of an entry. Handlers keep the pointer to an entry (`entry`) after
others have deleted it from the map, so an entry is named after the stream whose
`LoadOrStore` stored it. `row` and `count` are the table, `feed` what the change
feed and the broadcasts still have to bring to the two listeners, which are
clients of their own and so run `DisconnectClientByMachineID` side by side
(`killer`, `todo`, `deleting`).

Each load, store, locked section and database call is a step of its own, for the
code holds no lock over two of them: opening goes through `GetEntry`, `Upsert` or
`ReadMachineID`, `LoadContexts`, `StoreContexts`, `Join`, `ReportCount`; the
deferred cleanup through `Leave`, `ReportCount`, `DeleteEntry`, `UnmapLoad`,
`UnmapStore`, `MarkDisconnected`. A database call may fail; what is lost with it is
lost for good, since the code only logs it. The upsert (a select, then an update or
an insert) is one step, because nothing deletes rows. The broadcast subscription
that the first stream makes is left out: a broadcast may reach the relay or not.
`failed`, `asked` and `raced` are history, for the properties only: the registry
makes no promise for a machine on which a stream was opened while another was
opened or closed, or while the machine was being disconnected (see the findings),
and `Findable` and `TableTells` say what it does promise for the others.
`GoneIsDisconnected` holds in all cases.

### RateLimiter

`entries[w]` is the sorted set `<key>:min` or `<key>:day`; a member is named after
its request and scored with `stamp`. `until[w]` is when the key expires. `win` and
`at` are where in `EnforceRateLimits` and `CheckRateLimit` the handler of a request
is: it reads the clock (`TakeTime`), some time later its pipeline runs in Redis
(`Admit` or `Deny`, which differ in the count that comes back), and a denied one
sends a ZREM (`Remove`, `RemoveFails`). `CheckFails` is a pipeline whose reply is an
error, after any number of its commands. The four commands come in one short
write, and Redis runs them one after the other without looking at other clients.
The limits are those of a tier, which does not change: `LookupTopicTier` answers
Starter for every topic today, and anonymous topics have a tier of their own. All
handlers are taken to read the same clock. The windows of a topic do not touch
those of another, so the model has one topic.

`WithinLimit` is about the window that ends now. It does not say that no interval
of the past ever had more requests: a request that is overtaken by one with a later
stamp across the edge of a window is counted against less than it should, by as
much as the two clocks' readings lie apart.

### AnonymousChannels

| model | code |
|---|---|
| `call`, `expiresAt` | where a `CreateAnonymousChannel` call is: before `CheckAnonIPCount`, between it and `CreateAnonChannel`, or returned |
| `score` | `anon:channels` |
| `metaUntil`, `disabled` | `anon:meta:<channel>`: when it expires, and its field `disabled` |
| `slots`, `slotsUntil` | `anon:ip:<ip>` and when it expires |
| `stream` | whether `anon:topics:<channel>` exists |
| `row`, `count` | the row of `anonymous_topics`, inserted by a goroutine, and its `request_count` |
| `hook`, `target`, `seen` | a POST to ingest: `ForAnon` (`Arrive`, `ReadDisabled`), what may turn it away (`Turned`), XADD, and the goroutine of `IncrementAnonTopicCount` with the count it has read |
| `sub` | `handleAnonymousSubscribe` as far as `ValidateAnonChannel` and the group's creation; what it delivers is `EventDelivery` |
| `todo` | what `CleanExpiredAnonChannels` has still to delete |

A pipeline is one step; one that fails has executed some prefix of its commands
(`CreateFails`). The clock ticks in seconds and a key lives `Lifetime - 1` of them,
since `time.Until` of the expiry is a little less than two hours and EXPIRE cuts it
to whole seconds. `Tick` drops the keys whose time has come. `Disable` is what an
operator does in Redis: the code reads the mark and never writes it. `madeAt`,
`peak`, `published`, `alone` and `late` are history.

### RealtimeChannel

One client with its websocket, for each of the three ways in which the relay uses
one: the broadcast listener's channel per machine, the change feed, and the
presence of relays and of machines. `reader`, `cur` and `stuckIn` are the goroutine
`readMessages`, `inbox` what the server has sent. `state`, `handlers`, `gen` and
`buffer` belong to a `Channel`: each `Subscribe` replaces the Go channels
`subscribed` and `subscribeErr`, so they are numbered by generation, and a reader
that is blocked on a pair keeps waiting for that pair. `at` is where a call is;
`holder`, `shared` and `tracked` are the mutex, `sharedChannel` and
`machineChannels` of the presence tracker. `joined` and `present` are the server's,
which is external: it may accept, refuse or ignore a join, and end a channel.
A read timeout, an error and a close by the peer are the same to the reader
(`ConnectionLost`), which never reconnects. `crashed` is the reader that uses the
connection after `Disconnect` has set it to nil. `unclaimed`, `crossed`, `broken`
and `told` are history.

### ForwardLogger, EventStorage and CliListen

`pc` is where the loop of `runListen` or of `runAnonymousListen` is between two
operations on a mutex, `logger` where the goroutine of `startForwardingLogger` is.
`flushPendingResults` takes `logMutex` for each result it prints while it holds the
state's mutex (`PrintNext`); `flushPendingResultsUnlocked` runs under `logMutex` and
takes the state's mutex for all of them (`FlushAll`). The two loops differ in which
of the two they call, hence the field `anonymous` of a session. A forward puts its
result in the channel, or prints it where that is full (`Forwarded`,
`PrintDirectly`). `output` is the terminal.

In `EventStorage` an event is stored and published in two steps (`Store`,
`Publish`), under a mutex each. `stream`, `queue` and `wire` are the EventSource of a
page: the channel of bounded size that `Publish` skips when it is full, and what
`handleStream` has written to the connection. `shown` is the state of `EventList` in
`App.tsx`. A fetch is a request (`asked`), the read of the list by `handleEvents`
(`answered`) and the answer's arrival (`ApplyAnswer`), which replaces all that the
page shows; meanwhile the stream goes on (`StreamedEvent` adds to it). A page fetches
when it is mounted and after its Clear button, which is there only beside a list that
is not empty (`ClickClear`, `Clear`); an EventSource that connects again (`CloseStream`,
`OpenStream`) does not make it fetch. The ids of events, and with them the `since` of
GET /api/events, which no page sends, are left out, and so is the order in which a
page shows what it has: an event that the list and the stream both bring, shown
twice by the page, is shown once in the model. `joined`, `whole`, `missed` and `gone`
are history. `CliListen` puts the loop's `Spawn` and the new request together in one
step; the rest interleaves.

### CliAccount

A command is a process, and its steps are its accesses to the file and to the
keyring. `Truncate` and `Write` are the two halves of `os.WriteFile`; a file
between them reads as empty, as a missing one does. `Read`, `RemoveOld`, `Migrate` and
`Fetch` are `config.Load`; `RemoveOld`, `StoreToken`, `Truncate` and `Write` are
`config.Save` for a login; `RemoveToken` and `RemoveFile` are `config.Clear`. On darwin
a token is stored by two calls of the keyring, Remove and then Set, and a kill or
another command may come in between (the place `set`); on other systems nothing is
removed, which `RemoveOld` also allows, as it does a Remove that fails. `server`,
`tokens`, `errors` and `callback` follow `ReceiveSignInToken`: the port is found
free and asked for again later, the handlers send on channels of size one, the
select takes one, and Shutdown waits for the handlers and for connections whose
request is not complete (`open`), which may never be. The command's own timer
(`GivesUp`) may fire whatever the server is at. `owed`, `disowned` and
`meddled` are history: which token the file or the keyring ought to hold, and the
cases in which the code makes no such promise, listed at `SettingsAreKept`. One of
them is a kill between Remove and Set, as far as the file has lost the token too or is
about to (`Lost`).

## Runs

| run | configuration | what it shows |
|---|---|---|
| `delivery_safety` | two topics; a subscription to one and one to both, on two relays; three events of which the second is unreadable; COUNT 2, maxPending 1, channel 2, MAXLEN 2; one fault | `TypeOK`, `AtMostOnce`, `InOrder`, `OneOutstanding`, `EventsAccounted`, `ReadAhead`, and that the relay implements `WebhookDelivery` (`KeepsPromise`) |
| `delivery_liveness` | two subscriptions to one topic on two relays; three events; COUNT 1, maxPending 2 | `WaitingEventsAreRead`, `ReceivedEventsAreTaken` |
| `delivery_stall` | one subscription, two unreadable events in a row, maxPending 2, no faults | violates `WaitingEventsAreRead`: the reader stops for good |
| `tracking` | a subscription to a topic and one to an application with it and another topic on one relay, an anonymous one on a second; one fault | `TypeOK`, `SetsAgree`, `CleanupIsComplete`, `AloneIsNotDropped` |
| `tracking_sibling` | the same, no faults | violates `ListenerIsNotDropped`: the first of two clients to leave takes the other's webhooks with it |
| `registry` | two streams of one context and one of another context of the machine; one failed call, disconnect from the web or shutdown, looked into while at most two of the streams have been opened | `TypeOK`, `Findable`, `TableTells`, `GoneIsDisconnected` |
| `registry_echo` | one stream in each of two contexts, no faults | violates `OnlyAskedAreCancelled`: the end of one organisation's last stream comes back through the change feed and ends the other's |
| `rate_limit` | three requests; a minute of two ticks with limit 1, a day of five ticks with limit 2; the clock runs to 5; one failed call | `TypeOK`, `WithinLimit`, `DenialsAreEarned` |
| `anonymous` | two calls from one IP with limit 1, or one call with two webhooks and a client; a life of 3 s, clock to 5, pruner's batch 1; one fault | `TypeOK`, `IpBound`, `SlotsComeBack`, `DisabledIsRefused`, `RequestCount`, `GoneIsGone`, `ExpiredAreRemoved` |
| `realtime` | one client at a time: two streams of one machine or of two, each listener, the tracker with two machines of which one leaves or which is stopped; two server events | `TypeOK`, `StuckNeedsSurplus`, `ConfirmedIsHeard`, `PresenceAgrees`, `CallsReturn` |
| `cli_listen` | three events, all forwarded or with a gap, with a login and without; or shown in a GUI that keeps two of them, with one page whose channel holds one, and which fetches at most twice; room for two results | `TypeOK`, `ResultsInOrder`, `PagesMissNothing`, `ResultsArePrinted`, `LoopComesBack` |
| `cli_account` | two commands, each pair of load, login and logout that differs, from no file, a new one, an old one with and without machine_id; three callbacks; two ports | `TypeOK`, `SettingsAreKept`, `CommandsEnd` |

*Bounds.* Three events over two topics let a topic have two events, with one of
another topic between; three events from two topics with channel 2 make a reader
wait in the middle of a reply; maxPending 1 makes the throttle matter after one
event; MAXLEN 2 trims at the third. One fault is one crash, hang-up, remote
cancel, lost reply, failed call, receive error, pruning or expiry: the safety
properties are not about what several of them add up to, and the proofs of the
delivery properties hold for any number. In the liveness run maxPending is
larger than the longest row of unreadable events, which is the condition under
which the throttle works; `delivery_stall` shows what happens without it. The
runs disable the deadlock check: when everything is published and every client
has gone, nothing is left to do. In `registry` the constraint `OneDisturbance`
keeps TLC from going on from the states in which all three streams and a fault
have come together; all three streams without a fault, and any two of them with
one, are explored in full. The two streams of one context are symmetric, and the
properties are invariants. In `rate_limit` a request is denied by the minute,
another by the day, entries leave both windows and both keys expire; requests
are symmetric. The limiter's theorems hold for any number of requests and
failures.

In `anonymous` a life of three seconds is the least in which a channel has a
first, a middle and a last second, and two seconds more let the pruner, with its
batch of one, take two turns over what has run out. The plans split two
questions that do not touch: how calls share an IP, and what happens to one
channel. In `realtime` each plan is one client as the relay makes them; two
events of the server's own accord can be a close and an error, or a change that
comes before or after one of them; surplus replies come from the calls
themselves. In `cli_listen` three events with the second not forwarded make the
gap, two places in the channel of results make it full, and a GUI that keeps two
of three events must drop one, with a page whose stream holds one so that it is
skipped, and whose second fetch (`MaxFetches`) is the one after a Clear, while that of
its mount may still be under way or may have failed. In `cli_account` two commands at
once meet every kind of file, the third callback is the one that finds a channel of
size one full, and two ports let the second login take another.

*Fairness.* `FairSpec` lets every goroutine that can run do so (weak fairness of
the reader, the loop and the receiver of each subscription, as Go's scheduler
gives) and every connected client answer what it has been sent, as the CLI's loop
does. Events, faults, clients and the pruner are never obliged to come.

The other modules state it in `Spec` itself, action by action.
`AnonymousChannels`: the ticker of `StartBackground` keeps coming and a turn
that has begun goes on; nothing else has to happen. (A removal that fails is
tried again at the next turn; faults are bounded, so it does not fail for ever.)
`RealtimeChannel`: a dial succeeds or fails, the reader and the callers run, and
the timeout of a join passes; the server promises nothing. `CliListen`: the loop
between two receives, the logger and the forwarding goroutines run, for a
forward has the HTTP client's timeout; the relay does not have to send. A
goroutine that waits for a mutex has it only if it is free. `CliAccount`: a
command and a callback's handler that can go on do so, unless it is killed; that a
request or a connection comes to its end is not assumed.

## Proofs

`EventDelivery_proofs` proves for every value of the constants that
`DeliveryAssumption` admits:

- `TypeCorrect`: `Spec => [](TypeOK /\ Positions)`, where `Positions` puts
  `taken`, `queued` and the length of `log` in order.
- `DeliveryInvariant`: `Spec => []DeliveryInv`, the inductive invariant.
- `SentAtMostOnce`, `SentInOrder`, `AllAccountedFor`: `AtMostOnce`, `InOrder` and
  `EventsAccounted` follow.

`AtMostOnce` is not inductive. What makes it hold is that an event is in at most
one log, once (`LoggedOnce`), that an entry a group has not delivered is in no log
(`WaitingAreNewer`), and that what was sent is a part of the log in its order
(`SentFromLog`). `WaitingAreNewer` in turn survives the deletion of a stream, which
resets the cursor to 0, because the entries go with it and later ones are new
(`LogsArePublished`, `StreamsAreTopics`). `LogInOrder` says that a log has the
events of a topic in their order, from the order inside a reply and from the
cursor. `EventsAccounted` is inductive beside the types. There is one step per
action of `Next`, and the lemmas before it say what a reply and a sequence that is
extended look like. TLC checks the same invariant on the instance of
`delivery_safety` before it is proved.

`RateLimiter_proofs` proves, for what `LimiterAssumption` admits (a finite set
of requests, positive lengths and limits), `LimiterTypes`, `LimiterInvariant`,
`NeverOverTheLimit` (`WithinLimit`) and `EarnedDenials` (`DenialsAreEarned`).
The inductive invariant is `LimiterInv`, checked with TLC first. `WithinLimit`
is not inductive: a pipeline compares the size of the set it leaves in Redis
with the limit, so what counts is that the set has all requests of the current
window (`CurrentIsKept`). A pipeline prunes by its own stamp, which is never
ahead of the clock (`StampsPast`), and a key expires only when nothing in it
counts any more (`ExpiryIsLate`): every request that was let through renewed the
expiry, and the one whose pipeline stopped before EXPIRE was not let through.
The set of current requests is then a part of a set no larger than the limit.
`DenialsAreEarned` rests on `EntriesAccounted`: whatever a pipeline counts is
there for a reason, so a count above the limit needs as many others.

`EventDelivery_proofs` also proves `OneAtATime` (`OneOutstanding`) and
`RunsAheadByWindows` (`ReadAhead`). The first needs only that nothing is
outstanding at a stream that may send (`AskedFirst`). The second is arithmetic over
the whole loop: `Windows(s)` counts the signals that the reader has consumed, which
are the answered events less the one still in the throttle, `Base(s)` is how long
the log was at the last of them, and `FlowOf` says that the base is within those
windows and the log within one more of it. The products in it are lemmas of their
own, for the solver seldom finds its way through non-linear arithmetic.

`WakeUpsAreNotLost` is what can be proved without fairness of the wake-ups that
`WaitingEventsAreRead` rests on. A reader that waits at its throttle has a signal
there, an event that its handler has yet to take, or an event whose answer is on
its way or still with the client; failing those, the last MaxPending events or more
that it has put into the channel are all ones that cannot be converted. So the stall
of `delivery_stall` is the only one at the throttle. The invariant (`Owed`) says
that, while there is no signal, the handler has passed no event after `Base(s)` that
it could send; the one it awaits the Ready for counts as not passed (`Passed`).

Its last part proves `RelayKeepsPromise` (`KeepsPromise`) from
`RefinementInv`, which is `DeliveryInv` with `NewIsEmpty`. The mapping takes an
event to where it is: waiting, assigned to a connection, sent on it or lost. A
fetch assigns, a send moves one event from assigned to sent; an event that
cannot be converted, a reply that is lost, the end of a stream and the deletion
of one lose; an XADD accepts, and loses what it trims; every other action is a
stutter. A fetch assigns several events in one step, as `WebhookDelivery`
allows.

`SubscriptionTracking_proofs` proves `TrackingTypes`, `SetsAlwaysAgree`
(`SetsAgree`), `CleanupCompletes` (`CleanupIsComplete`) and `NobodyAloneIsDropped`
(`AloneIsNotDropped`). `SetsAgree` is inductive with the types. `CleanupInv` follows
the shutdown: what is still listed is either in the copy of the set that
`CleanupInstanceTopics` works from, or was tracked after it had been read.
`TrackedInv` says that an undisturbed handler is listed for every topic that its
loop has passed.

`AnonymousChannels_proofs` proves `ChannelsTyped`, `BoundedByOverlap` (`IpBound`),
`SlotsAreReturned` (`SlotsComeBack`), `DisabledStaysShut` (`DisabledIsRefused`),
`CountIsBounded` (`RequestCount`) and `RemovedStaysRemoved` (`GoneIsGone`).
`SlotsInv` bounds not the channels of an IP but what it has claimed: its set
together with the calls between check and creation (`Bounded`); a channel in good
time is in that set (`Counted`), and the set lives as long as its newest channel
(`Backed`). `LateFacts` says where a visitor of a disabled channel can be, from the
times to live of the mark and of the channel. `CountInv` weighs the counter and the
updates under way against what was published.

`MachineRegistry_proofs` proves `RegistryTypes`, `LastOneMarksTheRow`
(`GoneIsDisconnected`), `StreamsCanBeFound` (`Findable`) and `TableIsRight`
(`TableTells`). `RegistryInv` holds in all cases: a stream is in the list of the entry
it holds exactly while it counts (`Lists`), and entries and mappings are of the right
machine. `GoneIsDisconnected` holds without regard to races because as long as a row
says connected some stream is on its way to marking it, or will leave last
(`Carried`). The other two hold for streams that were opened with nothing else under
way on their machine (`Orderly`), and `OrderInv` follows these through every place at
which another handler or listener could take something from them: the entry they
hold is the registered one (`Registered`), nobody who closes holds it (`NoneCloses`),
no copy of the contexts that is about to be stored lacks theirs (`SeenIsFresh`,
`UnmapKeeps`), and a listener at work will come to them (`StillToCancel`). For the
table there is `Marked`: where a running stream's row does not say connected, the
change that did it has yet to reach the stream.

`OrderInv` and `Marked` were first explored with TLC, on the instance of `registry`,
to a depth of 26 steps.

`RealtimeChannel_proofs` proves `RealtimeTypes`, `OneSurplusIsAbsorbed`
(`StuckNeedsSurplus`), `SubscribersAreHeard` (`ConfirmedIsHeard`) and
`PresenceIsTracked` (`PresenceAgrees`) from `RealtimeInv`. None of the four is
inductive:

- That the reader is stuck says nothing of how it came to be. `AnswersInv` counts:
  the answers to a topic that are on their way, with the reader or in one of its Go
  channels are never more than the calls that can still take one (`Orphans`) and
  the answers that no call waits for (`unclaimed`). A reader that is stuck for good
  holds one and looks at another in the full channel, which makes two. `CallsInv`
  is what the count needs of the calls: a generation has one call, and the
  generations of a topic are as many as its calls that have subscribed (`Born`).
- `HeardInv` follows the last call on a channel from its first step to the end of
  Subscribe: no other call waits, no handler but its own is there, and an "ok" that
  reaches it means that the server has joined the channel. That nobody has disturbed
  it (`Undisturbed`) includes that no error is coming for its topic, hence
  `ErrorsInv`.
- `MutexInv` says who holds the tracker's mutex, and that nothing has been tracked
  before the channel is shared. `AgreesInv` says that presence and machineChannels
  are the same from then on, at every moment and not only where the mutex is free;
  for a Track that is refused because the channel is not subscribed would break it,
  so it has the state of the channel as well, once something shows that the join
  was accepted (`Accepted`), and that no close or error is coming while the server
  has the channel (`Ends`).

`CliListen_proofs` proves `ListenTypes`, `ResultsStayInOrder` (`ResultsInOrder`) and
`PagesNeverMiss` (`PagesMissNothing`). `LoggerInv` adds to the order of what has been
printed that whatever waits to be printed, in the channel, in the map or in the
logger's hand, belongs to an event that has been printed (`EventFirst`), and that
loop and logger hold what their places say (`Busy`). `ResultsInOrder` speaks of
positions on the terminal rather than of a filtered sequence, so that a print is
an extension at the end; a flush of all results in a row is an induction over how
many there are. `StorageInv` says that what has been posted is in the list or has
left it (`Listed`), that an event is posted once, after its turn in the loop
(`PostedOnce`), and that the streams that answers and pages rely on are open
(`StreamsOpen`). What a page shows is not inductive alone: while an answer is on its
way (`joined`), the answer, with what the stream still brings or has brought too early,
must miss nothing either (`AnswerMissesNothing`), for it will take the place of what is
shown.

`OnlyTheLoginDeadlocks` is about the two mutexes, with who holds them where
(`Holders`): whenever the loop waits for one, the logger holds it and goes on, and
the other way round, except in `LockCycle` with a login. That is the exception of
`LoopComesBack`, and the anonymous loop never needs it.

`CliAccount_proofs` proves `AccountTypes` and `SettingsSurvive` (`SettingsAreKept`).
That property speaks of the moments at which no command is under way; `AccountInv`
is what holds in between. `TokenInv`: where the file has no token, or some command may
take it from there, the keyring has the one that is owed or a command that may have
removed it is about to store one (`Kept`), and the file holds another only while the
login or logout that made it an old one is about to remove it. A command that leaves
the place `set` without storing a token is then harmless unless both copies are gone
(`Lost`).
`FileInv`: where the file had a machine_id, all Loads that may write hold it
(`OldMachine`); where it had none, one Load at a time makes it and no other has
gone on with one (`NewMachine`).

All of these invariants were checked with TLC before they were proved: `RealtimeInv`,
`ListenInv` and `AccountInv` on the instances of `realtime`, `cli_listen` and
`cli_account`, the last also with three commands; so were `Owed` and `Holders`, on the
instances of `delivery_safety`, `delivery_stall` and `cli_listen`.

The assumptions on constants are named in the modules that declare them. Those that
are more than types: the topics of a subscription, the subscriptions, contexts,
channels and requests are finite sets, since they are counted; requests are
no channels, since both are in `late`; `Lifetime` is at least 2, since an EXPIRE of 0
deletes the key; the limits, COUNT, the throttle's limit, the channel's size and the
windows are positive, as they are in the code. `TrackerAssumption` says that the
presence tracker has a client of its own and one channel on it, as
`NewPresenceTracker` and `AddMachineID` make them; `ListenAssumption` that an event the loop receives can
be posted to the GUI. There must be a port for each command (`AccountAssumption`):
`hookie login` falls back to any that the system has free.

Only model-checked: liveness (`WaitingEventsAreRead`, `ReceivedEventsAreTaken`,
`ExpiredAreRemoved`, `CallsReturn`, `ResultsArePrinted`, `LoopComesBack`,
`CommandsEnd`), which rests on fairness and so on ENABLED, out of the prover's reach.
Every invariant and action property of a passing run is a theorem. The three runs
that end in a violation show what does not hold, and are about TLC's instances.

## Not modelled

- The generated gRPC code (about a fifth of the lines of Go), and what the library
  does below it: a stream is an ordered, reliable message channel that ends with
  its connection, as the handlers use it. The stop of the gRPC server, and with it
  how long `GracefulStop` may wait for streams that nothing cancels.
- The web application in TypeScript, with its synchronisation of users and
  organisations from Clerk, and the documentation site. Each of its requests is one
  access to the database; the one that matters here, the disconnect button, is
  `WebDisconnect` of `MachineRegistry`. Of the GUI's page, its filters and its layout;
  of its server, the `since` of GET /api/events, which no page sends.
- Checks of tokens and permissions, once per call and without state; the lists of
  applications and topics; the look-up of a user's name; the repository's own
  `hookie` configuration file, which is only read.
- Parsing and formatting of messages, headers and terminal output; TLS; logging.
- A change of a topic's tier, which no code path makes today; the heartbeats of the
  websocket, which change nothing.
- Several Redis nodes, and the loss of Redis itself: the services treat it as one
  store whose calls may fail.

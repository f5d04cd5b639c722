# Formal models of the Thalovant Go SDK

The SDK (package `thalovant`, sources in `src/`) lets a program talk to an OVOS
assistant through a HiveMind hub.  A program holds a `Client`, which reaches the
hub through a transport (WebSocket, HTTP or MQTT), each with a Noise channel on
top; a `HubSession` keeps such a client connected, hands its events out and gives
up when retrying is pointless; a `HomeLink` does the same for a home device; a
`ControlPlane` talks to the cloud API.

The code is sequential inside a call and concurrent between calls: callers bring
goroutines of their own, sessions and transports start more, and they meet on
mutexes, on channels of capacity one that serve as locks a context can abandon,
and on generation counters that tell a late result from a current one.  That is
where its errors would hide, so that is where the models are.

## Components

Each entry gives the state, the operations, what it talks to, what is hard about
it and what makes it correct.  `PROJECT.json` lists the same components with the
files they live in.

| Component | State and operations | What is hard | What makes it correct | Model |
|---|---|---|---|---|
| Hub session: the link (`session.go`) | `client`, `retired`, `closed`, `up`, the gate, the retry clock; `Connect`, `Ask`/`Emit`/`Reply`, `Warm`, `Probe`, `Close`, `Run` | every operation may drop or build the client; contexts end while a goroutine waits, dials or cleans up; `Close` may give up | one link at a time, none lost; a call keeps its client; watchers know the truth; a closed session stays closed; calls return | `HubSession` |
| Hub session: delivery (`session.go`, `subscriptions.go`) | handlers, subscriptions, one relay goroutine per link; `On`, `SubscribeEvents`, `failEvents` | a relay outlives its link; handlers run outside the lock, panic, block | a stream has no hole; nothing stale; no handler skipped; no relay leaked | `SessionDelivery` |
| Link supervisor (`session.go`) | the wait ladder and the refusal clock; `NextWait`, `After` | arbitrary mixes of outcomes over time; two ladders over one link | waits follow the ladder; `Run` gives up exactly when documented | `LinkSupervisor`, `LinkKeeping` |
| WebSocket transport (`transport_wss.go`) | socket, generation, flags, pending attempt, pin, PSK; `Connect`, `Disconnect`, read loop, writers | read loops are not joined; the KK attempt may be retried as XX; the end of a socket is a verdict or not depending on when and on which socket | no socket lost; verdicts true; no way past the pin; `Connect` woken | `WSSTransport` |
| Noise key, pin and PSK store (`noise_store.go`, `noise_store_file.go`, `noise_folder.go`) | files in a folder shared by processes; load or create the key, pin, forget, adopt what an older folder holds | several processes; a crash between two files; first meeting of a hub by two processes | a key is never replaced; a pin changes only when it is forgotten; no pin is lost | `NoiseStore` |
| Noise channel, HTTP and MQTT transports (`transport_noise.go`, `transport.go`, `transport_mqtt.go`) | admission, channel, poll loop or broker session; `Connect`, `Disconnect`, `PollOnce`, send | an admission whose reset failed; a poll in flight when the session is replaced; a frame whose caller has left; the race of ready and failed | nothing of one session ends or feeds another; messages are whole; the lifecycle is given back | `NoiseChannel`, `HTTPTransport`, `MQTTTransport`, together in `Carriers` |
| Noise handshake and framing (`noise.go`) | pattern, chunk buffer, counters | order and reassembly of chunks; what each message authenticates | a message is delivered whole or the session ends | `NoiseChannel` |
| Runtime client: connection gate (`client.go`, `context_mutex.go`) | the gate; `Connect`, every send, `Close` | a worker keeps the gate after its caller has left, until its cleanup is over | nobody races a teardown; callers are bounded; a sound link is kept | `ConnectionGate` |
| Runtime client: ask and query (`client.go`, `errors.go`) | pending replies, utterances in flight; `Ask`, `Query`, `Emit` | deadline, settling, send error and last reply race; a denial without a request id | an ask takes only its own reply and refusal, and loses none that came in time | `AskReply` |
| Runtime client: conversations (`client.go`, `context.go`) | conversations kept, under several ids each | aliases that join two conversations; the bounds | conversations are evicted whole, oldest first | `Conversations`, which refines `ConversationMemory` |
| Listen, hive frames (`listen.go`, `hive.go`, `subscriptions.go`) | a stream with a bound and a single end | six ends from three goroutines; a predicate that hangs | the stream ends once, with its first reason | `EventListener` |
| Home link (`home.go`) | requests, one answer each | late handlers, two deadlines | a caller is told what the hub got | `HomeRequests` |
| Intents (`intents.go`, `language_matching.go`) | batches of queries and their fallbacks | partial failure, late and repeated answers, nameless ones | trying further never loses what there was | `LanguageMatching`, `IntentQueries` |
| Origin preference (`session.go`) | until when the origin is left alone | failures of both, callers that leave | one client; blame only for failures | `OriginChoice` |
| Control plane (`control.go`, `connections.go`, `hub_skills.go`, `device_login.go`, `native_auth.go`) | token; configuration and its revision; polling of login, admission and skill operations; connections | 409, 412 and 429 answers, lost answers, expiry, two sign-ins | a change is made once, on what is stored then; a live token is not forgotten; waits are paced and end | `ConfigMerge` (refines `SharedConfig`), `TokenLife`, `OperationWaits`, `HubClients`, together in `ControlPlane` |
| Identity, endpoints, protocols; wire codec; chat apps, rich replies, listings, the inventory of `inventory.go`; event and error accessors | none, or constant tables | parsing and formatting | covered by the vectors in `testdata/` and a fuzz test | not modelled |

How they interact: `HubSession` builds a `Client` with a factory, calls it, asks
`Alive` about it and closes it; the client calls its transport under its own gate
and receives frames from it on a subscription; the relay of the session reads the
client's stream.  A transport reads and writes the Noise store once per
handshake.  The supervisor is a pure decision `Run` consults.  The control plane
is independent of all of these: it creates the identity the others use.

## What is modelled

### `HubSession`: the link a session keeps

Goroutines are `Callers` (each runs `Connect`, a call, `Warm`, `Probe` or `Close`,
again and again), `Run` (the goroutine inside `HubSession.Run`, with `watch` and
`pause`) and `Warmer` (the goroutine `Warm` starts, at most one at a time).
`pc[p]` is where a goroutine is, `local[p]` the client in its local variable,
`err[p]` the error its operation has met, `ended[p]` whether its context is over.
`gate`, `client`, `retired`, `closed`, `warming` and `up` are the session's fields;
`cooling` stands for `retryAt` lying in the future.  `status[c]` is what has become
of a client object: not built or closed (`gone`), its link up (`open`), or down but
not closed (`dead`).

Each action is what the code does between two points where another goroutine may
step in: taking the gate; a look at the fields under `s.mu`; the factory call,
made without the lock; the second look that adopts or discards what it returned;
the cleanup that closes a client and may fail, leaving it `retired`; the settle
window; `markUp`; the call itself; giving the gate back.  The factory's outcome is
any of its errors or a client, so `Dial` also makes the test of the context that
follows it.  `Acquire` and `Withdraw` are the two arms of the `select` on the gate;
the code's take-and-give-back when the context has ended meanwhile shows as
`Withdraw`.  `LinkDrops`, `ContextEnds` and `CoolDown` are the environment's.

Left out: events (`SessionDelivery`), how long things take (`LinkKeeping`), a
settle window of zero or less (which returns at once), and the recovery of a
panicking state watcher, which changes nothing here.

### `SessionDelivery`: the events of that link

`Take`, `Drop` and `Close` are the critical sections of `ensure`, `drop` and `Close`
as delivery sees them.  Each taken link gets a `source` (the bounded subscription
on the client's stream) and a relay goroutine; `RelayTakes`, `RelayPublishes`,
`RelayChecks`, `RelayCalls`, `HandlerReturns`, `RelayStops` and `RelayEnds` are the
steps of `ensure`'s relay and of `deliver`, with the lock held
only where the code holds it.  A handler that panics is recovered, so
it too is one that returns, and the next one still runs.  `Offer` is
`eventStream.publish`: append, or end the stream with an overflow error.  A session
that has let a link go takes the next under a new generation.

The capacity clamp of `subscribe` (not above zero becomes 256, at most 65536) is
left to the constants; all events carry the one name handlers ask for.

### `LinkSupervisor` and `LinkKeeping`: waiting and giving up

`LinkSupervisor` holds the pure functions `NextWait` and `After`.  `LinkKeeping`
adds a clock and who drives them: `Run` (dial, hold, see a drop, pause, resume or
give up), foreground calls that dial whenever they like, and `Warm`, which obeys
the ladder `ensure` keeps in `retryAt` and `retryWait`.  One attempt is one step;
that attempts exclude one another is shown by `HubSession`.

### `WSSTransport`: one WebSocket connection after another

Goroutines are `Callers` (`Connect`, `Disconnect`), one read loop per dialled socket
and `Writers`.  `link` is the group of fields under `t.mu`, `generation` and
`attempt` the counters, `socket[g]`, `ready[g]` and `done[g]` the socket and the two
channels of generation `g`.  A section under `t.mu` is one action; so are a dial, a
frame received, a write.  `Connect` makes the KK attempt, reads the verdict, poisons
what is left and retries once as XX.  The read loop goes through hello, parameters,
the answer, the pin and the final message, then through application frames, and
ends in `ReaderRecords` and `ReaderEnds`.  The hub is of one kind for a behaviour:
good, refusing the access key or the password, with another key than the pinned
one, or with another key pinned for this client.  Cryptography is modelled by who
can authenticate what: a KK handshake fails at the hub, which just closes; an XX
handshake tells the client more.  `stored` is the pin and a possibly stale PSK.

Not in it: the connection's telemetry phases (what `Alive` reads of a transport), the legacy unencrypted path's payloads, ping and pong, and a
`Disconnect` that finds nothing to disconnect.

### `NoiseStore`: the files a client's trust is in

Any number of processes share two folders: `beside`, the folder of the identity file,
and `legacy`, the one folder of earlier versions.  `key[f]`, `pins[f]` and `psks[f]`
are the three files of a folder, `lock[f]` the process that holds its lock file,
`met[n]` the client key hub `n` has pinned on its side.  `proc[p]` is a process's call:
where it is, its folder, node, key in hand, and what it has read under the lock.
`accepted` is history.

A call goes through the steps of `resolveNoiseStateDir` and `adoptLegacyNoiseKey`, of
`LoadOrCreateNoiseKey`, of the PSK cache (a WebSocket only), of the hub's answer and
of `pinNoisePeer`; or it is a program's own `SaveNoisePin` or `ForgetNoisePin`.  Each
read-modify-write takes its folder's lock in one step, which also reads, and writes
in another, so that others move and a crash falls in between; the copy of an old key
writes twice.  `Published` is what `publishNoiseFile` may do, its failure after the
file has appeared (the sync of the directory) included.  A WebSocket works its folder
out anew at each use (`FoldersNow`), HTTP and MQTT once.  The hub's key is any key,
so the hub may have changed or be another; it pins the client's key at first sight
and refuses another one.

Left out: the checks of permissions and symbolic links, and the wording of a refused
key.  A file that cannot be read ends the call with nothing written, which is what
`Crashes` does; so does a connect that is given up on the way.  Which pattern the
pin chooses, and the PSK kept in memory, belong to `WSSTransport`.

### `RuntimeClient`: what a program calls

The parts of the client share no state but what one hands to another as an input the
other leaves open anyway (the result of a send, whether the link is ready, the ids of
a turn).  `RuntimeClient` therefore keeps them side by side: `part` says which one a
behaviour is about, and the others stay at rest.  One run then covers all of them at
the sum of their state spaces, not the product.

**`ConnectionGate`.**  `call[k]` is one call: its caller (`at`), its context (`over`)
and its worker (`work`).  `LockGate` is `contextMutex.lock`; from then on the worker of
`Connect` or of `runOwned` goes through its look at the link, the transport, the check
of its context, the cleanup and `UnlockGate`, while `CallerLeaves` may happen at any
time.  The transport is any `RuntimeTransport`: it may fail, hang, close the link or
say that nothing was sent (`errNothingSent`).  `Propagate`, `Escalate` and `Broadcast`
(the op "hive") clean nothing up and bound nothing: their context is their caller's.

**`AskReply`.**  `request[r]` is one `Ask` or `Query` with its subscription (a bounded
queue) and what it has heard; `untold[s]` a fire-and-forget utterance, tracked for the
grace in which a denial of it is still expected.  The hub (`held`, `refused`,
`replies`) answers in any order, late, or not at all, and refuses without a request
id; `RefusalBelongsToAsk` is how `errors.go` and `utterancesInFlight` attribute that.
`Accepted`, `Drained`, `Verdict` and `Ends` are `accept`, `drain`, `finish` and the
arms of the `select`: `RequestReads`, `ReplySettles`, `RequestDeadline`,
`RequestCanceled`, `SendFailureSeen`, `StreamClosed`.  A frame may be written after its
request has ended, and reported as failed although it was written.

**`Conversations`.**  The map from session ids to shared entries, with its sequence
number; `RememberConversation` files a turn under its ids and those of every entry they
reach, and evicts whole entries.  `ConversationMemory` says what that is for: a list
of conversations, least recently used first, each reached by any of its names.  The
run checks `RemembersConversations`, the refinement: the entries grouped and ordered
by `seq` are that list.

**`EventListener`.**  One stream of `Listen` or `listenHiveFrames`: `source` is the
subscription on the transport, `collector` and `watcher` the goroutines, `stream` what
the caller ranges over.  `StreamFinish` is `finish`, reached from the caller's
`Close`, the context, the source's overflow, the link, a panicking predicate and
`MaxEvents`.  A predicate may never return.  `WaitForEvent` is one reader of a stream.

**`HomeRequests`.**  `home[r]` is one request: the handler's goroutine, the two
deadlines (the handler's, and the hub's bound beyond it), the answer and the reply's
goroutine.  A handler may return late or never, a reply may hang in a frame it has
begun.  `AnswerStands` is about what is left behind when `AnswerHomeRequest` has
returned: the handler and the reply, both still able to move.  Requests are independent
of each other, so one is enough.

**`LanguageMatching`, `IntentQueries`.**  The matching is pure: parsing, likely
subtags, distances and the choice of `ClosestLanguage`, over a cut of the CLDR tables
(a language they do not know included).  `IntentQueries` is `Client.Intents`: list
each language, its usual form, the whole manifest once; describe in batches; fall back
to the engines' names.  `sent` holds the queries with their ids (positions), and
`Delivered(n)` an answer to query `n`, now or late, once or more often, with or
without its id; `HubDenies`, `QueryDeadline`, `LinkEnds` and `IntentsCanceled` are
the other ends.  The instances' hubs list three different manifests (names
only, templates in two spellings of a language, one intent in several languages) and
may deny any of the types.

**`OriginChoice`.**  `OriginPreference.Connect` by calls that share one preference:
looking, building, closing what a failed attempt left, blaming, building at the
public address.

### `Carriers`: the transports beside the WebSocket

`carrier` picks the part, as above.

**`NoiseChannel`** is the exchange every carrier shares.  The handshake: the hub is
any combination of password, key, pinning of our key, patterns and suite; each message
authenticates what `Authentic` says; a failed KK is tried again as XX on a fresh
channel (`Retries`).  Sending: a send queues for the channel's lock, encrypts and
writes its chunks under counters, its caller may leave, and a write nobody knows the
end of poisons the channel (`Poisons`).  Hearing: the frames of the hub, by marker,
may be repeated or reordered by the carrier; `InSequence`, the counter and the cap
decide.

**`HTTPTransport`** is `transport.go`: `lifecycle` and `pollMu` are its two locks,
`loop[n]` and `channel[n]` the poll loop and the channel of session `n`, `connector`
the `Connect` under way, `worker` the goroutine of `Disconnect`, whose caller may
leave, and `peer` what the hub holds.  `Connect` joins the old loop, judges what there
is, cleans up an admission it knows of, posts, polls the handshake through and starts
the loop; each stage may fail, run into its deadline or lose its answer.

**`MQTTTransport`** is `transport_mqtt.go`: `clients[g]` is the broker client of
generation `g` with its handler, `signals[g]` how often each of the two channels
`Connect` waits on was closed.

### `ControlPlane`: what calls of the API share

Requests of several calls, and of other writers, interleave, and each may be
done with its answer lost.

**`ConfigMerge`** has `UpdateRuntimeGroupConfig` (read, merge, conditional write, at
most three attempts) and `ReplaceRuntimeGroupConfig`, with `mergeRuntimeConfig` over
objects one level deep.  `SharedConfig` is the promise: a configuration is a set of
facts, and each change falls on it whole, at one moment, at most once.  `MergesAreAtomic` is the
refinement.  Where a configuration starts, what callers change in it and what others make
of it are constants; `MCControlPlane` gives them values.

**`TokenLife`** is `acceptToken` and `RevokeAPIToken` on several goroutines.
**`OperationWaits`** is `WaitForAdmission`, `WaitForHubSkillOperation` and the poll
loop of the device login, with a clock per wait.  **`HubClients`** is
`CreateClientIdentity`, with its check of the connection's kind, and `DeleteClient`,
with its one retry from a fresh read.

## Runs

Run one with `tlc -config X.cfg M`.  A property that is a conjunction is named with its
parts; each part has its own comment in its module.

| Run | Asks | Bounds, and why they are enough |
|---|---|---|
| `hub_session` (`MCHubSession`, `HubSession.cfg`) | the inductive invariant (with `NoLinkLost` and `UpMeansHeld`, which follow from it), `OneLink`, `CallKeepsItsClient`, `ShutStaysShut` | two callers of every kind, `Run`, `Warmer`, two client objects; all contexts may end.  Two callers beside `Run` and `Warmer` give four contenders for the gate; two clients let an old one be retired while a new one would be dialled.  The two callers are symmetric.  The proofs drop both bounds |
| `hub_session_live` (`HubSessionLive.cfg`) | `CallsReturn`, `CloseEndsRun`, `LinkCaredFor` (a dead link is let go, a missing one is sought) | one caller that calls, probes and closes beside `Run` and `Warmer`; no symmetry |
| `link_keeping` (`LinkKeeping`, `LinkKeeping.cfg`) | `PolicyKept` (`WaitsFollowLadder`, `GivesUpExactly`), `WaitsBounded` | first wait 1, ceiling 5, grace 3: the ladder 1, 2, 5 jumps to a ceiling that is no double, and the grace can be met exactly and missed by one.  `MaxTime` 6, `MaxAttempts` 4 |
| `session_delivery` (`SessionDelivery.cfg`) | `StreamsHonest` (`StreamIntact`, `ClosedEndsSubscribers`), `OldLinksSilent` (`StaleNeverPublished`, `OnlyCloseOrOverflowEnds`), `EveryHandlerCalled` | `MaxGeneration` 3: two links, each taken and the first dropped; three events; capacities 1, so every queue overflows at the second event; two handlers, one subscriber |
| `session_delivery_live` (`SessionDeliveryLive.cfg`) | `RelaysEnd` | the same with one handler |
| `wss_transport` (`MCWSSTransport`, `WSSTransport.cfg`) | `ConnectHonest` (`VerdictTrue`, `NoDowngrade`, `WakeUpComes`, `NoSocketLost`), `OnlyItsOwnEndsALink` | three generations: a KK attempt, its XX retry, and a `Disconnect` or a second `Connect` beside them; two callers, one writer, all five kinds of hub |
| `noise_store` (`MCNoiseStore`, `NoiseStore.cfg`) | `IInv` (with one trusted key and no key shown that is not kept), `OthersKept`, `CopiedWithItsPins` | two processes, two hubs, two hub keys, three calls between them: two meet a hub while a third call, of either, has pinned or copied before or forgets after.  The proofs drop these bounds |
| `client` (`RuntimeClient.cfg`) | `ClientTruth` (`OneOperation`, `StreamTellsTruth`, `HomeToldTruth`, `DescriptionsTrue`, `SomethingToSay`, `OneClient`), `NeverWorse`, `BlamedForTheirOwn` (`SoundLinkKept`, `BlamedFairly`), `RemembersConversations`, `AskHeardRight` (`RefusalNotAnothers`, `SpeechNotLost`), `HomeAnswersStand` | *gate*: two calls, each again and again: one whose caller left and one that follows.  *ask*: two utterances out of two asks, a query and a send, three events, subscriptions of two: two that compete for a denial, and an overflow.  *conversations*: three ids and a blank one, two kept of two aliases each, five turns: joins, an alias too many and an eviction each happen with others left.  *listen*: capacity 1, three events, up to two wanted.  *home*: one request.  *intents*: two languages, manifests of two to four rows (three where the hub leaves request ids out), batches of two, answers up to twice.  *origin*: two calls, cooldown 2, time 3 |
| `client_live` (`RuntimeClientLive.cfg`) | `NobodyWaitsForEver` (`GateServes`, `ListenEnds`, `ListenersLeave`, `HomeRequestsEnd`, `IntentsEnd`) | the same for the parts that wait, answers once |
| `carriers` (`Carriers.cfg`) | `ChannelHonest` (`HandshakeTruth`, `WireWhole`, `HeardWhole`), `LinksKept` (`UpIsPolled`, `SignalsOnce`), `NothingOldHurts` (`OldSessionsHarmless`, `OldGenerationsHarmless`), `LifecycleReturns` | every kind of hub; two sends of up to three chunks; four frames of the hub and a cap of three, so that a message of the cap and one beyond it both occur; two HTTP sessions and three MQTT generations: one left behind and one that follows |
| `control` (`MCControlPlane`, `ControlPlane.cfg`) | `ToldTruth` (`MergeToldTruth`, `TokenTruth`, `ClientsTruth`), `MergesAreAtomic`, `TokensAndPace` (`LiveTokenKept`, `WaitsPaced`), `WaitsEnd` | two merges and two replacements of two keys and two values, so that all three attempts of a merge can meet another's change; two sign-ins and two revokes; a wait of four ticks at intervals of one, asked to wait up to three; one connection others change three times, since a delete tries twice |
| `lost_admission` (`CarriersLostAdmission.cfg`) | `AdmittedOnce`, which the code does not keep | see below |

Deadlock is checked in the `HubSession` runs, where some step is always possible.
The other modules stop when a bound (clock, attempts, generations, events, calls) is
reached or when everybody is idle, so their runs do not check it.

**Fairness.** In `HubSession`, every goroutine that can take a step eventually does
(weak fairness): the Go scheduler sees to it, and dials, closes, settle windows and
pauses all end by a deadline or by their context.  A goroutine blocked on the gate
gets it if the gate keeps being given back (strong fairness of `Acquire`): the Go
runtime hands a channel to its blocked senders in order.  Nothing is assumed of the
environment: links need not drop, contexts need not end, the retry time need not
come.  In `SessionDelivery` relays keep running and handlers return; that a handler
returns is a caller's duty the code cannot enforce.

In the client's parts goroutines are scheduled and the contexts the code itself bounds
end; transports, predicates and handlers need not return.  The contexts of `Propagate`,
`Escalate` and `Broadcast` are not among those that end.  `GateServes` says two things:
callers return once their context is over, which the deadline of every other call sees
to, and the gate is given back if the transport's calls end.  `ListenersLeave` says
that a stream that ended leaves a goroutine behind only inside a predicate.  A query of `Intents` has its deadline.  In `HTTPTransport` requests end
(each has a timeout) and a lock others keep taking, or a `select` with a cancelled
context among its cases, is fair in the strong sense.  In `OperationWaits` time
passes and what has a bound ends: sleeps, requests whose context is over, and the
requests of an admission's wait, which carry its deadline.  Nothing bounds the other
requests: the default HTTP client has no timeout.

**Assumptions about what is outside.**  An HTTP request that timed out is not
processed by the hub later than that.  No chunk of a Noise message is empty.  A hub's
skills stay as they are during one `Intents` call.

## What the code does and its comments do not say

One is shown as a run.

`lost_admission`: `transport.go:260` remembers an admission once `POST /connect` is
answered.  If the hub admits and its answer is lost, the object does not know; its next
connect skips the release and asks for a second admission, although "The HTTP plugin
only offers a fresh handshake for an unregistered peer" (`transport.go:211`).

The others are noted, and the property that says it stands in its module where one is named;
no run asks for it:

* `LinkKeeping.RefusedThroughout`: a foreground call or `Warm` may bring the link up
  and lose it while `Run` pauses.  `Run` then watches a link its supervisor was never
  told of, so the refusal clock goes on from before that link: `Run` can give up for
  "refusals that have lasted the grace" although the hub admitted the client in
  between.
* `SessionDelivery.OneHandlerAtATime`: each link has a relay of its own; a handler
  still busy on an old relay runs beside the handlers of the new one.
* `SessionDelivery.NoCallAfterUnsubscribe`: a delivery that has read `removed` may call
  the handler after unsubscribe has returned.
* `SessionDelivery.NoDeafHandler`: when a slow handler lets the relay's source
  overflow, the relay ends and no handler hears another event until the link is
  replaced.
* `NoiseStore.NotLockedOut`: a WebSocket handshake works its folder out once for the
  key and again for the pin.  If the identity's folder cannot be written for a moment
  at the start, the key is made in the old folder and the pin is filed beside the
  identity.  The next connect sees no key beside it, finds that the old key has not
  met this hub (its pin is elsewhere), makes a key of its own, and the hub refuses it.
  HTTP and MQTT, which work the folder out once, do not do this.
* An old folder that cannot be read at the retry, after a copy that failed between pins
  and key, leads to a key of one's own beside the hub's pin (`noise_folder.go:111-118`
  rules that out for failed writes only); and a failed sync of the directory reports
  an error for a key that is in place, so "leaves no key" is not quite so.
* `OperationWaits.DeviceWaitBounded`: "Timeout bounds the whole approval wait"
  (`control.go:287`), but a poll request that is not answered is not cut at the
  deadline.  The last request, at the deadline, may come earlier than the interval.
* `AskReply.RefusalIsOwn`: the denial of an utterance that was given up on, arriving
  when one other ask is in flight, refuses that one.
* The header of `home.go` (14-17) has the speech of an answer outside the contract empty;
  `HomeResponse` (116-118) and the vectors keep it beside the code `unknown`, and so does
  the model.
* A send that failed ends its `Ask` with the send's error, and speech that had already
  arrived is dropped with it (`client.go:881-894`).  `SpeechNotLost` leaves that end out.
* MQTT's `Connect` may find both of its channels closed and choose ready, though the
  link failed meanwhile; what failed it is told by the next operation.
* `RevokeAPIToken` told as done for a token that is still alive: its 401 was about
  another token, which a sign-in put in its place meanwhile and which had expired.
  `TokenTruth` states the exception.
* A wait for an admission that failed and whose operation the API has since forgotten
  (404) is told as admitted.  `CreateClientIdentity` leaves the connection when no
  identity can be made of the answer.
* `IntentQueries.OneListing`: `Intents` files what it lists under the key of the same
  language that is there already, and overwrites what was there (`intents.go:637`),
  because "en-us asked and en-US chosen for another tag are the same listing"
  (`intents.go:628`).  They are not: the one chosen for another tag is the whole manifest's
  group, in which `en-us` and `en-US` are one; the one asked is keyed by exact tag.  A hub
  that spells a language in two ways, asked for an unknown language and then for `en-US`,
  shows the first both spellings' phrases until the second's own listing replaces them:
  those of the other spelling are gone for both.
* `Intents`: a caller's cancellation during a later batch's send is told as a partial
  inventory; `Denied` names the listing although the hub was only silent
  (`intents.go:444`); the usual form of `zh-TW` is `zh-cn`, beyond the distance
  `ClosestLanguage` accepts; and a hub that leaves request ids out may have a late
  listing taken for the next query's.

## What is proved

`HubSessionProofs` proves for any sets of callers and clients, from
`RolesAssumption` alone (`Run`, `Warmer` and the callers are distinct, `None` is none
of them):

* `Invariance`: `Spec => []IInv`.  None of the safety properties is inductive by
  itself: `OneLink`, for one, holds only because a goroutine that dials knows, since
  its look under the lock, that there is neither a client nor a retired one, and
  because nobody else can have changed that without the gate.  `IInv` says so in
  five parts besides the types: `GateOwned` (places of the gate's owner are held by
  its owner), `Account` (who answers for each unclosed client), `OwnerKnows` (what
  each place knows of `client`, `retired` and `local`), `Told` (when `up` may differ
  from holding a client) and `CloseKnows` (what a closing goroutine, and everyone
  after it, can rely on).  There is one lemma per action, each with one step per
  part; `NextKeeps` joins them.
* `OneLinkAlways`, `NoLinkLostEver`, `WatchersToldTruth`, `CallsKeepTheirClient`,
  `ShutForGood` follow from `IInv`.

`SessionDeliveryProofs` proves, for any numbers of links, events, handlers and
subscribers and any capacities above zero (`BoundsAssumption`):

* `DeliveryInvariant`: `Spec => []IInv`.  Beside the types it holds `RelayKnows` (a relay
  has the event of its own link it works on, and the handlers still to go through),
  `SourceKnows` (what the source of a link holds is of that link, without a gap, and
  follows what its relay took), `SubKnows` (a subscriber's stream is without a hole, and
  while it is open the event the current relay publishes next is the one after its
  newest) and `ClosedEndsSubscribers`.
* `StreamsAlwaysHonest` follows from it; `OldLinksAlwaysSilent` and
  `EveryHandlerAlwaysCalled` are action properties, each by one look at every action.

`LinkKeepingProofs` proves, for every policy `Validate` accepts:

* `RetryWithinCeiling`: `NextWaitOnLadder` and `AfterOnLadder` say that the two functions
  never leave `Retry .. Ceiling`; the invariant adds that both ladders' times were set
  from such a wait no later than now.
* `ReportInvariance` and `PolicyAlwaysKept`: every report `Run` was given is as the policy
  says.  `PolicyKept` is about the whole history, and is kept because the invariant also
  knows where that history has left the supervisor: its wait is the rung for the failures
  since the link was up (`LadderKnows`), its refusal clock started with the first of the
  refusals that lead up to now (`ClockKnows`).  The reference ladder is a recursive function; that it
  exists and what it does at each rung is shown from the natural-number induction that
  can be stated over a set.

`NoiseStoreProofs` proves, for any processes, hubs and keys and every subset of the
faults, from `NamesAssumption` (`None` and the old key are nobody else's names) and
`BoundAssumption`:

* `StoreInvariant`: `Spec => []IInv`.  `TrustIsOne` is not inductive: a process writes
  back the whole map it has read, so it needs `LockOwned` (inside a transaction is
  exactly who holds the lock) and `ReadTrue` (what was read is still there);
  `KeyShownIsKept` and `NoKeyBesideFailedCopy` need `PlacesKnow` (a process about to
  make a key has none in hand, one that has copied a key finds it in its folder).  Two lemmas
  carry every step that writes no file (`Outside`, `Entering`), one the end of a
  transaction (`Leaving`).
* `OneKeyIsTrusted`, `ShownKeysAreKept`, `FailedCopyMakesNoKey` follow from it;
  `KeysComeWithPins` and `NothingIsLost` are action properties: `WhoWrites` names the
  five actions that write pins or PSKs, and each is looked at.

`RuntimeClientProofs` proves, for any calls, asks, queries, sends, ids, streams, home
requests and origin calls, from the assumptions the parts' modules name (`NoCall`, `NoId`
and `NoTag` are nobody's names, the kinds of request are disjoint, bounds are numbers):

* About the gate by itself (`GateSpec`), for any number of calls: `GateInvariance`, the gate is
  owned by exactly the call whose worker is alive, whether its caller is still there or
  not; `OneOperationAlways`; and `SoundLinkKeptAlways`, an action property, which needs
  `WorkKnows` as well, what a worker at its place knows of its own error and of whether a
  cleanup is due.
* `ClientInvariance`: `Spec => []ClientKnows`, the invariants of the seven parts side by
  side.  `OnePartSteps` says that a step of the client is one of a single part and leaves
  the variables of the others as they were; each part then has an invariant of its own,
  with a lemma per action:
  * `ConversationsKnow`: the ids of an entry's group are exactly those filed under its
    sequence number, all of them hold the same entry, and no number is ahead of the
    counter.  It is what makes an eviction that removes an entry's ids leave nothing
    behind, so that no more than the bound are ever kept.  The
    model's loops (trimming aliases, evicting the oldest) are recursive functions; that
    they exist and what they keep is shown by `LoopRuns`, an induction over a set of
    numbers.
  * `AskKnows`: a request goes on only while nothing it heard has ended it, its
    subscription holds no more than fits, and an event is under its utterance's id or,
    refused on the bus, under none.  `AskStepRefuses` and `AskStepSpeaks` are the two
    halves of `AskHeardRight`; both are about what accepting an event, draining the queue
    and the verdict do together.
  * `ListenKnows`: while the collector is at work, the event in its hand is the one after
    the last delivered, and those behind it are in the source without a hole, but for one
    an overflow lost (`CollectorKnows`); why a stream ends is what has happened
    (`EndKnows`).  `HomeKnows`: what a request says is the contract's from the moment it
    answers, its caller is told at the end, and a reply still queued behind a request
    that is over has its context over too, which is what `HomeAnswersAlwaysStand` needs.
    `OriginKnows`: which client a call at each of its places has open.
  * `IntentsKnow`: at which stage which listing is in hand (`PlacesKnow`), what each id was
    sent about (`SentKnows`), which keys are listed (`ListedKnows`), that every language
    listed so far can be spoken where the hub's manifest can (`SpeaksKnows`), and which
    descriptions are in, late or waited for (`DescribedKnows`, `BatchKnows`).
* `ClientTyped`, `ClientTellsTruth` follow from it; `BlamedForTheirOwnAlways`,
  `AskHeardRightAlways` and `HomeAnswersAlwaysStand` are action properties from it.
* The languages and hubs of `ClientInvariance` are those `RuntimeClient` names for its
  run.  `InventoryOfAnyHub` drops that: it is about `IntentQueries` with any languages
  asked, any hub of finitely many rows and any options.

`ControlPlaneProofs` proves, for any number of calls, any configurations that nest one
level (`ConfigsAssumption`), tokens, connections and timeouts, from `MergeAssumption` (a
merge is no replacement), `TokenAssumption`, `ClientsAssumption` and `WaitsAssumption`
(bounds and intervals are positive):

* `ControlInvariance`: `Spec => []ControlKnows`, four invariants side by side, since a
  step is of one part.  `MergeKnows`: a change that was made is told as made or as
  unknown, one that was not is never told as made.  `TokenKnows`: a token is kept once,
  and a revoke that has begun knows that its target was kept already, so that a sign-in
  that finishes meanwhile brings another.  `ClientsKnow`: a call that creates has a
  connection exactly after its POST.  `WaitsKnow`: what has been slept and what is left
  of the nap make up what was asked for, unless the deadline cut it.
* `ToldTruthAlways` and `ControlTyped` follow from it; `TokensAndPaceAlways` is an action
  property from it.
* `MergesAlwaysAtomic` is the refinement of `SharedConfig`: the write of a merge is the one
  step in which its change falls on the facts stored then, because a conditional write
  goes through only on the revision that was read; every other step is a stutter.

`CarriersProofs` proves, for any number of sends, chunks, frames, HTTP sessions and MQTT
generations, from `ChannelAssumption`, `HTTPAssumption` and `MQTTAssumption` (nobody is
`NoSend`, bounds are numbers):

* `CarriersInvariance`: `Spec => []CarriersKnow`, the three invariants side by side.
  `ChannelKnows` says what the handshake has shown (a KK session's hub knew our key, so
  that such a session is never refused for it), that the session's next counter is that of
  the next frame on the wire, that the writer stands at its next chunk with the frame
  before it last on the wire, and that the buffer is an unfinished run of the hub's frames
  which ends with the one received last and begins after all that was delivered.
  `HTTPKnows` says who holds `lifecycleMu` and `pollMu` and that at most one loop is live,
  the one `pollDone` stands for.  `MQTTKnows` says the same of its lock and that a
  generation is told ready, and told failed, only while it is the current one.
* `ChannelAlwaysHonest` and `LinksAlwaysKept` follow from it; `NothingOldHurtsEver` is an
  action property from it.

`WSSTransportProofs` proves, for any callers, writers, kinds of hub and number of
generations, from `KindsAssumption`, `RolesAssumption` (nobody is `None`) and
`BoundAssumption`:

* `TransportInvariance`: `Spec => []IInv`.  No part of `ConnectHonest` is inductive.
  `VerdictTrue` rests on the whole way from the hub to `Connect`: who may have closed a
  socket with a refusal's code (`RefusedFor`), that the link says what its own read loop has
  negotiated as long as it is connected (`LinkKnows`), how far a handshake was when its read
  loop failed and why (`ReaderKnows`), and that what was recorded is still there, and about
  the same generation, when the Connect that waits looks at it (`CallerKnows`).  What makes
  the last hold is `OneConnect`: `t.attempt` lets one Connect at a time move the generation
  on, so that a waiting Connect whose generation is over has met a Disconnect, which has
  cancelled it or is about to (`Canceling`); `WakeUpComes` needs the same.  `NoSocketLost`
  and the rest need `NothingAhead`: nothing is there of a generation to come.
* Few steps change many parts.  `ReaderStepKeeps`, `ConnectorKeeps`, `CallerMovesKeeps`
  and `OthersKeep` carry the invariant through the steps of a read loop, of the one Connect
  under way, of a goroutine that only moves on, and of everybody else; each action's lemma
  shows what its own lines owe.
* `TransportTyped` and `ConnectAlwaysHonest` follow from it; `OnlyItsOwnEverEndsALink` is an
  action property from it.

**Only model-checked**: liveness (`CallsReturn`, `CloseEndsRun`, `LinkCaredFor`,
`RelaysEnd`, `NobodyWaitsForEver`, `LifecycleReturns`, `WaitsEnd`), which is beyond this
prover; `RemembersConversations`, the refinement of `ConversationMemory`, because its
mapping sorts the entries into a list, and what sorting and filtering a sequence of any
length do needs an induction over data; and `NeverWorse`.  `NeverWorse` is a statement
about the languages and hubs of the run, not a theorem: which language is nearest is read
from a table, and for languages and hubs of other shapes (see `OneListing`) a later
listing under the same key may leave an earlier language with less than its own tag had.
What does hold of every hub is `InventoryOfAnyHub`.

## Not modelled, and the plan

Not modelled: identity, endpoint and protocol parsing, the wire codec, chat apps, rich
replies, listings, `inventory.go` and the rendering of an intent inventory, accessors
and error types.  They keep no state across calls and are compared with golden
vectors; a model would repeat the parser.  The single-request endpoints of the control
plane have no state either.  Cryptography is represented by what it lets a party
know.  Of the transports, the telemetry phases beyond those that decide something, the
redaction of errors and topic names are left out.

The plan, in order:

1. Refinements: an abstract link (down, up, replaced) that `HubSession` implements; an
   abstract connection that the three transports implement and `HubSession`'s client
   objects stand for; the link events of `SessionDelivery` as steps of `HubSession`.
2. The refinement of `ConversationMemory` as a theorem, with the mapping written as a
   relation between the two states instead of a sort.

Runs stay few: modules of one component that share a state space share a run, and
parts without shared state are combined by a variable that picks one.

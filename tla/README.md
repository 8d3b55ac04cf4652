# A verification project for neon-pkgs

The repository is the monorepo of Neon's JavaScript packages. Most of it is
request/response code: generated API clients, command-line formatting, HTTP
handlers. What keeps state across callbacks, sockets, timers and processes is a
small part of it, and that part is what these modules are about. The heart is the
Realtime client (`packages/realtime`), which keeps the results of live queries up
to date over one WebSocket; around it are the React hook that uses it, the session of
the auth client, the session that commands of the CLI share, and the pipelines of the
CLI's psql.

## Inventory

| part | state it keeps | operations | what is hard |
|---|---|---|---|
| reconciler (`realtime/src/client/reconciliation/reconciler.ts`) | per query: epoch, next sequence, running baseline attempt, backlog, live; one open publication | add, deactivate, remove, accept (progress, three baseline frames, open, keyed_results, reset_required, commit) | a publication spans frames and queries; baselines and publications interleave; listeners called in the middle of a handler may call back |
| subscription (`subscription.ts`) | rows, snapshot, state, listeners, staged decoded batches | prepare/install, publishReset, publishBatch, caughtUp, fail, markClosed, renew | everything is installed before anybody is told |
| ordered changes (`ordered-changes.ts`) | none: a private candidate and a temporary linked list | validateChangeOrder, applyMaterializedChanges | a program of moves joined from several bodies |
| transaction waits (`transaction-tracker.ts`, `mvcc.ts`) | recent transactions, merged visibility proof, waiters, timers | wait, seen, applySnapshot, applyProgress, close | proofs overlap and may be narrower than earlier ones |
| connection coordinator (`connection/coordinator.ts`) | one socket, managed and active subscriptions, pending requests, live ids, detaching ids, renewals, timers | subscribe, renew, unsubscribe, close, every server message, disconnect, reconnect | re-entrant listeners, answers that cross a cancellation, timers of several generations |
| recovery, backoff, heartbeat, timers (`connection/*.ts`) | retry episodes, generations | retry, baselineCompleted, interrupted, cancel; next, reset; start, received, stop | stale timers |
| capability refresh (`query-refresh.ts`) | capability, in-flight flag, generation, timer | start, stop, refresh, replaceSealedQuery, setRefreshCallback | answers after stop and start; a renewal by hand while a refresh is under way |
| row waits (`row-waiter.ts`) | one promise, its listener and timer per call | waitForRows | a subscription that ends or is unmounted while somebody waits |
| React store (`realtime-react/src/live-query-store.ts`) | open subscription, refresh error, shown snapshot | open, close, renew, update | late callbacks of an earlier mount |
| TanStack collections (`realtime-tanstack`) | sync sessions | sync, cleanup | late callbacks of a session that is over |
| auth session (`packages/auth/src/core`) | session cache, invalidation flag, in-flight requests | getSession, signIn, signOut, updateUser, broadcasts | sign-out against requests in flight |
| CLI session (`cli/src/commands/auth.ts`, `refresh_lock.ts`, `auth_recovery.ts`) | a credential store and a lock file shared by processes | ensureAuth, refresh, 401 recovery, login | two processes and a one-time refresh token |
| psql pipelines (`cli/src/psql/wire`) | queue of operations, pending error, slots and counters of the session | \startpipeline ... \endpipeline, tab completion | operations enqueued between an error and its Sync |
| config push (`packages/config-runtime`) | none; a plan of API calls | push | failure in the middle |

How they interact: `RealtimeClient` creates a `Subscription` and hands it to the
coordinator as a set of callbacks; the coordinator owns the socket and gives each
reconciliation frame to the reconciler; the reconciler calls back into the
subscription (its `ReconciliationTarget`), which installs rows, calls listeners and
feeds its transaction tracker. All of it runs on one JavaScript thread: a handler
runs to completion, but it calls listeners, and a listener may call any public method.
The React store opens and closes subscriptions, shows what their listeners report, and
owns a refresh controller that asks the application for the next capability and
renews the subscription with it. The auth client shares one cache among the callers of
a tab and hears of other tabs by broadcast. CLI commands share no memory, only the
credential store and the lock beside it. psql's pipeline session sits on the queue of
its connection, which tab completion uses too.

## What makes each part correct

* Reconciler and subscription: no true frame is a protocol error; all up-to-date
  queries show one cut of the database history, before and while listeners run; a
  listener that applies what it is given agrees with the snapshot; rows never go back;
  a query that is kept becomes current.
* Ordered changes: a program that validation accepts leaves every moved row where it
  was promised, loses and doubles no row, and leaves the others in their order.
* Transaction waits: a promise resolves only for what the rows reflect, and nobody
  waits for what is known.
* Coordinator: its tables describe one and the same set of subscriptions; everything
  under way belongs to the socket there is; each renewal is answered truthfully; no
  active subscription waits for nothing; no live query is left behind at the service.
* Refresh, row waits and React store: refresh never falls asleep and never asks twice;
  the hook shows the subscription or a failure that happened; nobody waits for rows
  that cannot come; a stale query gets its next capability. TanStack: a session that
  was cleaned up writes nothing.
* Auth session: nobody who asks after a sign-out shares a request from before it or reads
  what was cached before it, and what is cached is the server's session, as far as the
  tab was told.
* CLI session: one exchange at a time, no refresh token twice, the newest token stored,
  no command stuck behind a dead one.
* psql pipelines: each promise tells what the server did, the command that failed is
  the one that is blamed, and every error is shown.
* Config push: a rerun after a failure reaches the same state.

## Modules

The reconciler comes first because everything the package promises rests on it.

* `Reconciler` is the client half: one action per frame (`Subscribed`,
  `Unsubscribed`, `BaselineSyncStart`, ..., `Commit`, `Progress`), one per listener
  call a handler still owes (`PublishReset`, `PublishBatch`, `CaughtUp`,
  `NotifyReset`, `DecodeFailed`), and `Unsubscribe` and `Close`, which the
  application may take at any moment, also between two listener calls. A handler's
  own state changes are one step; the listener calls it makes afterwards are the
  sequence `calls`, because that is where the application can interfere. Rows are
  abstracted to the sequence of change batches that produced them and a batch to
  the fragments it was joined from, so a lost, doubled or reordered fragment is a
  different value.
* `ReconcilerServer` is the service as the client code relies on it (external): the
  true history of each query, its epochs and frontiers, and the frames that are
  true of them.
* `RealtimeUnordered` composes the two without a wire: any true frame may be delivered
  at any time, again or never. It shows what the reconciler's own checks are worth.
* `RealtimeStream` extends it with a FIFO wire on which each frame comes once and in
  order; `LiveView` is the abstract specification it is shown to implement: queries that
  are current show one cut of the history, and one step moves the cut for all of them.
* `OrderedChanges` is the data half that `Reconciler` abstracts: one program of
  upserts, removes and moves, validated and applied with a step per loop iteration.
* `Mvcc` and `TransactionTracker` are `mvcc.ts` and `transaction-tracker.ts`.
* `Coordinator` is `ConnectionCoordinator` with `SubscriptionRecovery` and the parts of
  `RealtimeClient` and `Subscription` that decide who is on the wire and what
  `getState()` says. The coordinator's methods call one another, so each is an operator
  from client state to client state and an action applies one of them. A method that
  calls listeners leaves the rest of its work on a stack: an item is one listener call,
  or the code up to the next one. No frame and no timer is handled before the stack is
  empty, as in the JavaScript event loop; with `Reentrant` the application may call any
  public method after each listener call. Rows are left to `Reconciler`; here the
  reconciler is the set of targets it knows and those it still delivers to.
  A capability is its number, a live id the request it was admitted under. The service
  at the other end (external) admits, rejects, renews, detaches, ends queries and sends
  baselines, in FIFO order. Whatever closes a socket (its own close, a connection error
  that may be retried, a heartbeat timeout, a factory that throws) is a `Drop`. Delays
  are left out: a timer that is armed may fire at any time, and a policy with a bound
  may be exhausted at any attempt.
* `LiveQueryStore` is one `useLiveQuery()` hook: `ReactLiveQueryStore`, the
  `QueryRefreshController` it owns (`refresh`), the subscription it opens (`sub`), and
  the calls of `awaitRows()`. The code up to an await is one step; what is awaited is a
  variable of its own, tagged with the generation (mount) it belongs to: unanswered
  calls of the refresh callback (`calls`), renewals (`sub.renewing`, `sub.queued`), and
  settled renewals whose continuation has not run (`settled`). Continuations are
  microtasks, so no frame and no timer is handled before them. The connection's
  actions (`Admitted` ... `Failed`) are `Coordinator` reduced to one subscription.
* `CliSession` is `ensureAuth()`, `recoverFrom401()` and `withExclusiveLock()` as
  processes: what a command does between two awaits or two system calls on the lock file
  is one step, so `Judge` (is the lock stale?) and `Unlink` are two. A token is a
  session and a number; the authorization server (external) answers a token once and
  revokes the session when it sees it again. `excused` remembers the two events that no
  client can repair (an answer lost after the server rotated, a lock snatched); the
  properties say that nothing else costs the user the session.
* `AuthSession` is one browser tab: `SessionCacheManager`, `InFlightRequestManager` and
  the hooks that `better-auth-methods.ts` attaches to requests and responses. A call of
  getSession() is split where it awaits: `Ask` (beforeFetch reads the cache), `Share` or
  `Fetch`, `Answer` (the shared request ends), and for each caller `Hook` (onSuccess caches
  what that caller has read). So whatever signs out, clears or broadcasts may come between
  any two of them. A caller calls again and again. signIn() and updateUser() are two steps,
  the server's and the answer's, which may be lost; the hook of updateUser() caches the
  session of the answer, or clears the cache. Other tabs run the same code: what they post
  for an event is `Posts`, and the listener (`Broadcast`) clears the cache for "signout" and
  "updateUser" ("getSession", which only the library posts, would do what "updateUser"
  does) and ignores the rest, a sign-in among it. An answer carries the epoch (number of
  sign-outs) in which its request was sent, a cache entry the one in which it was set and
  whether it was out of date then, which is what the properties relate; `untold` are the
  sessions that this tab was not told of. One sign-in, one update and one sign-out are
  under way at a time, and no sign-in through a redirect or a popup.
* `PsqlPipeline` is `PipelineSession` on the extended-protocol queue of `PgConnection`,
  with a server (external) that keeps replies until a Flush, a Sync or an error and
  skips to the next Sync after an error. An operation records what the server did with
  it (`fate`) and what its promise said (`outcome`), and a reply which operation it answers
  (`op`, a history field that no action reads). The two counters of results that
  \getresults may fetch are their sum, `ready`.
* `MC...` modules add the symmetry sets and small constant sets for TLC.
* `...Proofs` modules hold the theorems about the module they are named after.

Definitions whose comment starts with "Faulty variant" are not part of any
specification: each is a plausible mistake in the definition that follows it and
is used to see that the properties notice it.

`Reconciler` and `Coordinator` meet in the frames: the first takes what the second
routes to it, and each has the other's part as its environment (`Leave` and
`EndConnection` in `Reconciler`; `Baseline` in `Coordinator`). `LiveQueryStore` has
`Coordinator` as its environment in the same way: what it assumes of a renewal
(accepted, rejected, superseded, and nothing lost) is what `RenewalsTruthful` and
`NoRenewalLost` say.

## Runs

| run | question | bounds, and why they are enough |
|---|---|---|
| `stream` | Safety of client and service over a FIFO wire: `ClientSound` (types; no true frame is a protocol error), `CommonCut`, `ListenersAgree`, `ReadYourWrites`, and that the frames implement `LiveView`, where a publication is one step for all queries | two queries, two publications of one body, one baseline attempt per epoch, one frame in flight. Two queries are what a cut relates; the second publication can overtake the baseline of one query, find it in its backlog, reset it, or come after it was left. Frames are handled one by one, so a longer wire only delays. |
| `stream_liveness` | `EventuallyCurrent` under fairness, and `LiveView` again | one query (queries do not wait for one another), two publications of two bodies, resets, two attempts, two frames in flight: publications that span frames and baselines that start again in front of them |
| `unordered` | `PrefixConsistent`, `RowsGrow` when any true frame may come at any time, again or never | one query, three publications, two bodies, two attempts: enough for two epochs with a frame of the first after the second began |
| `tracker` | awaitTxId() | three transactions, every well-formed snapshot over them, two calls, two remembered transactions: one more transaction than the queue holds |
| `ordered_changes` | programs of changes on an ordered result | every start order and program of up to three changes on up to four rows: a move can invalidate the place of an earlier one, and a row can be taken from between two others |
| `coordinator` | Tables, wire and states agree (`TablesAgree`); no false protocol failure; listeners re-enter | two subscriptions, two faults (drop, rejection, error, parse failure), bounded retry policies, no renewals (observation 2 would end the connection at once) |
| `coordinator_one_query` | Renewals, sockets that close in two steps, liveness | one subscription, three capabilities (one renewal in flight, one queued, one that supersedes), three faults |
| `live_query_store` | Refresh, the hook, row waits, and that a stale query is refreshed (`StaleEnds`) | three capabilities (the first, and two that compete: one by refresh, one by hand), two mounts (an answer of the first can come in the second), one row wait (waits do not meet) |
| `cli_session` | The shared session, and that every command ends | two commands, two rotations, one login, one crash, one loss, at any point. Two commands are what a lock excludes; the second rotation lets a command find a token neither its own nor the first. A lock that is released and taken again between two system calls of the other command happens too (a second attempt after a 401). |
| `auth_session` | The cache against sign-outs, answers of signIn() and updateUser(), and other tabs | two callers who call any number of times, two sessions, two sign-outs (a failed one is tried again), one act of another tab. One caller holds a request or an answer from before the sign-out while the other makes, shares or finds a newer one; the first then calls again. With three callers (one sign-out, no other tab), two acts of other tabs or three sessions, checked once by hand, nothing changes. |
| `psql_pipeline` | Promises, errors, and that what a Sync covers settles | five operations: a failing command, its Sync, one enqueued between error and Sync, and a tab completion (three operations) in the midst. With six operations (22.8 million states, checked once by hand) nothing changes. |
| `psql_results` | observation 5, expected to be violated | four operations |

Deadlock is not checked: a client may be closed, the user need not type, commands end,
and with its bounded publications or faults used up a system may rest.

Symmetry is used for queries, subscriptions and calls where no liveness property is
checked; the modules never choose among them by `CHOOSE`, except the one owner of an id.

Fairness.
* `RealtimeStream`: frames in flight and listener calls are weakly fair (the event loop
  runs, an open socket delivers), and so is the service's commit; admissions and
  baseline steps are strongly fair because publications of other queries interrupt
  them again and again.
* `Coordinator`: handlers, microtasks, deliveries, close events and armed timers are
  weakly fair, and so are the service's answers and baselines; faults and the
  application are not, and faults are bounded, which is the assumption that connections
  do not fail for ever. Nothing is assumed of the deadlines.
* `LiveQueryStore`: timers, continuations and answers of the callback are weakly fair.
  `AnswerFresh` is strongly fair: a callback that is asked again and again succeeds some
  time, which is the only ground on which retrying is of use.
* `CliSession`: the steps of each command, and the passing of time that makes a dead
  lock stale. `GiveUp`, the deadline of the lock, has none: commands end without it.
* `PsqlPipeline`: the server reads, replies arrive, and psql goes on when what it waits
  for is there. The user has none. `SendKept` has none, because PostgreSQL does not
  promise to send without a Flush or a Sync; the runs do not depend on it.

Each property of a passing run is also checked against a faulty variant of the code it
is about (PROJECT.json, `mutants`), which violates it.

## Observations

What the models show about the code that its documentation does not say, or says
otherwise. Only 5 is a run of the project. For the others the property is in the module;
to see one fail, check it alone with the constants given.

1. `RealtimeStream`, `ResetLeavesLive` (`LiveIds = {q1}`, all bounds 1): `resetRequired()`
   (subscription.ts:341) only reports an event. `getState()` keeps saying live with the
   rows of the old epoch until the replacement baseline is complete, while
   reconciler.ts:37 says "Leave `live` while the proxy obtains a replacement baseline."
2. `Coordinator`, `NoProtocolFailure` (`MaxCapability = 2, MaxFaults = 0`, two
   subscriptions, all flags FALSE): a query unsubscribed while its renewal is in flight,
   when another keeps the socket open, ends the connection. `renewed()`
   (coordinator.ts:557) finds no live subscription and raises a protocol error, which
   fails every query. `unsubscribed()` and `subscriptionError()` allow for late answers.
   The service is assumed to answer frames in order.
3. `Coordinator`, `ActiveAreManaged` (`MaxCapability = 2, MaxFaults = 1, Reentrant = TRUE`):
   a listener that unsubscribes during `queryUnavailable()`, when a newer capability is
   known, finds its subscription active again (coordinator.ts:888): closed, no longer
   managed, on the wire.
4. `Coordinator`, `NobodyStranded` (`MaxCapability = 1, MaxFaults = 1, HalfClosed = TRUE`):
   `subscribe()` while the socket is CLOSING replaces it (coordinator.ts:323); the close
   event of the old one is ignored, `disconnected()` never runs, and the subscriptions
   admitted on it are not sent again.
5. `psql_results`: in an aborted pipeline, `\sendpipeline`, `\flushrequest`, `\getresults`
   waits for ever. An operation enqueued after the ErrorResponse has been handled is
   rejected only when a further message arrives (connection.ts:2764), and a server that
   skips to the next Sync answers a Flush with nothing.
6. `PsqlPipeline`, `LateErrorTold` (`MaxOps = 5`): `_errorConsumedExternally` stays set
   after a `\getresults` that showed an error, so `\endpipeline` leaves out the error
   of a later batch's Sync. `EndIsIdle` (`MaxOps = 2`): `end()` clears
   `_extPipelineActive` only after the ReadyForQuery that would have made the connection
   idle, so it stays in-extended after `\endpipeline`, while pipeline.ts:23 says that it
   drops back to idle; the next batch does.
7. `CliSession`, `AlwaysOneExchange` (as in the run): a lock file is judged stale and unlinked
   in two steps; between them another command may have taken the lock over, whose new
   file is unlinked, and two commands exchange. `LoginKept`: `neon login` stores without
   the lock, and a refresh on its way stores the old session over the new one.
8. `LiveQueryStore`, `CapabilityAdvances` (as in the run): a renewal by hand puts its own
   capability in place when it is accepted, even if refresh has obtained a newer one
   meanwhile. `StoppedIsShown`: a renewal that was pending when a refresh answer was
   found invalid clears the error when it is accepted, although refresh stays stopped.
   Two more, without a property: a terminally failed subscription still has
   its capability refreshed, once a second where the renewals are rejected; and a
   `renew()` made in state stale that is superseded by a second one puts stale back from
   its catch handler while the client is subscribing with the newer capability.
9. `AuthSession`, `NotOvertaken` (as in the run): an answer from before a sign-out that comes
   after the invalidation was lifted is cached, and the signed-out user's session is shown
   until it expires. What lifts it is the confirmed sign-out, and also, while the sign-out
   is still on its way or has failed, an answer to updateUser() without a session or
   another tab's message. The same happens to a call that had its answer from the cache
   itself: its hook sets the entry again after it was cleared. `CurrentWhenQuiet`: a sign-in
   in another tab posts only "SIGNED_IN" (better-auth-methods.ts:367), which the listener
   ignores (486-493), so the old session stays cached; so it does when the answer to
   signIn() is lost after the server opened the session. Three more, without a property:
   after a failed sign-out the cache stays switched off until something else clears it;
   the `finally` of a request that a sign-out dropped from the map deletes the key of the
   newer request, so callers stop sharing it; and the test in `setCachedSession()`
   (session-cache-manager.ts:50) changes nothing a reader of the cache sees, because
   `getCachedSession()` shows nothing while the cache is invalidated and what lifts the
   invalidation empties it.

## Proofs

Each `...Proofs` module extends its component and proves about it what TLC checks on a
small instance, for every value of the constants. What is assumed of the constants is
the `ASSUME` of the component's module (bounds are natural numbers, the live queries are
a finite set, names are distinct from the markers for "nobody" and "none", snapshots are
well formed, which `parseMvccSnapshot()` checks), and TLC evaluates it on every run.

Induction over data is out of the prover's reach, so where an argument needs an
induction along a sequence, the places where a fact fails are made a set of natural
numbers, and its least element (`LeastNat`) is refuted.

### Transaction waits: `TransactionTrackerProofs`

* `MergeIsUnion` and `MergeWellFormed` about `mergeMvccSnapshots()`: a merged proof shows
  exactly what one of its parts shows, and can be merged again. They are first-order
  facts about the two snapshots, split on which one is wider.
* `TypeCorrect` and `ResolvedIsAppliedAlways`. `ResolvedIsApplied` alone is not inductive:
  the answer given to a call comes from `recent` or `visibility`. The invariant `IInv` adds
  that both hold only applied transactions and that a call waits under the transaction
  it asked for. A batch is only seen, and a proof only applied, once the rows reflect it
  (the guards of `Seen` and `ApplyProgress`; for the stream that is `ReadYourWritesAlways`).
* `NobodyForgottenAlways` and `TimersArePendingAlways`, from `WInv`: the two properties
  need each other and the converse, that whoever waits is pending. `ResolveWaiting` is
  the common step: whoever survives it waits for nothing the tracker has learnt.
* `RecentBoundedAlways`, from `QInv`: the queue lists the set without repetition
  (`ListsAppend`, `ListsTail`), so its length is the set's cardinality.
* `ProofsAccumulateAlways`, an action property, from `IInv` and `MergeIsUnion`.

### The reconciler under any frames: `RealtimeUnorderedProofs`

`PrefixConsistentAlways` and `RowsGrowAlways`, for any queries, publications, bodies and
attempts. The invariant `IInv` has three parts. `ServerInv` is about the service's
history alone: epochs begin behind one another, the staged batches are what the bodies so
far add up to, and every change in the log names the place in the history where its batch
stands or will stand. `ClientTyped` is types. `TakenIn` relates the client to that
history: the epoch and sequence of a query name a place (`PlaceSound`); a query that is
live shows its history up to that place, one that is not keeps in its backlog what
follows its baseline (`RowsSound`); a baseline on its way is a prefix (`SyncSound`); and
the staged part of a publication is what the service had staged after as many bodies
(`PublicationSound`). The prefix alone is not inductive: that a batch belongs behind the
last row can only be concluded from its epoch and sequence, and the places of the log say
so for frames of any age. The frame lemmas (`StartTells`, `BodyTells`, ...) turn a frame
of `Frames` into what it says about the history, the `...Keeps` lemmas take the handlers
one by one.

### Client and service on one wire: `RealtimeStreamProofs`

* `StreamInvAlways` is the inductive invariant. A `Mark` is a position in the stream of
  frames: the publications finished, the bodies of the open one, and where every query
  stands (registered, epoch, sequence, its baseline sync). `Takes(m, s, t)` says that
  frame `m` leads from position `s` to `t`. `WireSound` says that the frames in flight lead,
  one after another, from where the client is (`ClientAt`) to where the service is (`Now`).
  The service adds a frame and a position (`...Sends`), the client takes the first frame
  and stands at the next position (`...Taken`), and both keep the others true because
  the history only grows (`FramesStayTrue`, `TakesStays`, `MarkStays`).
* `StreamIsUnordered`: with `WireTrue` every step of the stream is one of `RealtimeUnordered`,
  so what is proved there holds here.
* `ClientSoundAlways`: a frame that is taken in its turn meets every test of its handler,
  so no true frame is a protocol error. `CommonCutAlways`: a current query stands at the
  client's position, so all of them show the cut of that position.
* `ReadYourWritesAlways`, from `TellsTruth`: what is confirmed, and what the listener calls
  still owed will confirm, is backed by the rows.
* `ListenersAgreeAlways`, from `ToldSoFar`: the calls still owed take what a listener has
  built (`replica`) to the rows of the snapshot (`Reaches`, the rows before each call).
* `StreamImplementsView`: `Spec => View!Spec`. The abstract cut is the number of
  publications minus the commits in flight; `CommitsBetween` counts them along the
  positions, so it is the cut of the client's position. A service commit is `Publish`,
  a delivered commit `Advance`, an installed baseline `Refresh`, `caughtUp` is `Join`,
  whoever leaves, fails or is reset a `Drop`, and every other step stutters.

### The commands' shared session: `CliSessionProofs`

`OneHolderAlways`, `NoReplayAlways` and `StoreIsNewestAlways`, for any number of commands,
crashes, rotations and logins, but only until one of the two excused events has happened:
a snatched lock (a lock file unlinked that is not the one judged stale, which two waiters
can bring about, observation 7) ends all three promises, a lost answer the last two. The
stored token may also be older while a command is about to store a newer one.
`OneHolder` needs that who is past the lock is who the lock file names (`HoldersNamed`),
and, for the two steps in which a stale lock is judged and unlinked, that only a crashed
command's lock is old or judged (`OldIsCrashed`, `JudgedIsCrashed`). The two properties of
tokens support each other: a command past the lock exchanges the newest token, because
the stored one is the newest (`TokenInv`).

### The session cache of one tab: `AuthSessionProofs`

`AnsweredAfterSignOutAlways` and `CacheIsCurrentAlways`, for any number of callers, sessions,
sign-outs and acts of other tabs. `EpochInv`: an entry of the open cache was set in the
present epoch (`CacheOfThisEpoch`), the request that is shared is under way and was sent in it
(`SharedOfThisEpoch`), and so what callers wait for is not older than their call
(`NobodyWaitsForOlder`). That somebody who made a request waits for it (`OwnRequestAwaited`)
keeps it from being replaced while others share it. `AskedCall`, `WaitingCall`, ... say what
each step makes of the calls and requests. The theorem does not say that the answer itself
is from after the sign-out: an entry set after it may hold an older one (observation 9).
`CurrentInv` adds to `CacheIsCurrent` that an answer to signIn() is never empty; the theorem
has the excuses of the property: an entry that was out of date when it was set, a session
this tab was not told of, a sign-out that is unconfirmed, failed, or another tab's whose
message has not come.

### One live query hook: `LiveQueryStoreProofs`

`RefreshSoundAlways`, `HookTruthfulAlways` and `WaitersServedAlways`, from one invariant: what
the hook shows and who is served (`View`), that a timer or a call belongs to the present
mount (`Timed`, `MountsAgree`), and that exactly one thing, a timer, a call, a renewal or
its continuation, drives the refresh on (`Control`).

### Pipelines of psql: `PsqlPipelineProofs`

`PromisesTruthfulAlways`, `NoProtocolFailureAlways` and `EndTellsAlways`, for any number of
operations. The fates of the operations are what the errors and Syncs among them make of
them (`FatesSound`); the replies kept and on their way, `Replies`, are for operations the
queue still has, in order (`RepliesOrdered`), one for each that was served
(`RepliesComplete`), and say its fate (`RepliesTrue`). `FirstReply` is the point: with the
queue drained up to the next barrier, the first reply is for its head. `SettledFacts`
is what an ErrorResponse does to the rest of its batch, and `SessionInv` what
`PipelineSession` counts and has told the user. `EndTells` is about one error: that some
error of a pipeline that failed has been shown, not each (observation 6).

### The connection coordinator: `CoordinatorProofs`

`RenewalsTruthfulAlways`, `NoRenewalLostAlways`, `LiveMeansLiveAlways`, `NoOrphansAlways` and
`TypeCorrect`, for any subscriptions, capabilities and faults and for either value of
`Reentrant`, `HalfClosed` and `Bounded`. The four properties are stated between handlers
(`Quiet`) or of answers alone; a step of the model is the code up to the next listener call,
and a listener may call any public method, so the invariant `IInv` has to say what holds in
the middle of every handler. `LiveMeansLive` says that a subscription shown as live is active
and its live query a target of the reconciler; with half-closed sockets that may still be
a query of the replaced socket (observation 4). `IInv` has these parts.

* The tables (`TablesSound`, `IdsFresh`, `DeliveringIsLive`): a pending request belongs to an
  active subscription that has no other, or to one that has ended since; a live query to
  an active subscription, which knows its id; the reconciler delivers to the live ones.
* The stack (`StackSound`): what each unfinished piece of work relies on, and which pieces
  can wait together. `disconnected()` finds empty tables when its loop goes on, a query that
  is to be replaced is on no wire and last on the stack, a renewal that waits behind
  listeners waits once and is known to nobody yet, and a listener told "live" is told of a
  query that is live then, or that was closed meanwhile.
* The subscriptions (`SubsSound`): the renewals without an answer are the one in flight and
  those queued, each once; only an active, managed subscription has any.
* The wire (`WireSound`, `OneRenewal`, `ServedIds`): an admission on its way is for the
  capability its pending request was sent with, a `renewed` for the renewal in flight; a live
  query has one renewal on the wire at most, an id is asked for once and ended once.
* `Consistent`: a subscription shown as live is live, or a listener call that corrects it is
  on the stack (`Corrects`). `Accounted`: an id the service serves is live, or its
  unsubscription or admission is on the wire.

The operators of `Coordinator` take a client to a client, so there is a lemma for each of
them (`SendSubscribeSound`, `FailLocalSound`, `AwaitReplacementSound`, ...) and the actions
follow by composing these. In the middle of a step the last two parts may fail for the
subscription at hand: `Sound(c, g, X, Y)` excepts the subscriptions `X` and the live ids `Y`,
which the operators that follow deal with; `IInv` is `Sound` with nothing excepted.
Most lemmas end in one of a few about the kind of change (`ChangesSound`: one subscription
changes and the wire does not; `SettledSound`: one leaves the tables; `TellSound`: the
service says something). While a client is giving up (`Terminating`) its service may serve
queries nobody reads; the end of that loop closes the socket.

### What is only model-checked

* Liveness (`EventuallyCurrent`, and the liveness properties of `Coordinator`,
  `LiveQueryStore`, `CliSession` and `PsqlPipeline`): fairness and ENABLED are not within the
  prover's reach.
* `OrderedChanges`: its properties speak of orders that are filtered from sequences and of
  links walked one by one; what such definitions compute is an induction over data.
* `Coordinator`: `TablesAgree` beyond the types, `NobodyStranded` and `NoProtocolFailure`. Each
  is false for some constants (observations 2 to 4), so there is no theorem for all of
  them; the run `coordinator` checks them where those sequences cannot happen.

## Not modelled

* Generated code: the SDK's types and operations, the tools' operations and schemas, the
  schema validator. With the psql catalogue queries, completion rules and output
  formatting, and the commands that wrap one HTTP request each, it is by far most of the
  repository's lines, and none of it has a state that outlives a call. What the modules
  cover is therefore a small share of all lines (about one in a hundred); it is chosen
  for the state that is kept across events.
* Wire codec, value parsers, sealed queries: functions of their input.
* Delays and backoff arithmetic: a timer that is armed may fire at any time, so what is
  shown holds for any delay. The heartbeat is a dropped socket; its own two timers
  (a pong delivered from inside `sendPing()`, heartbeat.ts:82) are not modelled.
* TanStack collections: sync sessions, planned below. The dev server's WebSocket and
  proxies: a bridge that forwards bytes.
* Auth: popups, the anonymous token, events; server cookies and the auth proxy, stateless
  handlers around cryptography.
* CLI: choosing a profile, moving credentials between file and keyring, logout. Config push
  and env tools: calls in sequence, computed from a diff, with one actor.
* psql: startup, authentication, simple queries, COPY streams, prepared statements outside
  a pipeline; FATAL errors (a lost connection stands for them) and notices.

## Plan

In this order.

1. `TablesAgree`, `NobodyStranded` and `NoProtocolFailure` for all constants, once the code
   behind observations 2 to 4 has changed; until then on top of `IInv` and under the
   conditions of the run (one capability, no half-closed sockets).
2. `RowsConserved` of `OrderedChanges` for one step of the doubly linked order: what a
   removal and an insertion do to `next` and `prev`, without the walk.
3. An abstract specification of the coordinator, a set of subscriptions that are each
   offline, requested or live, which `Coordinator` is shown to implement, and from which
   the environment of `LiveQueryStore` is taken.
4. `TanstackSync` and `Heartbeat`: late callbacks of an ended session; the ping/pong machine.

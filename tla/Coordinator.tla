----------------------------- MODULE Coordinator -----------------------------
(***************************************************************************)
(* ConnectionCoordinator: one WebSocket shared by the logical              *)
(* subscriptions of a client, with the part of RealtimeClient, Subscription *)
(* and SubscriptionRecovery that decides who is on the wire and what        *)
(* getState() says.  Rows belong to Reconciler; here the reconciler is the  *)
(* set of targets it knows.                                                 *)
(*                                                                          *)
(* Methods of the coordinator call one another, so each is an operator from *)
(* the client's state to its state, and an action applies one to the        *)
(* variable `client'.  A method that calls listeners leaves the rest of its *)
(* work on client.stack: an item of it is one listener call or the code up  *)
(* to the next one.  Until the stack is empty no frame or timer is handled, *)
(* but a listener may call the public methods (Reentrant).                  *)
(*                                                                          *)
(* Capabilities of a subscription are numbered in the order in which the    *)
(* application obtains them; a request id is also the live id it is         *)
(* admitted under.  A WebSocket factory that throws is a socket that drops  *)
(* before it is ready, and heartbeats, connection errors that may be        *)
(* retried and the socket's own close are all a Drop.                       *)
(***************************************************************************)
EXTENDS Naturals, SequencesExt

CONSTANTS
  Subs,           \* logical subscriptions
  MaxCapability,  \* bound: capabilities the application obtains for each
  MaxFaults,      \* bound: drops, rejections and errors
  Reentrant,      \* do listeners call back into the client?
  HalfClosed,     \* is a socket seen CLOSING before its close event?
  Bounded         \* has the retry policy an attempt or elapsed-time bound?

ASSUME CoordinatorConstants ==
  /\ IsFiniteSet(Subs)
  /\ MaxCapability \in Nat \ {0}
  /\ MaxFaults \in Nat
  /\ {Reentrant, HalfClosed, Bounded} \subseteq BOOLEAN

VARIABLES
  client,   \* the client and what is in flight on its socket
  granted,  \* <<subscription, capability>> pairs the service accepted
  faults    \* faults so far

vars == <<client, granted, faults>>

Capabilities == 1..MaxCapability

NoLink == [up |-> <<>>, down |-> <<>>, served |-> {}]

\* A subscription before subscribe(): ManagedSubscription, its recovery, the
\* state shown to the application and the outcome of each renewal.  `prior' is
\* the state a failed renewal puts back.
NewSub ==
  [state |-> "new", query |-> 0, request |-> 0, requested |-> 0, accepted |-> 0,
   liveId |-> 0, renewing |-> 0, queued |-> <<>>, recovery |-> "idle",
   status |-> "connecting", answers |-> [k \in Capabilities |-> "none"],
   prior |-> [k \in Capabilities |-> "none"]]

Init ==
  /\ client =
       [sub |-> [s \in Subs |-> NewSub], managed |-> {}, active |-> {},
        pendingRequests |-> {}, liveSubscriptions |-> {}, detaching |-> {},
        targets |-> {}, delivering |-> {}, requestId |-> 0, since |-> 0,
        socket |-> "none", ready |-> FALSE, disposed |-> FALSE, terminal |-> "no",
        reconnectTimer |-> FALSE, episode |-> FALSE, deadline |-> FALSE,
        stability |-> FALSE, link |-> NoLink, stack |-> <<>>, listening |-> FALSE]
  /\ granted = {}
  /\ faults = 0

\* The subscription a table names for an id, if it names one.
Owner(table, id) == {e[2] : e \in {e \in table : e[1] = id}}
OwnerOf(table, id) == CHOOSE s \in Owner(table, id) : TRUE
Without(table, id) == {e \in table : e[1] # id}

Push(c, items) == [c EXCEPT !.stack = items \o @]
Item(do, s)    == [do |-> do, sub |-> {s}, cap |-> 0]

-----------------------------------------------------------------------------
(* ManagedSubscription and SubscriptionRecovery.                           *)

Settle(m, caps, how) ==
  [m EXCEPT !.answers = [k \in Capabilities |-> IF k \in caps THEN how ELSE @[k]]]

RejectQueued(m) ==
  [Settle(m, ToSet(m.queued), "rejected") EXCEPT !.queued = <<>>]

RejectRenewals(m) ==
  RejectQueued([Settle(m, {m.renewing}, "rejected") EXCEPT !.renewing = 0])

ResolveRenewals(m) ==
  [Settle(m, {m.renewing} \cup ToSet(m.queued), "resolved")
     EXCEPT !.renewing = 0, !.queued = <<>>]

\* The stability timer of a recovery episode is cleared.
Interrupted(m) == [m EXCEPT !.recovery = IF @ = "settling" THEN "trying" ELSE @]

\* Faulty variant: a renewal in flight is forgotten with the wire attempt.
ResetWireForgetting(m) ==
  [Interrupted(m) EXCEPT !.request = 0, !.requested = 0, !.accepted = 0, !.liveId = 0,
                         !.renewing = 0]

\* Faulty variant: the unanswered request of the lost connection is kept.
ResetWireKeepingRequest(m) ==
  [Interrupted(m) EXCEPT !.accepted = 0, !.liveId = 0,
                         !.queued = IF m.renewing = 0 THEN @ ELSE <<m.renewing>> \o @,
                         !.renewing = 0]

ResetWire(m) ==
  [Interrupted(m) EXCEPT !.request = 0, !.requested = 0, !.accepted = 0, !.liveId = 0,
                         !.queued = IF m.renewing = 0 THEN @ ELSE <<m.renewing>> \o @,
                         !.renewing = 0]

-----------------------------------------------------------------------------
(* The socket.                                                             *)

Send(c, frame) ==
  IF c.socket = "open" THEN [c EXCEPT !.link.up = Append(@, frame)] ELSE c

Frame(type, id, s, cap) == [type |-> type, id |-> id, sub |-> s, cap |-> cap]

\* connect(): a socket that is CLOSING is replaced.
Connect(c) ==
  IF c.disposed \/ c.terminal # "no" \/ c.socket = "open" THEN c
  ELSE [c EXCEPT !.reconnectTimer = FALSE, !.ready = FALSE, !.socket = "open",
                 !.since = c.requestId, !.link = NoLink]

\* disconnected(), up to the loop over the active subscriptions.
Disconnected(c) ==
  Push([c EXCEPT !.ready = FALSE, !.stability = FALSE, !.pendingRequests = {},
                 !.liveSubscriptions = {}, !.detaching = {}, !.targets = {},
                 !.delivering = {}],
       <<[do |-> "detached", sub |-> {}, cap |-> 0]>>)

CloseSocket(c) ==
  IF c.socket = "none" THEN c
  ELSE Disconnected([c EXCEPT !.socket = "none", !.link = NoLink])

CancelReconnectEpisode(c) ==
  [c EXCEPT !.reconnectTimer = FALSE, !.stability = FALSE, !.deadline = FALSE,
            !.episode = FALSE]

\* terminateConnection(), up to the loop over the subscriptions it found.
Terminate(c, why) ==
  IF c.terminal # "no" THEN c
  ELSE Push(CancelReconnectEpisode([c EXCEPT !.terminal = why]),
            <<[do |-> "terminating", cap |-> 0,
               sub |-> {s \in c.managed : c.sub[s].state \in {"active", "awaiting_query"}}]>>)

ScheduleReconnect(c, exhausted) ==
  IF exhausted THEN Terminate(c, "exhausted")
  ELSE [c EXCEPT !.reconnectTimer = TRUE, !.episode = TRUE, !.deadline = Bounded]

SendSubscribe(c, s) ==
  LET m == c.sub[s]
      r == c.requestId + 1
  IN  IF \/ m.state # "active" \/ ~c.ready \/ m.recovery = "waiting"
         \/ m.request # 0 \/ m.liveId # 0
        THEN c
        ELSE Send([c EXCEPT !.requestId = r,
                            !.sub[s].request = r,
                            !.sub[s].requested = m.query,
                            !.pendingRequests = @ \cup {<<r, s>>}],
                  Frame("subscribe", r, s, m.query))

SendNextRenewal(c, s) ==
  LET m == c.sub[s]
  IN  IF m.state # "active" \/ m.renewing # 0 \/ m.liveId = 0 \/ ~c.ready \/ m.queued = <<>>
        THEN c
        ELSE Send([c EXCEPT !.sub[s].renewing = Head(m.queued),
                            !.sub[s].queued = Tail(m.queued)],
                  Frame("renew", m.liveId, s, Head(m.queued)))

\* The subscription leaves the routing tables of the current connection.
Unroute(c, s) ==
  LET m == c.sub[s]
  IN  [c EXCEPT !.pendingRequests   = Without(@, m.request),
                !.liveSubscriptions = Without(@, m.liveId),
                !.targets    = @ \ {m.liveId},
                !.delivering = @ \ {m.liveId}]

\* The service is told, and the target stays until it has answered.
Detach(c, s) ==
  LET l == c.sub[s].liveId
  IN  IF l = 0 THEN c
      ELSE Send([c EXCEPT !.delivering = @ \ {l},
                          !.liveSubscriptions = Without(@, l),
                          !.detaching = @ \cup {l}],
                Frame("unsubscribe", l, s, 0))

\* With nobody left the socket is closed.
CloseIfIdle(c) ==
  IF c.active = {} THEN CloseSocket(CancelReconnectEpisode(c)) ELSE c

-----------------------------------------------------------------------------
(* How a subscription ends or waits.                                       *)

TerminateSubscription(c, s) ==
  LET d == Unroute(c, s)
  IN  Push([d EXCEPT !.active = @ \ {s},
                     !.sub[s] = RejectRenewals(ResetWire(
                        [@ EXCEPT !.recovery = "idle", !.state = "failed"]))],
           <<Item("failed", s)>>)

\* Faulty variant: the pending request is forgotten with the subscription.
FailLocalForgetting(c, s) ==
  IF c.sub[s].state \in {"failed", "closed"} THEN c
  ELSE LET d == Detach([c EXCEPT !.active = @ \ {s},
                                 !.pendingRequests = Without(@, c.sub[s].request)], s)
       IN  Push([d EXCEPT !.sub[s] = RejectRenewals(ResetWire(
                            [@ EXCEPT !.recovery = "idle", !.state = "failed"]))],
                <<Item("failed", s), Item("idle", s)>>)

\* Faulty variant: the subscription stays in the active set.
FailLocalStayingActive(c, s) ==
  IF c.sub[s].state \in {"failed", "closed"} THEN c
  ELSE Push([Detach(c, s) EXCEPT !.sub[s] = RejectRenewals(ResetWire(
                [@ EXCEPT !.recovery = "idle", !.state = "failed"]))],
            <<Item("failed", s), Item("idle", s)>>)

\* failLocalSubscription(): a pending request stays pending, so that a late
\* admission is unsubscribed.
FailLocal(c, s) ==
  IF c.sub[s].state \in {"failed", "closed"} THEN c
  ELSE LET d == Detach([c EXCEPT !.active = @ \ {s}], s)
       IN  Push([d EXCEPT !.sub[s] = RejectRenewals(ResetWire(
                            [@ EXCEPT !.recovery = "idle", !.state = "failed"]))],
                <<Item("failed", s), Item("idle", s)>>)

\* awaitReplacementQuery(), up to the call of queryUnavailable().
AwaitReplacement(c, s, rejected) ==
  LET d == Unroute(c, s)
  IN  Push([d EXCEPT !.active = @ \ {s}, !.sub[s] = ResetWire(@)],
           <<Item("unavailable", s), [Item("replace", s) EXCEPT !.cap = rejected]>>)

\* ... and after it: a newer capability is tried at once.
Replace(c, s, rejected) ==
  IF rejected # 0 /\ c.sub[s].query # rejected
    THEN Push([c EXCEPT !.active = @ \cup {s}, !.sub[s].state = "active"],
              <<Item("connecting", s), Item("resubscribe", s)>>)
    ELSE [c EXCEPT !.sub[s] = RejectRenewals([@ EXCEPT !.state = "awaiting_query"])]

Resubscribe(c, s) ==
  LET d == Connect(c)
  IN  IF d.ready THEN SendSubscribe(d, s) ELSE d

\* Faulty variant: the application is not told that the query is retried.
RetryQuietly(c, s, exhausted) ==
  IF exhausted THEN TerminateSubscription(c, s)
  ELSE [Unroute(c, s) EXCEPT !.sub[s] = ResetWire([@ EXCEPT !.recovery = "waiting"])]

\* retrySubscription(), with SubscriptionRecovery.retry().
Retry(c, s, exhausted) ==
  IF exhausted THEN TerminateSubscription(c, s)
  ELSE LET d == Unroute(c, s)
       IN  Push([d EXCEPT !.sub[s] = ResetWire([@ EXCEPT !.recovery = "waiting"])],
                <<Item("connecting", s)>>)

-----------------------------------------------------------------------------
(* Public methods.                                                         *)

Subscribe(c, s) ==
  LET d == [c EXCEPT !.managed = @ \cup {s}, !.active = @ \cup {s},
                     !.sub[s].state = "active", !.sub[s].query = 1]
  IN  IF c.terminal # "no" THEN TerminateSubscription(d, s) ELSE Resubscribe(d, s)

Unsubscribe(c, s) ==
  LET d == [c EXCEPT !.managed = @ \ {s}, !.active = @ \ {s},
                     !.sub[s] = RejectRenewals([@ EXCEPT !.recovery = "idle",
                                                         !.state = "closed",
                                                         !.status = "closed"])]
  IN  CloseIfIdle(Detach(d, s))

Close(c) ==
  CloseSocket(CancelReconnectEpisode(
    [c EXCEPT !.disposed = TRUE, !.managed = {}, !.active = {}, !.pendingRequests = {},
              !.liveSubscriptions = {}, !.detaching = {}, !.targets = {}, !.delivering = {},
              !.sub = [s \in Subs |->
                 IF @[s].state = "new" THEN @[s]
                 ELSE LET m == [@[s] EXCEPT !.status = "closed"]
                      IN  IF s \in c.managed
                            THEN RejectRenewals([m EXCEPT !.recovery = "idle"]) ELSE m]]))

\* ConnectionCoordinator.renew().
CoordinatorRenew(c, s, k) ==
  LET m == c.sub[s]
      r == [RejectQueued([m EXCEPT !.query = k]) EXCEPT !.queued = <<k>>,
                                                         !.answers[k] = "pending"]
  IN  IF m.status = "closed" \/ m.state \in {"closed", "failed"} \/ c.terminal # "no"
        THEN [c EXCEPT !.sub[s].answers[k] = "rejected"]
      ELSE IF m.state = "awaiting_query"
        THEN Push([c EXCEPT !.active = @ \cup {s}, !.sub[s] = [r EXCEPT !.state = "active"]],
                  <<Item("connecting", s), Item("resubscribe", s)>>)
      ELSE SendNextRenewal([c EXCEPT !.sub[s] = r], s)

\* Subscription.renew(): a state that waits for the renewal is left first, and
\* its listeners run before the coordinator hears of the new capability.
Renew(c, s, k) ==
  LET m == c.sub[s]
  IN  IF m.status \in {"stale", "error"}
        THEN Push([c EXCEPT !.sub[s].prior[k] = m.status, !.sub[s].status = "connecting"],
                  <<[Item("renew", s) EXCEPT !.cap = k]>>)
        ELSE CoordinatorRenew(c, s, k)

-----------------------------------------------------------------------------
(* Frames.                                                                 *)

\* Faulty variant: a late admission is kept.
LateAdmissionKept(c, s, r) ==
  [c EXCEPT !.targets = @ \cup {r}, !.detaching = @ \cup {r}]

\* A subscription that has ended is detached as soon as it is admitted.
LateAdmission(c, s, r) ==
  Send([c EXCEPT !.targets = @ \cup {r}, !.detaching = @ \cup {r}],
       Frame("unsubscribe", r, s, 0))

\* Faulty variant: the admission of any capability answers all renewals.
AnswerRenewalsAlways(c, s) == [c EXCEPT !.sub[s] = ResolveRenewals(@)]

\* Renewals are answered by the admission if it was for the newest capability.
AnswerRenewals(c, s) ==
  IF c.sub[s].accepted = c.sub[s].query
    THEN [c EXCEPT !.sub[s] = ResolveRenewals(@)]
    ELSE SendNextRenewal(c, s)

Admitted(c, r) ==
  LET d == [c EXCEPT !.pendingRequests = Without(@, r)]
      s == OwnerOf(c.pendingRequests, r)
  IN  IF \/ Owner(c.pendingRequests, r) = {}
         \/ c.sub[s].liveId # 0
         \/ Owner(c.liveSubscriptions, r) # {}
        THEN Terminate(c, "protocol")
      ELSE IF c.sub[s].state \in {"closed", "failed"}
        THEN LateAdmission([d EXCEPT !.sub[s].request = 0], s, r)
      ELSE IF c.sub[s].state # "active" \/ c.sub[s].requested = 0 \/ r \in c.targets
        THEN Terminate(d, "protocol")
      ELSE [AnswerRenewals([d EXCEPT !.sub[s].request = 0,
                                     !.sub[s].liveId = r,
                                     !.sub[s].accepted = c.sub[s].requested,
                                     !.liveSubscriptions = @ \cup {<<r, s>>},
                                     !.targets = @ \cup {r},
                                     !.delivering = @ \cup {r}], s)
              EXCEPT !.sub[s].requested = 0]

Rejected(c, r, code, exhausted) ==
  LET s == OwnerOf(c.pendingRequests, r)
      d == [c EXCEPT !.pendingRequests = Without(@, r), !.sub[s].request = 0]
  IN  IF Owner(c.pendingRequests, r) = {} THEN Terminate(c, "protocol")
      ELSE IF c.sub[s].state \in {"closed", "failed"} THEN d
      ELSE IF code = "overloaded" THEN Retry(d, s, exhausted)
      ELSE IF code = "expired" THEN AwaitReplacement(d, s, c.sub[s].requested)
      ELSE TerminateSubscription(d, s)

Renewed(c, l) ==
  LET s == OwnerOf(c.liveSubscriptions, l)
      m == c.sub[s]
  IN  IF Owner(c.liveSubscriptions, l) = {} THEN Terminate(c, "protocol")
      ELSE IF m.renewing = 0 THEN Terminate(c, "protocol")
      ELSE SendNextRenewal(
             [c EXCEPT !.sub[s] = [Settle(m, {m.renewing}, "resolved")
                                     EXCEPT !.accepted = m.renewing, !.renewing = 0]], s)

\* An unsubscribe nobody asked for is a protocol error, whoever it names, which
\* leaves nothing behind: every subscription that is not closed fails.
Unsubscribed(c, l) ==
  IF l \in c.detaching
    THEN [c EXCEPT !.detaching = @ \ {l}, !.targets = @ \ {l}, !.delivering = @ \ {l}]
    ELSE Terminate(c, "protocol")

SubscriptionError(c, l, code, exhausted) ==
  LET s == OwnerOf(c.liveSubscriptions, l)
  IN  IF l \in c.detaching THEN c
      ELSE IF Owner(c.liveSubscriptions, l) = {} THEN Terminate(c, "protocol")
      ELSE IF code = "overloaded" THEN Retry(c, s, exhausted)
      ELSE IF code = "expired" THEN AwaitReplacement(c, s, c.sub[s].accepted)
      ELSE TerminateSubscription(c, s)

\* The reconciler completes a baseline: rows are announced, the recovery
\* episode hears of it, and the subscription is live.  Or a value fails to parse.
Baseline(c, l, parses) ==
  LET s == OwnerOf(c.liveSubscriptions, l)
  IN  IF l \notin c.targets THEN Terminate(c, "protocol")
      ELSE IF l \notin c.delivering THEN c
      ELSE IF parses THEN Push(c, <<Item("rows", s), Item("baseline", s), Item("live", s)>>)
      ELSE FailLocal([c EXCEPT !.delivering = @ \ {l}], s)

\* The first frame on a socket, up to the loop over the active subscriptions.
Ready(c) ==
  Push([c EXCEPT !.ready = TRUE, !.stability = c.episode],
       <<[do |-> "sending", sub |-> {}, cap |-> 0]>>)

-----------------------------------------------------------------------------
(* The rest of a handler's work, item by item.                             *)

Show(c, s, status) ==
  IF c.sub[s].status \in {"closed", status} THEN c
  ELSE [c EXCEPT !.sub[s].status = status, !.listening = TRUE]

\* The subscriptions an item has still to visit, in any order.
Remaining(c, i) == IF i.do \in {"detached", "sending"} THEN c.active \ i.sub ELSE i.sub

\* One pass of the loop of route() over the active subscriptions.
SendNext(c, i, s) ==
  IF Remaining(c, i) = {} THEN c
  ELSE SendSubscribe(Push(c, <<[i EXCEPT !.sub = @ \cup {s}]>>), s)

\* One pass of the loop of disconnected(), which also visits a subscription
\* that becomes active meanwhile.
DetachNext(c, i, s, exhausted) ==
  IF Remaining(c, i) # {}
    THEN Push([c EXCEPT !.sub[s] = ResetWire(@)],
              <<Item("connecting", s), [i EXCEPT !.sub = @ \cup {s}]>>)
  ELSE IF c.disposed \/ c.terminal # "no" \/ c.active = {} THEN c
  ELSE ScheduleReconnect(c, exhausted)

\* One pass of the loop of terminateConnection().
TerminateNext(c, i, s) ==
  IF i.sub = {} THEN CloseSocket(c)
  ELSE TerminateSubscription(Push(c, <<[i EXCEPT !.sub = @ \ {s}]>>), s)

\* The code between two listener calls, or one such call, of a running handler.
Work(c, i, s, exhausted) ==
  CASE i.do = "connecting"  -> Show(c, s, "connecting")
    [] i.do = "unavailable" -> Show(c, s, "stale")
    [] i.do = "failed"      -> Show(c, s, "error")
    [] i.do = "live"        -> Show(c, s, "live")
    [] i.do = "rows"        -> [c EXCEPT !.listening = c.sub[s].status # "closed"]
    [] i.do = "baseline"    -> [c EXCEPT !.sub[s].recovery =
                                  IF @ \in {"trying", "settling"} THEN "settling" ELSE @]
    [] i.do = "replace"     -> Replace(c, s, i.cap)
    [] i.do = "resubscribe" -> Resubscribe(c, s)
    [] i.do = "renew"       -> CoordinatorRenew(c, s, i.cap)
    [] i.do = "idle"        -> CloseIfIdle(c)
    [] i.do = "sending"     -> SendNext(c, i, s)
    [] i.do = "detached"    -> DetachNext(c, i, s, exhausted)
    [] i.do = "terminating" -> TerminateNext(c, i, s)

-----------------------------------------------------------------------------
(* Actions.                                                                *)

\* Rejected renewals whose catch handler has not run: a microtask each.
Owed(s, k) == client.sub[s].answers[k] = "rejected" /\ client.sub[s].prior[k] # "none"

Quiet == client.stack = <<>> /\ \A s \in Subs, k \in Capabilities : ~Owed(s, k)

Exhaustible == IF Bounded THEN BOOLEAN ELSE {FALSE}

Handler ==
  /\ client.stack # <<>>
  /\ LET i == Head(client.stack)
     IN  \E s \in Subs, exhausted \in Exhaustible :
           /\ Remaining(client, i) = {} \/ s \in Remaining(client, i)
           /\ client' = Work([client EXCEPT !.stack = Tail(@), !.listening = FALSE],
                             i, s, exhausted)
  /\ UNCHANGED <<granted, faults>>

\* A rejected renewal puts back the state it had found, unless an error came.
Restore ==
  /\ client.stack = <<>>
  /\ \E s \in Subs, k \in Capabilities :
       LET m == client.sub[s]
       IN  /\ Owed(s, k)
           /\ client' = [client EXCEPT
                        !.sub[s].prior[k] = "none",
                        !.sub[s].status = IF @ \in {"error", "closed"} THEN @
                                          ELSE m.prior[k]]
  /\ UNCHANGED <<granted, faults>>

Application ==
  /\ Quiet \/ (Reentrant /\ client.stack # <<>> /\ client.listening)
  /\ ~client.disposed
  /\ \/ \E s \in Subs :
          \/ client.sub[s].state = "new" /\ client' = Subscribe(client, s)
          \/ /\ client.sub[s].state # "new" /\ client.sub[s].status # "closed"
             /\ client' = Unsubscribe(client, s)
          \/ /\ client.sub[s].state # "new" /\ client.sub[s].status # "closed"
             /\ \E k \in Capabilities :
                  /\ k > 1
                  /\ client.sub[s].answers[k] = "none" /\ client.sub[s].prior[k] = "none"
                  /\ \A j \in 2..(k - 1) : client.sub[s].answers[j] # "none"
                  /\ client' = Renew(client, s, k)
     \/ client' = Close(client)
  /\ UNCHANGED <<granted, faults>>

\* The service takes a frame and answers it, or speaks first.
Answer(frame) == [client EXCEPT !.link.up = Tail(@), !.link.down = Append(@, frame)]

Served == client.link.served

ServeSubscribe(f) ==
  \/ /\ client' = [Answer(Frame("subscribed", f.id, f.sub, f.cap))
                     EXCEPT !.link.served = @ \cup {f.id}]
     /\ granted' = granted \cup {<<f.sub, f.cap>>}
     /\ UNCHANGED faults
  \/ /\ faults < MaxFaults
     /\ faults' = faults + 1
     /\ \E code \in {"rejected_overloaded", "rejected_expired", "rejected_denied"} :
          client' = Answer(Frame(code, f.id, f.sub, f.cap))
     /\ UNCHANGED granted

\* A renewal of a live query is accepted; one that has ended is not answered.
ServeRenew(f) ==
  /\ \/ /\ f.id \in Served
        /\ client' = Answer(Frame("renewed", f.id, f.sub, f.cap))
        /\ granted' = granted \cup {<<f.sub, f.cap>>}
     \/ /\ f.id \notin Served
        /\ client' = [client EXCEPT !.link.up = Tail(@)]
        /\ UNCHANGED granted
  /\ UNCHANGED faults

ServeUnsubscribe(f) ==
  /\ client' = [Answer(Frame("unsubscribed", f.id, f.sub, 0))
                  EXCEPT !.link.served = @ \ {f.id}]
  /\ UNCHANGED <<granted, faults>>

ServiceAnswer ==
  /\ Quiet
  /\ client.link.up # <<>>
  /\ LET f == Head(client.link.up)
     IN  \/ f.type = "subscribe"   /\ ServeSubscribe(f)
         \/ f.type = "renew"       /\ ServeRenew(f)
         \/ f.type = "unsubscribe" /\ ServeUnsubscribe(f)

\* One baseline at a time is on its way.
ServiceBaseline ==
  /\ Quiet
  /\ \E l \in Served :
       /\ Frame("baseline", l, 0, 0) \notin ToSet(client.link.down)
       /\ Owner(client.liveSubscriptions, l) # {} =>
            \A s \in Owner(client.liveSubscriptions, l) : client.sub[s].status # "live"
       /\ client' = [client EXCEPT !.link.down = Append(@, Frame("baseline", l, 0, 0))]
  /\ UNCHANGED <<granted, faults>>

ServiceError ==
  /\ Quiet
  /\ faults < MaxFaults
  /\ faults' = faults + 1
  /\ \E l \in Served, code \in {"error_overloaded", "error_expired", "error_denied"} :
       client' = [client EXCEPT !.link.served = @ \ {l},
                                !.link.down = Append(@, Frame(code, l, 0, 0))]
  /\ UNCHANGED granted

Deliver ==
  /\ Quiet
  /\ client.link.down # <<>> /\ client.socket = "open"
  /\ \E exhausted \in Exhaustible, parses \in BOOLEAN :
       LET f == Head(client.link.down)
           c == [client EXCEPT !.link.down = Tail(@)]
       IN  /\ ~parses => f.type = "baseline" /\ faults < MaxFaults
           /\ faults' = IF parses THEN faults ELSE faults + 1
           /\ client' =
                CASE f.type = "subscribed"          -> Admitted(c, f.id)
                  [] f.type = "rejected_overloaded" -> Rejected(c, f.id, "overloaded", exhausted)
                  [] f.type = "rejected_expired"    -> Rejected(c, f.id, "expired", FALSE)
                  [] f.type = "rejected_denied"     -> Rejected(c, f.id, "denied", FALSE)
                  [] f.type = "renewed"             -> Renewed(c, f.id)
                  [] f.type = "unsubscribed"        -> Unsubscribed(c, f.id)
                  [] f.type = "error_overloaded"    -> SubscriptionError(c, f.id, "overloaded", exhausted)
                  [] f.type = "error_expired"       -> SubscriptionError(c, f.id, "expired", FALSE)
                  [] f.type = "error_denied"        -> SubscriptionError(c, f.id, "denied", FALSE)
                  [] f.type = "baseline"            -> Baseline(c, f.id, parses)
  /\ UNCHANGED granted

ReceiveReady ==
  /\ Quiet
  /\ client.socket = "open" /\ ~client.ready
  /\ client' = Ready(client)
  /\ UNCHANGED <<granted, faults>>

\* The socket is lost, in one step or by way of CLOSING.
Drop ==
  /\ Quiet
  /\ client.socket = "open"
  /\ faults < MaxFaults
  /\ faults' = faults + 1
  /\ IF HalfClosed THEN client' = [client EXCEPT !.socket = "closing", !.link = NoLink]
     ELSE client' = CloseSocket(client)
  /\ UNCHANGED granted

CloseEvent ==
  /\ Quiet
  /\ client.socket = "closing"
  /\ client' = CloseSocket(client)
  /\ UNCHANGED <<granted, faults>>

\* A connection error that cannot be retried.
FatalError ==
  /\ Quiet
  /\ client.ready /\ client.socket = "open"
  /\ faults < MaxFaults
  /\ faults' = faults + 1
  /\ client' = Terminate(client, "fatal")
  /\ UNCHANGED granted

ReconnectDelay ==
  /\ Quiet
  /\ client.reconnectTimer
  /\ client' = LET c == [client EXCEPT !.reconnectTimer = FALSE]
               IN  IF c.active = {} THEN c ELSE Connect(c)
  /\ UNCHANGED <<granted, faults>>

ReconnectDeadline ==
  /\ Quiet
  /\ client.deadline
  /\ client' = LET c == [client EXCEPT !.deadline = FALSE]
               IN  IF c.episode THEN Terminate(c, "exhausted") ELSE c
  /\ UNCHANGED <<granted, faults>>

Stable ==
  /\ Quiet
  /\ client.stability /\ client.ready
  /\ client' = [client EXCEPT !.stability = FALSE, !.episode = FALSE, !.deadline = FALSE]
  /\ UNCHANGED <<granted, faults>>

\* The timers of a subscription's recovery episode.
RecoveryDelay(s) ==
  /\ client.sub[s].recovery = "waiting"
  /\ client' = SendSubscribe([client EXCEPT !.sub[s].recovery = "trying"], s)

RecoveryDeadline(s) ==
  /\ Bounded
  /\ client.sub[s].recovery # "idle"
  /\ client' = FailLocal([client EXCEPT !.sub[s].recovery = "idle"], s)

RecoveryStable(s) ==
  /\ client.sub[s].recovery = "settling"
  /\ client' = [client EXCEPT !.sub[s].recovery = "idle"]

Recovery ==
  /\ Quiet
  /\ \E s \in Subs : RecoveryDelay(s) \/ RecoveryDeadline(s) \/ RecoveryStable(s)
  /\ UNCHANGED <<granted, faults>>

Next ==
  \/ Handler \/ Restore \/ Application
  \/ ServiceAnswer \/ ServiceBaseline \/ ServiceError
  \/ Deliver \/ ReceiveReady \/ Drop \/ CloseEvent \/ FatalError
  \/ ReconnectDelay \/ ReconnectDeadline \/ Stable \/ Recovery

Spec == Init /\ [][Next]_vars

-----------------------------------------------------------------------------
(* Properties.  A handler may be anywhere in its work when a listener runs, *)
(* so what relates several tables is stated between handlers (Quiet).       *)

Statuses == {"connecting", "live", "stale", "error", "closed"}

SubType ==
  [state : {"new", "active", "awaiting_query", "failed", "closed"},
   query : 0..MaxCapability, requested : 0..MaxCapability, accepted : 0..MaxCapability,
   request : Nat, liveId : Nat, renewing : 0..MaxCapability, queued : Seq(Capabilities),
   recovery : {"idle", "waiting", "trying", "settling"}, status : Statuses,
   answers : [Capabilities -> {"none", "pending", "resolved", "rejected"}],
   prior : [Capabilities -> {"none", "stale", "error"}]]

\* The shape of the state, and the routing tables as the maps they are: an id
\* names one subscription, a subscription has one request and one live query.
TypeOK ==
  /\ client.sub \in [Subs -> SubType]
  /\ client.managed \subseteq Subs /\ client.active \subseteq Subs
  /\ client.socket \in {"none", "open", "closing"}
  /\ client.terminal \in {"no", "protocol", "fatal", "exhausted"}
  /\ client.delivering \subseteq client.targets
  /\ \A table \in {client.pendingRequests, client.liveSubscriptions} :
       \A e, f \in table : e[1] = f[1] => e = f
  /\ granted \subseteq Subs \X Capabilities
  /\ faults \in 0..MaxFaults

Active == client.active

Frames == ToSet(client.link.up) \cup ToSet(client.link.down)

Travelling(types, id) == \E f \in Frames : f.type \in types /\ f.id = id

\* activeSubscriptions is the part of managedSubscriptions that takes part in
\* the wire lifecycle: none that failed, was closed or awaits a query
\* (coordinator.ts:129-134).  Both sets and the state are changed in different
\* methods, some of them around a listener call.
ActiveAreManaged ==
  Quiet => Active = {s \in client.managed : client.sub[s].state = "active"}

\* Whatever the application, the service and the timers do, no true frame of
\* the service is taken for a protocol error, which would end every
\* subscription of the client (coordinator.ts:459-613).
NoProtocolFailure == client.terminal # "protocol"

\* A subscription is admitted on the connection there is, not on one that was
\* lost, and its frames are routed to it (coordinator.ts:709-734).
LiveOnThisSocket ==
  Quiet =>
    \A s \in Active : client.sub[s].liveId # 0 =>
      /\ client.sub[s].liveId > client.since
      /\ <<client.sub[s].liveId, s>> \in client.liveSubscriptions

\* The tables are well formed and tell the same story as the subscriptions' own
\* states, on this connection and not on one that was lost.
TablesAgree == TypeOK /\ ActiveAreManaged /\ LiveOnThisSocket

\* There is always something under way for an active subscription: a socket
\* that opens or closes, a reconnect or retry delay, a request the service has
\* still to answer, or a live query it serves.  Nobody waits for nothing.
Attended(s) ==
  LET m == client.sub[s]
  IN  CASE client.socket = "none"    -> client.reconnectTimer
        [] client.socket = "closing" -> TRUE
        [] client.socket = "open"    ->
             \/ ~client.ready
             \/ m.recovery = "waiting"
             \/ Travelling({"subscribe", "subscribed", "rejected_overloaded",
                            "rejected_expired", "rejected_denied"}, m.request)
             \/ m.liveId \in Served
             \/ Travelling({"error_overloaded", "error_expired", "error_denied"}, m.liveId)

NobodyStranded ==
  Quiet /\ client.terminal = "no" => \A s \in Active : Attended(s)

\* A renewal is unanswered only while its subscription is active and still
\* holds it, through lost connections and retries; so renew() always settles
\* (coordinator.ts:113-124, 930-957).
NoRenewalLost ==
  Quiet =>
    \A s \in Subs, k \in Capabilities :
      client.sub[s].answers[k] = "pending" <=>
        /\ client.sub[s].state = "active" /\ ~client.disposed
        /\ k \in {client.sub[s].renewing} \cup ToSet(client.sub[s].queued)

\* renew() resolves only if the service has accepted that capability, or a
\* newer one of the same subscription (coordinator.ts:511-515).
RenewalsTruthful ==
  \A s \in Subs, k \in Capabilities :
    client.sub[s].answers[k] = "resolved" => \E j \in k..MaxCapability : <<s, j>> \in granted

\* The service never serves a query that nobody reads and nobody is about to
\* unsubscribe, however late it was admitted (coordinator.ts:472-489, 860).
NoOrphans ==
  Quiet =>
    \A l \in Served :
      \/ \E s \in Active : <<l, s>> \in client.liveSubscriptions
      \/ Travelling({"unsubscribe", "subscribed"}, l)

\* Between handlers getState() says live only for an active subscription whose live
\* query is among the targets that the reconciler delivers to.  (Not that their socket
\* is the present one: observation 4 of the README, with half-closed sockets.)
LiveMeansLive ==
  Quiet /\ ~client.disposed =>
    \A s \in Subs : client.sub[s].status = "live" =>
      s \in Active /\ client.sub[s].liveId \in client.delivering

\* If the application, the network and the service leave it alone, the client
\* goes on: the service reads and answers, the client takes what arrives, and
\* timers that are due run.
Fairness ==
  /\ WF_vars(Handler) /\ WF_vars(Restore)
  /\ WF_vars(ServiceAnswer) /\ WF_vars(ServiceBaseline)
  /\ WF_vars(Deliver) /\ WF_vars(ReceiveReady) /\ WF_vars(CloseEvent)
  /\ WF_vars(ReconnectDelay)
  /\ \A s \in Subs : WF_vars(Quiet /\ RecoveryDelay(s) /\ UNCHANGED <<granted, faults>>)

FairSpec == Spec /\ Fairness

\* An active subscription becomes live, or it fails, is closed or awaits a new
\* capability: it does not hang between retries and reconnects.
EventuallySettled ==
  \A s \in Subs :
    client.sub[s].state = "active" /\ ~client.disposed
      ~> \/ client.sub[s].status = "live"
         \/ client.sub[s].state # "active"
         \/ client.disposed

=============================================================================

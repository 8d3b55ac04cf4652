--------------------------- MODULE LiveQueryStore ---------------------------
(***************************************************************************)
(* One useLiveQuery() hook: ReactLiveQueryStore with the                    *)
(* QueryRefreshController it owns, the subscription it opens and closes as  *)
(* React mounts and unmounts it, and awaitRows() on that subscription.      *)
(*                                                                          *)
(* What is asynchronous is in flight in a variable of its own: calls of the *)
(* application's refresh callback (calls), renewals nobody has answered     *)
(* (sub.renewing, sub.queued), and settled renewals whose continuation has  *)
(* not run (settled).  Continuations are microtasks: no frame or timer is   *)
(* handled before them, but the application may call again.                 *)
(*                                                                          *)
(* The subscription is what Coordinator says of one: a renewal is sent when *)
(* the query is admitted and no other is unanswered, a newer one rejects    *)
(* those in the queue, an admission for the newest capability accepts all,  *)
(* and an expiry rejects all unless a newer capability is already there.    *)
(* Capabilities are numbered as the application obtains them.               *)
(***************************************************************************)
EXTENDS Naturals, Sequences

CONSTANTS
  Waiters,        \* calls of awaitRows()
  MaxCapability,  \* bound: capabilities obtained, the first included
  MaxMounts       \* bound: times the hook is mounted

ASSUME LiveQueryStoreConstants ==
  /\ MaxCapability \in Nat \ {0}
  /\ MaxMounts \in Nat

VARIABLES
  refresh,   \* QueryRefreshController
  store,     \* ReactLiveQueryStore: subscribed, refreshError, hookSnapshot.status
  sub,       \* the open subscription
  renewals,  \* for each capability, the call that renews with it
  settled,   \* settled renewals whose continuation has not run, oldest first
  calls,     \* for each generation, its unanswered calls of the callback
  obtained,  \* capabilities obtained so far
  waiters    \* the calls of awaitRows()

vars == <<refresh, store, sub, renewals, settled, calls, obtained, waiters>>

Capabilities == 1..MaxCapability
Generations  == 0..MaxMounts

NewSub ==
  [state |-> "active", status |-> "connecting", wire |-> FALSE, renewing |-> 0,
   queued |-> <<>>]

Init ==
  /\ refresh = [query |-> 1, callback |-> FALSE, timer |-> FALSE, inFlight |-> FALSE,
                stopped |-> FALSE, active |-> FALSE, generation |-> 0]
  /\ store = [open |-> FALSE, error |-> FALSE, shown |-> "initial"]
  /\ sub = NewSub
  /\ renewals = [k \in Capabilities |-> [by |-> "nobody", generation |-> 0, prior |-> "none"]]
  /\ settled = <<>>
  /\ calls = [g \in Generations |-> 0]
  /\ obtained = 1
  /\ waiters = [w \in Waiters |-> [state |-> "new", listening |-> FALSE, timer |-> FALSE]]

-----------------------------------------------------------------------------
(* Row waiters, and what the hook shows.                                   *)

Pending == {w \in Waiters : waiters[w].state = "pending"}

Settle(w, how) ==
  [w EXCEPT !.state = how, !.listening = FALSE, !.timer = FALSE]

\* inspect(), for a snapshot whose rows do not match.
Inspect(w, status) ==
  IF status \in {"error", "closed"} THEN Settle(w, "failed") ELSE w

\* The snapshot listeners of the subscription: the waiters among them.
NotifyWaiters(status) ==
  waiters' = [w \in Waiters |-> IF waiters[w].listening THEN Inspect(waiters[w], status)
                                ELSE waiters[w]]

\* ReactLiveQueryStore.update(): the hook's snapshot, unless refresh has failed.
Shown(error, status) == IF error THEN "error" ELSE status

\* Faulty variant: a renewal leaves the error of an invalid refresh.
ClearErrorNever(s, status) == s

\* onSubscriptionRenewed.
ClearError(s, status) ==
  [s EXCEPT !.error = FALSE, !.shown = IF s.open THEN status ELSE @]

\* onRefreshExhausted.
RaiseError(s, status) ==
  [s EXCEPT !.error = TRUE, !.shown = IF s.open THEN "error" ELSE @]

\* The subscription becomes t: a new status reaches hook and waiters.
Becomes(t) ==
  /\ sub' = t
  /\ IF t.status = sub.status THEN UNCHANGED <<store, waiters>>
     ELSE /\ store' = [store EXCEPT !.shown = Shown(store.error, t.status)]
          /\ NotifyWaiters(t.status)

-----------------------------------------------------------------------------
(* The subscription, as Coordinator models it.                             *)

Answered(ks, how) == [i \in DOMAIN ks |-> [cap |-> ks[i], how |-> how]]

OnWire(t) == IF t.renewing = 0 THEN <<>> ELSE <<t.renewing>>

Unanswered(t) == OnWire(t) \o t.queued

\* sendNextRenewal()
SendNext(t) ==
  IF t.state = "active" /\ t.wire /\ t.renewing = 0 /\ t.queued # <<>>
    THEN [t EXCEPT !.renewing = Head(t.queued), !.queued = Tail(@)]
    ELSE t

NotRenewing(t) == [t EXCEPT !.renewing = 0, !.queued = <<>>]

\* resetWire()
ResetWire(t) == [t EXCEPT !.wire = FALSE, !.renewing = 0, !.queued = Unanswered(t)]

\* ManagedSubscription after renew(k).
Renewed(t, k) ==
  LET r == [t EXCEPT !.queued = <<k>>, !.state = "active",
                     !.status = IF @ \in {"error", "stale"} THEN "connecting" ELSE @]
  IN  IF t.state = "failed" THEN [t EXCEPT !.status = "connecting"] ELSE SendNext(r)

\* options.renewSubscription(k): Subscription.renew(), or nothing to renew.
Renew(k, by) ==
  LET waits == store.open /\ sub.status \in {"error", "stale"}
      now   == IF ~store.open THEN Answered(<<k>>, "accepted")
               ELSE IF sub.state = "failed" THEN Answered(<<k>>, "rejected")
               ELSE Answered(sub.queued, "rejected")
  IN  /\ renewals' = [renewals EXCEPT ![k] =
                        [by |-> by, generation |-> refresh.generation,
                         prior |-> IF waits THEN sub.status ELSE "none"]]
      /\ settled' = settled \o now
      /\ IF store.open THEN Becomes(Renewed(sub, k)) ELSE UNCHANGED <<sub, store, waiters>>

-----------------------------------------------------------------------------
(* QueryRefreshController.                                                 *)

\* scheduleRefresh(), whatever the delay.
Schedule(r) == [r EXCEPT !.timer = r.active /\ r.callback /\ ~r.stopped]

SetCallback(r, present) ==
  LET s == [r EXCEPT !.callback = present, !.timer = FALSE]
  IN  IF r.active /\ ~r.inFlight /\ ~r.stopped THEN Schedule(s) ELSE s

Start(r) == IF r.active THEN r ELSE Schedule([r EXCEPT !.active = TRUE, !.stopped = FALSE])

Stop(r) ==
  [r EXCEPT !.active = FALSE, !.generation = @ + 1, !.timer = FALSE, !.inFlight = FALSE,
            !.stopped = FALSE]

IsCurrent(generation) == refresh.active /\ generation = refresh.generation

\* Faulty variant: the answer of any generation ends the refresh in flight.
FinishAny(r, generation) == [r EXCEPT !.inFlight = FALSE]

\* The finally block of refresh().
Finish(r, generation) ==
  IF generation = refresh.generation THEN [r EXCEPT !.inFlight = FALSE] ELSE r

\* The timer fires and refresh() runs up to its await.
RefreshTimer ==
  /\ settled = <<>>
  /\ refresh.timer
  /\ IF refresh.active /\ refresh.callback /\ ~refresh.inFlight /\ ~refresh.stopped
       THEN /\ refresh' = [refresh EXCEPT !.timer = FALSE, !.inFlight = TRUE]
            /\ calls' = [calls EXCEPT ![refresh.generation] = @ + 1]
       ELSE /\ refresh' = [refresh EXCEPT !.timer = FALSE]
            /\ UNCHANGED calls
  /\ UNCHANGED <<store, sub, renewals, settled, obtained, waiters>>

Answers(g) == calls[g] > 0 /\ calls' = [calls EXCEPT ![g] = @ - 1]

\* An answer of a generation that has been stopped.
AnswerLate(g) ==
  /\ Answers(g) /\ ~IsCurrent(g)
  /\ refresh' = Finish(refresh, g)
  /\ UNCHANGED <<store, sub, renewals, settled, obtained, waiters>>

\* A capability for the same query.
AnswerFresh(g) ==
  /\ Answers(g) /\ IsCurrent(g)
  /\ obtained < MaxCapability
  /\ obtained' = obtained + 1
  /\ refresh' = Finish(Schedule([refresh EXCEPT !.query = obtained']), g)
  /\ Renew(obtained', "controller")

\* A capability that is malformed or for another query.
AnswerInvalid(g) ==
  /\ Answers(g) /\ IsCurrent(g)
  /\ refresh' = Finish([refresh EXCEPT !.stopped = TRUE], g)
  /\ store' = RaiseError(store, sub.status)
  /\ UNCHANGED <<sub, renewals, settled, obtained, waiters>>

\* Faulty variant: a callback that throws is not called again.
RetryNever(r) == r

\* scheduleRefresh(REFRESH_RETRY_MS)
Retry(r) == Schedule(r)

AnswerThrows(g) ==
  /\ Answers(g) /\ IsCurrent(g)
  /\ refresh' = Finish(Retry(refresh), g)
  /\ UNCHANGED <<store, sub, renewals, settled, obtained, waiters>>

CallbackAnswers ==
  \E g \in Generations :
    AnswerLate(g) \/ AnswerFresh(g) \/ AnswerInvalid(g) \/ AnswerThrows(g)

-----------------------------------------------------------------------------
(* Continuations of a settled renewal.                                     *)

\* The rest of replaceSealedQuery().
Replaced(r, k) == Schedule([r EXCEPT !.query = k, !.stopped = FALSE])

\* A rejected renewal puts back the state it had found, unless the subscription
\* has failed or been closed meanwhile.
Restored(e) ==
  LET n == renewals[e.cap]
  IN  IF /\ e.how = "rejected" /\ n.prior # "none" /\ store.open
         /\ n.generation = refresh.generation /\ sub.status # "error"
        THEN [sub EXCEPT !.status = n.prior]
        ELSE sub

Continue ==
  /\ settled # <<>>
  /\ settled' = Tail(settled)
  /\ LET e == Head(settled)
         n == renewals[e.cap]
         mine == IsCurrent(n.generation) /\ refresh.query = e.cap
     IN  IF e.how = "rejected"
           THEN /\ Becomes(Restored(e))
                /\ refresh' = IF n.by = "controller" /\ mine THEN Retry(refresh)
                              ELSE refresh
         ELSE /\ refresh' = IF n.by = "hand" THEN Replaced(refresh, e.cap) ELSE refresh
              /\ store' = IF n.by = "hand" \/ mine THEN ClearError(store, sub.status)
                          ELSE store
              /\ UNCHANGED <<sub, waiters>>
  /\ UNCHANGED <<renewals, calls, obtained>>

-----------------------------------------------------------------------------
(* The application.                                                        *)

\* The first React listener: open().
Mount ==
  /\ ~store.open
  /\ refresh.generation < MaxMounts
  /\ sub' = NewSub
  /\ store' = [store EXCEPT !.open = TRUE, !.shown = Shown(store.error, NewSub.status)]
  /\ refresh' = Start(refresh)
  /\ UNCHANGED <<renewals, settled, calls, obtained, waiters>>

\* The last React listener goes: close().
Unmount ==
  /\ store.open
  /\ refresh' = Stop(refresh)
  /\ settled' = settled \o Answered(Unanswered(sub), "rejected")
  /\ sub' = NewSub
  /\ store' = [open |-> FALSE, error |-> FALSE, shown |-> "initial"]
  /\ NotifyWaiters("closed")
  /\ UNCHANGED <<renewals, calls, obtained>>

SetRefreshCallback ==
  /\ \E present \in BOOLEAN : refresh' = SetCallback(refresh, present)
  /\ UNCHANGED <<store, sub, renewals, settled, calls, obtained, waiters>>

\* utils.renew(), with a capability the application obtained itself.
RenewByHand ==
  /\ obtained < MaxCapability
  /\ obtained' = obtained + 1
  /\ Renew(obtained', "hand")
  /\ UNCHANGED <<refresh, calls>>

\* Faulty variant: the first snapshot is not inspected.
FirstSnapshotLater(w) == w

\* inspect(subscription.getSnapshot())
FirstSnapshot(w) == Inspect(w, sub.status)

\* utils.awaitRows(), with or without a timeout; the rows may match at once.
AwaitRows(w) ==
  /\ waiters[w].state = "new" /\ store.open
  /\ \E timeout, match \in BOOLEAN :
       LET p == [state |-> "pending", listening |-> TRUE, timer |-> timeout]
       IN  waiters' = [waiters EXCEPT ![w] = IF match THEN Settle(p, "matched")
                                             ELSE FirstSnapshot(p)]
  /\ UNCHANGED <<refresh, store, sub, renewals, settled, calls, obtained>>

Application ==
  \/ Mount
  \/ Unmount
  \/ SetRefreshCallback
  \/ RenewByHand
  \/ \E w \in Waiters : AwaitRows(w)

RowTimeout ==
  /\ settled = <<>>
  /\ \E w \in Pending :
       /\ waiters[w].timer
       /\ waiters' = [waiters EXCEPT ![w] = Settle(@, "failed")]
  /\ UNCHANGED <<refresh, store, sub, renewals, settled, calls, obtained>>

-----------------------------------------------------------------------------
(* What the connection does to the subscription.                           *)

Frame == store.open /\ settled = <<>>

\* Admitted, with the newest capability or with an earlier one.
Admitted ==
  /\ Frame
  /\ sub.state = "active" /\ ~sub.wire
  /\ \E newest \in BOOLEAN :
       /\ Unanswered(sub) = <<>> => newest
       /\ LET t == [sub EXCEPT !.wire = TRUE]
          IN  IF newest
                THEN /\ settled' = Answered(Unanswered(sub), "accepted")
                     /\ Becomes(NotRenewing(t))
                ELSE /\ UNCHANGED settled
                     /\ Becomes(SendNext(t))
  /\ UNCHANGED <<refresh, renewals, calls, obtained>>

RenewedFrame ==
  /\ Frame
  /\ sub.renewing # 0
  /\ settled' = Answered(<<sub.renewing>>, "accepted")
  /\ Becomes(SendNext([sub EXCEPT !.renewing = 0]))
  /\ UNCHANGED <<refresh, renewals, calls, obtained>>

\* Rows: the subscription is live, and some waiters have what they wait for.
CaughtUp ==
  /\ Frame
  /\ sub.state = "active" /\ sub.wire
  /\ sub' = [sub EXCEPT !.status = "live"]
  /\ store' = [store EXCEPT !.shown = Shown(store.error, "live")]
  /\ \E matched \in SUBSET Pending :
       waiters' = [w \in Waiters |-> IF w \in matched THEN Settle(waiters[w], "matched")
                                     ELSE waiters[w]]
  /\ UNCHANGED <<refresh, renewals, settled, calls, obtained>>

\* The socket is lost.
Drop ==
  /\ Frame
  /\ sub.state = "active"
  /\ Becomes([ResetWire(sub) EXCEPT !.status = "connecting"])
  /\ UNCHANGED <<refresh, renewals, settled, calls, obtained>>

\* The service no longer takes the capability; a newer one may be there.
Expired ==
  /\ Frame
  /\ sub.state = "active"
  /\ \/ /\ Unanswered(sub) # <<>>
        /\ Becomes([ResetWire(sub) EXCEPT !.status = "connecting"])
        /\ UNCHANGED settled
     \/ /\ settled' = Answered(Unanswered(sub), "rejected")
        /\ Becomes([NotRenewing(ResetWire(sub)) EXCEPT !.state = "awaiting_query",
                                                       !.status = "stale"])
  /\ UNCHANGED <<refresh, renewals, calls, obtained>>

Failed ==
  /\ Frame
  /\ sub.state # "failed"
  /\ settled' = Answered(Unanswered(sub), "rejected")
  /\ Becomes([NotRenewing(ResetWire(sub)) EXCEPT !.state = "failed", !.status = "error"])
  /\ UNCHANGED <<refresh, renewals, calls, obtained>>

Connection == Admitted \/ RenewedFrame \/ CaughtUp \/ Drop \/ Expired \/ Failed

Next == Application \/ RefreshTimer \/ RowTimeout \/ CallbackAnswers \/ Continue \/ Connection

Spec == Init /\ [][Next]_vars

\* Timers fire, promises are continued, and a callback that is asked again and
\* again succeeds some time.
Fairness ==
  /\ WF_vars(RefreshTimer)
  /\ WF_vars(Continue)
  /\ WF_vars(CallbackAnswers)
  /\ SF_vars(\E g \in Generations : AnswerFresh(g))

FairSpec == Spec /\ Fairness

-----------------------------------------------------------------------------
(* Properties.                                                             *)

Statuses == {"connecting", "live", "stale", "error", "closed"}

\* Every variable keeps its type, and the timer is set only while it may fire.
TypeOK ==
  /\ refresh \in [query : Capabilities, callback : BOOLEAN, timer : BOOLEAN,
                  inFlight : BOOLEAN, stopped : BOOLEAN, active : BOOLEAN,
                  generation : Generations]
  /\ store \in [open : BOOLEAN, error : BOOLEAN, shown : Statuses \cup {"initial"}]
  /\ sub \in [state : {"active", "awaiting_query", "failed"}, status : Statuses,
              wire : BOOLEAN, renewing : Capabilities \cup {0}, queued : Seq(Capabilities)]
  /\ renewals \in [Capabilities -> [by : {"nobody", "controller", "hand"},
                                    generation : Generations,
                                    prior : {"none", "error", "stale"}]]
  /\ settled \in Seq([cap : Capabilities, how : {"accepted", "rejected"}])
  /\ calls \in [Generations -> Nat]
  /\ obtained \in Capabilities
  /\ waiters \in [Waiters -> [state : {"new", "pending", "matched", "failed"},
                              listening : BOOLEAN, timer : BOOLEAN]]
  /\ refresh.timer => refresh.active /\ refresh.callback

\* Automatic refresh never falls asleep: while it is on, a timer is set or the
\* callback has been asked, whatever happened to callbacks, renewals by hand and
\* earlier mounts of the hook (setRefreshCallback, refresh, replaceSealedQuery).
RefreshPending ==
  refresh.active /\ refresh.callback /\ ~refresh.stopped =>
    refresh.timer \/ calls[refresh.generation] > 0

\* The callback is never asked again while it owes this mount an answer, and an
\* answer owed to an earlier mount does not count (refreshInFlight).
OneRefreshInFlight ==
  calls[refresh.generation] = IF refresh.inFlight THEN 1 ELSE 0

\* Automatic refresh neither falls asleep nor asks twice, in well-typed states: the
\* three above, which hold one another up.
RefreshSound == TypeOK /\ RefreshPending /\ OneRefreshInFlight

\* The hook shows the subscription's own status, or that refresh has stopped for
\* good, and the latter only while it really has (update, withRefreshError); an
\* unmounted one has no timer and no error, whoever answers late (close).
HookTruthful ==
  IF store.open
    THEN /\ store.shown = Shown(store.error, sub.status)
         /\ store.error => refresh.stopped
    ELSE ~refresh.active /\ ~refresh.timer /\ ~store.error /\ store.shown = "initial"

\* Nobody waits for rows of a subscription that has ended or has been unmounted,
\* and a call that has its answer left neither listener nor timer (waitForRows).
WaitersServed ==
  \A w \in Waiters :
    IF waiters[w].state = "pending"
      THEN waiters[w].listening /\ store.open /\ sub.status # "error"
      ELSE ~waiters[w].listening /\ ~waiters[w].timer

\* A query that waits for a replacement capability gets one, as long as the hook
\* stays mounted with a callback whose answers are valid.
StaleEnds ==
  (store.open /\ sub.state = "awaiting_query") ~>
    \/ ~store.open \/ sub.state # "awaiting_query"
    \/ ~refresh.callback \/ refresh.stopped
    \/ obtained = MaxCapability

\* Two that fail; the README shows how.  A refresh that has stopped is shown to
\* have stopped: a renewal that was already pending clears the error when it is
\* accepted.  The controller's capability is never replaced by an older one: a
\* renewal by hand puts its own in place when it is accepted.
StoppedIsShown == store.open /\ refresh.stopped => store.error

CapabilityAdvances == [][refresh'.query >= refresh.query]_vars
=============================================================================

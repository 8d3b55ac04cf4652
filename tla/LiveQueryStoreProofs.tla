------------------------- MODULE LiveQueryStoreProofs -------------------------
(***************************************************************************)
(* Proofs about one hook of live queries: its refresh, what it shows, and   *)
(* who waits for its rows, for any number of waiters, mounts and            *)
(* capabilities.                                                            *)
(***************************************************************************)
EXTENDS LiveQueryStore, SequenceTheorems, TLAPS

Refreshers ==
  [query : Capabilities, callback : BOOLEAN, timer : BOOLEAN, inFlight : BOOLEAN,
   stopped : BOOLEAN, active : BOOLEAN, generation : Generations]

Stores == [open : BOOLEAN, error : BOOLEAN, shown : Statuses \cup {"initial"}]

Subs ==
  [state : {"active", "awaiting_query", "failed"}, status : Statuses, wire : BOOLEAN,
   renewing : Capabilities \cup {0}, queued : Seq(Capabilities)]

Renewers ==
  [by : {"nobody", "controller", "hand"}, generation : Generations,
   prior : {"none", "error", "stale"}]

Outcomes == [cap : Capabilities, how : {"accepted", "rejected"}]

Waits == [state : {"new", "pending", "matched", "failed"}, listening : BOOLEAN, timer : BOOLEAN]

\* TypeOK, by the names of its sets.
TypeInv ==
  /\ refresh \in Refreshers /\ store \in Stores /\ sub \in Subs
  /\ renewals \in [Capabilities -> Renewers]
  /\ settled \in Seq(Outcomes)
  /\ calls \in [Generations -> Nat]
  /\ obtained \in Capabilities
  /\ waiters \in [Waiters -> Waits]
  /\ refresh.timer => refresh.active /\ refresh.callback

\* The controller runs while the hook is mounted, and callbacks have been asked for no
\* mount that is still to come.
MountsAgree ==
  /\ store.open <=> refresh.active
  /\ store.open => refresh.generation < MaxMounts
  /\ \A g \in Generations : g > refresh.generation => calls[g] = 0

IInv ==
  /\ TypeInv /\ MountsAgree
  /\ RefreshPending /\ OneRefreshInFlight
  /\ HookTruthful /\ WaitersServed

LEMMA TypeParts == TypeOK <=> TypeInv
BY DEF TypeOK, TypeInv, Refreshers, Stores, Subs, Renewers, Outcomes, Waits

LEMMA Bounds ==
  /\ MaxCapability \in Nat \ {0} /\ MaxMounts \in Nat
  /\ 1 \in Capabilities /\ 0 \notin Capabilities /\ Capabilities \subseteq Nat
  /\ 0 \in Generations /\ Generations \subseteq Nat
BY LiveQueryStoreConstants DEF Capabilities, Generations

LEMMA NewSubType == NewSub \in Subs
<1>1. <<>> \in Seq(Capabilities)
  BY EmptySeq
<1> QED
  BY <1>1 DEF NewSub, Subs, Statuses

LEMMA InitInv == Init => IInv
<1> SUFFICES ASSUME Init PROVE IInv
  OBVIOUS
<1>1. refresh \in Refreshers /\ store \in Stores
  BY Bounds DEF Init, Refreshers, Stores, Statuses
<1>2. renewals \in [Capabilities -> Renewers] /\ calls \in [Generations -> Nat]
  BY Bounds DEF Init, Renewers
<1>3. settled \in Seq(Outcomes)
  BY EmptySeq DEF Init
<1>4. waiters \in [Waiters -> Waits]
  BY DEF Init, Waits
<1>5. TypeInv
  BY <1>1, <1>2, <1>3, <1>4, NewSubType, Bounds DEF Init, TypeInv
<1>6. MountsAgree /\ RefreshPending /\ OneRefreshInFlight
  BY Bounds DEF Init, MountsAgree, RefreshPending, OneRefreshInFlight
<1> QED
  BY <1>5, <1>6 DEF Init, IInv, HookTruthful, WaitersServed

-----------------------------------------------------------------------------
(* The subscription's operators.                                           *)

LEMMA AnsweredType ==
  ASSUME NEW ks \in Seq(Capabilities), NEW how \in {"accepted", "rejected"}
  PROVE  Answered(ks, how) \in Seq(Outcomes)
<1>1. Len(ks) \in Nat /\ DOMAIN ks = 1..Len(ks) /\ \A i \in 1..Len(ks) : ks[i] \in Capabilities
  BY LenProperties, ElementOfSeq
<1>2. \A i \in 1..Len(ks) : [cap |-> ks[i], how |-> how] \in Outcomes
  BY <1>1 DEF Outcomes
<1>3. [i \in 1..Len(ks) |-> [cap |-> ks[i], how |-> how]] \in Seq(Outcomes)
  BY <1>1, <1>2, IsASeq
<1> QED
  BY <1>1, <1>3 DEF Answered

LEMMA UnansweredType ==
  ASSUME NEW t \in Subs
  PROVE  OnWire(t) \in Seq(Capabilities) /\ Unanswered(t) \in Seq(Capabilities)
<1>1. t.renewing \in Capabilities \cup {0} /\ t.queued \in Seq(Capabilities)
  BY DEF Subs
<1>2. OnWire(t) \in Seq(Capabilities)
  BY <1>1, EmptySeq DEF OnWire
<1> QED
  BY <1>1, <1>2, ConcatProperties DEF Unanswered

\* A renewal that is sent, a reset, and a queue that is emptied change neither what the
\* subscription is nor what it shows.
LEMMA SubOperators ==
  ASSUME NEW t \in Subs
  PROVE  /\ SendNext(t) \in Subs /\ SendNext(t).status = t.status
         /\ NotRenewing(t) \in Subs /\ NotRenewing(t).status = t.status
         /\ ResetWire(t) \in Subs /\ ResetWire(t).status = t.status
<1>1. SendNext(t) \in Subs /\ SendNext(t).status = t.status
  <2>1. CASE t.queued # <<>>
    <3>1. Head(t.queued) \in Capabilities /\ Tail(t.queued) \in Seq(Capabilities)
      BY <2>1, HeadTailProperties DEF Subs
    <3> QED
      BY <3>1 DEF SendNext, Subs
  <2>2. CASE t.queued = <<>>
    BY <2>2 DEF SendNext
  <2> QED
    BY <2>1, <2>2
<1>2. NotRenewing(t) \in Subs /\ NotRenewing(t).status = t.status
  <2>1. <<>> \in Seq(Capabilities)
    BY EmptySeq
  <2> QED
    BY <2>1 DEF NotRenewing, Subs
<1>3. ResetWire(t) \in Subs /\ ResetWire(t).status = t.status
  BY UnansweredType DEF ResetWire, Subs
<1> QED
  BY <1>1, <1>2, <1>3

\* A renewal leaves no error behind.
LEMMA RenewedType ==
  ASSUME NEW t \in Subs, NEW k \in Capabilities
  PROVE  Renewed(t, k) \in Subs /\ Renewed(t, k).status # "error"
<1> DEFINE r == [t EXCEPT !.queued = <<k>>, !.state = "active",
                          !.status = IF @ \in {"error", "stale"} THEN "connecting" ELSE @]
<1>1. <<k>> \in Seq(Capabilities)
  OBVIOUS
<1>2. r \in Subs /\ r.status # "error"
  BY <1>1 DEF Subs, Statuses
<1>3. [t EXCEPT !.status = "connecting"] \in Subs
  BY DEF Subs, Statuses
<1>4. Renewed(t, k) = IF t.state = "failed" THEN [t EXCEPT !.status = "connecting"]
                      ELSE SendNext(r)
  BY DEF Renewed
<1> HIDE DEF r
<1>5. SendNext(r) \in Subs /\ SendNext(r).status # "error"
  BY <1>2, SubOperators
<1> QED
  BY <1>3, <1>4, <1>5 DEF Subs

-----------------------------------------------------------------------------
(* Hook and waiters.                                                       *)

\* Waiters, each on its own: what WaitersServed says of one.
Served(w, open, status) ==
  IF w.state = "pending" THEN w.listening /\ open /\ status # "error"
                         ELSE ~w.listening /\ ~w.timer

LEMMA ServedIsServed ==
  WaitersServed <=> \A w \in Waiters : Served(waiters[w], store.open, sub.status)
BY DEF WaitersServed, Served

LEMMA WaiterOperators ==
  ASSUME NEW w \in Waits
  PROVE  /\ \A how \in {"matched", "failed"} :
              Settle(w, how) \in Waits /\ \A o, s : Served(Settle(w, how), o, s)
         /\ \A s : Inspect(w, s) \in Waits
         /\ \A s : w.listening /\ w.state = "pending" => Served(Inspect(w, s), s # "closed", s)
BY DEF Waits, Settle, Inspect, Served

\* Whatever the new status is, the waiters that it does not serve are told.
LEMMA NotifyServes ==
  ASSUME waiters \in [Waiters -> Waits], NEW open, NEW old, NEW status, NotifyWaiters(status),
         \A w \in Waiters : Served(waiters[w], open, old)
  PROVE  /\ waiters' \in [Waiters -> Waits]
         /\ \A w \in Waiters : Served(waiters'[w], status # "closed", status)
<1>1. ASSUME NEW w \in Waiters
      PROVE  waiters'[w] \in Waits /\ Served(waiters'[w], status # "closed", status)
  <2>1. waiters'[w] = IF waiters[w].listening THEN Inspect(waiters[w], status) ELSE waiters[w]
    BY DEF NotifyWaiters
  <2>2. CASE waiters[w].listening
    <3>1. waiters[w].state = "pending"
      BY <2>2 DEF Served
    <3> QED
      BY <2>1, <2>2, <3>1, WaiterOperators
  <2>3. CASE ~waiters[w].listening
    BY <2>1, <2>3 DEF Served
  <2> QED
    BY <2>2, <2>3
<1> QED
  BY <1>1 DEF NotifyWaiters

\* So the subscription of a mounted hook may become anything but newly closed.
LEMMA BecomesKeeps ==
  ASSUME TypeInv, WaitersServed, NEW t \in Subs, Becomes(t), store.open,
         t.status = sub.status \/ t.status # "closed"
  PROVE  /\ sub' = t /\ store' \in Stores /\ waiters' \in [Waiters -> Waits]
         /\ store'.open = store.open /\ store'.error = store.error
         /\ store.shown = Shown(store.error, sub.status) =>
              store'.shown = Shown(store.error, t.status)
         /\ WaitersServed'
<1>1. store \in Stores /\ waiters \in [Waiters -> Waits] /\ sub \in Subs
  BY DEF TypeInv
<1>2. \A w \in Waiters : Served(waiters[w], store.open, sub.status)
  BY ServedIsServed
<1>3. sub' = t
  BY DEF Becomes
<1>4. CASE t.status = sub.status
  <2>1. UNCHANGED <<store, waiters>>
    BY <1>4 DEF Becomes
  <2> QED
    BY <1>1, <1>3, <1>4, <2>1 DEF WaitersServed
<1>5. CASE t.status # sub.status
  <2>1. store' = [store EXCEPT !.shown = Shown(store.error, t.status)] /\ NotifyWaiters(t.status)
    BY <1>5 DEF Becomes
  <2>2. /\ waiters' \in [Waiters -> Waits]
        /\ \A w \in Waiters : Served(waiters'[w], TRUE, t.status)
    <3>1. t.status # "closed"
      BY <1>5
    <3>2. /\ waiters' \in [Waiters -> Waits]
          /\ \A w \in Waiters : Served(waiters'[w], t.status # "closed", t.status)
      BY <1>1, <1>2, <2>1, NotifyServes
    <3> QED
      BY <3>1, <3>2 DEF Served
  <2>3. store' \in Stores /\ store'.open = store.open /\ store'.error = store.error
        /\ store'.shown = Shown(store.error, t.status)
    <3> DEFINE shown == Shown(store.error, t.status)
    <3>1. shown \in Statuses
      BY DEF Shown, Subs, Statuses
    <3>2. store' = [store EXCEPT !.shown = shown]
      BY <2>1
    <3> HIDE DEF shown
    <3>3. [store EXCEPT !.shown = shown] \in Stores
      BY <1>1, <3>1 DEF Stores
    <3>4. store'.shown = shown /\ store'.open = store.open /\ store'.error = store.error
      BY <1>1, <3>2 DEF Stores
    <3> QED
      BY <3>2, <3>3, <3>4 DEF shown
  <2>4. WaitersServed'
    BY <1>3, <2>2, <2>3 DEF WaitersServed, Served
  <2> QED
    BY <1>3, <2>2, <2>3, <2>4
<1> QED
  BY <1>4, <1>5

\* What the hook shows, and whom it serves.
HookShows ==
  IF store.open THEN store.shown = Shown(store.error, sub.status)
                ELSE ~store.error /\ store.shown = "initial"

View ==
  /\ store \in Stores /\ sub \in Subs /\ waiters \in [Waiters -> Waits]
  /\ HookShows /\ WaitersServed

LEMMA BecomesView ==
  ASSUME TypeInv, View, NEW t \in Subs, Becomes(t), store.open,
         t.status = sub.status \/ t.status # "closed"
  PROVE  View'
BY BecomesKeeps DEF View, HookShows

LEMMA BecomesStore ==
  ASSUME TypeInv, NEW t, Becomes(t)
  PROVE  store'.open = store.open /\ store'.error = store.error
BY DEF TypeInv, Stores, Becomes

LEMMA RenewView ==
  ASSUME TypeInv, View, NEW k \in Capabilities, NEW by \in {"controller", "hand"}, Renew(k, by)
  PROVE  /\ View' /\ store'.open = store.open /\ store'.error = store.error
         /\ renewals' \in [Capabilities -> Renewers] /\ settled' \in Seq(Outcomes)
<1>1. sub \in Subs /\ store \in Stores /\ refresh \in Refreshers
  BY DEF TypeInv
<1>2. Renewed(sub, k) \in Subs
      /\ (Renewed(sub, k).status = sub.status \/ Renewed(sub, k).status # "closed")
  <2>1. Renewed(sub, k).status \in {sub.status, "connecting"}
    <3> DEFINE r == [sub EXCEPT !.queued = <<k>>, !.state = "active",
                                !.status = IF @ \in {"error", "stale"} THEN "connecting" ELSE @]
    <3>1. <<k>> \in Seq(Capabilities)
      OBVIOUS
    <3>2. r \in Subs /\ r.status \in {sub.status, "connecting"}
      BY <1>1, <3>1 DEF Subs, Statuses
    <3>3. Renewed(sub, k) = IF sub.state = "failed" THEN [sub EXCEPT !.status = "connecting"]
                            ELSE SendNext(r)
      BY DEF Renewed
    <3> HIDE DEF r
    <3>4. SendNext(r).status = r.status
      BY <3>2, SubOperators
    <3> QED
      BY <1>1, <3>2, <3>3, <3>4 DEF Subs
  <2> QED
    BY <1>1, <2>1, RenewedType
<1>3. View' /\ store'.open = store.open /\ store'.error = store.error
  <2>1. CASE store.open
    BY <1>2, <2>1, BecomesView, BecomesStore DEF Renew
  <2>2. CASE ~store.open
    <3>1. UNCHANGED <<sub, store, waiters>>
      BY <2>2 DEF Renew
    <3> QED
      BY <3>1 DEF View, HookShows, WaitersServed
  <2> QED
    BY <2>1, <2>2
<1>4. renewals' \in [Capabilities -> Renewers]
  <2> DEFINE prior == IF store.open /\ sub.status \in {"error", "stale"} THEN sub.status ELSE "none"
             n     == [by |-> by, generation |-> refresh.generation, prior |-> prior]
  <2>1. n \in Renewers
    BY <1>1 DEF Refreshers, Renewers
  <2>2. renewals' = [renewals EXCEPT ![k] = n]
    BY DEF Renew
  <2> HIDE DEF n
  <2> QED
    BY <2>1, <2>2 DEF TypeInv
<1>5. settled' \in Seq(Outcomes)
  <2> DEFINE now == IF ~store.open THEN Answered(<<k>>, "accepted")
                    ELSE IF sub.state = "failed" THEN Answered(<<k>>, "rejected")
                    ELSE Answered(sub.queued, "rejected")
  <2>1. <<k>> \in Seq(Capabilities) /\ sub.queued \in Seq(Capabilities)
    BY <1>1 DEF Subs
  <2>2. now \in Seq(Outcomes)
    BY <2>1, AnsweredType
  <2>3. settled' = settled \o now
    BY DEF Renew
  <2> HIDE DEF now
  <2> QED
    BY <2>2, <2>3, ConcatProperties DEF TypeInv
<1> QED
  BY <1>3, <1>4, <1>5

-----------------------------------------------------------------------------
(* The controller.                                                         *)

Timed(r) == r \in Refreshers /\ (r.timer => r.active /\ r.callback)

LEMMA ControllerOperators ==
  ASSUME NEW r, Timed(r)
  PROVE  /\ Timed(Schedule(r))
         /\ \A present \in BOOLEAN : Timed(SetCallback(r, present))
         /\ ~r.active => Timed(Start(r))
         /\ r.generation < MaxMounts => Timed(Stop(r))
         /\ \A g : Timed(Finish(r, g))
         /\ \A k \in Capabilities : Timed(Replaced(r, k)) /\ Timed(Schedule([r EXCEPT !.query = k]))
<1>1. ASSUME NEW q \in Refreshers PROVE Timed(Schedule(q))
  BY <1>1 DEF Timed, Schedule, Refreshers
<1>2. ASSUME NEW present \in BOOLEAN PROVE Timed(SetCallback(r, present))
  <2>1. [r EXCEPT !.callback = present, !.timer = FALSE] \in Refreshers
    BY DEF Timed, Refreshers
  <2> QED
    BY <1>1, <2>1 DEF SetCallback, Timed, Refreshers
<1>3. ~r.active => Timed(Start(r))
  <2>1. [r EXCEPT !.active = TRUE, !.stopped = FALSE] \in Refreshers
    BY DEF Timed, Refreshers
  <2> QED
    BY <1>1, <2>1 DEF Start
<1>4. r.generation < MaxMounts => Timed(Stop(r))
  <2>1. r.generation < MaxMounts => r.generation + 1 \in Generations
    BY Bounds DEF Timed, Refreshers, Generations
  <2> QED
    BY <2>1 DEF Timed, Refreshers, Stop
<1>5. \A g : Timed(Finish(r, g))
  BY DEF Timed, Refreshers, Finish
<1>6. ASSUME NEW k \in Capabilities
      PROVE  Timed(Replaced(r, k)) /\ Timed(Schedule([r EXCEPT !.query = k]))
  <2>1. [r EXCEPT !.query = k] \in Refreshers /\ [r EXCEPT !.query = k, !.stopped = FALSE] \in Refreshers
    BY DEF Timed, Refreshers
  <2> QED
    BY <1>1, <2>1 DEF Replaced
<1> QED
  BY <1>1, <1>2, <1>3, <1>4, <1>5, <1>6 DEF Timed

\* The fields each operator changes.
LEMMA ControllerFields ==
  ASSUME NEW r \in Refreshers
  PROVE  /\ Schedule(r).timer = (r.active /\ r.callback /\ ~r.stopped)
         /\ Schedule(r).active = r.active /\ Schedule(r).callback = r.callback
         /\ Schedule(r).stopped = r.stopped /\ Schedule(r).inFlight = r.inFlight
         /\ Schedule(r).generation = r.generation
         /\ Schedule(r).active /\ Schedule(r).callback /\ ~Schedule(r).stopped => Schedule(r).timer
         /\ \A g : /\ Finish(r, g).timer = r.timer
                   /\ Finish(r, g).active = r.active /\ Finish(r, g).callback = r.callback
                   /\ Finish(r, g).stopped = r.stopped
                   /\ Finish(r, g).generation = r.generation
                   /\ Finish(r, g).inFlight = (IF g = refresh.generation THEN FALSE ELSE r.inFlight)
BY DEF Refreshers, Schedule, Finish

-----------------------------------------------------------------------------
(* What the hook shows.                                                    *)

\* A waiter that is settled serves nobody any more; the others are as they were.
LEMMA SettleServes ==
  ASSUME View, NEW S \in SUBSET Waiters, NEW how \in {"matched", "failed"}, NEW t \in Subs,
         sub' = t, t.status # "error" \/ t.status = sub.status,
         waiters' = [w \in Waiters |-> IF w \in S THEN Settle(waiters[w], how) ELSE waiters[w]],
         store'.open = store.open
  PROVE  waiters' \in [Waiters -> Waits] /\ WaitersServed'
<1>1. \A w \in Waiters : waiters[w] \in Waits /\ Served(waiters[w], store.open, sub.status)
  BY ServedIsServed DEF View
<1>2. ASSUME NEW w \in Waiters
      PROVE  waiters'[w] \in Waits /\ Served(waiters'[w], store.open, t.status)
  <2>1. CASE w \in S
    BY <1>1, <2>1, WaiterOperators
  <2>2. CASE w \notin S
    BY <1>1, <2>2 DEF Served
  <2> QED
    BY <2>1, <2>2
<1> QED
  BY <1>2 DEF WaitersServed, Served

LEMMA ApplicationView ==
  ASSUME TypeInv, View, MountsAgree, Application
  PROVE  View'
<1>0. store \in Stores /\ sub \in Subs /\ waiters \in [Waiters -> Waits]
      /\ \A w \in Waiters : Served(waiters[w], store.open, sub.status)
  BY ServedIsServed DEF View
<1>1. CASE Mount
  <2> DEFINE shown == Shown(store.error, NewSub.status)
  <2>1. shown \in Statuses /\ NewSub.status # "error"
    BY DEF Shown, NewSub, Statuses
  <2>2. store' = [store EXCEPT !.open = TRUE, !.shown = shown]
    BY <1>1 DEF Mount
  <2>3. sub' = NewSub /\ UNCHANGED waiters /\ ~store.open
    BY <1>1 DEF Mount
  <2> HIDE DEF shown
  <2>4. store' \in Stores /\ store'.open /\ store'.error = store.error /\ store'.shown = shown
    BY <1>0, <2>1, <2>2 DEF Stores
  <2>5. WaitersServed'
    BY <1>0, <2>1, <2>3, <2>4 DEF WaitersServed, Served
  <2>6. HookShows'
    BY <2>3, <2>4 DEF HookShows, shown
  <2> QED
    BY <1>0, <2>3, <2>4, <2>5, <2>6, NewSubType DEF View
<1>2. CASE Unmount
  <2>1. /\ waiters' \in [Waiters -> Waits]
        /\ \A w \in Waiters : Served(waiters'[w], "closed" # "closed", "closed")
    BY <1>0, <1>2, NotifyServes DEF Unmount
  <2>2. store' \in Stores /\ ~store'.open /\ ~store'.error /\ store'.shown = "initial"
    BY <1>2 DEF Unmount, Stores
  <2>3. WaitersServed'
    BY <2>1 DEF WaitersServed, Served
  <2> QED
    BY <1>2, <2>1, <2>2, <2>3, NewSubType DEF View, HookShows, Unmount
<1>3. CASE SetRefreshCallback
  BY <1>3 DEF SetRefreshCallback, View, HookShows, WaitersServed
<1>4. CASE RenewByHand
  <2>1. obtained + 1 \in Capabilities
    BY <1>4, Bounds DEF RenewByHand, TypeInv, Capabilities
  <2> QED
    BY <1>4, <2>1, RenewView DEF RenewByHand
<1>5. ASSUME NEW w \in Waiters, AwaitRows(w)
      PROVE  View'
  <2>1. PICK timeout \in BOOLEAN, match \in BOOLEAN :
          waiters' = [waiters EXCEPT ![w] =
            IF match THEN Settle([state |-> "pending", listening |-> TRUE, timer |-> timeout],
                                 "matched")
            ELSE FirstSnapshot([state |-> "pending", listening |-> TRUE, timer |-> timeout])]
    BY <1>5 DEF AwaitRows
  <2> DEFINE p == [state |-> "pending", listening |-> TRUE, timer |-> timeout]
             v == IF match THEN Settle(p, "matched") ELSE FirstSnapshot(p)
  <2>2. p \in Waits
    BY DEF Waits
  <2>3. Settle(p, "matched") \in Waits /\ Served(Settle(p, "matched"), TRUE, sub.status)
    BY <2>2, WaiterOperators
  <2>4. Inspect(p, sub.status) \in Waits /\ Served(Inspect(p, sub.status), TRUE, sub.status)
    BY <2>2 DEF Inspect, Settle, Waits, Served
  <2>5. v \in Waits /\ Served(v, TRUE, sub.status)
    BY <2>3, <2>4 DEF FirstSnapshot
  <2>6. waiters' = [waiters EXCEPT ![w] = v]
    BY <2>1
  <2> HIDE DEF v
  <2>7. UNCHANGED <<store, sub>> /\ store.open
    BY <1>5 DEF AwaitRows
  <2>8. waiters' \in [Waiters -> Waits]
        /\ \A x \in Waiters : Served(waiters'[x], store.open, sub.status)
    BY <1>0, <2>5, <2>6, <2>7
  <2> QED
    BY <2>7, <2>8 DEF View, HookShows, WaitersServed, Served
<1> QED
  BY <1>1, <1>2, <1>3, <1>4, <1>5 DEF Application

LEMMA ConnectionView ==
  ASSUME TypeInv, View, Connection
  PROVE  View' /\ store'.open = store.open /\ store'.error = store.error
<1>0. store.open /\ sub \in Subs /\ store \in Stores
  BY DEF Connection, Admitted, RenewedFrame, CaughtUp, Drop, Expired, Failed, Frame, TypeInv
<1>1. ASSUME NEW t \in Subs, Becomes(t), t.status = sub.status \/ t.status # "closed"
      PROVE  View' /\ store'.open = store.open /\ store'.error = store.error
  BY <1>0, <1>1, BecomesView, BecomesStore
<1>2. CASE Admitted
  <2> DEFINE t == [sub EXCEPT !.wire = TRUE]
  <2>1. t \in Subs /\ t.status = sub.status
    BY <1>0 DEF Subs
  <2>2. Becomes(NotRenewing(t)) \/ Becomes(SendNext(t))
    BY <1>2 DEF Admitted
  <2> HIDE DEF t
  <2> QED
    BY <1>1, <2>1, <2>2, SubOperators
<1>3. CASE RenewedFrame
  <2> DEFINE t == [sub EXCEPT !.renewing = 0]
  <2>1. t \in Subs /\ t.status = sub.status
    BY <1>0 DEF Subs
  <2>2. Becomes(SendNext(t))
    BY <1>3 DEF RenewedFrame
  <2> HIDE DEF t
  <2> QED
    BY <1>1, <2>1, <2>2, SubOperators
<1>4. CASE CaughtUp
  <2> DEFINE t == [sub EXCEPT !.status = "live"]
  <2>1. t \in Subs /\ t.status = "live"
    BY <1>0 DEF Subs, Statuses
  <2>2. sub' = t
    BY <1>4 DEF CaughtUp
  <2>3. PICK matched \in SUBSET Pending :
          waiters' = [w \in Waiters |-> IF w \in matched THEN Settle(waiters[w], "matched")
                                        ELSE waiters[w]]
    BY <1>4 DEF CaughtUp
  <2> DEFINE shown == Shown(store.error, "live")
  <2>4. shown \in Statuses
    BY DEF Shown, Statuses
  <2>5. store' = [store EXCEPT !.shown = shown]
    BY <1>4 DEF CaughtUp
  <2> HIDE DEF shown
  <2>6. store' \in Stores /\ store'.open = store.open /\ store'.error = store.error
        /\ store'.shown = shown
    BY <1>0, <2>4, <2>5 DEF Stores
  <2>7. waiters' \in [Waiters -> Waits] /\ WaitersServed'
    <3>1. matched \in SUBSET Waiters
      BY <2>3 DEF Pending
    <3> HIDE DEF t
    <3> QED
      BY <2>1, <2>2, <2>3, <2>6, <3>1, SettleServes
  <2>8. HookShows'
    BY <1>0, <2>1, <2>2, <2>6 DEF HookShows, shown
  <2> QED
    BY <2>1, <2>2, <2>6, <2>7, <2>8 DEF View
<1>5. CASE Drop \/ Expired \/ Failed
  <2> DEFINE r == ResetWire(sub)
             n == NotRenewing(r)
  <2>1. r \in Subs /\ n \in Subs
    BY <1>0, SubOperators
  <2>2. \/ Becomes([r EXCEPT !.status = "connecting"])
        \/ Becomes([n EXCEPT !.state = "awaiting_query", !.status = "stale"])
        \/ Becomes([n EXCEPT !.state = "failed", !.status = "error"])
    BY <1>5 DEF Drop, Expired, Failed
  <2> HIDE DEF r, n
  <2>3. /\ [r EXCEPT !.status = "connecting"] \in Subs
        /\ [r EXCEPT !.status = "connecting"].status = "connecting"
    BY <2>1 DEF Subs, Statuses
  <2>4. /\ [n EXCEPT !.state = "awaiting_query", !.status = "stale"] \in Subs
        /\ [n EXCEPT !.state = "awaiting_query", !.status = "stale"].status = "stale"
        /\ [n EXCEPT !.state = "failed", !.status = "error"] \in Subs
        /\ [n EXCEPT !.state = "failed", !.status = "error"].status = "error"
    BY <2>1 DEF Subs, Statuses
  <2> QED
    BY <1>1, <2>2, <2>3, <2>4
<1> QED
  BY <1>2, <1>3, <1>4, <1>5 DEF Connection

LEMMA ErrorShown ==
  ASSUME View
  PROVE  /\ ClearError(store, sub.status) \in Stores
         /\ ClearError(store, sub.status).open = store.open /\ ~ClearError(store, sub.status).error
         /\ store.open => ClearError(store, sub.status).shown = sub.status
         /\ ~store.open => ClearError(store, sub.status).shown = store.shown
         /\ RaiseError(store, sub.status) \in Stores
         /\ RaiseError(store, sub.status).open = store.open /\ RaiseError(store, sub.status).error
         /\ store.open => RaiseError(store, sub.status).shown = "error"
BY DEF View, ClearError, RaiseError, Stores, Subs, Statuses

\* A store that clears or raises its error, the subscription and the waiters as they were.
LEMMA ErrorView ==
  ASSUME View, UNCHANGED <<sub, waiters>>,
         \/ store' = ClearError(store, sub.status)
         \/ store' = RaiseError(store, sub.status) /\ store.open
         \/ store' = store
  PROVE  View'
BY ErrorShown DEF View, HookShows, WaitersServed, Shown

LEMMA ContinueStep ==
  ASSUME TypeInv, Continue
  PROVE  /\ Head(settled) \in Outcomes /\ settled' \in Seq(Outcomes)
         /\ Restored(Head(settled)) \in Subs
         /\ Restored(Head(settled)).status = sub.status
              \/ Restored(Head(settled)).status # "closed"
         /\ ~store.open => Restored(Head(settled)) = sub
<1> DEFINE e == Head(settled)
<1>1. e \in Outcomes /\ Tail(settled) \in Seq(Outcomes)
  BY HeadTailProperties DEF Continue, TypeInv
<1>2. sub \in Subs /\ renewals[e.cap] \in Renewers
  BY <1>1 DEF TypeInv, Outcomes
<1> DEFINE n == renewals[e.cap]
<1>3. n.prior # "none" => [sub EXCEPT !.status = n.prior] \in Subs
                          /\ [sub EXCEPT !.status = n.prior].status # "closed"
  BY <1>2 DEF Subs, Renewers, Statuses
<1>4. \/ Restored(e) = sub
      \/ store.open /\ n.prior # "none" /\ Restored(e) = [sub EXCEPT !.status = n.prior]
  BY DEF Restored
<1> QED
  BY <1>1, <1>2, <1>3, <1>4 DEF Continue

LEMMA ContinueView ==
  ASSUME TypeInv, View, Continue
  PROVE  View' /\ store'.open = store.open /\ (store'.error => store.error)
<1> DEFINE e == Head(settled)
<1>0. sub \in Subs
  BY DEF View
<1>1. CASE e.how = "rejected"
  <2>1. Becomes(Restored(e))
    BY <1>1 DEF Continue
  <2>2. CASE store.open
    BY <2>1, <2>2, ContinueStep, BecomesView, BecomesStore
  <2>3. CASE ~store.open
    <3>1. UNCHANGED <<sub, store, waiters>>
      BY <2>1, <2>3, ContinueStep DEF Becomes
    <3> QED
      BY <3>1 DEF View, HookShows, WaitersServed
  <2> QED
    BY <2>2, <2>3
<1>2. CASE e.how # "rejected"
  <2>1. /\ UNCHANGED <<sub, waiters>>
        /\ store' = ClearError(store, sub.status) \/ store' = store
    BY <1>2 DEF Continue
  <2> QED
    BY <2>1, ErrorView, ErrorShown
<1> QED
  BY <1>1, <1>2

LEMMA AnswersView ==
  ASSUME TypeInv, View, MountsAgree, NEW g \in Generations,
         AnswerLate(g) \/ AnswerFresh(g) \/ AnswerInvalid(g) \/ AnswerThrows(g)
  PROVE  View' /\ store'.open = store.open /\ (~AnswerInvalid(g) => store'.error = store.error)
<1>1. CASE AnswerLate(g) \/ AnswerThrows(g)
  BY <1>1 DEF AnswerLate, AnswerThrows, View, HookShows, WaitersServed
<1>2. CASE AnswerFresh(g)
  <2>1. obtained + 1 \in Capabilities
    BY <1>2, Bounds DEF AnswerFresh, TypeInv, Capabilities
  <2> QED
    BY <1>2, <2>1, RenewView DEF AnswerFresh
<1>3. CASE AnswerInvalid(g)
  <2>1. store.open /\ UNCHANGED <<sub, waiters>> /\ store' = RaiseError(store, sub.status)
    BY <1>3 DEF AnswerInvalid, IsCurrent, MountsAgree
  <2> QED
    BY <1>3, <2>1, ErrorView, ErrorShown
<1> QED
  BY <1>1, <1>2, <1>3

LEMMA ViewNext ==
  ASSUME TypeInv, View, MountsAgree, Next
  PROVE  View'
<1>1. CASE RefreshTimer
  BY <1>1 DEF RefreshTimer, View, HookShows, WaitersServed
<1>2. CASE RowTimeout
  <2>1. PICK w \in Pending : waiters' = [waiters EXCEPT ![w] = Settle(waiters[w], "failed")]
    BY <1>2 DEF RowTimeout
  <2>2. /\ waiters' = [x \in Waiters |-> IF x \in {w} THEN Settle(waiters[x], "failed")
                                         ELSE waiters[x]]
        /\ {w} \in SUBSET Waiters
    BY <2>1 DEF View, Pending
  <2>3. UNCHANGED <<store, sub>> /\ sub \in Subs
    BY <1>2 DEF RowTimeout, View
  <2>4. waiters' \in [Waiters -> Waits] /\ WaitersServed'
    BY <2>2, <2>3, SettleServes
  <2> QED
    BY <2>3, <2>4 DEF View, HookShows
<1> QED
  BY <1>1, <1>2, ApplicationView, AnswersView, ContinueView, ConnectionView
     DEF Next, CallbackAnswers

-----------------------------------------------------------------------------
(* Types of the rest.                                                      *)

LEMMA SettledNext ==
  ASSUME TypeInv, View, Next
  PROVE  settled' \in Seq(Outcomes) /\ renewals' \in [Capabilities -> Renewers]
         /\ obtained' \in Capabilities
<1>0. sub \in Subs /\ settled \in Seq(Outcomes) /\ Unanswered(sub) \in Seq(Capabilities)
  BY UnansweredType DEF TypeInv
<1>1. ASSUME NEW how \in {"accepted", "rejected"}
      PROVE  Answered(Unanswered(sub), how) \in Seq(Outcomes)
             /\ settled \o Answered(Unanswered(sub), how) \in Seq(Outcomes)
  BY <1>0, AnsweredType, ConcatProperties
<1>2. CASE Unmount
  BY <1>1, <1>2 DEF Unmount, TypeInv
<1>3. CASE Continue
  BY <1>3, ContinueStep DEF TypeInv, Continue
<1>4. CASE Admitted \/ Expired \/ Failed
  BY <1>1, <1>4 DEF Admitted, Expired, Failed, TypeInv
<1>5. CASE RenewedFrame
  <2>1. <<sub.renewing>> \in Seq(Capabilities)
    BY <1>0, <1>5 DEF Subs, RenewedFrame
  <2> QED
    BY <1>5, <2>1, AnsweredType DEF RenewedFrame, TypeInv
<1>6. CASE RenewByHand \/ \E g \in Generations : AnswerFresh(g)
  <2>1. obtained + 1 \in Capabilities /\ obtained' = obtained + 1
    BY <1>6, Bounds DEF RenewByHand, AnswerFresh, TypeInv, Capabilities
  <2> QED
    BY <1>6, <2>1, RenewView DEF RenewByHand, AnswerFresh
<1>7. CASE Mount \/ SetRefreshCallback \/ (\E w \in Waiters : AwaitRows(w)) \/ RefreshTimer
           \/ RowTimeout \/ CaughtUp \/ Drop
  BY <1>7 DEF Mount, SetRefreshCallback, AwaitRows, RefreshTimer, RowTimeout, CaughtUp, Drop,
              TypeInv
<1>8. CASE \E g \in Generations : AnswerLate(g) \/ AnswerInvalid(g) \/ AnswerThrows(g)
  BY <1>8 DEF AnswerLate, AnswerInvalid, AnswerThrows, TypeInv
<1> QED
  BY <1>2, <1>3, <1>4, <1>5, <1>6, <1>7, <1>8
     DEF Next, Application, CallbackAnswers, Connection

-----------------------------------------------------------------------------
(* The controller, its calls, and the mounts they belong to.               *)

Control ==
  /\ Timed(refresh) /\ calls \in [Generations -> Nat]
  /\ MountsAgree /\ RefreshPending /\ OneRefreshInFlight
  /\ store.error => refresh.stopped

\* The controller becomes r, of the same mount, with the same calls unanswered, and
\* without falling asleep.
LEMMA SameCalls ==
  ASSUME Control, NEW r, Timed(r), refresh' = r, UNCHANGED calls,
         r.active = refresh.active, r.generation = refresh.generation,
         r.inFlight = refresh.inFlight, store'.open = store.open,
         store'.error => r.stopped,
         \/ r.active /\ r.callback /\ ~r.stopped => r.timer
         \/ r = refresh
         \/ r.inFlight
  PROVE  Control'
<1>1. refresh.inFlight => calls[refresh.generation] > 0
  BY DEF Control, OneRefreshInFlight
<1>2. MountsAgree' /\ OneRefreshInFlight'
  BY DEF Control, MountsAgree, OneRefreshInFlight
<1>3. RefreshPending'
  BY <1>1 DEF Control, RefreshPending
<1> QED
  BY <1>2, <1>3 DEF Control, Timed

\* One of its calls is answered: r, once that call is over.
LEMMA CallAnswered ==
  ASSUME Control, NEW g \in Generations, Answers(g), NEW r, Timed(r), refresh' = Finish(r, g),
         r.active = refresh.active, r.generation = refresh.generation,
         r.inFlight = refresh.inFlight, store'.open = store.open,
         store'.error => r.stopped,
         g = refresh.generation /\ r.active /\ r.callback /\ ~r.stopped => r.timer,
         g # refresh.generation => r = refresh
  PROVE  Control'
<1>0. r \in Refreshers /\ refresh \in Refreshers /\ refresh.generation \in Generations
  BY DEF Control, Timed, Refreshers
<1>1. Timed(Finish(r, g))
  BY ControllerOperators
<1>2. /\ refresh'.active = r.active /\ refresh'.callback = r.callback
      /\ refresh'.stopped = r.stopped /\ refresh'.timer = r.timer
      /\ refresh'.generation = refresh.generation
      /\ refresh'.inFlight = (IF g = refresh.generation THEN FALSE ELSE refresh.inFlight)
  <2>1. refresh' = IF g = refresh.generation THEN [r EXCEPT !.inFlight = FALSE] ELSE r
    BY DEF Finish
  <2> QED
    BY <1>0, <2>1 DEF Refreshers
<1>3. calls[g] > 0 /\ calls' = [calls EXCEPT ![g] = calls[g] - 1]
      /\ calls[g] \in Nat /\ calls' \in [Generations -> Nat]
  BY DEF Answers, Control
<1>4. MountsAgree'
  <2>1. \A h \in Generations : calls[h] = 0 => calls'[h] = 0
    BY <1>3 DEF Control
  <2> QED
    BY <1>2, <2>1 DEF Control, MountsAgree
<1>5. OneRefreshInFlight'
  BY <1>0, <1>2, <1>3 DEF Control, OneRefreshInFlight
<1>6. RefreshPending'
  <2>1. CASE g = refresh.generation
    BY <1>2, <2>1 DEF RefreshPending
  <2>2. CASE g # refresh.generation
    BY <1>0, <1>2, <1>3, <2>2 DEF Control, RefreshPending
  <2> QED
    BY <2>1, <2>2
<1> QED
  BY <1>1, <1>2, <1>3, <1>4, <1>5, <1>6 DEF Control

LEMMA ControlNext ==
  ASSUME TypeInv, View, Control, Next
  PROVE  Control'
<1>0. /\ refresh \in Refreshers /\ Timed(refresh) /\ store \in Stores
      /\ refresh.generation \in Generations /\ calls \in [Generations -> Nat]
  BY DEF Control, Timed, Refreshers, TypeInv
<1>1. CASE Mount
  <2>1. ~refresh.active /\ refresh' = Schedule([refresh EXCEPT !.active = TRUE, !.stopped = FALSE])
        /\ UNCHANGED calls
    BY <1>1 DEF Mount, Start, Control, MountsAgree
  <2> DEFINE r == [refresh EXCEPT !.active = TRUE, !.stopped = FALSE]
  <2>2. r \in Refreshers /\ r.active /\ ~r.stopped /\ r.callback = refresh.callback
        /\ r.generation = refresh.generation /\ r.inFlight = refresh.inFlight
    BY <1>0 DEF Refreshers
  <2> HIDE DEF r
  <2>3. refresh' = Schedule(r)
    BY <2>1 DEF r
  <2>4. /\ refresh'.active /\ refresh'.generation = refresh.generation
        /\ refresh'.inFlight = refresh.inFlight
        /\ refresh'.timer = refresh'.callback /\ ~refresh'.stopped
    BY <2>2, <2>3, ControllerFields DEF Refreshers
  <2>5. Timed(refresh')
    <3>1. Timed(Start(refresh))
      BY <1>0, <2>1, ControllerOperators
    <3> QED
      BY <1>1, <3>1 DEF Mount
  <2>6. store'.open /\ ~store'.error /\ refresh.generation < MaxMounts
    BY <1>0, <1>1 DEF Mount, View, HookShows, Stores
  <2> QED
    BY <2>1, <2>4, <2>5, <2>6
       DEF Control, MountsAgree, RefreshPending, OneRefreshInFlight
<1>2. CASE Unmount
  <2>1. refresh.generation < MaxMounts
    BY <1>2 DEF Unmount, Control, MountsAgree
  <2>2. Timed(Stop(refresh))
    BY <1>0, <2>1, ControllerOperators
  <2>3. /\ refresh'.generation = refresh.generation + 1 /\ ~refresh'.active
        /\ ~refresh'.inFlight /\ refresh'.generation \in Generations
    BY <1>0, <1>2, <2>1, Bounds DEF Unmount, Stop, Refreshers, Generations
  <2>4. calls' = calls /\ ~store'.open /\ ~store'.error
    BY <1>2 DEF Unmount
  <2>5. ASSUME NEW g \in Generations, g >= refresh'.generation
        PROVE  calls[g] = 0
    <3>1. g \in Nat /\ refresh.generation \in Nat
      BY <1>0, Bounds
    <3>2. g > refresh.generation
      BY <2>3, <2>5, <3>1
    <3> QED
      BY <3>2 DEF Control, MountsAgree
  <2>6. calls[refresh'.generation] = 0
        /\ \A g \in Generations : g > refresh'.generation => calls[g] = 0
    BY <1>0, <2>3, <2>5, Bounds DEF Generations
  <2> QED
    BY <1>2, <2>2, <2>3, <2>4, <2>5, <2>6
       DEF Control, MountsAgree, RefreshPending, OneRefreshInFlight, Unmount
<1>3. CASE SetRefreshCallback
  <2>1. PICK present \in BOOLEAN : refresh' = SetCallback(refresh, present)
    BY <1>3 DEF SetRefreshCallback
  <2> DEFINE s == [refresh EXCEPT !.callback = present, !.timer = FALSE]
  <2>2. s \in Refreshers /\ s.active = refresh.active /\ s.generation = refresh.generation
        /\ s.inFlight = refresh.inFlight /\ s.stopped = refresh.stopped
        /\ s.callback = present /\ ~s.timer
    BY <1>0 DEF Refreshers
  <2>3. refresh' = IF refresh.active /\ ~refresh.inFlight /\ ~refresh.stopped
                     THEN Schedule(s) ELSE s
    BY <2>1 DEF SetCallback
  <2>4. Timed(refresh')
    BY <1>0, <2>1, ControllerOperators
  <2> HIDE DEF s
  <2>5. /\ refresh'.active = refresh.active /\ refresh'.generation = refresh.generation
        /\ refresh'.inFlight = refresh.inFlight /\ refresh'.stopped = refresh.stopped
    BY <2>2, <2>3, ControllerFields
  <2>6. \/ refresh'.active /\ refresh'.callback /\ ~refresh'.stopped => refresh'.timer
        \/ refresh'.inFlight
    BY <2>2, <2>3, ControllerFields
  <2>7. UNCHANGED <<store, calls>>
    BY <1>3 DEF SetRefreshCallback
  <2>8. store'.error => refresh'.stopped
    BY <2>5, <2>7 DEF Control
  <2> QED
    BY <2>4, <2>5, <2>6, <2>7, <2>8, SameCalls
<1>4. CASE RenewByHand
  <2>1. obtained + 1 \in Capabilities
    BY <1>4, Bounds DEF RenewByHand, TypeInv, Capabilities
  <2>2. store'.open = store.open /\ store'.error = store.error /\ UNCHANGED <<refresh, calls>>
    BY <1>4, <2>1, RenewView DEF RenewByHand
  <2> QED
    BY <2>2, SameCalls DEF Control
<1>5. CASE RowTimeout \/ \E w \in Waiters : AwaitRows(w)
  <2>1. UNCHANGED <<store, refresh, calls>>
    BY <1>5 DEF AwaitRows, RowTimeout
  <2> QED
    BY <2>1, SameCalls DEF Control
<1>6. CASE RefreshTimer
  <2> DEFINE fires == refresh.active /\ refresh.callback /\ ~refresh.inFlight /\ ~refresh.stopped
  <2>1. CASE fires
    <3>1. /\ refresh' = [refresh EXCEPT !.timer = FALSE, !.inFlight = TRUE]
          /\ calls' = [calls EXCEPT ![refresh.generation] = @ + 1] /\ UNCHANGED store
      BY <1>6, <2>1 DEF RefreshTimer
    <3>2. refresh' \in Refreshers /\ ~refresh'.timer /\ refresh'.inFlight
          /\ refresh'.active = refresh.active /\ refresh'.generation = refresh.generation
          /\ refresh'.stopped = refresh.stopped
      BY <1>0, <3>1 DEF Refreshers
    <3>3. calls[refresh.generation] = 0
      BY <2>1 DEF Control, OneRefreshInFlight
    <3>4. calls' \in [Generations -> Nat] /\ calls'[refresh.generation] = 1
          /\ \A g \in Generations : g # refresh.generation => calls'[g] = calls[g]
      BY <1>0, <3>1, <3>3
    <3>5. \A g \in Generations : g > refresh.generation => g # refresh.generation
      BY <1>0, Bounds
    <3> QED
      BY <3>1, <3>2, <3>4, <3>5
         DEF Control, Timed, MountsAgree, RefreshPending, OneRefreshInFlight
  <2>2. CASE ~fires
    <3>1. refresh' = [refresh EXCEPT !.timer = FALSE] /\ UNCHANGED <<store, calls>>
      BY <1>6, <2>2 DEF RefreshTimer
    <3>2. Timed(refresh') /\ refresh'.active = refresh.active
          /\ refresh'.generation = refresh.generation /\ refresh'.inFlight = refresh.inFlight
          /\ refresh'.callback = refresh.callback /\ refresh'.stopped = refresh.stopped
      BY <1>0, <3>1 DEF Timed, Refreshers
    <3>3. store'.error => refresh'.stopped
      BY <3>1, <3>2 DEF Control
    <3>4. \/ refresh'.active /\ refresh'.callback /\ ~refresh'.stopped => refresh'.timer
          \/ refresh'.inFlight
      BY <2>2, <3>2
    <3> QED
      BY <3>1, <3>2, <3>3, <3>4, SameCalls
  <2> QED
    BY <2>1, <2>2
<1>7. ASSUME NEW g \in Generations,
             AnswerLate(g) \/ AnswerFresh(g) \/ AnswerInvalid(g) \/ AnswerThrows(g)
      PROVE  Control'
  <2>0. Answers(g) /\ store'.open = store.open
    BY <1>7, AnswersView DEF Control, AnswerLate, AnswerFresh, AnswerInvalid, AnswerThrows
  <2>1. CASE AnswerLate(g)
    <3>1. refresh' = Finish(refresh, g) /\ ~IsCurrent(g) /\ UNCHANGED store
      BY <2>1 DEF AnswerLate
    <3>2. ~refresh.active \/ g # refresh.generation
      BY <3>1 DEF IsCurrent
    <3> QED
      BY <1>0, <2>0, <3>1, <3>2, CallAnswered DEF Control
  <2>2. CASE AnswerFresh(g)
    <3> DEFINE q == [refresh EXCEPT !.query = obtained']
    <3>1. obtained' \in Capabilities
      BY <2>2, SettledNext, Bounds DEF AnswerFresh, TypeInv, Capabilities
    <3>2. refresh' = Finish(Schedule(q), g) /\ IsCurrent(g)
      BY <2>2 DEF AnswerFresh
    <3>3. q \in Refreshers /\ q.active = refresh.active /\ q.generation = refresh.generation
          /\ q.inFlight = refresh.inFlight /\ q.stopped = refresh.stopped
      BY <1>0, <3>1 DEF Refreshers
    <3>4. Timed(Schedule(q))
      BY <1>0, <3>1, ControllerOperators
    <3>5. store'.error = store.error
      <4>1. obtained + 1 \in Capabilities /\ obtained' = obtained + 1
        BY <2>2, <3>1 DEF AnswerFresh
      <4> QED
        BY <2>2, <4>1, RenewView DEF AnswerFresh
    <3> HIDE DEF q
    <3>6. /\ Schedule(q).active = refresh.active /\ Schedule(q).generation = refresh.generation
          /\ Schedule(q).inFlight = refresh.inFlight /\ Schedule(q).stopped = refresh.stopped
          /\ Schedule(q).active /\ Schedule(q).callback /\ ~Schedule(q).stopped => Schedule(q).timer
      BY <3>3, ControllerFields
    <3>7. store'.error => Schedule(q).stopped
      BY <3>5, <3>6 DEF Control
    <3> QED
      BY <2>0, <3>2, <3>4, <3>6, <3>7, CallAnswered DEF IsCurrent
  <2>3. CASE AnswerInvalid(g)
    <3> DEFINE q == [refresh EXCEPT !.stopped = TRUE]
    <3>1. refresh' = Finish(q, g) /\ IsCurrent(g)
      BY <2>3 DEF AnswerInvalid
    <3>2. Timed(q) /\ q.active = refresh.active /\ q.generation = refresh.generation
          /\ q.inFlight = refresh.inFlight /\ q.stopped
      BY <1>0 DEF Timed, Refreshers
    <3> HIDE DEF q
    <3> QED
      BY <2>0, <3>1, <3>2, CallAnswered DEF IsCurrent
  <2>4. CASE AnswerThrows(g)
    <3>1. refresh' = Finish(Schedule(refresh), g) /\ IsCurrent(g) /\ UNCHANGED store
      BY <2>4 DEF AnswerThrows, Retry
    <3>2. Timed(Schedule(refresh))
      BY <1>0, ControllerOperators
    <3> DEFINE q == Schedule(refresh)
    <3>3. /\ q.active = refresh.active /\ q.generation = refresh.generation
          /\ q.inFlight = refresh.inFlight /\ q.stopped = refresh.stopped
          /\ q.active /\ q.callback /\ ~q.stopped => q.timer
      BY <1>0, ControllerFields
    <3>4. store'.error => q.stopped
      BY <3>1, <3>3 DEF Control
    <3> QED
      BY <2>0, <3>1, <3>2, <3>3, <3>4, CallAnswered DEF IsCurrent
  <2> QED
    BY <1>7, <2>1, <2>2, <2>3, <2>4
<1>8. CASE Continue
  <2> DEFINE e == Head(settled)
  <2>1. UNCHANGED calls /\ store'.open = store.open /\ (store'.error => store.error)
    BY <1>8, ContinueView DEF Continue
  <2>2. \/ refresh' = refresh
        \/ refresh' = Schedule(refresh)
        \/ /\ refresh' = Replaced(refresh, e.cap)
           /\ store' = ClearError(store, sub.status)
    BY <1>8 DEF Continue, Retry
  <2>3. CASE refresh' = refresh
    BY <2>1, <2>3, SameCalls DEF Control
  <2>4. CASE refresh' = Schedule(refresh)
    <3>1. Timed(Schedule(refresh))
      BY <1>0, ControllerOperators
    <3> DEFINE q == Schedule(refresh)
    <3>2. /\ q.active = refresh.active /\ q.generation = refresh.generation
          /\ q.inFlight = refresh.inFlight /\ q.stopped = refresh.stopped
          /\ q.active /\ q.callback /\ ~q.stopped => q.timer
      BY <1>0, ControllerFields
    <3>3. store'.error => q.stopped
      BY <2>1, <3>2 DEF Control
    <3> QED
      BY <2>1, <2>4, <3>1, <3>2, <3>3, SameCalls
  <2>5. CASE refresh' = Replaced(refresh, e.cap) /\ store' = ClearError(store, sub.status)
    <3>1. e.cap \in Capabilities
      BY <1>8, ContinueStep DEF Outcomes
    <3> DEFINE q == [refresh EXCEPT !.query = e.cap, !.stopped = FALSE]
    <3>2. q \in Refreshers /\ q.active = refresh.active /\ q.generation = refresh.generation
          /\ q.inFlight = refresh.inFlight
      BY <1>0, <3>1 DEF Refreshers
    <3>3. refresh' = Schedule(q) /\ Timed(Schedule(q))
      BY <1>0, <2>5, <3>1, ControllerOperators DEF Replaced
    <3>4. ~store'.error
      BY <2>5, ErrorShown
    <3> HIDE DEF q
    <3>5. /\ Schedule(q).active = refresh.active /\ Schedule(q).generation = refresh.generation
          /\ Schedule(q).inFlight = refresh.inFlight
          /\ Schedule(q).active /\ Schedule(q).callback /\ ~Schedule(q).stopped => Schedule(q).timer
      BY <3>2, ControllerFields
    <3> QED
      BY <2>1, <3>3, <3>4, <3>5, SameCalls
  <2> QED
    BY <2>2, <2>3, <2>4, <2>5
<1>9. CASE Connection
  <2>1. UNCHANGED <<refresh, calls>>
    BY <1>9 DEF Connection, Admitted, RenewedFrame, CaughtUp, Drop, Expired, Failed
  <2> QED
    BY <1>9, <2>1, ConnectionView, SameCalls DEF Control
<1> QED
  BY <1>1, <1>2, <1>3, <1>4, <1>5, <1>6, <1>7, <1>8, <1>9
     DEF Next, Application, CallbackAnswers

-----------------------------------------------------------------------------
(* Theorems.                                                               *)

LEMMA InvParts == IInv <=> TypeInv /\ View /\ Control
BY DEF IInv, TypeInv, View, Control, Timed, HookTruthful, HookShows, MountsAgree

THEOREM Inductive == Spec => []IInv
<1>1. ASSUME IInv, [Next]_vars PROVE IInv'
  <2>1. TypeInv /\ View /\ Control
    BY <1>1, InvParts
  <2>2. CASE Next
    <3>1. View' /\ Control'
      BY <2>1, <2>2, ViewNext, ControlNext DEF Control
    <3>2. TypeInv'
      BY <2>1, <2>2, <3>1, SettledNext DEF TypeInv, View, Control, Timed
    <3> QED
      BY <3>1, <3>2 DEF IInv, View, Control, HookTruthful, HookShows, MountsAgree, TypeInv
  <2>3. CASE UNCHANGED vars
    BY <1>1, <2>3
       DEF IInv, TypeInv, MountsAgree, RefreshPending, OneRefreshInFlight, HookTruthful,
           WaitersServed, vars
  <2> QED
    BY <1>1, <2>2, <2>3
<1> QED
  BY <1>1, InitInv, PTL DEF Spec

\* Automatic refresh neither falls asleep nor has two answers owed to one mount, however
\* often the hook is mounted and whichever calls answer late.
THEOREM RefreshSoundAlways == Spec => []RefreshSound
<1>1. IInv => RefreshSound
  BY TypeParts DEF IInv, RefreshSound
<1> QED
  BY <1>1, Inductive, PTL

\* What the hook shows is the subscription's status or a refresh that has really stopped,
\* and nothing once it is unmounted.
THEOREM HookTruthfulAlways == Spec => []HookTruthful
<1>1. IInv => HookTruthful
  BY DEF IInv
<1> QED
  BY <1>1, Inductive, PTL

\* Any number of calls of awaitRows() end with their subscription and leave neither
\* listener nor timer.
THEOREM WaitersServedAlways == Spec => []WaitersServed
<1>1. IInv => WaitersServed
  BY DEF IInv
<1> QED
  BY <1>1, Inductive, PTL
=============================================================================

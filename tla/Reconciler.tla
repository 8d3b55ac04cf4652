----------------------------- MODULE Reconciler -----------------------------
(***************************************************************************)
(* BaselineSyncPublicationReconciler: the client side of one Realtime      *)
(* socket.  It reassembles baseline syncs and multi-frame publications and *)
(* decides when rows become visible to the subscriptions (prepare/install, *)
(* publishReset, publishBatch, applyProgress of Subscription).             *)
(*                                                                         *)
(* Data abstraction.  The rows of a query are the sequence of change       *)
(* batches that produced them, and a batch is the sequence of publication  *)
(* bodies it was joined from, each a pair <<transaction, body index>>.     *)
(* Two row sets are equal exactly when these sequences are, so a lost,     *)
(* doubled or reordered fragment shows.  What a row change contains and    *)
(* the order among rows belong to OrderedChanges.                          *)
(*                                                                         *)
(* JavaScript runs a handler to completion, but a handler calls listeners  *)
(* and a listener may call back into the client.  The listener calls the   *)
(* running handler still owes are the sequence `calls': while it is not    *)
(* empty no frame is handled, and the application may unsubscribe or close *)
(* between two of them.  A value parser runs inside prepare(), before      *)
(* anything is installed: one that closes the client leaves exactly what   *)
(* Close leaves when it comes just before the frame.                       *)
(***************************************************************************)
EXTENDS Naturals, SequencesExt

CONSTANT LiveIds            \* wire identities of the live queries

ASSUME LiveIdsFinite == IsFiniteSet(LiveIds)

VARIABLES
  conn,         \* "open", "closed" by the client, or "broken" by a ProtocolError
  pending,      \* subscribe requests the server has not answered
  subscribed,   \* subscriptions that are neither closed nor failed
  registered,   \* DOMAIN of the reconciler's `targets' map
  active,       \* targets with state.active
  live,         \* targets with state.live
  epoch,        \* state.epoch
  nextSeq,      \* state.nextSequence
  attempt,      \* state.latestBaselineSync.attempt, 0 when it is undefined
  sync,         \* state.baselineSync
  backlog,      \* state.backlog
  publication,  \* this.publication
  rows,         \* Subscription.rows, what getSnapshot() shows
  status,       \* subscriptions whose getState() says "live"
  replica,      \* the rows an onUpdate listener builds from what it is given
  confirmed,    \* transactions for which awaitTxId() resolves
  calls         \* listener calls the running handler still owes

targetVars  == <<registered, active, live, epoch, nextSeq, attempt, sync, backlog>>
visibleVars == <<rows, status, replica, confirmed>>
clientVars  == <<conn, pending, subscribed, targetVars, publication, visibleVars, calls>>

NoSync  == [on |-> FALSE, nextBatch |-> 0, rows |-> <<>>, upto |-> 0]
Nothing == [l \in LiveIds |-> <<>>]
NoReset == [epoch |-> 0, first |-> 0]

NoPublication ==
  [open |-> FALSE, id |-> 0, nextBody |-> 0, batches |-> Nothing,
   resets |-> [l \in LiveIds |-> NoReset]]

\* The targets the open publication has staged a batch, or a reset, for.
Batched == {l \in LiveIds : publication.batches[l] # <<>>}
Reset   == {l \in LiveIds : publication.resets[l] # NoReset}

ClientInit ==
  /\ conn        = "open"
  /\ pending     = LiveIds
  /\ subscribed  = LiveIds
  /\ registered  = {}
  /\ active      = {}
  /\ live        = {}
  /\ epoch       = [l \in LiveIds |-> 0]
  /\ nextSeq     = [l \in LiveIds |-> 0]
  /\ attempt     = [l \in LiveIds |-> 0]
  /\ sync        = [l \in LiveIds |-> NoSync]
  /\ backlog     = Nothing
  /\ publication = NoPublication
  /\ rows        = Nothing
  /\ status      = {}
  /\ replica     = Nothing
  /\ confirmed   = [l \in LiveIds |-> {}]
  /\ calls       = <<>>

-----------------------------------------------------------------------------
(* Effects on the whole connection.                                        *)

\* Every subscription ends and the reconciler is cleared.  Rows already shown
\* stay where they are, and a handler on the stack only finds closed targets.
EndConnection(how) ==
  /\ conn'        = how
  /\ pending'     = {}
  /\ subscribed'  = {}
  /\ registered'  = {}
  /\ active'      = {}
  /\ live'        = {}
  /\ publication' = NoPublication
  /\ status'      = {}
  /\ calls'       = <<>>
  /\ UNCHANGED <<epoch, nextSeq, attempt, sync, backlog, rows, replica, confirmed>>

\* A ProtocolError thrown by a handler fails the whole connection.
ProtocolFailure == EndConnection("broken")

\* RealtimeClient.close().
Close ==
  /\ conn = "open"
  /\ EndConnection("closed")

\* Faulty variant: a deactivated target stays active.
DeactivateKeepsActive(l) ==
  /\ live'    = live \ {l}
  /\ sync'    = [sync EXCEPT ![l] = NoSync]
  /\ backlog' = [backlog EXCEPT ![l] = <<>>]
  /\ publication' = [publication EXCEPT !.batches[l] = <<>>, !.resets[l] = NoReset]
  /\ UNCHANGED <<registered, active, epoch, nextSeq, attempt>>

\* deactivate(): no more delivery, but the target stays registered until the
\* server acknowledges the unsubscribe.
Deactivate(l) ==
  /\ active'  = active \ {l}
  /\ live'    = live \ {l}
  /\ sync'    = [sync EXCEPT ![l] = NoSync]
  /\ backlog' = [backlog EXCEPT ![l] = <<>>]
  /\ publication' = [publication EXCEPT !.batches[l] = <<>>, !.resets[l] = NoReset]
  /\ UNCHANGED <<registered, epoch, nextSeq, attempt>>

\* A subscription leaves: unsubscribed by the application, or failed because a
\* value did not parse.  The last one to leave closes the socket.
Leave(l) ==
  \/ /\ subscribed = {l}
     /\ EndConnection("closed")
  \/ /\ subscribed # {l}
     /\ subscribed' = subscribed \ {l}
     /\ status' = status \ {l}
     /\ \/ l \in active /\ Deactivate(l)
        \/ l \notin active /\ UNCHANGED <<targetVars, publication>>
     /\ UNCHANGED <<conn, pending, rows, replica, confirmed>>

\* Subscription.unsubscribe(), from the event loop or from a listener.
Unsubscribe(l) ==
  /\ l \in subscribed
  /\ Leave(l)
  /\ subscribed # {l} => UNCHANGED calls

-----------------------------------------------------------------------------
(* Admission and detachment.                                               *)

\* add(): a subscription closed before its admission is registered inactive,
\* because frames for it may already follow on the wire.
Subscribed(m) ==
  /\ m.type = "subscribed"
  /\ \/ /\ m.id \notin pending \/ m.id \in registered
        /\ ProtocolFailure
     \/ /\ m.id \in pending \ registered
        /\ pending'    = pending \ {m.id}
        /\ registered' = registered \cup {m.id}
        /\ active'     = active \cup (subscribed \cap {m.id})
        /\ epoch'      = [epoch EXCEPT ![m.id] = m.epoch]
        /\ nextSeq'    = [nextSeq EXCEPT ![m.id] = m.first]
        /\ UNCHANGED <<conn, subscribed, live, attempt, sync, backlog, publication,
                       visibleVars, calls>>

\* remove(): the server acknowledged an unsubscribe.
Unsubscribed(m) ==
  /\ m.type = "unsubscribed"
  /\ \/ /\ m.id \notin registered \ subscribed
        /\ ProtocolFailure
     \/ /\ m.id \in registered \ subscribed
        /\ registered' = registered \ {m.id}
        /\ active' = active \ {m.id}
        /\ live'   = live \ {m.id}
        /\ backlog' = [backlog EXCEPT ![m.id] = <<>>]
        /\ publication' = [publication EXCEPT !.batches[m.id] = <<>>,
                                              !.resets[m.id] = NoReset]
        /\ UNCHANGED <<conn, pending, subscribed, epoch, nextSeq, attempt, sync,
                       visibleVars, calls>>

-----------------------------------------------------------------------------
(* Baseline syncs.                                                         *)

\* No baseline frame may come inside a publication or for an unknown target.
Misplaced(m) == publication.open \/ m.id \notin registered

\* isOlder(), and the epoch test in front of it.
Stale(m) ==
  \/ m.epoch < epoch[m.id]
  \/ m.epoch = epoch[m.id] /\ m.attempt < attempt[m.id]

\* Faulty variant: frames for a closed query are not expected any more.
IgnoredWhenStale(m) == Stale(m)

Ignored(m) == m.id \notin active \/ Stale(m)

SameVersion(m) == m.epoch = epoch[m.id] /\ m.attempt = attempt[m.id]

\* sameVersion() against the running sync, which is always the latest one.
Running(m) == sync[m.id].on /\ SameVersion(m)

InvalidStart(m) == m.epoch # epoch[m.id] \/ SameVersion(m) \/ m.id \in live
InvalidBatch(m) == ~Running(m) \/ m.index # sync[m.id].nextBatch
InvalidEnd(m)   == ~Running(m) \/ m.count # sync[m.id].nextBatch

\* What the three handlers do with a frame they do not take in.
NotAccepted(m, invalid) ==
  \/ /\ Misplaced(m) \/ (~Ignored(m) /\ invalid)
     /\ ProtocolFailure
  \/ /\ ~Misplaced(m) /\ Ignored(m)
     /\ UNCHANGED clientVars

Accepted(m, invalid) == ~Misplaced(m) /\ ~Ignored(m) /\ ~invalid

\* Faulty variant: a new attempt drops the backlog.
BaselineSyncStartAfresh(m) ==
  /\ m.type = "baseline_sync_start"
  /\ \/ NotAccepted(m, InvalidStart(m))
     \/ /\ Accepted(m, InvalidStart(m))
        /\ attempt' = [attempt EXCEPT ![m.id] = m.attempt]
        /\ sync' = [sync EXCEPT ![m.id] =
                      [on |-> TRUE, nextBatch |-> 0, rows |-> <<>>, upto |-> m.upto]]
        /\ backlog' = [backlog EXCEPT ![m.id] = <<>>]
        /\ UNCHANGED <<conn, pending, subscribed, registered, active, live, epoch,
                       nextSeq, publication, visibleVars, calls>>

\* A new attempt keeps the backlog: publications delivered since the epoch
\* began are newer than the baseline of every attempt.
BaselineSyncStart(m) ==
  /\ m.type = "baseline_sync_start"
  /\ \/ NotAccepted(m, InvalidStart(m))
     \/ /\ Accepted(m, InvalidStart(m))
        /\ attempt' = [attempt EXCEPT ![m.id] = m.attempt]
        /\ sync' = [sync EXCEPT ![m.id] =
                      [on |-> TRUE, nextBatch |-> 0, rows |-> <<>>, upto |-> m.upto]]
        /\ UNCHANGED <<conn, pending, subscribed, registered, active, live, epoch,
                       nextSeq, backlog, publication, visibleVars, calls>>

BaselineSyncBatch(m) ==
  /\ m.type = "baseline_sync_batch"
  /\ \/ NotAccepted(m, InvalidBatch(m))
     \/ /\ Accepted(m, InvalidBatch(m))
        /\ sync' = [sync EXCEPT ![m.id].rows = @ \o m.rows,
                                ![m.id].nextBatch = @ + 1]
        /\ UNCHANGED <<conn, pending, subscribed, registered, active, live, epoch,
                       nextSeq, attempt, backlog, publication, visibleVars, calls>>

\* A listener call: which method, whose, with which rows, and up to which
\* transaction the baseline's snapshot reaches.
Call(method, l, data, upto) ==
  [method |-> method, id |-> l, data |-> data, upto |-> upto]

\* Faulty variant: the last batch of the backlog is not announced.
BacklogCallsButLast(l) ==
  [i \in 1..(Len(backlog[l]) - 1) |-> Call("publishBatch", l, <<backlog[l][i]>>, 0)]

BacklogCalls(l) ==
  [i \in 1..Len(backlog[l]) |-> Call("publishBatch", l, <<backlog[l][i]>>, 0)]

\* Faulty variant: the baseline is installed without the backlog.
BaselineOnly(l) == sync[l].rows

\* The baseline, and every publication the client took in since its frontier.
CandidateRows(l) == sync[l].rows \o backlog[l]

\* The rows are installed first, then the raw listeners hear the baseline and
\* each batch of the backlog, then the target is live.
InstallBaseline(l) ==
  /\ rows'    = [rows EXCEPT ![l] = CandidateRows(l)]
  /\ sync'    = [sync EXCEPT ![l] = NoSync]
  /\ backlog' = [backlog EXCEPT ![l] = <<>>]
  /\ calls'   = <<Call("publishReset", l, sync[l].rows, sync[l].upto)>>
                  \o BacklogCalls(l)
                  \o <<Call("caughtUp", l, <<>>, 0)>>
  /\ UNCHANGED <<active, live>>

\* A value of the baseline or of its backlog does not parse.
BaselineDecodeFailed(l) ==
  /\ sync'    = [sync EXCEPT ![l] = NoSync]
  /\ backlog' = [backlog EXCEPT ![l] = <<>>]
  /\ active'  = active \ {l}
  /\ live'    = live \ {l}
  /\ calls'   = <<Call("decodeFailed", l, <<>>, 0)>>
  /\ UNCHANGED rows

BaselineSyncEnd(m) ==
  /\ m.type = "baseline_sync_end"
  /\ \/ NotAccepted(m, InvalidEnd(m))
     \/ /\ Accepted(m, InvalidEnd(m))
        /\ InstallBaseline(m.id) \/ BaselineDecodeFailed(m.id)
        /\ UNCHANGED <<conn, pending, subscribed, registered, epoch, nextSeq, attempt,
                       publication, status, replica, confirmed>>

-----------------------------------------------------------------------------
(* Publications.                                                           *)

Open(m) ==
  /\ m.type = "open"
  /\ \/ publication.open /\ ProtocolFailure
     \/ /\ ~publication.open
        /\ publication' = [NoPublication EXCEPT !.open = TRUE, !.id = m.pub]
        /\ UNCHANGED <<conn, pending, subscribed, targetVars, visibleVars, calls>>

\* publicationBody(): bodies arrive in order, inside their publication.
InvalidBody(m) ==
  ~publication.open \/ publication.id # m.pub \/ publication.nextBody # m.index

\* Faulty variant: the sequence is not compared.
InvalidTargetButSequence(m, l) ==
  \/ publication.resets[l] # NoReset
  \/ m.at[l].epoch # epoch[l]
  \/ publication.batches[l] # <<>> /\ publication.batches[l][1][1] # m.tx

\* One active target of a keyed_results body.  Every body of a publication
\* that names a target carries the same sequence and transaction.
InvalidTarget(m, l) ==
  \/ publication.resets[l] # NoReset
  \/ m.at[l].epoch # epoch[l]
  \/ m.at[l].seq # nextSeq[l]
  \/ publication.batches[l] # <<>> /\ publication.batches[l][1][1] # m.tx

\* Stages the fragment for each active target; nothing is visible yet.
KeyedResults(m) ==
  /\ m.type = "keyed_results"
  /\ \/ /\ \/ InvalidBody(m)
           \/ ~(m.targets \subseteq registered)
           \/ \E l \in m.targets \cap active : InvalidTarget(m, l)
        /\ ProtocolFailure
     \/ /\ ~InvalidBody(m)
        /\ m.targets \subseteq registered
        /\ \A l \in m.targets \cap active : ~InvalidTarget(m, l)
        /\ publication' =
             [publication EXCEPT
                !.nextBody = @ + 1,
                !.batches = [l \in LiveIds |->
                               IF l \in m.targets \cap active
                                 THEN Append(@[l], <<m.tx, m.index>>) ELSE @[l]]]
        /\ UNCHANGED <<conn, pending, subscribed, targetVars, visibleVars, calls>>

\* Faulty variant: a reset may name an epoch that is over.
InvalidResetAnyEpoch(m, l) ==
  \/ publication.batches[l] # <<>>
  \/ publication.resets[l] # NoReset

\* A target is either updated or reset by a publication, and reset once.
InvalidReset(m, l) ==
  \/ m.at[l].epoch <= epoch[l]
  \/ publication.batches[l] # <<>>
  \/ publication.resets[l] # NoReset

ResetRequired(m) ==
  /\ m.type = "reset_required"
  /\ \/ /\ \/ InvalidBody(m)
           \/ ~(m.targets \subseteq registered)
           \/ \E l \in m.targets \cap active : InvalidReset(m, l)
        /\ ProtocolFailure
     \/ /\ ~InvalidBody(m)
        /\ m.targets \subseteq registered
        /\ \A l \in m.targets \cap active : ~InvalidReset(m, l)
        /\ publication' =
             [publication EXCEPT
                !.nextBody = @ + 1,
                !.resets = [l \in LiveIds |->
                              IF l \in m.targets \cap active
                                THEN [epoch |-> m.at[l].epoch, first |-> m.at[l].seq]
                                ELSE @[l]]]
        /\ UNCHANGED <<conn, pending, subscribed, targetVars, visibleVars, calls>>

\* m.ordered: the joined programs pass validateChangeOrder() and prepare().
InvalidCommit(m) ==
  \/ ~publication.open
  \/ publication.id # m.pub
  \/ publication.nextBody # m.count
  \/ ~m.ordered /\ Batched # {}

CallAll(method, order, data) ==
  [i \in 1..Len(order) |-> Call(method, order[i], data[order[i]], 0)]

Alone == [l \in LiveIds |-> <<publication.batches[l]>>]

\* Every live target's rows are installed, the others' batches join their
\* backlogs and the resets take effect before the first listener is called.
\* `failed' are the live targets one of whose values does not parse.
InstallPublication(failed) ==
  LET installed == (Batched \cap live) \ failed
  IN  /\ rows' = [l \in LiveIds |-> IF l \in installed
                    THEN Append(rows[l], publication.batches[l]) ELSE rows[l]]
      /\ backlog' = [l \in LiveIds |->
                       IF l \in Reset THEN <<>>
                       ELSE IF l \in Batched \ live
                         THEN Append(backlog[l], publication.batches[l])
                         ELSE backlog[l]]
      /\ nextSeq' = [l \in LiveIds |->
                       IF l \in Reset THEN publication.resets[l].first
                       ELSE IF l \in Batched THEN nextSeq[l] + 1 ELSE nextSeq[l]]
      /\ epoch'   = [l \in LiveIds |->
                       IF l \in Reset THEN publication.resets[l].epoch ELSE epoch[l]]
      /\ attempt' = [l \in LiveIds |-> IF l \in Reset THEN 0 ELSE attempt[l]]
      /\ sync'    = [l \in LiveIds |-> IF l \in Reset THEN NoSync ELSE sync[l]]
      /\ active'  = active \ failed
      /\ live'    = live \ (failed \cup Reset)
      /\ \E r \in SetToSeqs(Reset), f \in SetToSeqs(failed), b \in SetToSeqs(installed) :
           calls' = CallAll("resetRequired", r, Nothing)
                      \o CallAll("decodeFailed", f, Nothing)
                      \o CallAll("publishBatch", b, Alone)

Commit(m) ==
  /\ m.type = "commit"
  /\ \/ InvalidCommit(m) /\ ProtocolFailure
     \/ /\ ~InvalidCommit(m)
        /\ \E failed \in SUBSET (Batched \cap live) : InstallPublication(failed)
        /\ publication' = NoPublication
        /\ UNCHANGED <<conn, pending, subscribed, registered, status, replica, confirmed>>

\* Faulty variant: a target that has no baseline yet takes the proof.
ReadyWhenActive == active

\* Only targets that are live have installed everything a progress proof covers.
Ready == active \cap live

Progress(m) ==
  /\ m.type = "progress"
  /\ \/ publication.open /\ ProtocolFailure
     \/ /\ ~publication.open
        /\ confirmed' = [l \in LiveIds |-> IF l \in Ready
                           THEN confirmed[l] \cup 0..m.upto ELSE confirmed[l]]
        /\ UNCHANGED <<conn, pending, subscribed, targetVars, publication, rows,
                       status, replica, calls>>

\* ConnectionCoordinator.route(): one frame, when no handler is running.
Receive(m) ==
  /\ conn = "open"
  /\ calls = <<>>
  /\ \/ Subscribed(m)
     \/ Unsubscribed(m)
     \/ BaselineSyncStart(m)
     \/ BaselineSyncBatch(m)
     \/ BaselineSyncEnd(m)
     \/ Open(m)
     \/ KeyedResults(m)
     \/ ResetRequired(m)
     \/ Commit(m)
     \/ Progress(m)

-----------------------------------------------------------------------------
(* The listener calls of a handler, one at a time.                         *)

Next1(method) == calls # <<>> /\ Head(calls).method = method

\* A closed subscription hears nothing: its calls return at once.
PublishReset ==
  /\ Next1("publishReset")
  /\ calls' = Tail(calls)
  /\ LET c == Head(calls)
     IN  \/ /\ c.id \notin subscribed
            /\ UNCHANGED <<replica, confirmed>>
         \/ /\ c.id \in subscribed
            /\ replica'   = [replica EXCEPT ![c.id] = c.data]
            /\ confirmed' = [confirmed EXCEPT ![c.id] = @ \cup 0..c.upto]
  /\ UNCHANGED <<conn, pending, subscribed, targetVars, publication, rows, status>>

PublishBatch ==
  /\ Next1("publishBatch")
  /\ calls' = Tail(calls)
  /\ LET c == Head(calls)
     IN  \/ /\ c.id \notin subscribed
            /\ UNCHANGED <<replica, confirmed>>
         \/ /\ c.id \in subscribed
            /\ replica'   = [replica EXCEPT ![c.id] = @ \o c.data]
            /\ confirmed' = [confirmed EXCEPT ![c.id] = @ \cup {c.data[1][1][1]}]
  /\ UNCHANGED <<conn, pending, subscribed, targetVars, publication, rows, status>>

\* Faulty variant: a target whose subscription is live already is not set live.
CaughtUpOnce ==
  /\ Next1("caughtUp")
  /\ calls'  = Tail(calls)
  /\ live'   = live \cup ({Head(calls).id} \ status)
  /\ status' = status \cup ({Head(calls).id} \cap subscribed)
  /\ UNCHANGED <<conn, pending, subscribed, registered, active, epoch, nextSeq, attempt,
                 sync, backlog, publication, rows, replica, confirmed>>

\* state.live is set whether or not a listener has closed the subscription.
CaughtUp ==
  /\ Next1("caughtUp")
  /\ calls'  = Tail(calls)
  /\ live'   = live \cup {Head(calls).id}
  /\ status' = status \cup ({Head(calls).id} \cap subscribed)
  /\ UNCHANGED <<conn, pending, subscribed, registered, active, epoch, nextSeq, attempt,
                 sync, backlog, publication, rows, replica, confirmed>>

\* Subscription.resetRequired() reports an event and keeps its state.
NotifyReset ==
  /\ Next1("resetRequired")
  /\ calls' = Tail(calls)
  /\ UNCHANGED <<conn, pending, subscribed, targetVars, publication, visibleVars>>

\* failLocalSubscription(): the subscription fails and is unsubscribed.
DecodeFailed ==
  /\ Next1("decodeFailed")
  /\ LET l == Head(calls).id
     IN  \/ /\ l \in subscribed
            /\ Leave(l)
            /\ subscribed # {l} => calls' = Tail(calls)
         \/ /\ l \notin subscribed
            /\ calls' = Tail(calls)
            /\ UNCHANGED <<conn, pending, subscribed, targetVars, publication, visibleVars>>

Notify == PublishReset \/ PublishBatch \/ CaughtUp \/ NotifyReset \/ DecodeFailed

-----------------------------------------------------------------------------
Fragment == Nat \X Nat
Batch    == Seq(Fragment)
Rows     == Seq(Batch)
Listener == {"publishReset", "publishBatch", "caughtUp", "resetRequired", "decodeFailed"}

\* The state of the client is well formed: who is live or active is registered,
\* and each field ranges over the values its handlers assign.
ClientTypeOK ==
  /\ conn \in {"open", "closed", "broken"}
  /\ pending    \subseteq LiveIds
  /\ subscribed \subseteq LiveIds
  /\ registered \subseteq LiveIds \ pending
  /\ active     \subseteq registered \cap subscribed
  /\ live       \subseteq registered
  /\ status     \subseteq subscribed
  /\ epoch   \in [LiveIds -> Nat]
  /\ nextSeq \in [LiveIds -> Nat]
  /\ attempt \in [LiveIds -> Nat]
  /\ sync    \in [LiveIds -> [on : BOOLEAN, nextBatch : Nat, rows : Rows, upto : Nat]]
  /\ backlog \in [LiveIds -> Rows]
  /\ publication \in [open : BOOLEAN, id : Nat, nextBody : Nat,
                      batches : [LiveIds -> Batch],
                      resets  : [LiveIds -> [epoch : Nat, first : Nat]]]
  /\ rows      \in [LiveIds -> Rows]
  /\ replica   \in [LiveIds -> Rows]
  /\ confirmed \in [LiveIds -> SUBSET Nat]
  /\ calls \in Seq([method : Listener, id : LiveIds, data : Rows, upto : Nat])

=============================================================================

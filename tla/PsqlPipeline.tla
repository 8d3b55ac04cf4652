---------------------------- MODULE PsqlPipeline ----------------------------
(***************************************************************************)
(* A pipeline of psql: the commands that \startpipeline brackets, the queue *)
(* of operations in which the connection waits for the server's replies,    *)
(* and the queries that tab completion makes on the same connection.        *)
(*                                                                          *)
(* Operations are numbered as they are enqueued; each is written to the     *)
(* socket when it is enqueued, so the frames the server has not read are    *)
(* those above served, and the queue of the connection those from head on.  *)
(* "parse" stands for Parse, Bind, Describe and Close, which differ in      *)
(* their frames and have one reply each; rows and notices are left out. The *)
(* op of a reply is history: it names the operation that the server         *)
(* answered, and the connection does not read it.                           *)
(* The server is external: it answers in order, keeps what it answers until *)
(* a Flush, a Sync or an error, and skips to the next Sync after an error.  *)
(***************************************************************************)
EXTENDS Naturals, Sequences

CONSTANTS
  MaxOps       \* bound: operations ever enqueued

ASSUME PsqlPipelineConstants == MaxOps \in Nat

VARIABLES
  ops,        \* the operations, with what the server did and what the promise said
  head,       \* PgConnection.extDriver.queue starts here
  error,      \* is extDriver.error set?
  state,      \* PgConnection.state
  active,     \* PgConnection._extPipelineActive
  failure,    \* has protocolFail() been called, or a reply come to an idle connection?
  served,     \* operations the server has read
  skipping,   \* is the server skipping to the next Sync?
  copying,    \* has the server answered an Execute with COPY?
  flushAt,    \* operations before a Flush that the server has not read, or 0
  out,        \* replies that the server keeps
  down,       \* replies on their way
  prompt,     \* what psql waits for
  slots,      \* PipelineSession.cmdSlots, as ranges of operations
  ready,      \* slots that \getresults may ask for: the counters' sum
  drained,    \* drainedCount
  asked,      \* the drainedCount of the \getresults that waits
  lastError,  \* is PipelineSession._lastError set?
  consumed,   \* _errorConsumedExternally
  shown,      \* history: has psql shown an error of this pipeline?
  base        \* operations before this pipeline

client  == <<ops, head, error, state, failure>>
server  == <<served, skipping, copying, flushAt, out>>
session == <<active, prompt, slots, ready, drained, asked, lastError, consumed, shown, base>>
vars    == <<client, server, down, session>>

Init ==
  /\ ops = <<>> /\ head = 1 /\ error = FALSE /\ state = "idle" /\ failure = FALSE
  /\ served = 0 /\ skipping = FALSE /\ copying = FALSE /\ flushAt = 0 /\ out = <<>>
  /\ down = <<>>
  /\ active = FALSE /\ prompt = "off" /\ slots = <<>>
  /\ ready = 0 /\ drained = 0 /\ asked = 0
  /\ lastError = FALSE /\ consumed = FALSE /\ shown = FALSE /\ base = 0

Op(kind, by) == [kind |-> kind, by |-> by, fate |-> "unread", outcome |-> "none"]

Rejected(i) == ops[i].outcome \in {"failed", "aborted", "lost"}

\* The first Sync from operation i on, or the end of the queue.
NextSync(i) ==
  LET Syncs == {j \in i..Len(ops) : ops[j].kind = "sync"}
  IN  IF Syncs = {} THEN Len(ops) + 1 ELSE CHOOSE j \in Syncs : \A k \in Syncs : j <= k

-----------------------------------------------------------------------------
(* The server (external).                                                  *)

Keep(r)      == out' = Append(out, r) /\ UNCHANGED down
Send(rs)     == out' = <<>> /\ down' = down \o out \o rs
Reply(t, i)  == [type |-> t, kind |-> ops[i].kind, op |-> i]
Fate(f)      == ops' = [ops EXCEPT ![served + 1].fate = f]

Serve ==
  /\ state # "closed" /\ ~copying /\ served < Len(ops)
  /\ served' = served + 1
  /\ LET op == ops[served + 1]
     IN \/ /\ op.kind # "sync" /\ skipping
           /\ Fate("skipped")
           /\ UNCHANGED <<skipping, copying, out, down>>
        \/ /\ op.kind # "sync" /\ ~skipping
           /\ Fate("done")
           /\ IF served' = flushAt THEN Send(<<Reply("complete", served')>>)
                                   ELSE Keep(Reply("complete", served'))
           /\ UNCHANGED <<skipping, copying>>
        \/ /\ op.kind # "sync" /\ ~skipping
           /\ Fate("failed") /\ skipping' = TRUE
           /\ Send(<<Reply("error", served')>>)
           /\ UNCHANGED copying
        \/ /\ op.kind = "execute" /\ ~skipping
           /\ Fate("failed") /\ copying' = TRUE
           /\ Send(<<Reply("copy", served')>>)
           /\ UNCHANGED skipping
        \/ /\ op.kind = "sync"
           /\ \/ Fate("done") /\ Send(<<Reply("ready", served')>>)
              \/ /\ ~skipping
                 /\ Fate("failed")
                 /\ Send(<<Reply("error", served'), Reply("ready", served')>>)
           /\ skipping' = FALSE /\ UNCHANGED copying
  /\ flushAt' = IF served' = flushAt THEN 0 ELSE flushAt
  /\ UNCHANGED <<head, error, state, failure, session>>

\* The server's buffer is full, or it had read everything when the Flush came.
SendKept ==
  /\ out # <<>> /\ Send(<<>>)
  /\ UNCHANGED <<client, served, skipping, copying, flushAt, session>>

-----------------------------------------------------------------------------
(* The connection.                                                         *)

\* failPending(): every promise of the queue is rejected.
FailPending == [i \in DOMAIN ops |-> IF i >= head THEN [ops[i] EXCEPT !.outcome = "lost"] ELSE ops[i]]

Close(rejected) ==
  /\ ops' = rejected /\ head' = Len(ops) + 1
  /\ state' = "closed" /\ error' = FALSE
  /\ served' = Len(ops) /\ skipping' = FALSE /\ copying' = FALSE /\ flushAt' = 0
  /\ out' = <<>> /\ down' = <<>>
  /\ UNCHANGED session

\* Faulty variant: the promises of the queue are dropped with it.
LoseQuietly ==
  /\ state # "closed"
  /\ Close(ops)
  /\ UNCHANGED failure

LoseConnection ==
  /\ state # "closed"
  /\ Close(FailPending)
  /\ UNCHANGED failure

\* Faulty variant: every operation of the queue is rejected, Syncs and all.
CascadeAll == Len(ops) + 1

\* The operations that an error rejects are those before the next Sync.
CascadeEnd == NextSync(head)

\* The error is that of the first operation; those behind it will not run.
ReceiveError ==
  /\ down # <<>> /\ state = "in-extended"
  /\ Head(down).type = "error"
  /\ down' = Tail(down)
  /\ error' = TRUE
  /\ ops' = [i \in DOMAIN ops |->
               IF i \in head..(CascadeEnd - 1)
               THEN [ops[i] EXCEPT !.outcome = IF i = head THEN "failed" ELSE "aborted"]
               ELSE ops[i]]
  /\ head' = CascadeEnd
  /\ UNCHANGED <<state, failure, server, session>>

\* Faulty variant: operations enqueued since the error are left in the queue.
DrainNever == head

\* Operations enqueued since the error are rejected when the next reply comes.
Drain == IF error THEN NextSync(head) ELSE head

Drained == [i \in DOMAIN ops |->
              IF i \in head..(Drain - 1) THEN [ops[i] EXCEPT !.outcome = "aborted"] ELSE ops[i]]

ClearError == error' = FALSE

\* The reply is for the operation at the head of the queue.
Expected ==
  state = "in-extended" /\ Drain <= Len(ops) /\ ops[Drain].kind = Head(down).kind

TakeReply ==
  /\ down' = Tail(down)
  /\ head' = Drain + 1
  /\ IF Head(down).type = "complete"
     THEN /\ ops' = [Drained EXCEPT ![Drain].outcome = "done"]
          /\ UNCHANGED <<error, state>>
     ELSE /\ ops' = [Drained EXCEPT ![Drain].outcome = IF error THEN "failed" ELSE "done"]
          /\ ClearError
          /\ state' = IF head' > Len(ops) /\ ~active THEN "idle" ELSE state
  /\ UNCHANGED <<failure, server, session>>

\* protocolFail(); an idle connection, too, closes on a reply.
ProtocolFail == failure' = TRUE /\ Close(FailPending)

ReceiveReply ==
  /\ down # <<>> /\ state # "closed"
  /\ state = "idle" \/ Head(down).type \in {"complete", "ready"}
  /\ IF Expected THEN TakeReply ELSE ProtocolFail

\* abortForCopyInPipeline()
ReceiveCopy ==
  /\ down # <<>> /\ state = "in-extended"
  /\ Head(down).type = "copy"
  /\ Close(FailPending)
  /\ UNCHANGED failure

Receive == ReceiveError \/ ReceiveReply \/ ReceiveCopy

\* startExtendedBatch(), and an operation enqueued for each frame written.
Enqueue(new) ==
  /\ state # "closed" /\ Len(ops) + Len(new) <= MaxOps
  /\ state' = "in-extended"
  /\ ops' = ops \o new
  /\ UNCHANGED <<head, failure, server, down>>
  /\ error' = IF state = "idle" THEN FALSE ELSE error

\* Tab completion: query() with parameters, a batch of its own.
Query ==
  /\ Enqueue(<<Op("parse", "query"), Op("execute", "query"), Op("sync", "query")>>)
  /\ UNCHANGED session

-----------------------------------------------------------------------------
(* The commands of psql.                                                   *)

\* \startpipeline
StartPipeline ==
  /\ prompt = "off" /\ Enqueue(<<>>)
  /\ prompt' = "ready" /\ active' = TRUE
  /\ lastError' = FALSE /\ shown' = FALSE
  /\ base' = Len(ops)
  /\ UNCHANGED <<slots, ready, drained, asked, consumed>>

\* \sendpipeline and ;-terminated queries, or \parse and \close_prepared.
SendPipeline ==
  /\ prompt = "ready"
  /\ \/ Enqueue(<<Op("parse", "pipeline"), Op("execute", "pipeline")>>)
     \/ Enqueue(<<Op("parse", "pipeline")>>)
  /\ slots' = Append(slots, <<Len(ops) + 1, Len(ops')>>)
  /\ UNCHANGED <<active, prompt, ready, drained, asked, lastError, consumed, shown, base>>

\* \flushrequest
FlushRequest ==
  /\ prompt = "ready" /\ state # "closed"
  /\ IF served = Len(ops) THEN flushAt' = 0 /\ Send(<<>>)
                          ELSE flushAt' = Len(ops) /\ UNCHANGED <<out, down>>
  /\ ready' = Len(slots)
  /\ UNCHANGED <<client, served, skipping, copying, active, prompt, slots, drained, asked,
                 lastError, consumed, shown, base>>

\* \syncpipeline: its own slot is a marker that is settled from the start.
SyncPipeline ==
  /\ prompt = "ready"
  /\ Enqueue(<<Op("sync", "pipeline")>>)
  /\ prompt' = "sync"
  /\ slots' = Append(slots, <<1, 0>>)
  /\ UNCHANGED <<active, ready, drained, asked, lastError, consumed, shown, base>>

\* The last Sync of this pipeline.
Barrier == CHOOSE i \in DOMAIN ops :
             /\ ops[i].kind = "sync" /\ ops[i].by = "pipeline"
             /\ \A j \in (i + 1)..Len(ops) : ops[j].kind # "sync" \/ ops[j].by # "pipeline"

Settled(i) == ops[i].outcome # "none"

\* PipelineSession.pending, when sync() takes it: what was parsed since the last one.
Pending == {i \in (base + 1)..(Barrier - 1) :
              /\ ops[i].kind = "parse" /\ ops[i].by = "pipeline"
              /\ \A j \in i..(Barrier - 1) : ops[j].kind # "sync" \/ ops[j].by = "query"}

\* sync() notes the error of its Sync, or of an operation before it.
Synced ==
  /\ prompt = "sync" /\ Settled(Barrier)
  /\ prompt' = "ready" /\ ready' = Len(slots)
  /\ lastError' = (lastError \/ \E i \in Pending \cup {Barrier} : Rejected(i))
  /\ UNCHANGED <<client, server, down, active, slots, drained, asked, consumed, shown, base>>

SlotOps(s)      == slots[s][1]..slots[s][2]
SlotRejected(s) == \E i \in SlotOps(s) : Rejected(i)
SlotSettled(s)  == SlotRejected(s) \/ \A i \in SlotOps(s) : Settled(i)

\* \getresults takes some of the slots that have been flushed or synced.
GetResults ==
  /\ prompt = "ready"
  /\ \E n \in (drained + 1)..ready : drained' = n
  /\ asked' = drained
  /\ prompt' = "results"
  /\ UNCHANGED <<client, server, down, active, slots, ready, lastError, consumed, shown, base>>

\* An error it has shown is cleared.
GotResults ==
  /\ prompt = "results"
  /\ \A s \in (asked + 1)..drained : SlotSettled(s)
  /\ prompt' = "ready" /\ asked' = 0
  /\ IF \E s \in (asked + 1)..drained : SlotRejected(s)
     THEN shown' = TRUE /\ consumed' = TRUE /\ lastError' = FALSE
     ELSE UNCHANGED <<shown, consumed, lastError>>
  /\ UNCHANGED <<client, server, down, active, slots, ready, drained, base>>

\* \endpipeline
EndPipeline ==
  /\ prompt = "ready"
  /\ Enqueue(<<Op("sync", "pipeline")>>)
  /\ prompt' = "end"
  /\ UNCHANGED <<active, slots, ready, drained, asked, lastError, consumed, shown, base>>

\* Faulty variant: end() does not keep the error of its own Sync.
StashNone == lastError

\* The error that end() leaves to be shown: its Sync's, unless \getresults has
\* shown one.
Stash == IF Rejected(Barrier) /\ ~consumed THEN TRUE ELSE lastError

\* A rejected slot is shown in its place, or else the error that was kept.
Ended ==
  /\ prompt = "end" /\ Settled(Barrier)
  /\ prompt' = "off" /\ active' = FALSE
  /\ lastError' = Stash
  /\ shown' = (shown \/ lastError' \/ \E s \in (drained + 1)..Len(slots) : SlotRejected(s))
  /\ slots' = <<>> /\ ready' = 0 /\ drained' = 0 /\ asked' = 0
  /\ consumed' = FALSE
  /\ UNCHANGED <<client, server, down, base>>

\* On a connection that is closed, the command fails and so the pipeline ends.
EndClosed ==
  /\ prompt = "ready" /\ state = "closed"
  /\ prompt' = "off" /\ shown' = TRUE
  /\ slots' = <<>> /\ ready' = 0 /\ drained' = 0 /\ asked' = 0
  /\ consumed' = FALSE
  /\ UNCHANGED <<client, server, down, active, lastError, base>>

User == StartPipeline \/ SendPipeline \/ FlushRequest \/ SyncPipeline \/ GetResults
          \/ EndPipeline \/ EndClosed

Next ==
  \/ User \/ Synced \/ GotResults \/ Ended \/ Query
  \/ Serve \/ SendKept \/ Receive \/ LoseConnection

Spec == Init /\ [][Next]_vars

\* The server reads, replies arrive and psql goes on; the user need not type.
FairSpec == Spec /\ WF_vars(Serve) /\ WF_vars(Receive) /\ WF_vars(Synced) /\ WF_vars(Ended)
                 /\ WF_vars(GotResults)

-----------------------------------------------------------------------------
(* Properties.                                                             *)

Operations == [kind : {"parse", "execute", "sync"}, by : {"pipeline", "query"},
               fate : {"unread", "done", "failed", "skipped"},
               outcome : {"none", "done", "failed", "aborted", "lost"}]

\* Types; the queue holds exactly the operations whose promises are not settled.
TypeOK ==
  /\ ops \in Seq(Operations) /\ Len(ops) <= MaxOps
  /\ head \in 1..(Len(ops) + 1)
  /\ \A i \in DOMAIN ops : Settled(i) <=> i < head
  /\ state \in {"idle", "in-extended", "closed"}
  /\ {error, active, failure, skipping, copying, lastError, consumed, shown} \subseteq BOOLEAN
  /\ served \in 0..Len(ops) /\ flushAt \in 0..Len(ops) /\ base \in 0..Len(ops)
  /\ prompt \in {"off", "ready", "sync", "results", "end"}
  /\ asked <= drained /\ drained <= ready /\ ready <= Len(slots)

\* Each promise tells what the server did: an operation that succeeded or failed at
\* the server is never said to have been skipped, nor the reverse, whatever was
\* enqueued while the error was on its way.
OutcomesTruthful ==
  \A i \in DOMAIN ops : ops[i].kind # "sync" =>
    /\ ops[i].outcome = "done"    => ops[i].fate = "done"
    /\ ops[i].outcome = "failed"  => ops[i].fate = "failed"
    /\ ops[i].outcome = "aborted" => ops[i].fate \in {"unread", "skipped"}

\* The operations from the Sync before i to i.
Batch(i) == {j \in 1..i : \A k \in j..(i - 1) : ops[k].kind # "sync"}

\* A Sync is rejected if and only if something failed in its own batch, be the batch
\* of the pipeline or of a tab completion in the midst of it.
SyncsTruthful ==
  \A i \in DOMAIN ops : ops[i].kind = "sync" /\ ops[i].outcome \in {"done", "failed"} =>
    (ops[i].outcome = "failed" <=> \E j \in Batch(i) : ops[j].fate = "failed")

\* Whoever waits for an operation is told what became of it, Syncs included; the
\* queue and the promises agree throughout.
PromisesTruthful == TypeOK /\ OutcomesTruthful /\ SyncsTruthful

\* Replies always find the operation that they are for: the connection is never
\* closed because of a reply that a faithful server sent.
NoProtocolFailure == ~failure

\* A pipeline in which something failed does not end without an error on the screen.
\* (One error of the pipeline; that of a later batch may be left out, LateErrorTold.)
EndTells ==
  prompt = "off" /\ ~shown =>
    \A i \in (base + 1)..Len(ops) : ops[i].by = "pipeline" => ops[i].outcome # "failed"

\* The promises that a Sync already sent will settle.
Owed == {i \in DOMAIN ops : ~Settled(i) /\ NextSync(i) <= Len(ops)}

\* Once a Sync has been sent, every promise up to it is settled, whatever failed and
\* whether or not the connection survives.
SyncSettles == Owed # {} ~> Owed = {}

\* \getresults returns.  It does not: see the run of this property.
ResultsCome == prompt = "results" ~> prompt # "results"

\* Fails, the README shows how: an error that came after the one that \getresults
\* showed is shown by \endpipeline too.
LateErrorTold ==
  [][Ended => ((ops[Barrier].fate = "failed" /\ state # "closed") => lastError')]_vars

\* Fails, the README shows how: after \endpipeline the connection is idle.
EndIsIdle == prompt = "off" /\ head > Len(ops) => state # "in-extended"
=============================================================================

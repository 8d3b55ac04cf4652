-------------------------- MODULE PsqlPipelineProofs --------------------------
(***************************************************************************)
(* Proofs about the pipelines of psql, for any number of operations: what   *)
(* the promises say is what the server did, every reply meets the operation *)
(* that it answers, and no error of a pipeline is kept from the user.       *)
(***************************************************************************)
EXTENDS PsqlPipeline, SequenceTheorems, WellFoundedInduction, TLAPS

Replies == down \o out

ReplyType == [type : {"complete", "error", "copy", "ready"},
              kind : {"parse", "execute", "sync"}, op : Nat]

\* TypeOK, with the types it leaves out.
TypeInv ==
  /\ TypeOK
  /\ down \in Seq(ReplyType) /\ out \in Seq(ReplyType)
  /\ slots \in Seq(Nat \X Nat) /\ \A s \in 1..Len(slots) : slots[s][2] <= Len(ops)
  /\ asked \in Nat /\ drained \in Nat /\ ready \in Nat

-----------------------------------------------------------------------------
(* The server.                                                             *)

SyncFree(o, a, b) == \A k \in a..b : o[k].kind # "sync"
BrokenIn(o, i)    == \E k \in 1..i : o[k].fate = "failed" /\ SyncFree(o, k, i)

\* An operation has failed in the batch that i belongs to, no later than i.
Broken(i)    == BrokenIn(ops, i)
NoSync(a, b) == SyncFree(ops, a, b)

\* What the server reads after an error, up to the next Sync, it skips.
FatesSound ==
  /\ \A i \in 1..Len(ops) : ops[i].fate = "unread" <=> i > served
  /\ skipping \/ copying <=> Broken(served)
  /\ \A i \in 1..served :
       IF ops[i].kind = "sync" THEN ops[i].fate # "skipped" /\ (ops[i].fate = "failed" => ~Broken(i - 1))
       ELSE ops[i].fate = "skipped" <=> Broken(i - 1)

-----------------------------------------------------------------------------
(* The replies on their way, in the order of their operations.             *)

\* A reply says what became of its operation, ...
RepliesTrue ==
  \A n \in 1..Len(Replies) :
    LET r == Replies[n]
    IN  /\ r.op \in head..served /\ r.kind = ops[r.op].kind
        /\ r.type = "complete" => r.kind # "sync" /\ ops[r.op].fate = "done"
        /\ r.type = "ready"    => r.kind = "sync"
        /\ r.type \in {"error", "copy"} => ops[r.op].fate = "failed"
        /\ r.type = "copy" => r.kind = "execute"

\* ... an operation has one, but for a Sync that failed, which has two, ...
RepliesOrdered ==
  \A n, m \in 1..Len(Replies) : n < m =>
    \/ Replies[n].op < Replies[m].op
    \/ /\ Replies[n].op = Replies[m].op /\ Replies[n].kind = "sync"
       /\ Replies[n].type = "error" /\ Replies[m].type = "ready"

\* ... and none is missing of what the server did and the connection waits for.
HasReply(i, types) == \E n \in 1..Len(Replies) : Replies[n].op = i /\ Replies[n].type \in types

RepliesComplete ==
  \A i \in head..served :
    IF ops[i].kind = "sync"
      THEN /\ HasReply(i, {"ready"})
           /\ ops[i].fate = "failed" => HasReply(i, {"error"}) \/ (error /\ i = head)
      ELSE ops[i].fate # "skipped" => HasReply(i, {"complete", "error", "copy"})

-----------------------------------------------------------------------------
(* The connection.                                                         *)

FailedSync(i) == i <= Len(ops) /\ ops[i].kind = "sync" /\ ops[i].fate = "failed"

\* error is set from an ErrorResponse to the end of its batch.
ErrorSound ==
  /\ Broken(head - 1) => error
  /\ error => Broken(head - 1) \/ (FailedSync(head) /\ ~HasReply(head, {"error"}))

OutcomesSound ==
  \A i \in 1..(head - 1) :
    /\ ops[i].outcome # "lost"
    /\ ops[i].outcome \in {"done", "failed"} => ops[i].fate # "unread"
    /\ ops[i].outcome = "aborted" => ops[i].kind # "sync" /\ Broken(i - 1)

IdleSound == state = "idle" => head = Len(ops) + 1 /\ ~error /\ Replies = <<>>

WireInv ==
  state # "closed" =>
    FatesSound /\ RepliesTrue /\ RepliesOrdered /\ RepliesComplete /\ ErrorSound
      /\ OutcomesSound /\ IdleSound

-----------------------------------------------------------------------------
(* The session.                                                            *)

\* The last operation of the pipeline is its Sync.
AtBarrier(i) ==
  /\ ops[i].kind = "sync" /\ ops[i].by = "pipeline"
  /\ \A j \in (i + 1)..Len(ops) : ops[j].by # "pipeline"

NotFailed(i) == i < head /\ ops[i].outcome # "failed"

\* An operation of the pipeline that has failed has been shown, or will be.
Told(i) ==
  \/ shown \/ lastError \/ NotFailed(i)
  \/ \E s \in ((IF prompt = "results" THEN asked ELSE drained) + 1)..Len(slots) : i \in SlotOps(s)
  \/ prompt \in {"sync", "end"} /\ AtBarrier(i)

SessionInv ==
  /\ consumed => shown
  /\ prompt = "off" => ~consumed
  /\ prompt \in {"sync", "end"} => \E i \in (base + 1)..Len(ops) : AtBarrier(i)
  /\ \A i \in (base + 1)..Len(ops) : ops[i].by = "pipeline" =>
       IF prompt = "off" THEN shown \/ NotFailed(i) ELSE Told(i)

\* What is sound on the wire makes the promises truthful and every reply expected; what
\* is told in the session makes the error be shown at the end.
IInv ==
  /\ TypeInv /\ OutcomesTruthful /\ SyncsTruthful /\ WireInv
  /\ NoProtocolFailure
  /\ SessionInv

-----------------------------------------------------------------------------
(* Numbers, sequences and batches.                                         *)

LEMMA LeastNat ==
  ASSUME NEW T, T \subseteq Nat, T # {}
  PROVE  \E m \in T : \A k \in T : m <= k
<1> DEFINE R == OpToRel(<, Nat)
<1>1. IsWellFoundedOn(R, Nat)
  BY NatLessThanWellFounded
<1>2. PICK m \in T : \A k \in T : ~ (<<k, m>> \in R)
  <2> HIDE DEF R
  <2> QED
    BY <1>1, WFMin
<1>3. \A k \in T : ~ (k < m)
  BY <1>2 DEF OpToRel
<1> QED
  BY <1>3

LEMMA Parts ==
  ASSUME TypeOK
  PROVE  /\ Len(ops) \in Nat /\ DOMAIN ops = 1..Len(ops)
         /\ ops \in [1..Len(ops) -> Operations]
         /\ \A i \in 1..Len(ops) : ops[i] \in Operations
         /\ head \in 1..(Len(ops) + 1) /\ head \in Nat /\ head - 1 \in Nat
         /\ served \in 0..Len(ops) /\ served \in Nat /\ base \in Nat
<1>1. ops \in Seq(Operations)
  BY DEF TypeOK
<1> QED
  BY <1>1, LenProperties DEF TypeOK

\* Operations that are changed one by one.
LEMMA Mapped ==
  ASSUME NEW n \in Nat, NEW g \in [1..n -> Operations]
  PROVE  g \in Seq(Operations) /\ Len(g) = n
OBVIOUS

LEMMA NextSyncIs ==
  ASSUME TypeOK, NEW i \in 1..(Len(ops) + 1)
  PROVE  /\ NextSync(i) \in i..(Len(ops) + 1)
         /\ SyncFree(ops, i, NextSync(i) - 1)
         /\ NextSync(i) <= Len(ops) => ops[NextSync(i)].kind = "sync"
<1> DEFINE Syncs == {j \in i..Len(ops) : ops[j].kind = "sync"}
<1>0. Len(ops) \in Nat
  BY Parts
<1>1. CASE Syncs = {}
  BY <1>0, <1>1 DEF NextSync, SyncFree
<1>2. CASE Syncs # {}
  <2>1. Syncs \subseteq Nat
    BY <1>0
  <2>2. \E j \in Syncs : \A k \in Syncs : j <= k
    BY <1>2, <2>1, LeastNat
  <2>3. NextSync(i) = CHOOSE j \in Syncs : \A k \in Syncs : j <= k
    BY <1>2 DEF NextSync
  <2>4. NextSync(i) \in Syncs /\ \A k \in Syncs : NextSync(i) <= k
    BY <2>2, <2>3
  <2> QED
    BY <1>0, <2>4 DEF SyncFree
<1> QED
  BY <1>1, <1>2

\* The batch of an operation is broken as soon as one in it fails, up to its Sync.
LEMMA BrokenSame ==
  ASSUME NEW i \in Nat, NEW o, NEW p,
         \A k \in 1..i : p[k].kind = o[k].kind /\ (p[k].fate = "failed" <=> o[k].fate = "failed")
  PROVE  BrokenIn(p, i) <=> BrokenIn(o, i)
BY DEF BrokenIn, SyncFree

LEMMA BrokenStep ==
  ASSUME NEW i \in Nat, NEW o
  PROVE  BrokenIn(o, i + 1) <=> /\ o[i + 1].kind # "sync"
                                /\ BrokenIn(o, i) \/ o[i + 1].fate = "failed"
<1>1. ASSUME BrokenIn(o, i + 1)
      PROVE  o[i + 1].kind # "sync" /\ (BrokenIn(o, i) \/ o[i + 1].fate = "failed")
  <2>1. PICK k \in 1..(i + 1) : o[k].fate = "failed" /\ SyncFree(o, k, i + 1)
    BY <1>1 DEF BrokenIn
  <2>2. i + 1 \in k..(i + 1) /\ (k = i + 1 \/ k \in 1..i)
    OBVIOUS
  <2>3. SyncFree(o, k, i)
    BY <2>1 DEF SyncFree
  <2> QED
    BY <2>1, <2>2, <2>3 DEF BrokenIn, SyncFree
<1>2. ASSUME o[i + 1].kind # "sync", BrokenIn(o, i) PROVE BrokenIn(o, i + 1)
  <2>1. PICK k \in 1..i : o[k].fate = "failed" /\ SyncFree(o, k, i)
    BY <1>2 DEF BrokenIn
  <2>2. k \in 1..(i + 1) /\ \A j \in k..(i + 1) : j \in k..i \/ j = i + 1
    OBVIOUS
  <2> QED
    BY <1>2, <2>1, <2>2 DEF BrokenIn, SyncFree
<1>3. ASSUME o[i + 1].kind # "sync", o[i + 1].fate = "failed" PROVE BrokenIn(o, i + 1)
  <2>1. i + 1 \in 1..(i + 1) /\ \A j \in (i + 1)..(i + 1) : j = i + 1
    OBVIOUS
  <2> QED
    BY <1>3, <2>1 DEF BrokenIn, SyncFree
<1> QED
  BY <1>1, <1>2, <1>3

LEMMA BrokenOver ==
  ASSUME NEW i \in Nat, NEW j \in Nat, NEW o, i <= j, SyncFree(o, i + 1, j), BrokenIn(o, i)
  PROVE  BrokenIn(o, j)
<1>1. PICK k \in 1..i : o[k].fate = "failed" /\ SyncFree(o, k, i)
  BY DEF BrokenIn
<1>2. k \in 1..j /\ \A n \in k..j : n \in k..i \/ n \in (i + 1)..j
  OBVIOUS
<1> QED
  BY <1>1, <1>2 DEF BrokenIn, SyncFree

-----------------------------------------------------------------------------
(* Replies.                                                                *)

LEMMA RepliesType ==
  ASSUME TypeInv
  PROVE  Replies \in Seq(ReplyType) /\ Len(Replies) \in Nat
         /\ \A n \in 1..Len(Replies) : Replies[n] \in ReplyType
<1>1. Replies \in Seq(ReplyType)
  BY ConcatProperties DEF TypeInv, Replies
<1> QED
  BY <1>1, LenProperties, ElementOfSeq

LEMMA ThreeParts ==
  ASSUME NEW S, NEW a \in Seq(S), NEW b \in Seq(S), NEW c \in Seq(S)
  PROVE  a \o (b \o c) = (a \o b) \o c
  BY SMTT(30), ConcatAssociative

LEMMA RepliesSent ==
  ASSUME TypeInv, NEW rs \in Seq(ReplyType), Send(rs) \/ \E r \in ReplyType : rs = <<r>> /\ Keep(r)
  PROVE  Replies' = Replies \o rs /\ down' \in Seq(ReplyType) /\ out' \in Seq(ReplyType)
<1>1. down \in Seq(ReplyType) /\ out \in Seq(ReplyType)
  BY DEF TypeInv
<1>2. CASE Send(rs)
  <2>1. down' = (down \o out) \o rs /\ out' = <<>>
    BY <1>2 DEF Send
  <2>2. down' \in Seq(ReplyType)
    BY <1>1, <2>1, ConcatProperties
  <2>3. down' \o <<>> = down'
    BY <2>2, ConcatEmptySeq
  <2> QED
    BY <2>1, <2>2, <2>3, EmptySeq DEF Replies
<1>3. CASE \E r \in ReplyType : rs = <<r>> /\ Keep(r)
  <2>1. PICK r \in ReplyType : rs = <<r>> /\ out' = Append(out, r) /\ down' = down
    BY <1>3 DEF Keep
  <2>2. out' = out \o rs
    BY <1>1, <2>1
  <2>3. out' \in Seq(ReplyType)
    BY <1>1, <2>2, ConcatProperties
  <2>4. down \o (out \o rs) = (down \o out) \o rs
    BY SMTT(30), <1>1, ThreeParts
  <2> QED
    BY <1>1, <2>1, <2>2, <2>3, <2>4 DEF Replies
<1> QED
  BY <1>2, <1>3

LEMMA ReplyTaken ==
  ASSUME TypeInv, down # <<>>, down' = Tail(down), out' = out
  PROVE  /\ Head(down) = Replies[1] /\ Len(Replies) > 0
         /\ Len(Replies') = Len(Replies) - 1
         /\ \A n \in 1..Len(Replies') : Replies'[n] = Replies[n + 1]
         /\ down' \in Seq(ReplyType)
<1>1. down \in Seq(ReplyType) /\ out \in Seq(ReplyType) /\ Tail(down) \in Seq(ReplyType)
      /\ Len(down) \in Nat /\ Len(out) \in Nat /\ Len(Tail(down)) = Len(down) - 1
      /\ Len(down) > 0 /\ Head(down) = down[1]
      /\ \A n \in 1..Len(Tail(down)) : Tail(down)[n] = down[n + 1]
  BY HeadTailProperties, LenProperties, EmptySeq DEF TypeInv
<1>2. Replies' = Tail(down) \o out /\ Replies = down \o out
  BY DEF Replies
<1>3. /\ Len(Replies) = Len(down) + Len(out)
      /\ \A i \in 1..(Len(down) + Len(out)) :
           Replies[i] = IF i <= Len(down) THEN down[i] ELSE out[i - Len(down)]
  BY <1>1, <1>2, ConcatProperties
<1>4. /\ Len(Replies') = Len(Tail(down)) + Len(out)
      /\ \A i \in 1..(Len(Tail(down)) + Len(out)) :
           Replies'[i] = IF i <= Len(Tail(down)) THEN Tail(down)[i] ELSE out[i - Len(Tail(down))]
  BY <1>1, <1>2, ConcatProperties
<1>5. Len(Replies) > 0 /\ Len(Replies') = Len(Replies) - 1 /\ Replies[1] = down[1]
  BY <1>1, <1>3, <1>4
<1>6. ASSUME NEW n \in 1..Len(Replies')
      PROVE  Replies'[n] = Replies[n + 1]
  <2>1. n + 1 \in 1..(Len(down) + Len(out)) /\ n \in 1..(Len(Tail(down)) + Len(out))
    BY <1>1, <1>4
  <2>2. CASE n <= Len(Tail(down))
    <3>1. Replies'[n] = Tail(down)[n] /\ n \in 1..Len(Tail(down))
      BY <1>1, <1>4, <2>1, <2>2
    <3>2. Replies[n + 1] = down[n + 1]
      BY <1>1, <1>3, <2>1, <2>2
    <3> QED
      BY <1>1, <3>1, <3>2
  <2>3. CASE ~(n <= Len(Tail(down)))
    <3>1. (n + 1) - Len(down) = n - Len(Tail(down)) /\ ~(n + 1 <= Len(down))
      BY <1>1, <2>1, <2>3
    <3> QED
      BY <1>3, <1>4, <2>1, <2>3, <3>1
  <2> QED
    BY <2>2, <2>3
<1> QED
  BY <1>1, <1>5, <1>6

-----------------------------------------------------------------------------
(* The server answers.                                                     *)

\* It reads the next operation, which fares as f, and sends rs.
Answered(f, rs) ==
  LET k == ops[served + 1].kind
  IN  /\ state # "closed" /\ ~copying /\ served < Len(ops)
      /\ ops' = [ops EXCEPT ![served + 1].fate = f]
      /\ served' = served + 1 /\ UNCHANGED <<head, error, state, failure>>
      /\ Replies' = Replies \o rs
      /\ \A n \in 1..Len(rs) :
           /\ rs[n].op = served + 1 /\ rs[n].kind = k
           /\ rs[n].type = "complete" => k # "sync" /\ f = "done"
           /\ rs[n].type = "ready" => k = "sync"
           /\ rs[n].type \in {"error", "copy"} => f = "failed"
           /\ rs[n].type = "copy" => k = "execute"
      /\ \A n, m \in 1..Len(rs) : n < m =>
           k = "sync" /\ rs[n].type = "error" /\ rs[m].type = "ready"
      /\ IF k = "sync"
           THEN /\ f # "skipped" /\ (f = "failed" => ~skipping)
                /\ \E n \in 1..Len(rs) : rs[n].type = "ready"
                /\ f = "failed" => \E n \in 1..Len(rs) : rs[n].type = "error"
           ELSE /\ f = "skipped" <=> skipping
                /\ IF f = "skipped" THEN rs = <<>>
                   ELSE \E n \in 1..Len(rs) : rs[n].type \in {"complete", "error", "copy"}
      /\ skipping' \/ copying' <=> k # "sync" /\ (skipping \/ f = "failed")

LEMMA AnsweredFacts ==
  ASSUME TypeInv, WireInv, NEW f \in {"done", "failed", "skipped"}, NEW rs \in Seq(ReplyType),
         Answered(f, rs)
  PROVE  /\ ops' \in Seq(Operations) /\ Len(ops') = Len(ops)
         /\ served + 1 \in 1..Len(ops)
         /\ \A i \in 1..Len(ops) :
              /\ ops'[i].kind = ops[i].kind /\ ops'[i].by = ops[i].by
              /\ ops'[i].outcome = ops[i].outcome
              /\ ops'[i].fate = IF i = served + 1 THEN f ELSE ops[i].fate
         /\ \A i \in 0..served : Broken(i)' <=> Broken(i)
         /\ Broken(served) <=> skipping
         /\ served + 1 < head => ops[served + 1].kind # "sync" /\ f = "skipped" /\ rs = <<>>
         /\ \A i \in 0..(head - 1) : Broken(i)' <=> Broken(i)
<1> DEFINE s1 == served + 1
<1>0. /\ Len(ops) \in Nat /\ ops \in [1..Len(ops) -> Operations] /\ served \in Nat
      /\ head \in Nat /\ head - 1 \in Nat /\ s1 \in 1..Len(ops) /\ head <= Len(ops) + 1
      /\ ops[s1] \in Operations
  <2>1. TypeOK /\ served < Len(ops)
    BY DEF TypeInv, Answered
  <2>2. served + 1 \in 1..Len(ops)
    BY <2>1, Parts
  <2> QED
    BY <2>1, <2>2, Parts
<1>1. ops' = [ops EXCEPT ![s1] = [ops[s1] EXCEPT !.fate = f]]
  BY <1>0 DEF Answered
<1>2. [ops[s1] EXCEPT !.fate = f] \in Operations
  BY <1>0 DEF Operations
<1>3. ops' \in [1..Len(ops) -> Operations]
  BY <1>0, <1>1, <1>2
<1>4. ops' \in Seq(Operations) /\ Len(ops') = Len(ops)
  BY <1>0, <1>3, Mapped
<1>5. \A i \in 1..Len(ops) :
        /\ ops'[i].kind = ops[i].kind /\ ops'[i].by = ops[i].by
        /\ ops'[i].outcome = ops[i].outcome
        /\ ops'[i].fate = IF i = s1 THEN f ELSE ops[i].fate
  BY <1>0, <1>1 DEF Operations
<1>6. ASSUME NEW i \in 0..served PROVE Broken(i)' <=> Broken(i)
  <2>1. i \in Nat /\ \A k \in 1..i : k \in 1..Len(ops) /\ k # s1
    BY <1>0
  <2>2. \A k \in 1..i : ops'[k].kind = ops[k].kind
                        /\ (ops'[k].fate = "failed" <=> ops[k].fate = "failed")
    BY <1>5, <2>1
  <2>3. BrokenIn(ops', i) <=> BrokenIn(ops, i)
    BY <2>1, <2>2, BrokenSame
  <2> QED
    BY <2>3 DEF Broken
<1>7. FatesSound /\ OutcomesSound /\ ~copying
  BY DEF WireInv, Answered
<1>8. Broken(served) <=> skipping
  BY <1>7 DEF FatesSound
<1>9. ASSUME s1 < head
      PROVE  ops[s1].kind # "sync" /\ f = "skipped" /\ rs = <<>>
  <2>1. ops[s1].fate = "unread" /\ s1 \in 1..(head - 1)
    BY <1>0, <1>7, <1>9 DEF FatesSound
  <2>2. ops[s1].outcome # "none"
    BY <1>0, <1>9 DEF TypeInv, TypeOK, Settled
  <2>3. ops[s1].outcome = "aborted"
    BY <1>0, <1>7, <2>1, <2>2 DEF OutcomesSound, Operations
  <2>4. ops[s1].kind # "sync" /\ Broken(s1 - 1)
    BY <1>7, <2>1, <2>3 DEF OutcomesSound
  <2>5. s1 - 1 = served
    BY <1>0
  <2> QED
    BY <1>8, <2>4, <2>5 DEF Answered
<1>10. ASSUME NEW i \in 0..(head - 1) PROVE Broken(i)' <=> Broken(i)
  <2>1. CASE s1 < head
    <3>1. ops[s1].fate = "unread" /\ f = "skipped"
      BY <1>0, <1>7, <1>9, <2>1 DEF FatesSound
    <3>2. i \in Nat /\ \A k \in 1..i : k \in 1..Len(ops)
      BY <1>0
    <3>3. \A k \in 1..i : ops'[k].kind = ops[k].kind
                          /\ (ops'[k].fate = "failed" <=> ops[k].fate = "failed")
      BY <1>5, <3>1, <3>2
    <3>4. BrokenIn(ops', i) <=> BrokenIn(ops, i)
      BY <3>2, <3>3, BrokenSame
    <3> QED
      BY <3>4 DEF Broken
  <2>2. CASE ~(s1 < head)
    <3>1. i \in 0..served
      BY <1>0, <2>2
    <3> QED
      BY <1>6, <3>1
  <2> QED
    BY <2>1, <2>2
<1> QED
  BY <1>0, <1>4, <1>5, <1>6, <1>8, <1>9, <1>10

\* Replies, once rs has been sent.
LEMMA RepliesAfter ==
  ASSUME TypeInv, NEW rs \in Seq(ReplyType), Replies' = Replies \o rs
  PROVE  /\ Len(rs) \in Nat /\ Len(Replies) \in Nat /\ Len(Replies') = Len(Replies) + Len(rs)
         /\ \A n \in 1..Len(Replies) : Replies'[n] = Replies[n] /\ n \in 1..Len(Replies')
         /\ \A n \in 1..Len(rs) : /\ Replies'[Len(Replies) + n] = rs[n]
                                 /\ Len(Replies) + n \in 1..Len(Replies')
         /\ \A n \in 1..Len(Replies') :
              n \in 1..Len(Replies) \/ \E m \in 1..Len(rs) : n = Len(Replies) + m
<1>1. Replies \in Seq(ReplyType) /\ Len(Replies) \in Nat /\ Len(rs) \in Nat
  BY RepliesType, LenProperties
<1>2. /\ Len(Replies') = Len(Replies) + Len(rs)
      /\ \A i \in 1..(Len(Replies) + Len(rs)) :
           Replies'[i] = IF i <= Len(Replies) THEN Replies[i] ELSE rs[i - Len(Replies)]
  BY <1>1, ConcatProperties
<1>3. ASSUME NEW n \in 1..Len(rs)
      PROVE  Replies'[Len(Replies) + n] = rs[n] /\ Len(Replies) + n \in 1..Len(Replies')
  <2>1. (Len(Replies) + n) - Len(Replies) = n /\ ~(Len(Replies) + n <= Len(Replies))
    BY <1>1
  <2> QED
    BY <1>1, <1>2, <2>1
<1>4. ASSUME NEW n \in 1..Len(Replies'), n \notin 1..Len(Replies)
      PROVE  \E m \in 1..Len(rs) : n = Len(Replies) + m
  <2>1. n - Len(Replies) \in 1..Len(rs) /\ n = Len(Replies) + (n - Len(Replies))
    BY <1>1, <1>2, <1>4
  <2> QED
    BY <2>1
<1> QED
  BY <1>1, <1>2, <1>3, <1>4

LEMMA AnsweredKeeps ==
  ASSUME TypeInv, WireInv, NEW f \in {"done", "failed", "skipped"}, NEW rs \in Seq(ReplyType),
         Answered(f, rs)
  PROVE  WireInv'
<1> PICK s1 : s1 = served + 1
  OBVIOUS
<1> PICK k : k = ops[s1].kind
  OBVIOUS
<1>0. /\ Len(ops) \in Nat /\ served \in Nat /\ head \in Nat /\ head - 1 \in Nat
      /\ s1 \in 1..Len(ops) /\ s1 - 1 = served /\ served' = s1 /\ head <= Len(ops) + 1
      /\ UNCHANGED <<head, error, state, failure>>
  <2>1. TypeOK /\ served < Len(ops) /\ served' = served + 1 /\ UNCHANGED <<head, error, state, failure>>
    BY DEF TypeInv, Answered
  <2> QED
    BY <2>1, Parts
<1>1. Len(ops') = Len(ops)
  BY AnsweredFacts
<1>2. \A i \in 1..Len(ops) :
        /\ ops'[i].kind = ops[i].kind /\ ops'[i].outcome = ops[i].outcome
        /\ ops'[i].fate = IF i = s1 THEN f ELSE ops[i].fate
  BY AnsweredFacts
<1>3. /\ \A i \in 0..served : Broken(i)' <=> Broken(i)
      /\ \A i \in 0..(head - 1) : Broken(i)' <=> Broken(i)
      /\ Broken(served) <=> skipping
      /\ s1 < head => k # "sync" /\ f = "skipped" /\ rs = <<>>
  BY AnsweredFacts
<1>4. /\ FatesSound /\ RepliesTrue /\ RepliesOrdered /\ RepliesComplete /\ ErrorSound
      /\ OutcomesSound /\ IdleSound
  BY DEF WireInv, Answered
<1>a. /\ \A n \in 1..Len(rs) :
           /\ rs[n].op = s1 /\ rs[n].kind = k
           /\ rs[n].type = "complete" => k # "sync" /\ f = "done"
           /\ rs[n].type = "ready" => k = "sync"
           /\ rs[n].type \in {"error", "copy"} => f = "failed"
           /\ rs[n].type = "copy" => k = "execute"
      /\ \A n, m \in 1..Len(rs) : n < m =>
           k = "sync" /\ rs[n].type = "error" /\ rs[m].type = "ready"
      /\ k = "sync" => /\ f # "skipped" /\ (f = "failed" => ~skipping)
                       /\ \E n \in 1..Len(rs) : rs[n].type = "ready"
                       /\ f = "failed" => \E n \in 1..Len(rs) : rs[n].type = "error"
      /\ k # "sync" =>
           /\ f = "skipped" <=> skipping
           /\ f # "skipped" => \E n \in 1..Len(rs) : rs[n].type \in {"complete", "error", "copy"}
      /\ skipping' \/ copying' <=> k # "sync" /\ (skipping \/ f = "failed")
  BY DEF Answered
<1>5. /\ Len(rs) \in Nat /\ Len(Replies) \in Nat /\ Len(Replies') = Len(Replies) + Len(rs)
      /\ \A n \in 1..Len(Replies) : Replies'[n] = Replies[n] /\ n \in 1..Len(Replies')
      /\ \A n \in 1..Len(rs) : /\ Replies'[Len(Replies) + n] = rs[n]
                              /\ Len(Replies) + n \in 1..Len(Replies')
      /\ \A n \in 1..Len(Replies') :
           n \in 1..Len(Replies) \/ \E m \in 1..Len(rs) : n = Len(Replies) + m
  BY RepliesAfter DEF Answered
<1>6. ops[s1].fate = "unread" /\ \A i \in 1..served : i \in 1..Len(ops) /\ i # s1
  BY <1>0, <1>4 DEF FatesSound
<1>7. FatesSound'
  <2>1. \A i \in 1..Len(ops) : ops'[i].fate = "unread" <=> i > s1
    BY <1>0, <1>2, <1>4 DEF FatesSound
  <2>2. skipping' \/ copying' <=> Broken(s1)'
    <3>1. BrokenIn(ops', s1) <=> /\ ops'[s1].kind # "sync"
                                 /\ BrokenIn(ops', served) \/ ops'[s1].fate = "failed"
      BY <1>0, BrokenStep
    <3>2. Broken(s1)' <=> k # "sync" /\ (skipping \/ f = "failed")
      BY <1>0, <1>2, <1>3, <3>1 DEF Broken
    <3> QED
      BY <1>a, <3>2
  <2>3. ASSUME NEW i \in 1..s1
        PROVE  IF ops'[i].kind = "sync"
                 THEN ops'[i].fate # "skipped" /\ (ops'[i].fate = "failed" => ~Broken(i - 1)')
               ELSE ops'[i].fate = "skipped" <=> Broken(i - 1)'
    <3>1. CASE i = s1
      <4>1. Broken(i - 1)' <=> skipping
        BY <1>0, <1>3, <3>1
      <4> QED
        BY <1>0, <1>2, <1>a, <3>1, <4>1
    <3>2. CASE i # s1
      <4>1. i \in 1..served /\ i - 1 \in 0..served
        BY <1>0, <3>2
      <4> QED
        BY <1>2, <1>3, <1>4, <1>6, <4>1 DEF FatesSound
    <3> QED
      BY <3>1, <3>2
  <2> QED
    BY <1>0, <1>1, <2>1, <2>2, <2>3 DEF FatesSound
<1>8. RepliesTrue'
  <2>1. ASSUME NEW n \in 1..Len(Replies')
        PROVE  LET r == Replies'[n]
               IN  /\ r.op \in head..s1 /\ r.kind = ops'[r.op].kind
                   /\ r.type = "complete" => r.kind # "sync" /\ ops'[r.op].fate = "done"
                   /\ r.type = "ready"    => r.kind = "sync"
                   /\ r.type \in {"error", "copy"} => ops'[r.op].fate = "failed"
                   /\ r.type = "copy" => r.kind = "execute"
    <3>1. CASE n \in 1..Len(Replies)
      <4>1. Replies'[n] = Replies[n] /\ Replies[n].op \in head..served
        BY <1>4, <1>5, <3>1 DEF RepliesTrue
      <4>2. head >= 1
        BY Parts DEF TypeInv
      <4> PICK r : r = Replies[n]
        OBVIOUS
      <4>3. r.op \in 1..Len(ops) /\ r.op # s1 /\ r.op \in head..s1
        BY <1>0, <4>1, <4>2
      <4>4. ops'[r.op].kind = ops[r.op].kind /\ ops'[r.op].fate = ops[r.op].fate
        BY <1>2, <4>3
      <4>5. /\ r.kind = ops[r.op].kind
            /\ r.type = "complete" => r.kind # "sync" /\ ops[r.op].fate = "done"
            /\ r.type = "ready"    => r.kind = "sync"
            /\ r.type \in {"error", "copy"} => ops[r.op].fate = "failed"
            /\ r.type = "copy" => r.kind = "execute"
        BY <1>4, <3>1 DEF RepliesTrue
      <4> QED
        BY <4>1, <4>3, <4>4, <4>5
    <3>2. CASE n \notin 1..Len(Replies)
      <4>1. PICK m \in 1..Len(rs) : n = Len(Replies) + m
        BY <1>5, <3>2
      <4>2. Replies'[n] = rs[m] /\ rs # <<>>
        BY <1>5, <4>1
      <4>3. s1 \in head..s1
        BY <1>0, <1>3, <4>2
      <4> PICK r : r = rs[m]
        OBVIOUS
      <4>4. /\ r.op = s1 /\ r.kind = k
            /\ r.type = "complete" => k # "sync" /\ f = "done"
            /\ r.type = "ready" => k = "sync"
            /\ r.type \in {"error", "copy"} => f = "failed"
            /\ r.type = "copy" => k = "execute"
        BY <1>a
      <4>5. ops'[s1].kind = k /\ ops'[s1].fate = f
        BY <1>0, <1>2
      <4> QED
        BY <4>2, <4>3, <4>4, <4>5
    <3> QED
      BY <3>1, <3>2
  <2> QED
    BY <1>0, <2>1 DEF RepliesTrue
<1>9. RepliesOrdered'
  <2>1. ASSUME NEW n \in 1..Len(Replies'), NEW m \in 1..Len(Replies'), n < m
        PROVE  \/ Replies'[n].op < Replies'[m].op
               \/ /\ Replies'[n].op = Replies'[m].op /\ Replies'[n].kind = "sync"
                  /\ Replies'[n].type = "error" /\ Replies'[m].type = "ready"
    <3>1. CASE m \in 1..Len(Replies)
      <4>1. n \in 1..Len(Replies)
        BY <1>5, <2>1, <3>1
      <4> QED
        BY <1>4, <1>5, <2>1, <3>1, <4>1 DEF RepliesOrdered
    <3>2. CASE m \notin 1..Len(Replies) /\ n \in 1..Len(Replies)
      <4>1. PICK j \in 1..Len(rs) : m = Len(Replies) + j
        BY <1>5, <3>2
      <4>2. Replies'[m].op = s1
        BY <1>5, <1>a, <4>1
      <4>3. Replies'[n].op \in head..served
        BY <1>4, <1>5, <3>2 DEF RepliesTrue
      <4> QED
        BY <1>0, <4>2, <4>3
    <3>3. CASE m \notin 1..Len(Replies) /\ n \notin 1..Len(Replies)
      <4>1. PICK j \in 1..Len(rs) : m = Len(Replies) + j
        BY <1>5, <3>3
      <4>2. PICK h \in 1..Len(rs) : n = Len(Replies) + h
        BY <1>5, <3>3
      <4>3. h < j /\ Replies'[m] = rs[j] /\ Replies'[n] = rs[h]
        BY <1>5, <2>1, <4>1, <4>2
      <4> QED
        BY <1>a, <4>3
    <3> QED
      BY <3>1, <3>2, <3>3
  <2> QED
    BY <2>1 DEF RepliesOrdered
<1>10. ASSUME NEW i, NEW types, HasReply(i, types)
       PROVE  HasReply(i, types)'
  BY <1>5, <1>10 DEF HasReply
<1>11. ASSUME NEW types, NEW n \in 1..Len(rs), rs[n].type \in types
       PROVE  HasReply(s1, types)'
  <2> PICK j : j = Len(Replies) + n
    OBVIOUS
  <2>1. j \in 1..Len(Replies') /\ Replies'[j] = rs[n]
    BY <1>5
  <2>2. Replies'[j].op = s1 /\ Replies'[j].type \in types
    BY <1>a, <1>11, <2>1
  <2> QED
    BY <2>1, <2>2 DEF HasReply
<1>12. RepliesComplete'
  <2>1. ASSUME NEW i \in head..s1
        PROVE  IF ops'[i].kind = "sync"
                 THEN /\ HasReply(i, {"ready"})'
                      /\ ops'[i].fate = "failed" =>
                           HasReply(i, {"error"})' \/ (error' /\ i = head')
                 ELSE ops'[i].fate # "skipped" => HasReply(i, {"complete", "error", "copy"})'
    <3>1. CASE i # s1
      <4>1. i \in head..served /\ i \in 1..Len(ops)
        <5>1. head >= 1
          BY Parts DEF TypeInv
        <5> QED
          BY <1>0, <3>1, <5>1
      <4>2. /\ ops'[i].kind = ops[i].kind /\ ops'[i].fate = ops[i].fate
            /\ \A types : HasReply(i, types) => HasReply(i, types)'
        BY <1>2, <1>10, <3>1, <4>1
      <4> QED
        BY <1>0, <1>4, <4>1, <4>2 DEF RepliesComplete
    <3>2. CASE i = s1 /\ k = "sync"
      <4>1. PICK n \in 1..Len(rs) : rs[n].type = "ready"
        BY <1>a, <3>2
      <4>2. f = "failed" => \E m \in 1..Len(rs) : rs[m].type = "error"
        BY <1>a, <3>2
      <4>3. HasReply(s1, {"ready"})' /\ (f = "failed" => HasReply(s1, {"error"})')
        BY <1>11, <4>1, <4>2
      <4> QED
        BY <1>0, <1>2, <3>2, <4>3
    <3>3. CASE i = s1 /\ k # "sync"
      <4>1. f # "skipped" => \E n \in 1..Len(rs) : rs[n].type \in {"complete", "error", "copy"}
        BY <1>a, <3>3
      <4>2. f # "skipped" => HasReply(s1, {"complete", "error", "copy"})'
        BY <1>11, <4>1
      <4> QED
        BY <1>0, <1>2, <3>3, <4>2
    <3> QED
      BY <3>1, <3>2, <3>3
  <2> QED
    BY <1>0, <2>1 DEF RepliesComplete
<1>13. ErrorSound'
  <2>1. Broken(head - 1)' <=> Broken(head - 1)
    <3>1. BrokenIn(ops', head - 1) <=> BrokenIn(ops, head - 1)
      BY <1>0, <1>3 DEF Broken
    <3> QED
      BY <1>0, <3>1 DEF Broken
  <2>2. ASSUME FailedSync(head), ~HasReply(head, {"error"})
        PROVE  FailedSync(head)' /\ ~HasReply(head, {"error"})'
    <3>1. head # s1 /\ head \in 1..Len(ops)
      BY <1>0, <1>6, <2>2, Parts DEF FailedSync, TypeInv
    <3>2. FailedSync(head)'
      BY <1>0, <1>1, <1>2, <2>2, <3>1 DEF FailedSync
    <3>3. ~HasReply(head, {"error"})'
      <4>1. ASSUME NEW n \in 1..Len(Replies'), Replies'[n].op = head, Replies'[n].type = "error"
            PROVE  FALSE
        <5>1. CASE n \in 1..Len(Replies)
          BY <1>5, <2>2, <4>1, <5>1 DEF HasReply
        <5>2. CASE \E m \in 1..Len(rs) : n = Len(Replies) + m
          <6>1. PICK m \in 1..Len(rs) : n = Len(Replies) + m
            BY <5>2
          <6>2. Replies'[n] = rs[m] /\ rs[m].op = s1
            BY <1>5, <1>a, <6>1
          <6> QED
            BY <3>1, <4>1, <6>2
        <5> QED
          BY <1>5, <5>1, <5>2
      <4> QED
        BY <1>0, <4>1 DEF HasReply
    <3> QED
      BY <3>2, <3>3
  <2> QED
    BY <1>0, <1>4, <2>1, <2>2 DEF ErrorSound
<1>14. OutcomesSound'
  <2>1. ASSUME NEW i \in 1..(head - 1)
        PROVE  /\ ops'[i].outcome # "lost"
               /\ ops'[i].outcome \in {"done", "failed"} => ops'[i].fate # "unread"
               /\ ops'[i].outcome = "aborted" => ops'[i].kind # "sync" /\ Broken(i - 1)'
    <3>1. i \in 1..Len(ops) /\ i - 1 \in 0..(head - 1)
      BY <1>0
    <3> QED
      BY <1>2, <1>3, <1>4, <3>1 DEF OutcomesSound
  <2> QED
    BY <1>0, <2>1 DEF OutcomesSound
<1>15. IdleSound'
  <2>1. ASSUME state = "idle"
        PROVE  head = Len(ops) + 1 /\ ~error /\ Replies' = <<>>
    <3>1. head = Len(ops) + 1 /\ ~error /\ Replies = <<>>
      BY <1>4, <2>1 DEF IdleSound
    <3>2. rs = <<>>
      BY <1>0, <1>3, <3>1
    <3>3. Replies' = Replies \o <<>>
      BY <3>2 DEF Answered
    <3> QED
      BY <3>1, <3>3, RepliesType, ConcatEmptySeq
  <2> QED
    BY <1>0, <1>1, <2>1 DEF IdleSound
<1> QED
  BY <1>7, <1>8, <1>9, <1>12, <1>13, <1>14, <1>15 DEF WireInv

LEMMA AnsweredTruthful ==
  ASSUME TypeInv, WireInv, OutcomesTruthful, SyncsTruthful,
         NEW f \in {"done", "failed", "skipped"}, NEW rs \in Seq(ReplyType), Answered(f, rs)
  PROVE  OutcomesTruthful' /\ SyncsTruthful'
<1> PICK s1 : s1 = served + 1
  OBVIOUS
<1>0. /\ DOMAIN ops = 1..Len(ops) /\ DOMAIN ops' = 1..Len(ops) /\ Len(ops) \in Nat
      /\ s1 \in 1..Len(ops) /\ served \in Nat /\ head \in Nat
  BY AnsweredFacts, Parts, LenProperties DEF TypeInv
<1>1. \A i \in 1..Len(ops) :
        /\ ops'[i].kind = ops[i].kind /\ ops'[i].outcome = ops[i].outcome
        /\ ops'[i].fate = IF i = s1 THEN f ELSE ops[i].fate
  BY AnsweredFacts
<1>2. FatesSound /\ OutcomesSound
  BY DEF WireInv, Answered
<1>3. \A i \in 1..Len(ops) : ops[i].outcome # "none" <=> i < head
  BY <1>0 DEF TypeInv, TypeOK, Settled
<1>4. ASSUME NEW i \in 1..Len(ops), ops[i].outcome \in {"done", "failed"}
      PROVE  i <= served
  <2>1. i < head
    BY <1>3, <1>4
  <2>2. i \in 1..(head - 1)
    BY <1>0, <2>1
  <2>3. ops[i].fate # "unread"
    BY <1>2, <1>4, <2>2 DEF OutcomesSound
  <2> QED
    BY <1>0, <1>2, <2>3 DEF FatesSound
<1>5. OutcomesTruthful'
  <2>1. ASSUME NEW i \in 1..Len(ops), ops[i].kind # "sync"
        PROVE  /\ ops[i].outcome = "done"    => ops'[i].fate = "done"
               /\ ops[i].outcome = "failed"  => ops'[i].fate = "failed"
               /\ ops[i].outcome = "aborted" => ops'[i].fate \in {"unread", "skipped"}
    <3>1. CASE i # s1
      BY <1>0, <1>1, <2>1, <3>1 DEF OutcomesTruthful
    <3>2. CASE i = s1
      <4>1. ~(i <= served)
        BY <1>0, <3>2
      <4>2. ops[i].outcome \notin {"done", "failed"}
        BY <1>4, <4>1
      <4>3. ops[i].outcome = "aborted" => s1 < head
        BY <1>3, <3>2
      <4>4. s1 < head => f = "skipped"
        BY AnsweredFacts
      <4> QED
        BY <1>1, <3>2, <4>2, <4>3, <4>4
    <3> QED
      BY <3>1, <3>2
  <2> QED
    BY <1>0, <1>1, <2>1 DEF OutcomesTruthful
<1>6. SyncsTruthful'
  <2>1. ASSUME NEW i \in 1..Len(ops), ops[i].kind = "sync", ops[i].outcome \in {"done", "failed"}
        PROVE  ops[i].outcome = "failed" <=> \E j \in Batch(i)' : ops'[j].fate = "failed"
    <3>1. i <= served
      BY <1>4, <2>1
    <3>2. \A j \in 1..i : j \in 1..Len(ops) /\ j # s1
      BY <1>0, <3>1
    <3>3. Batch(i)' = Batch(i)
      <4>1. \A j \in 1..i : \A k \in j..(i - 1) : ops'[k].kind = ops[k].kind
        <5>1. \A j \in 1..i : \A k \in j..(i - 1) : k \in 1..Len(ops)
          BY <1>0
        <5> QED
          BY <1>1, <5>1
      <4> QED
        BY <4>1 DEF Batch
    <3>4. \A j \in Batch(i) : ops'[j].fate = ops[j].fate
      BY <1>1, <3>2 DEF Batch
    <3> QED
      BY <1>0, <2>1, <3>3, <3>4 DEF SyncsTruthful
  <2> QED
    BY <1>0, <1>1, <2>1 DEF SyncsTruthful
<1> QED
  BY <1>5, <1>6

LEMMA ServeAnswered ==
  ASSUME TypeInv, WireInv, Serve
  PROVE  /\ \E f \in {"done", "failed", "skipped"}, rs \in Seq(ReplyType) : Answered(f, rs)
         /\ down' \in Seq(ReplyType) /\ out' \in Seq(ReplyType)
         /\ {skipping', copying'} \subseteq BOOLEAN /\ flushAt' \in 0..Len(ops)
<1> PICK s1 : s1 = served + 1
  OBVIOUS
<1> PICK op : op = ops[s1]
  OBVIOUS
<1>0. /\ state # "closed" /\ ~copying /\ served < Len(ops) /\ served' = s1
      /\ UNCHANGED <<head, error, state, failure>> /\ flushAt' \in {0, flushAt}
  BY DEF Serve
<1>1. s1 \in Nat /\ s1 \in 1..Len(ops) /\ op \in Operations
  <2>1. served + 1 \in 1..Len(ops)
    BY <1>0, Parts DEF TypeInv
  <2> QED
    BY <2>1, Parts DEF TypeInv
<1>2. {skipping, copying} \subseteq BOOLEAN /\ flushAt \in 0..Len(ops)
  BY DEF TypeInv, TypeOK
<1> DEFINE R(t) == [type |-> t, kind |-> op.kind, op |-> s1]
<1>3. \A t \in {"complete", "error", "copy", "ready"} : Reply(t, served') = R(t) /\ R(t) \in ReplyType
  BY <1>0, <1>1 DEF Reply, ReplyType, Operations
<1>4. flushAt' \in 0..Len(ops)
  BY <1>0, <1>2, Parts DEF TypeInv
<1>5. CASE op.kind # "sync" /\ skipping /\ Fate("skipped") /\ UNCHANGED <<skipping, copying, out, down>>
  <2>1. Replies' = Replies \o <<>> /\ <<>> \in Seq(ReplyType)
    BY <1>5, RepliesType, ConcatEmptySeq, EmptySeq DEF Replies
  <2>2. Answered("skipped", <<>>)
    BY <1>0, <1>5, <2>1 DEF Answered, Fate
  <2> QED
    BY <1>2, <1>4, <1>5, <2>1, <2>2 DEF TypeInv
<1>6. ASSUME op.kind # "sync", ~skipping, NEW f \in {"done", "failed"}, Fate(f),
             NEW t \in {"complete", "error", "copy"}, Send(<<R(t)>>) \/ Keep(R(t)),
             t = "complete" <=> f = "done", t = "copy" => op.kind = "execute",
             {skipping', copying'} \subseteq BOOLEAN, skipping' \/ copying' <=> f = "failed"
      PROVE  Answered(f, <<R(t)>>) /\ down' \in Seq(ReplyType) /\ out' \in Seq(ReplyType)
  <2>1. <<R(t)>> \in Seq(ReplyType) /\ R(t) \in ReplyType
    BY <1>3
  <2>2. Replies' = Replies \o <<R(t)>> /\ down' \in Seq(ReplyType) /\ out' \in Seq(ReplyType)
    BY <1>6, <2>1, RepliesSent
  <2>3. Len(<<R(t)>>) = 1 /\ <<R(t)>>[1] = R(t)
    OBVIOUS
  <2>4. /\ R(t).type = t /\ R(t).op = s1 /\ R(t).kind = op.kind
    OBVIOUS
  <2> HIDE DEF R
  <2>5. \A n \in 1..Len(<<R(t)>>) : n = 1 /\ <<R(t)>>[n] = R(t)
    BY <2>3
  <2>6. 1 \in 1..Len(<<R(t)>>)
    BY <2>3
  <2> QED
    BY <1>0, <1>6, <2>2, <2>4, <2>5, <2>6 DEF Answered, Fate
<1>7. CASE op.kind # "sync" /\ ~skipping /\ Fate("done") /\ UNCHANGED <<skipping, copying>>
           /\ (Send(<<R("complete")>>) \/ Keep(R("complete")))
  <2>1. ~(skipping' \/ copying')
    BY <1>0, <1>7
  <2>2. Answered("done", <<R("complete")>>) /\ down' \in Seq(ReplyType) /\ out' \in Seq(ReplyType)
    BY <1>2, <1>6, <1>7, <2>1
  <2>3. <<R("complete")>> \in Seq(ReplyType)
    BY <1>3
  <2>4. {skipping', copying'} \subseteq BOOLEAN
    BY <1>2, <1>7
  <2> HIDE DEF R
  <2> QED
    BY <1>4, <2>2, <2>3, <2>4
<1>8. CASE op.kind # "sync" /\ ~skipping /\ Fate("failed") /\ skipping' = TRUE
           /\ Send(<<R("error")>>) /\ UNCHANGED copying
  <2>1. Answered("failed", <<R("error")>>) /\ down' \in Seq(ReplyType) /\ out' \in Seq(ReplyType)
    BY <1>2, <1>6, <1>8
  <2>3. <<R("error")>> \in Seq(ReplyType)
    BY <1>3
  <2>4. {skipping', copying'} \subseteq BOOLEAN
    BY <1>2, <1>8
  <2> HIDE DEF R
  <2> QED
    BY <1>4, <2>1, <2>3, <2>4
<1>9. CASE op.kind = "execute" /\ ~skipping /\ Fate("failed") /\ copying' = TRUE
           /\ Send(<<R("copy")>>) /\ UNCHANGED skipping
  <2>1. Answered("failed", <<R("copy")>>) /\ down' \in Seq(ReplyType) /\ out' \in Seq(ReplyType)
    BY <1>2, <1>6, <1>9
  <2>3. <<R("copy")>> \in Seq(ReplyType)
    BY <1>3
  <2>4. {skipping', copying'} \subseteq BOOLEAN
    BY <1>2, <1>9
  <2> HIDE DEF R
  <2> QED
    BY <1>4, <2>1, <2>3, <2>4
<1>10. CASE op.kind = "sync" /\ Fate("done") /\ Send(<<R("ready")>>)
            /\ skipping' = FALSE /\ UNCHANGED copying
  <2>1. <<R("ready")>> \in Seq(ReplyType) /\ R("ready") \in ReplyType
    BY <1>3
  <2>2. Replies' = Replies \o <<R("ready")>> /\ down' \in Seq(ReplyType) /\ out' \in Seq(ReplyType)
    BY <1>10, <2>1, RepliesSent
  <2>3. R("ready").type = "ready" /\ R("ready").op = s1 /\ R("ready").kind = op.kind
    OBVIOUS
  <2>4. Len(<<R("ready")>>) = 1 /\ <<R("ready")>>[1] = R("ready")
    OBVIOUS
  <2> HIDE DEF R
  <2>5. \A n \in 1..Len(<<R("ready")>>) : n = 1 /\ <<R("ready")>>[n] = R("ready")
    BY <2>4
  <2>6. 1 \in 1..Len(<<R("ready")>>)
    BY <2>4
  <2>7. Answered("done", <<R("ready")>>)
    BY <1>0, <1>10, <2>2, <2>3, <2>5, <2>6 DEF Answered, Fate
  <2> QED
    BY <1>2, <1>4, <1>10, <2>1, <2>2, <2>7
<1>11. CASE op.kind = "sync" /\ ~skipping /\ Fate("failed") /\ Send(<<R("error"), R("ready")>>)
            /\ skipping' = FALSE /\ UNCHANGED copying
  <2> DEFINE rs == <<R("error"), R("ready")>>
  <2>1. rs \in Seq(ReplyType)
    BY <1>3
  <2>2. Replies' = Replies \o rs /\ down' \in Seq(ReplyType) /\ out' \in Seq(ReplyType)
    BY <1>11, <2>1, RepliesSent
  <2>3. /\ R("error").type = "error" /\ R("error").op = s1 /\ R("error").kind = op.kind
        /\ R("ready").type = "ready" /\ R("ready").op = s1 /\ R("ready").kind = op.kind
    OBVIOUS
  <2>4. Len(rs) = 2 /\ rs[1] = R("error") /\ rs[2] = R("ready")
    OBVIOUS
  <2> HIDE DEF R, rs
  <2>5. \A n \in 1..Len(rs) : n \in {1, 2}
    BY <2>4
  <2>6. 1 \in 1..Len(rs) /\ 2 \in 1..Len(rs)
    BY <2>4
  <2>7. \A n, m \in 1..Len(rs) : n < m => n = 1 /\ m = 2
    BY <2>5
  <2>8. Answered("failed", rs)
    BY <1>0, <1>11, <2>2, <2>3, <2>4, <2>5, <2>6, <2>7 DEF Answered, Fate
  <2> QED
    BY <1>2, <1>4, <1>11, <2>1, <2>2, <2>8
<1>12. \/ op.kind # "sync" /\ skipping /\ Fate("skipped") /\ UNCHANGED <<skipping, copying, out, down>>
       \/ op.kind # "sync" /\ ~skipping /\ Fate("done") /\ UNCHANGED <<skipping, copying>>
           /\ (Send(<<R("complete")>>) \/ Keep(R("complete")))
       \/ op.kind # "sync" /\ ~skipping /\ Fate("failed") /\ skipping' = TRUE
           /\ Send(<<R("error")>>) /\ UNCHANGED copying
       \/ op.kind = "execute" /\ ~skipping /\ Fate("failed") /\ copying' = TRUE
           /\ Send(<<R("copy")>>) /\ UNCHANGED skipping
       \/ op.kind = "sync" /\ Fate("done") /\ Send(<<R("ready")>>)
            /\ skipping' = FALSE /\ UNCHANGED copying
       \/ op.kind = "sync" /\ ~skipping /\ Fate("failed") /\ Send(<<R("error"), R("ready")>>)
            /\ skipping' = FALSE /\ UNCHANGED copying
  <2>1. /\ Reply("complete", served') = R("complete") /\ Reply("error", served') = R("error")
        /\ Reply("copy", served') = R("copy") /\ Reply("ready", served') = R("ready")
    BY <1>3
  <2> HIDE DEF R
  <2> QED
    BY <2>1 DEF Serve
<1> QED
  BY <1>5, <1>7, <1>8, <1>9, <1>10, <1>11, <1>12

-----------------------------------------------------------------------------
(* The connection takes a reply.                                           *)

LEMMA FirstReply ==
  ASSUME TypeInv, WireInv, state # "closed", Len(Replies) > 0, NEW d, d = Drain
  PROVE  /\ state = "in-extended"
         /\ d \in head..served /\ d \in 1..Len(ops) /\ served \in Nat /\ head \in Nat
         /\ Replies[1].op = d /\ Replies[1].kind = ops[d].kind
         /\ Replies[1].type \in {"error", "copy", "complete"} => ~error
         /\ error => ops[d].kind = "sync"
         /\ ~error => d = head /\ ~Broken(head - 1)
         /\ error => d = head \/ Broken(d - 1)
         /\ \A i \in head..(d - 1) : ops[i].kind # "sync" /\ ops[i].fate = "skipped" /\ Broken(i - 1)
         /\ \A n \in 2..Len(Replies) :
              \/ Replies[n].op > d
              \/ /\ Replies[n].op = d /\ ops[d].kind = "sync"
                 /\ Replies[1].type = "error" /\ Replies[n].type = "ready"
<1>0. /\ FatesSound /\ RepliesTrue /\ RepliesOrdered /\ RepliesComplete /\ ErrorSound /\ IdleSound
      /\ TypeOK
  BY DEF WireInv, TypeInv
<1>1. /\ Len(ops) \in Nat /\ head \in 1..(Len(ops) + 1) /\ head \in Nat /\ head - 1 \in Nat
      /\ served \in Nat /\ served <= Len(ops)
  BY <1>0, Parts
<1>2. Len(Replies) \in Nat /\ 1 \in 1..Len(Replies)
      /\ \A n \in 1..Len(Replies) : Replies[n] \in ReplyType /\ Replies[n].op \in Nat
  BY RepliesType DEF ReplyType
<1>3. /\ Replies[1].op \in head..served /\ Replies[1].kind = ops[Replies[1].op].kind
      /\ Replies[1].type = "complete" =>
           Replies[1].kind # "sync" /\ ops[Replies[1].op].fate = "done"
      /\ Replies[1].type = "ready"    => Replies[1].kind = "sync"
      /\ Replies[1].type \in {"error", "copy"} => ops[Replies[1].op].fate = "failed"
      /\ Replies[1].type = "copy" => Replies[1].kind = "execute"
  BY <1>0, <1>2 DEF RepliesTrue
<1>4. state = "in-extended"
  <2>1. state \in {"idle", "in-extended"}
    BY <1>0 DEF TypeOK
  <2>2. state # "idle"
    <3>1. Len(<<>>) = 0
      OBVIOUS
    <3> QED
      BY <1>0, <1>2, <3>1 DEF IdleSound
  <2> QED
    BY <2>1, <2>2
\* A reply for i means that the first one is for i or for an earlier operation.
<1>5. ASSUME NEW i, NEW types, HasReply(i, types), i \in Nat
      PROVE  Replies[1].op <= i
  <2>1. PICK n \in 1..Len(Replies) : Replies[n].op = i
    BY <1>5 DEF HasReply
  <2>2. n = 1 \/ 1 < n
    BY <1>2
  <2> QED
    BY <1>0, <1>2, <1>5, <2>1, <2>2 DEF RepliesOrdered
<1>6. \A i \in Nat : ops[i].kind = "sync" /\ i \in head..served => Replies[1].op <= i
  BY <1>0, <1>5 DEF RepliesComplete
<1> DEFINE First == /\ d \in head..served /\ d \in 1..Len(ops)
                    /\ Replies[1].op = d /\ Replies[1].kind = ops[d].kind
                    /\ Replies[1].type \in {"error", "copy", "complete"} => ~error
                    /\ error => ops[d].kind = "sync"
                    /\ ~error => d = head /\ ~Broken(head - 1)
                    /\ error => d = head \/ Broken(d - 1)
                    /\ \A i \in head..(d - 1) :
                         ops[i].kind # "sync" /\ ops[i].fate = "skipped" /\ Broken(i - 1)
<1>7. ASSUME ~error PROVE First
  <2>1. d = head /\ ~Broken(head - 1)
    BY <1>0, <1>7 DEF Drain, ErrorSound
  <2>2. head \in head..served /\ head \in 1..served
    BY <1>1, <1>3
  <2>3. ops[head].kind # "sync" => ops[head].fate # "skipped"
    BY <1>0, <2>1, <2>2 DEF FatesSound
  <2>4. ops[head].kind # "sync" => HasReply(head, {"complete", "error", "copy"})
    BY <1>0, <2>2, <2>3 DEF RepliesComplete
  <2>5. Replies[1].op <= head
    BY <1>1, <1>5, <1>6, <2>2, <2>4
  <2>6. Replies[1].op = head
    BY <1>1, <1>3, <2>5
  <2> QED
    BY <1>1, <1>3, <1>4, <1>7, <2>1, <2>2, <2>6
<1>8. ASSUME error PROVE First
  <2>1. d = NextSync(head)
    BY <1>8 DEF Drain
  <2>2. /\ d \in head..(Len(ops) + 1) /\ SyncFree(ops, head, d - 1)
        /\ d <= Len(ops) => ops[d].kind = "sync"
    BY <1>0, <1>1, <2>1, NextSyncIs
  <2>3. CASE FailedSync(head) /\ ~HasReply(head, {"error"})
    <3>1. head <= Len(ops) /\ ops[head].kind = "sync" /\ ops[head].fate = "failed"
      BY <2>3 DEF FailedSync
    <3>2. d = head
      <4>1. ~(head \in head..(d - 1))
        BY <2>2, <3>1 DEF SyncFree
      <4> QED
        BY <1>1, <2>2, <4>1
    <3>3. head \in head..served
      BY <1>1, <1>3
    <3>4. Replies[1].op = head
      BY <1>1, <1>3, <1>6, <3>1, <3>3
    <3>5. Replies[1].type # "error"
      BY <1>2, <2>3, <3>4 DEF HasReply
    <3>6. Replies[1].type \notin {"copy", "complete"}
      BY <1>3, <3>1, <3>4
    <3> QED
      BY <1>1, <1>3, <1>4, <1>8, <3>1, <3>2, <3>3, <3>4, <3>5, <3>6
  <2>4. CASE Broken(head - 1)
    <3>1. ASSUME NEW i \in head..d PROVE Broken(i - 1) /\ i - 1 \in Nat
      <4>1. /\ i - 1 \in Nat /\ head - 1 <= i - 1 /\ (head - 1) + 1 = head
            /\ \A k \in head..(i - 1) : k \in head..(d - 1)
        BY <1>1, <2>2
      <4>2. SyncFree(ops, (head - 1) + 1, i - 1)
        BY <2>2, <4>1 DEF SyncFree
      <4> QED
        BY <1>1, <2>4, <4>1, <4>2, BrokenOver DEF Broken
    <3>2. \A i \in head..(d - 1) : i <= served => ops[i].kind # "sync" /\ ops[i].fate = "skipped"
      <4>1. \A i \in head..(d - 1) : i <= served => i \in 1..served /\ i \in head..d
        BY <1>1, <2>2
      <4> QED
        BY <1>0, <2>2, <3>1, <4>1 DEF FatesSound, SyncFree
    <3>3. Replies[1].op >= d
      <4>1. CASE Replies[1].op \in head..(d - 1)
        <5>1. ops[Replies[1].op].fate = "skipped" /\ Replies[1].kind # "sync"
          BY <1>1, <1>3, <3>2, <4>1
        <5>2. Replies[1].type \in {"complete", "error", "copy", "ready"}
          BY <1>2 DEF ReplyType
        <5> QED
          BY <1>3, <5>1, <5>2
      <4> QED
        BY <1>1, <1>3, <2>2, <4>1
    <3>4. d \in head..served /\ d \in 1..served /\ d \in 1..Len(ops) /\ ops[d].kind = "sync"
      BY <1>1, <1>3, <2>2, <3>3
    <3>5. Replies[1].op = d
      BY <1>2, <1>6, <3>3, <3>4
    <3>6. Broken(d - 1)
      BY <3>1, <3>4
    <3>7. ops[d].fate # "failed"
      BY <1>0, <3>4, <3>6 DEF FatesSound
    <3>8. Replies[1].type \notin {"error", "copy", "complete"}
      BY <1>3, <3>4, <3>5, <3>7
    <3>9. \A i \in head..(d - 1) : ops[i].kind # "sync" /\ ops[i].fate = "skipped" /\ Broken(i - 1)
      <4>1. \A i \in head..(d - 1) : i <= served /\ i \in head..d
        BY <1>1, <3>4
      <4> QED
        BY <3>1, <3>2, <4>1
    <3> QED
      BY <1>1, <1>3, <1>4, <1>8, <3>4, <3>5, <3>6, <3>8, <3>9
  <2> QED
    BY <1>0, <1>8, <2>3, <2>4 DEF ErrorSound
<1>9. First /\ Replies[1].op = d /\ d \in Nat /\ Replies[1].kind = ops[d].kind
  BY <1>1, <1>3, <1>7, <1>8
<1>10. \A n \in 2..Len(Replies) :
         \/ Replies[n].op > d
         \/ /\ Replies[n].op = d /\ ops[d].kind = "sync"
            /\ Replies[1].type = "error" /\ Replies[n].type = "ready"
  <2>1. \A n \in 2..Len(Replies) : n \in 1..Len(Replies) /\ 1 < n
    BY <1>2
  <2> QED
    BY <1>0, <1>2, <1>9, <2>1 DEF RepliesOrdered
<1> QED
  BY <1>1, <1>4, <1>9, <1>10

LEMMA BatchBroken ==
  ASSUME NEW i \in Nat
  PROVE  (\E j \in Batch(i) : ops[j].fate = "failed")
           <=> (i > 0 /\ ops[i].fate = "failed") \/ Broken(i - 1)
<1>1. ASSUME NEW j \in Batch(i), ops[j].fate = "failed", j # i
      PROVE  Broken(i - 1)
  <2>1. j \in 1..(i - 1) /\ SyncFree(ops, j, i - 1)
    BY <1>1 DEF Batch, SyncFree
  <2> QED
    BY <1>1, <2>1 DEF Broken, BrokenIn
<1>2. ASSUME Broken(i - 1) PROVE \E j \in Batch(i) : ops[j].fate = "failed"
  <2>1. PICK j \in 1..(i - 1) : ops[j].fate = "failed" /\ SyncFree(ops, j, i - 1)
    BY <1>2 DEF Broken, BrokenIn
  <2>2. j \in Batch(i)
    BY <2>1 DEF Batch, SyncFree
  <2> QED
    BY <2>1, <2>2
<1>3. i > 0 => i \in Batch(i)
  BY DEF Batch
<1>4. \A j \in Batch(i) : i > 0
  BY DEF Batch
<1> QED
  BY <1>1, <1>2, <1>3, <1>4

\* The operations from head up to h are settled, as truthfully as those before them.
SettledTo(h) ==
  /\ state # "closed" /\ h \in head..(Len(ops) + 1) /\ head' = h
  /\ ops' \in Seq(Operations) /\ Len(ops') = Len(ops)
  /\ \A i \in 1..Len(ops) :
       /\ ops'[i].kind = ops[i].kind /\ ops'[i].by = ops[i].by /\ ops'[i].fate = ops[i].fate
       /\ i \notin head..(h - 1) => ops'[i].outcome = ops[i].outcome
  /\ \A i \in head..(h - 1) :
       /\ ops'[i].outcome \in {"done", "failed", "aborted"}
       /\ ops'[i].outcome = "done" =>
            ops[i].fate # "unread" /\ (ops[i].kind # "sync" => ops[i].fate = "done")
       /\ ops'[i].outcome = "failed" =>
            ops[i].fate # "unread" /\ (ops[i].kind # "sync" => ops[i].fate = "failed")
       /\ ops'[i].outcome = "aborted" =>
            ops[i].kind # "sync" /\ Broken(i - 1) /\ ops[i].fate \in {"unread", "skipped"}
       /\ ops[i].kind = "sync" =>
            (ops'[i].outcome = "failed" <=> ops[i].fate = "failed" \/ Broken(i - 1))
  /\ UNCHANGED <<served, skipping, copying, flushAt, out, failure, session>>

LEMMA SettledFacts ==
  ASSUME TypeInv, WireInv, OutcomesTruthful, SyncsTruthful, NEW h, SettledTo(h)
  PROVE  /\ \A i \in 0..Len(ops) : Broken(i)' <=> Broken(i)
         /\ FatesSound' /\ OutcomesSound' /\ OutcomesTruthful' /\ SyncsTruthful'
         /\ \A i \in 1..Len(ops') : ops'[i].outcome # "none" <=> i < head'
<1>0. /\ Len(ops) \in Nat /\ head \in 1..(Len(ops) + 1) /\ head \in Nat /\ h \in Nat
      /\ served \in Nat /\ served <= Len(ops) /\ h <= Len(ops) + 1 /\ head <= h
      /\ Len(ops') = Len(ops) /\ DOMAIN ops = 1..Len(ops) /\ DOMAIN ops' = 1..Len(ops)
      /\ head' = h /\ served' = served /\ (skipping' <=> skipping) /\ (copying' <=> copying)
  BY Parts, LenProperties DEF TypeInv, SettledTo
<1>1. \A i \in 1..Len(ops) :
        /\ ops'[i].kind = ops[i].kind /\ ops'[i].by = ops[i].by /\ ops'[i].fate = ops[i].fate
        /\ i \notin head..(h - 1) => ops'[i].outcome = ops[i].outcome
  BY DEF SettledTo
<1>2. \A i \in head..(h - 1) :
        /\ ops'[i].outcome \in {"done", "failed", "aborted"}
        /\ ops'[i].outcome = "done" =>
             ops[i].fate # "unread" /\ (ops[i].kind # "sync" => ops[i].fate = "done")
        /\ ops'[i].outcome = "failed" =>
             ops[i].fate # "unread" /\ (ops[i].kind # "sync" => ops[i].fate = "failed")
        /\ ops'[i].outcome = "aborted" =>
             ops[i].kind # "sync" /\ Broken(i - 1) /\ ops[i].fate \in {"unread", "skipped"}
        /\ ops[i].kind = "sync" =>
             (ops'[i].outcome = "failed" <=> ops[i].fate = "failed" \/ Broken(i - 1))
  BY DEF SettledTo
<1>3. FatesSound /\ OutcomesSound
  BY DEF WireInv, SettledTo
<1>4. ASSUME NEW i \in 0..Len(ops) PROVE Broken(i)' <=> Broken(i)
  <2>1. i \in Nat /\ \A k \in 1..i : k \in 1..Len(ops)
    BY <1>0
  <2>2. BrokenIn(ops', i) <=> BrokenIn(ops, i)
    BY <1>1, <2>1, BrokenSame
  <2> QED
    BY <2>2 DEF Broken
<1>5. FatesSound'
  <2>1. \A i \in 1..served : i \in 1..Len(ops) /\ i - 1 \in 0..Len(ops)
    BY <1>0
  <2>2. Broken(served)' <=> Broken(served)
    <3>1. BrokenIn(ops', served) <=> BrokenIn(ops, served)
      BY <1>0, <1>4 DEF Broken
    <3> QED
      BY <1>0, <3>1 DEF Broken
  <2> QED
    BY <1>0, <1>1, <1>3, <1>4, <2>1, <2>2 DEF FatesSound
<1>6. OutcomesSound'
  <2>1. ASSUME NEW i \in 1..(h - 1)
        PROVE  /\ ops'[i].outcome # "lost"
               /\ ops'[i].outcome \in {"done", "failed"} => ops'[i].fate # "unread"
               /\ ops'[i].outcome = "aborted" => ops'[i].kind # "sync" /\ Broken(i - 1)'
    <3>1. i \in 1..Len(ops) /\ i - 1 \in 0..Len(ops) /\ (i \in head..(h - 1) \/ i \in 1..(head - 1))
      BY <1>0
    <3>2. CASE i \in head..(h - 1)
      BY <1>1, <1>2, <1>4, <3>1, <3>2
    <3>3. CASE i \in 1..(head - 1)
      <4>1. i \notin head..(h - 1)
        BY <1>0, <3>3
      <4> QED
        BY <1>1, <1>3, <1>4, <3>1, <3>3, <4>1 DEF OutcomesSound
    <3> QED
      BY <3>1, <3>2, <3>3
  <2> QED
    BY <1>0, <2>1 DEF OutcomesSound
<1>7. OutcomesTruthful'
  <2>1. ASSUME NEW i \in 1..Len(ops), ops[i].kind # "sync"
        PROVE  /\ ops'[i].outcome = "done"    => ops[i].fate = "done"
               /\ ops'[i].outcome = "failed"  => ops[i].fate = "failed"
               /\ ops'[i].outcome = "aborted" => ops[i].fate \in {"unread", "skipped"}
    BY <1>0, <1>1, <1>2, <2>1 DEF OutcomesTruthful
  <2> QED
    BY <1>0, <1>1, <2>1 DEF OutcomesTruthful
<1>8. SyncsTruthful'
  <2>1. ASSUME NEW i \in 1..Len(ops), ops[i].kind = "sync", ops'[i].outcome \in {"done", "failed"}
        PROVE  ops'[i].outcome = "failed" <=> \E j \in Batch(i)' : ops'[j].fate = "failed"
    <3>1. Batch(i)' = Batch(i)
      <4>1. \A j \in 1..i : \A k \in j..(i - 1) : ops'[k].kind = ops[k].kind
        <5>1. \A j \in 1..i : \A k \in j..(i - 1) : k \in 1..Len(ops)
          BY <1>0
        <5> QED
          BY <1>1, <5>1
      <4> QED
        BY <4>1 DEF Batch
    <3>2. \A j \in Batch(i) : ops'[j].fate = ops[j].fate
      <4>1. \A j \in 1..i : j \in 1..Len(ops)
        BY <1>0
      <4> QED
        BY <1>1, <4>1 DEF Batch
    <3>3. ops'[i].outcome = "failed" <=> \E j \in Batch(i) : ops[j].fate = "failed"
      <4>1. CASE i \in head..(h - 1)
        <5>1. i \in Nat /\ i > 0
          BY <1>0
        <5> QED
          BY <1>2, <2>1, <4>1, <5>1, BatchBroken
      <4>2. CASE i \notin head..(h - 1)
        BY <1>0, <1>1, <2>1, <4>2 DEF SyncsTruthful
      <4> QED
        BY <4>1, <4>2
    <3> QED
      BY <3>1, <3>2, <3>3
  <2> QED
    BY <1>0, <1>1, <2>1 DEF SyncsTruthful
<1>9. \A i \in 1..Len(ops') : ops'[i].outcome # "none" <=> i < head'
  <2>1. \A i \in 1..Len(ops) : ops[i].outcome # "none" <=> i < head
    BY <1>0 DEF TypeInv, TypeOK, Settled
  <2>2. \A i \in head..(h - 1) : ops'[i].outcome # "none"
    BY <1>2
  <2> QED
    BY <1>0, <1>1, <2>1, <2>2
<1> QED
  BY <1>4, <1>5, <1>6, <1>7, <1>8, <1>9

LEMMA RestOfReplies ==
  ASSUME TypeInv, RepliesOrdered, down # <<>>, down' = Tail(down), out' = out
  PROVE  /\ RepliesOrdered'
         /\ \A i, types : HasReply(i, types) =>
              HasReply(i, types)' \/ (Replies[1].op = i /\ Replies[1].type \in types)
<1>0. /\ Len(Replies) \in Nat /\ Len(Replies) > 0 /\ Len(Replies') = Len(Replies) - 1
      /\ \A n \in 1..Len(Replies') : Replies'[n] = Replies[n + 1]
  BY ReplyTaken, RepliesType
<1>1. RepliesOrdered'
  <2>1. \A n, m \in 1..Len(Replies') :
          n < m => n + 1 \in 1..Len(Replies) /\ m + 1 \in 1..Len(Replies) /\ n + 1 < m + 1
    BY <1>0
  <2>2. ASSUME NEW n \in 1..Len(Replies'), NEW m \in 1..Len(Replies'), n < m
        PROVE  \/ Replies'[n].op < Replies'[m].op
               \/ /\ Replies'[n].op = Replies'[m].op /\ Replies'[n].kind = "sync"
                  /\ Replies'[n].type = "error" /\ Replies'[m].type = "ready"
    <3> PICK a \in 1..Len(Replies), b \in 1..Len(Replies) : a = n + 1 /\ b = m + 1 /\ a < b
      BY <2>1, <2>2
    <3>1. Replies'[n] = Replies[a] /\ Replies'[m] = Replies[b]
      BY <1>0
    <3> QED
      BY <3>1 DEF RepliesOrdered
  <2> QED
    BY <2>2 DEF RepliesOrdered
<1>2. ASSUME NEW i, NEW types, HasReply(i, types), ~(Replies[1].op = i /\ Replies[1].type \in types)
      PROVE  HasReply(i, types)'
  <2>1. PICK n \in 1..Len(Replies) : Replies[n].op = i /\ Replies[n].type \in types
    BY <1>2 DEF HasReply
  <2> PICK m : m = n - 1
    OBVIOUS
  <2>2. m \in 1..Len(Replies') /\ Replies'[m] = Replies[n]
    <3>1. n # 1
      BY <1>2, <2>1
    <3>2. m \in 1..Len(Replies') /\ m + 1 = n
      BY <1>0, <3>1
    <3> QED
      BY <1>0, <3>2
  <2> QED
    BY <2>1, <2>2 DEF HasReply
<1> QED
  BY <1>1, <1>2

LEMMA ErrorSettles ==
  ASSUME TypeInv, WireInv, ReceiveError, NEW h, h = CascadeEnd
  PROVE  /\ SettledTo(h)
         /\ h = head => FailedSync(head) /\ head \in 1..Len(ops)
         /\ h # head => ops[head].kind # "sync" /\ Broken(h - 1)
         /\ \A i \in (head + 1)..(h - 1) : Broken(i - 1)
         /\ head <= served /\ Replies[1].op = head /\ ~error
<1>0. /\ state # "closed" /\ down # <<>> /\ Head(down).type = "error" /\ state = "in-extended"
      /\ down' = Tail(down) /\ out' = out /\ head' = h
  BY DEF ReceiveError, server
<1>1. Len(Replies) > 0 /\ Head(down) = Replies[1]
  BY <1>0, ReplyTaken
<1> PICK d : d = Drain
  OBVIOUS
<1>2. /\ d \in head..served /\ ~error /\ d = head /\ Replies[1].op = d /\ head \in 1..Len(ops)
      /\ ~Broken(head - 1) /\ served \in Nat /\ head \in Nat
  BY <1>0, <1>1, FirstReply
<1>3. /\ Len(ops) \in Nat /\ served <= Len(ops) /\ DOMAIN ops = 1..Len(ops)
      /\ ops \in [1..Len(ops) -> Operations] /\ \A i \in 1..Len(ops) : ops[i] \in Operations
  BY Parts DEF TypeInv
<1>4. FatesSound /\ RepliesTrue /\ TypeOK
  BY <1>0 DEF WireInv, TypeInv
<1>5. ops[head].fate = "failed" /\ ops[head].fate # "unread"
  <2>1. 1 \in 1..Len(Replies)
    BY <1>1, RepliesType
  <2> QED
    BY <1>0, <1>1, <1>2, <1>4, <2>1 DEF RepliesTrue
<1>6. /\ h \in head..(Len(ops) + 1) /\ SyncFree(ops, head, h - 1)
      /\ h <= Len(ops) => ops[h].kind = "sync"
  BY <1>2, <1>4, NextSyncIs DEF CascadeEnd
<1>7. h \in Nat /\ \A i \in head..(h - 1) : i \in 1..Len(ops) /\ ops[i].kind # "sync"
  BY <1>2, <1>3, <1>6 DEF SyncFree
<1>8. \A i \in (head + 1)..h : Broken(i - 1)
  <2>1. ASSUME NEW i \in (head + 1)..h PROVE Broken(i - 1)
    <3>1. head \in 1..(i - 1) /\ \A k \in head..(i - 1) : k \in head..(h - 1)
      BY <1>2, <1>6
    <3> QED
      BY <1>5, <1>6, <3>1 DEF Broken, BrokenIn, SyncFree
  <2> QED
    BY <2>1
<1>9. \A i \in (head + 1)..(h - 1) : Broken(i - 1) /\ ops[i].fate \in {"unread", "skipped"}
  <2>1. ASSUME NEW i \in (head + 1)..(h - 1) PROVE Broken(i - 1) /\ ops[i].fate \in {"unread", "skipped"}
    <3>1. i \in (head + 1)..h /\ i \in head..(h - 1)
      BY <1>2, <1>7
    <3>2. CASE i <= served
      <4>1. i \in 1..served
        BY <1>2, <3>2
      <4> QED
        BY <1>4, <1>7, <1>8, <3>1, <4>1 DEF FatesSound
    <3>3. CASE i > served
      BY <1>4, <1>7, <1>8, <3>1, <3>3 DEF FatesSound
    <3> QED
      BY <1>2, <3>1, <3>2, <3>3
  <2> QED
    BY <2>1
<1> DEFINE X(i) == IF i = head THEN "failed" ELSE "aborted"
           G(i) == IF i \in head..(h - 1) THEN [ops[i] EXCEPT !.outcome = X(i)] ELSE ops[i]
<1>10. ops' = [i \in 1..Len(ops) |-> G(i)]
  BY <1>3 DEF ReceiveError
<1>11. \A i \in 1..Len(ops) : G(i) \in Operations
  <2>1. ASSUME NEW i \in 1..Len(ops) PROVE [ops[i] EXCEPT !.outcome = X(i)] \in Operations
    BY <1>3 DEF Operations
  <2> QED
    BY <1>3, <2>1
<1>12. \A i \in 1..Len(ops) :
         /\ G(i).kind = ops[i].kind /\ G(i).by = ops[i].by /\ G(i).fate = ops[i].fate
         /\ i \notin head..(h - 1) => G(i) = ops[i]
         /\ i \in head..(h - 1) => G(i).outcome = X(i)
  BY <1>3 DEF Operations
<1>13. \A i \in 1..Len(ops) : ops'[i] = G(i)
  BY <1>10
<1>14. ops' \in Seq(Operations) /\ Len(ops') = Len(ops)
  <2>1. ops' \in [1..Len(ops) -> Operations]
    <3> HIDE DEF G
    <3> QED
      BY <1>10, <1>11
  <2> QED
    BY <1>3, <2>1, Mapped
<1> HIDE DEF G
<1>15. \A i \in head..(h - 1) : ops'[i].outcome = X(i) /\ (i = head \/ i \in (head + 1)..(h - 1))
  BY <1>2, <1>7, <1>12, <1>13
<1>16. SettledTo(h)
  <2>1. \A i \in head..(h - 1) :
          /\ ops'[i].outcome \in {"done", "failed", "aborted"}
          /\ ops'[i].outcome = "done" =>
               ops[i].fate # "unread" /\ (ops[i].kind # "sync" => ops[i].fate = "done")
          /\ ops'[i].outcome = "failed" =>
               ops[i].fate # "unread" /\ (ops[i].kind # "sync" => ops[i].fate = "failed")
          /\ ops'[i].outcome = "aborted" =>
               ops[i].kind # "sync" /\ Broken(i - 1) /\ ops[i].fate \in {"unread", "skipped"}
          /\ ops[i].kind = "sync" =>
               (ops'[i].outcome = "failed" <=> ops[i].fate = "failed" \/ Broken(i - 1))
    BY <1>5, <1>7, <1>9, <1>15
  <2>2. UNCHANGED <<served, skipping, copying, flushAt, out, failure, session>>
    BY DEF ReceiveError, server
  <2> QED
    BY <1>0, <1>6, <1>12, <1>13, <1>14, <2>1, <2>2 DEF SettledTo
<1>17. h = head => FailedSync(head)
  BY <1>2, <1>3, <1>5, <1>6 DEF FailedSync
<1>18. h # head => ops[head].kind # "sync" /\ Broken(h - 1)
  <2>1. h # head => head \in head..(h - 1) /\ h \in (head + 1)..h
    BY <1>2, <1>6
  <2> QED
    BY <1>7, <1>8, <2>1
<1> QED
  BY <1>2, <1>9, <1>16, <1>17, <1>18

LEMMA ErrorWire ==
  ASSUME TypeInv, WireInv, OutcomesTruthful, SyncsTruthful, ReceiveError
  PROVE  WireInv'
<1> PICK h : h = CascadeEnd
  OBVIOUS
<1>0. /\ state # "closed" /\ down # <<>> /\ Head(down).type = "error" /\ state = "in-extended"
      /\ down' = Tail(down) /\ out' = out /\ head' = h /\ error' = TRUE /\ state' = state
      /\ served' = served
  BY DEF ReceiveError, server
<1>1. /\ FatesSound /\ RepliesTrue /\ RepliesOrdered /\ RepliesComplete
  BY <1>0 DEF WireInv
<1>2. /\ SettledTo(h)
      /\ h = head => FailedSync(head) /\ head \in 1..Len(ops)
      /\ h # head => ops[head].kind # "sync" /\ Broken(h - 1)
      /\ \A i \in (head + 1)..(h - 1) : Broken(i - 1)
      /\ head <= served /\ Replies[1].op = head /\ ~error
  BY ErrorSettles
<1>3. /\ Len(ops) \in Nat /\ head \in Nat /\ head >= 1 /\ served \in Nat /\ served <= Len(ops)
      /\ h \in Nat /\ head <= h /\ h <= Len(ops) + 1 /\ Len(ops') = Len(ops)
      /\ \A i \in 1..Len(ops) : ops'[i].kind = ops[i].kind /\ ops'[i].fate = ops[i].fate
  <2>1. /\ Len(ops) \in Nat /\ head \in Nat /\ head >= 1 /\ served \in Nat /\ served <= Len(ops)
    BY Parts DEF TypeInv
  <2>2. h \in head..(Len(ops) + 1) /\ Len(ops') = Len(ops)
    BY <1>2 DEF SettledTo
  <2>3. \A i \in 1..Len(ops) : ops'[i].kind = ops[i].kind /\ ops'[i].fate = ops[i].fate
    BY <1>2 DEF SettledTo
  <2> QED
    BY <2>1, <2>2, <2>3
<1>4. FatesSound' /\ OutcomesSound' /\ \A i \in 0..Len(ops) : Broken(i)' <=> Broken(i)
  BY <1>2, SettledFacts
<1>5. /\ Len(Replies) > 0 /\ Head(down) = Replies[1] /\ Len(Replies') = Len(Replies) - 1
      /\ \A n \in 1..Len(Replies') : Replies'[n] = Replies[n + 1]
      /\ Len(Replies) \in Nat
  BY <1>0, ReplyTaken, RepliesType
<1>6. \A n \in 1..Len(Replies') :
        \/ Replies'[n].op > head
        \/ Replies'[n].op = head /\ ops[head].kind = "sync" /\ Replies'[n].type = "ready"
  <2> PICK d : d = Drain
    OBVIOUS
  <2>1. /\ d = head
        /\ \A n \in 2..Len(Replies) :
              \/ Replies[n].op > d
              \/ /\ Replies[n].op = d /\ ops[d].kind = "sync"
                 /\ Replies[1].type = "error" /\ Replies[n].type = "ready"
    BY <1>0, <1>2, <1>5, FirstReply
  <2>2. \A n \in 1..Len(Replies') : n + 1 \in 2..Len(Replies)
    BY <1>5
  <2> QED
    BY <1>5, <2>1, <2>2
<1>7. RepliesTrue'
  <2>1. ASSUME NEW n \in 1..Len(Replies')
        PROVE  /\ Replies'[n].op \in h..served
               /\ Replies'[n].kind = ops'[Replies'[n].op].kind
               /\ Replies'[n].type = "complete" =>
                    Replies'[n].kind # "sync" /\ ops'[Replies'[n].op].fate = "done"
               /\ Replies'[n].type = "ready" => Replies'[n].kind = "sync"
               /\ Replies'[n].type \in {"error", "copy"} => ops'[Replies'[n].op].fate = "failed"
               /\ Replies'[n].type = "copy" => Replies'[n].kind = "execute"
    <3> PICK r : r = Replies'[n]
      OBVIOUS
    <3>1. n + 1 \in 1..Len(Replies) /\ r = Replies[n + 1]
      BY <1>5
    <3>2. /\ r.op \in head..served /\ r.kind = ops[r.op].kind
          /\ r.type = "complete" => r.kind # "sync" /\ ops[r.op].fate = "done"
          /\ r.type = "ready"    => r.kind = "sync"
          /\ r.type \in {"error", "copy"} => ops[r.op].fate = "failed"
          /\ r.type = "copy" => r.kind = "execute"
      BY <1>1, <3>1 DEF RepliesTrue
    <3>3. r.type \in {"complete", "error", "copy", "ready"}
      BY <3>1, RepliesType DEF ReplyType
    <3>4. r.op >= h
      <4>1. CASE r.op = head
        <5>1. ops[head].kind = "sync"
          BY <1>3, <1>6, <4>1
        <5> QED
          BY <1>2, <4>1, <5>1
      <4>2. CASE r.op \in (head + 1)..(h - 1)
        <5>1. Broken(r.op - 1) /\ r.op \in 1..served
          BY <1>2, <1>3, <3>2, <4>2
        <5>2. ops[r.op].fate = "skipped" \/ (ops[r.op].kind = "sync" /\ ops[r.op].fate # "failed")
          BY <1>1, <5>1 DEF FatesSound
        <5>3. ops[r.op].kind # "sync"
          <6>1. SyncFree(ops, head, h - 1)
            BY <1>2, <1>3, NextSyncIs DEF CascadeEnd, TypeInv
          <6>2. r.op \in head..(h - 1)
            BY <1>3, <4>2
          <6> QED
            BY <6>1, <6>2 DEF SyncFree
        <5> QED
          BY <3>2, <3>3, <5>2, <5>3
      <4> QED
        BY <1>3, <3>2, <4>1, <4>2
    <3>5. r.op \in 1..Len(ops)
      BY <1>3, <3>2
    <3> QED
      BY <1>3, <3>2, <3>4, <3>5
  <2> QED
    BY <1>0, <2>1 DEF RepliesTrue
<1>8. /\ RepliesOrdered'
      /\ \A i, types : HasReply(i, types) =>
           HasReply(i, types)' \/ (Replies[1].op = i /\ Replies[1].type \in types)
  BY <1>0, <1>1, RestOfReplies
<1>9. RepliesComplete'
  <2>1. ASSUME NEW i \in h..served
        PROVE  IF ops'[i].kind = "sync"
                 THEN /\ HasReply(i, {"ready"})'
                      /\ ops'[i].fate = "failed" => HasReply(i, {"error"})' \/ i = h
                 ELSE ops'[i].fate # "skipped" => HasReply(i, {"complete", "error", "copy"})'
    <3>1. i \in head..served /\ i \in 1..Len(ops) /\ (i = head => h = head)
      BY <1>3
    <3>2. IF ops[i].kind = "sync"
            THEN /\ HasReply(i, {"ready"})
                 /\ ops[i].fate = "failed" => HasReply(i, {"error"}) \/ (error /\ i = head)
            ELSE ops[i].fate # "skipped" => HasReply(i, {"complete", "error", "copy"})
      BY <1>1, <3>1 DEF RepliesComplete
    <3>3. CASE i = head
      <4>1. h = head /\ ops[i].kind = "sync"
        BY <1>2, <3>1, <3>3 DEF FailedSync
      <4>2. HasReply(i, {"ready"})'
        BY <1>0, <1>5, <1>8, <3>2, <4>1
      <4> QED
        BY <1>3, <3>1, <3>3, <4>1, <4>2
    <3>4. CASE i # head
      <4>1. \A types : HasReply(i, types) => HasReply(i, types)'
        BY <1>2, <1>8, <3>4
      <4> QED
        BY <1>2, <1>3, <3>1, <3>2, <4>1
    <3> QED
      BY <3>3, <3>4
  <2> QED
    BY <1>0, <2>1 DEF RepliesComplete
<1>10. ErrorSound'
  <2>1. CASE h = head
    <3>1. FailedSync(head)'
      BY <1>0, <1>2, <1>3, <2>1 DEF FailedSync
    <3>2. ~HasReply(head, {"error"})'
      <4>1. \A n \in 1..Len(Replies') : Replies'[n].op = head => Replies'[n].type # "error"
        BY <1>3, <1>6
      <4> QED
        BY <1>0, <2>1, <4>1 DEF HasReply
    <3> QED
      BY <1>0, <3>1, <3>2 DEF ErrorSound
  <2>2. CASE h # head
    <3>1. BrokenIn(ops', h - 1)
      <4>1. h - 1 \in 0..Len(ops) /\ Broken(h - 1)
        BY <1>2, <1>3, <2>2
      <4> QED
        BY <1>4, <4>1 DEF Broken
    <3> QED
      BY <1>0, <3>1 DEF ErrorSound, Broken
  <2> QED
    BY <2>1, <2>2
<1>11. IdleSound'
  BY <1>0 DEF IdleSound
<1> QED
  BY <1>4, <1>7, <1>8, <1>9, <1>10, <1>11 DEF WireInv

LEMMA ReplyExpected ==
  ASSUME TypeInv, WireInv, ReceiveReply
  PROVE  /\ TakeReply /\ state = "in-extended" /\ Len(Replies) > 0 /\ Head(down) = Replies[1]
         /\ Replies[1].type \in {"complete", "ready"}
<1>0. down # <<>> /\ state # "closed" /\ (state = "idle" \/ Head(down).type \in {"complete", "ready"})
  BY DEF ReceiveReply
<1>1. down \in Seq(ReplyType) /\ out \in Seq(ReplyType)
  BY DEF TypeInv
<1>2. Len(Replies) > 0 /\ Head(down) = Replies[1]
  <2>1. Len(down) > 0 /\ Len(down) \in Nat /\ Len(out) \in Nat /\ Head(down) = down[1]
    BY <1>0, <1>1, EmptySeq, LenProperties, HeadTailProperties
  <2>2. Len(Replies) = Len(down) + Len(out) /\ Replies[1] = down[1]
    BY <1>1, <2>1, ConcatProperties DEF Replies
  <2> QED
    BY <2>1, <2>2
<1> PICK d : d = Drain
  OBVIOUS
<1>3. state = "in-extended" /\ d \in 1..Len(ops) /\ Replies[1].kind = ops[d].kind
  BY <1>0, <1>2, FirstReply
<1>4. Expected
  BY <1>2, <1>3 DEF Expected
<1> QED
  BY <1>0, <1>2, <1>3, <1>4 DEF ReceiveReply

LEMMA ReplySettles ==
  ASSUME TypeInv, WireInv, ReceiveReply, NEW d, d = Drain
  PROVE  SettledTo(d + 1)
<1>0. /\ TakeReply /\ state = "in-extended" /\ Len(Replies) > 0 /\ Head(down) = Replies[1]
      /\ Replies[1].type \in {"complete", "ready"}
  BY ReplyExpected
<1>1. /\ d \in head..served /\ d \in 1..Len(ops) /\ served \in Nat /\ head \in Nat
      /\ Replies[1].op = d /\ Replies[1].kind = ops[d].kind
      /\ Replies[1].type = "complete" => ~error
      /\ error => ops[d].kind = "sync"
      /\ ~error => d = head /\ ~Broken(head - 1)
      /\ error => d = head \/ Broken(d - 1)
      /\ \A i \in head..(d - 1) : ops[i].kind # "sync" /\ ops[i].fate = "skipped" /\ Broken(i - 1)
      /\ \A n \in 2..Len(Replies) : Replies[n].op > d
  BY <1>0, FirstReply
<1>2. /\ FatesSound /\ RepliesTrue /\ RepliesComplete /\ ErrorSound /\ TypeOK
  BY <1>0 DEF WireInv, TypeInv
<1>3. /\ Len(ops) \in Nat /\ served <= Len(ops) /\ DOMAIN ops = 1..Len(ops)
      /\ \A i \in 1..Len(ops) : ops[i] \in Operations
  BY Parts DEF TypeInv
<1>4. /\ Replies[1].type = "complete" => ops[d].kind # "sync" /\ ops[d].fate = "done"
      /\ Replies[1].type = "ready" => ops[d].kind = "sync"
  <2>1. 1 \in 1..Len(Replies)
    BY <1>0, RepliesType
  <2> QED
    BY <1>1, <1>2, <2>1 DEF RepliesTrue
<1>5. ops[d].fate # "unread"
  BY <1>1, <1>2, <1>3 DEF FatesSound
\* A Sync is rejected when its batch has failed.
<1>6. Replies[1].type = "ready" => (error <=> ops[d].fate = "failed" \/ Broken(d - 1))
  <2>1. ASSUME Replies[1].type = "ready", error PROVE ops[d].fate = "failed" \/ Broken(d - 1)
    <3>1. CASE d = head
      BY <1>1, <1>2, <2>1, <3>1 DEF ErrorSound, FailedSync
    <3>2. CASE d # head
      BY <1>1, <2>1, <3>2
    <3> QED
      BY <3>1, <3>2
  <2>2. ASSUME Replies[1].type = "ready", ~error PROVE ops[d].fate # "failed" /\ ~Broken(d - 1)
    <3>1. d = head /\ ~Broken(d - 1) /\ ops[d].kind = "sync"
      BY <1>1, <1>4, <2>2
    <3>2. ops[d].fate = "failed" => HasReply(d, {"error"})
      BY <1>1, <1>2, <2>2, <3>1 DEF RepliesComplete
    <3>3. ~HasReply(d, {"error"})
      <4>1. ASSUME NEW n \in 1..Len(Replies), Replies[n].op = d, Replies[n].type = "error"
            PROVE  FALSE
        <5>1. n = 1 \/ n \in 2..Len(Replies)
          BY RepliesType
        <5> QED
          BY <1>1, <2>2, <4>1, <5>1
      <4> QED
        BY <4>1 DEF HasReply
    <3> QED
      BY <3>1, <3>2, <3>3
  <2> QED
    BY <2>1, <2>2
<1> PICK x : x = IF Replies[1].type = "complete" THEN "done" ELSE IF error THEN "failed" ELSE "done"
  OBVIOUS
<1>7. x \in {"done", "failed"} /\ (Replies[1].type = "complete" => x = "done")
      /\ (Replies[1].type = "ready" => (x = "failed" <=> error))
  OBVIOUS
<1> DEFINE G(i) == IF i \in head..(d - 1) THEN [ops[i] EXCEPT !.outcome = "aborted"] ELSE ops[i]
<1>8. Drained = [i \in 1..Len(ops) |-> G(i)]
  BY <1>3 DEF Drained
<1>9. \A i \in 1..Len(ops) :
        /\ G(i) \in Operations
        /\ G(i).kind = ops[i].kind /\ G(i).by = ops[i].by /\ G(i).fate = ops[i].fate
        /\ i \notin head..(d - 1) => G(i) = ops[i]
        /\ i \in head..(d - 1) => G(i).outcome = "aborted"
  <2>1. ASSUME NEW i \in 1..Len(ops) PROVE [ops[i] EXCEPT !.outcome = "aborted"] \in Operations
    BY <1>3 DEF Operations
  <2> QED
    BY <1>3, <2>1 DEF Operations
<1> HIDE DEF G
<1>10. ops' = [Drained EXCEPT ![d] = [G(d) EXCEPT !.outcome = x]]
  <2>1. ops' = [Drained EXCEPT ![d].outcome = x]
    BY <1>0 DEF TakeReply
  <2>2. Drained[d] = G(d)
    BY <1>1, <1>8
  <2> QED
    BY <2>1, <2>2
<1>11. [G(d) EXCEPT !.outcome = x] \in Operations
  BY <1>1, <1>7, <1>9 DEF Operations
<1>12. ops' \in [1..Len(ops) -> Operations]
  <2>1. Drained \in [1..Len(ops) -> Operations]
    BY <1>8, <1>9
  <2> QED
    BY <1>1, <1>10, <1>11, <2>1
<1>13. ops' \in Seq(Operations) /\ Len(ops') = Len(ops)
  BY <1>3, <1>12, Mapped
<1>14. \A i \in 1..Len(ops) :
         /\ ops'[i].kind = ops[i].kind /\ ops'[i].by = ops[i].by /\ ops'[i].fate = ops[i].fate
         /\ i = d => ops'[i].outcome = x
         /\ i # d => ops'[i] = G(i)
  <2>1. /\ [G(d) EXCEPT !.outcome = x].kind = G(d).kind /\ [G(d) EXCEPT !.outcome = x].by = G(d).by
        /\ [G(d) EXCEPT !.outcome = x].fate = G(d).fate /\ [G(d) EXCEPT !.outcome = x].outcome = x
    BY <1>1, <1>9 DEF Operations
  <2>2. \A i \in 1..Len(ops) :
          ops'[i] = IF i = d THEN [G(d) EXCEPT !.outcome = x] ELSE G(i)
    BY <1>8, <1>10
  <2> PICK y : y = [G(d) EXCEPT !.outcome = x]
    OBVIOUS
  <2>3. \A i \in 1..Len(ops) : (i = d => ops'[i] = y) /\ (i # d => ops'[i] = G(i))
    BY <2>2
  <2>4. y.kind = ops[d].kind /\ y.by = ops[d].by /\ y.fate = ops[d].fate /\ y.outcome = x
    BY <1>1, <1>9, <2>1
  <2> QED
    BY <1>9, <2>3, <2>4
<1>15. \A i \in head..d : i \in 1..Len(ops) /\ (i = d \/ i \in head..(d - 1)) /\ (i # d => i \in head..(d - 1))
  <2>1. head >= 1
    BY Parts DEF TypeInv
  <2> QED
    BY <1>1, <1>3, <2>1
<1>16. \A i \in head..d :
         /\ ops'[i].outcome \in {"done", "failed", "aborted"}
         /\ ops'[i].outcome = "done" =>
              ops[i].fate # "unread" /\ (ops[i].kind # "sync" => ops[i].fate = "done")
         /\ ops'[i].outcome = "failed" =>
              ops[i].fate # "unread" /\ (ops[i].kind # "sync" => ops[i].fate = "failed")
         /\ ops'[i].outcome = "aborted" =>
              ops[i].kind # "sync" /\ Broken(i - 1) /\ ops[i].fate \in {"unread", "skipped"}
         /\ ops[i].kind = "sync" =>
              (ops'[i].outcome = "failed" <=> ops[i].fate = "failed" \/ Broken(i - 1))
  <2>1. ASSUME NEW i \in head..(d - 1)
        PROVE  ops'[i].outcome = "aborted" /\ ops[i].kind # "sync" /\ ops[i].fate = "skipped" /\ Broken(i - 1)
    <3>1. i \in head..d /\ i # d
      BY <1>1
    <3> QED
      BY <1>1, <1>9, <1>14, <1>15, <3>1
  <2>2. ops'[d].outcome = x /\ d \in 1..Len(ops)
    BY <1>1, <1>14
  <2> QED
    BY <1>0, <1>4, <1>5, <1>6, <1>7, <1>15, <2>1, <2>2
<1>17. /\ d + 1 \in head..(Len(ops) + 1) /\ head' = d + 1 /\ (d + 1) - 1 = d
       /\ UNCHANGED <<served, skipping, copying, flushAt, out, failure, session>>
  BY <1>0, <1>1, <1>3 DEF TakeReply, server
<1>18. \A i \in 1..Len(ops) : i \notin head..d => ops'[i].outcome = ops[i].outcome
  <2>1. d \in head..d /\ \A i \in head..(d - 1) : i \in head..d
    BY <1>1
  <2> QED
    BY <1>9, <1>14, <2>1
<1> QED
  BY <1>0, <1>13, <1>14, <1>16, <1>17, <1>18 DEF SettledTo

LEMMA ReplyWire ==
  ASSUME TypeInv, WireInv, OutcomesTruthful, SyncsTruthful, ReceiveReply
  PROVE  WireInv' /\ error' \in BOOLEAN /\ state' \in {"idle", "in-extended"}
<1> PICK d : d = Drain
  OBVIOUS
<1>0. /\ TakeReply /\ state = "in-extended" /\ Len(Replies) > 0 /\ Replies[1].type \in {"complete", "ready"}
      /\ Head(down) = Replies[1] /\ down # <<>>
  BY ReplyExpected DEF ReceiveReply
<1>1. /\ d \in head..served /\ d \in 1..Len(ops) /\ served \in Nat /\ head \in Nat
      /\ Replies[1].op = d /\ Replies[1].kind = ops[d].kind
      /\ Replies[1].type = "complete" => ~error
      /\ ~error => d = head /\ ~Broken(head - 1)
      /\ \A n \in 2..Len(Replies) : Replies[n].op > d
  BY <1>0, FirstReply
<1>2. SettledTo(d + 1)
  BY ReplySettles
<1>3. /\ FatesSound /\ RepliesTrue /\ RepliesOrdered /\ RepliesComplete /\ TypeOK
      /\ FatesSound' /\ OutcomesSound' /\ \A i \in 0..Len(ops) : Broken(i)' <=> Broken(i)
  BY <1>0, <1>2, SettledFacts DEF WireInv, TypeInv
<1>4. /\ Len(ops) \in Nat /\ served <= Len(ops) /\ Len(ops') = Len(ops) /\ head' = d + 1
      /\ served' = served
      /\ \A i \in 1..Len(ops) : ops'[i].kind = ops[i].kind /\ ops'[i].fate = ops[i].fate
      /\ error \in BOOLEAN
  BY <1>2, <1>3, Parts DEF SettledTo, TypeOK
<1>5. /\ down' = Tail(down) /\ out' = out /\ Len(Replies) \in Nat
      /\ Len(Replies') = Len(Replies) - 1
      /\ \A n \in 1..Len(Replies') : Replies'[n] = Replies[n + 1]
  <2>1. down' = Tail(down) /\ out' = out
    BY <1>0 DEF TakeReply, server
  <2> QED
    BY <1>0, <2>1, ReplyTaken, RepliesType
<1>6. /\ RepliesOrdered'
      /\ \A i, types : HasReply(i, types) =>
           HasReply(i, types)' \/ (Replies[1].op = i /\ Replies[1].type \in types)
  BY <1>0, <1>3, <1>5, RestOfReplies
<1>7. RepliesTrue'
  <2>1. ASSUME NEW n \in 1..Len(Replies')
        PROVE  /\ Replies'[n].op \in (d + 1)..served
               /\ Replies'[n].kind = ops'[Replies'[n].op].kind
               /\ Replies'[n].type = "complete" =>
                    Replies'[n].kind # "sync" /\ ops'[Replies'[n].op].fate = "done"
               /\ Replies'[n].type = "ready" => Replies'[n].kind = "sync"
               /\ Replies'[n].type \in {"error", "copy"} => ops'[Replies'[n].op].fate = "failed"
               /\ Replies'[n].type = "copy" => Replies'[n].kind = "execute"
    <3> PICK r : r = Replies'[n]
      OBVIOUS
    <3>1. n + 1 \in 1..Len(Replies) /\ r = Replies[n + 1] /\ r.op > d
      <4>1. n + 1 \in 2..Len(Replies)
        BY <1>5
      <4>2. r = Replies[n + 1]
        BY <1>5
      <4> QED
        BY <1>1, <4>1, <4>2
    <3>2. /\ r.op \in head..served /\ r.kind = ops[r.op].kind
          /\ r.type = "complete" => r.kind # "sync" /\ ops[r.op].fate = "done"
          /\ r.type = "ready"    => r.kind = "sync"
          /\ r.type \in {"error", "copy"} => ops[r.op].fate = "failed"
          /\ r.type = "copy" => r.kind = "execute"
      BY <1>3, <3>1 DEF RepliesTrue
    <3>3. r.op \in 1..Len(ops) /\ r.op \in (d + 1)..served
      BY <1>1, <1>4, <3>1, <3>2
    <3> QED
      BY <1>4, <3>2, <3>3
  <2> QED
    BY <1>4, <2>1 DEF RepliesTrue
<1>8. RepliesComplete'
  <2>1. ASSUME NEW i \in (d + 1)..served
        PROVE  IF ops'[i].kind = "sync"
                 THEN /\ HasReply(i, {"ready"})'
                      /\ ops'[i].fate = "failed" => HasReply(i, {"error"})'
                 ELSE ops'[i].fate # "skipped" => HasReply(i, {"complete", "error", "copy"})'
    <3>1. i \in head..served /\ i \in 1..Len(ops) /\ i # d /\ i # head
      BY <1>1, <1>4
    <3>2. \A types : HasReply(i, types) => HasReply(i, types)'
      BY <1>1, <1>6, <3>1
    <3> QED
      BY <1>3, <1>4, <3>1, <3>2 DEF RepliesComplete
  <2> QED
    BY <1>4, <2>1 DEF RepliesComplete
<1>9. ~error' /\ error' \in BOOLEAN
  <2>1. CASE Replies[1].type = "complete"
    <3>1. error' = error /\ ~error
      BY <1>0, <1>1, <2>1 DEF TakeReply
    <3> QED
      BY <1>4, <3>1
  <2>2. CASE Replies[1].type = "ready"
    BY <1>0, <2>2 DEF TakeReply, ClearError
  <2> QED
    BY <1>0, <2>1, <2>2
<1>10. ErrorSound'
  <2>1. ~Broken(d)
    <3>1. d - 1 \in Nat /\ (d - 1) + 1 = d
      BY <1>1, <1>4
    <3>2. CASE Replies[1].type = "complete"
      <4>1. ops[d].fate # "failed"
        <5>1. 1 \in 1..Len(Replies)
          BY <1>0, <1>5
        <5> QED
          BY <1>1, <1>3, <3>2, <5>1 DEF RepliesTrue
      <4>2. ~Broken(d - 1)
        BY <1>1, <3>2
      <4> QED
        BY <3>1, <4>1, <4>2, BrokenStep DEF Broken
    <3>3. CASE Replies[1].type = "ready"
      <4>1. ops[d].kind = "sync"
        <5>1. 1 \in 1..Len(Replies)
          BY <1>0, <1>5
        <5> QED
          BY <1>1, <1>3, <3>3, <5>1 DEF RepliesTrue
      <4> QED
        BY <3>1, <4>1, BrokenStep DEF Broken
    <3> QED
      BY <1>0, <3>2, <3>3
  <2>2. ~BrokenIn(ops', d) /\ head' - 1 = d
    <3>1. d \in 0..Len(ops) /\ (d + 1) - 1 = d
      BY <1>1, <1>4
    <3> QED
      BY <1>3, <1>4, <2>1, <3>1 DEF Broken
  <2> QED
    BY <1>9, <2>2 DEF ErrorSound, Broken
<1>11. state' \in {"idle", "in-extended"} /\ (state' = "idle" => head' > Len(ops'))
  BY <1>0, <1>4 DEF TakeReply
<1>12. IdleSound'
  <2>1. ASSUME state' = "idle" PROVE d = Len(ops) /\ Replies' = <<>>
    <3>1. d = Len(ops)
      BY <1>1, <1>4, <1>11, <2>1
    <3>2. \A n \in 1..Len(Replies') : FALSE
      <4>1. \A n \in 1..Len(Replies') : Replies'[n].op \in (d + 1)..served
        BY <1>4, <1>7 DEF RepliesTrue
      <4> QED
        BY <1>1, <1>4, <3>1, <4>1
    <3>3. Len(Replies') = 0
      BY <1>0, <1>5, <3>2
    <3>4. Replies' \in Seq(ReplyType)
      <4>1. down' \in Seq(ReplyType) /\ out' \in Seq(ReplyType)
        BY <1>0, <1>5, ReplyTaken DEF TypeInv
      <4> QED
        BY <4>1, ConcatProperties DEF Replies
    <3> QED
      BY <3>1, <3>3, <3>4, EmptySeq
  <2> QED
    BY <1>4, <1>9, <2>1 DEF IdleSound
<1> QED
  BY <1>3, <1>6, <1>7, <1>8, <1>9, <1>10, <1>11, <1>12 DEF WireInv

-----------------------------------------------------------------------------
(* Types, by the part of the state that an action changes.                 *)

WireTyped ==
  /\ ops \in Seq(Operations) /\ Len(ops) <= MaxOps
  /\ head \in 1..(Len(ops) + 1)
  /\ \A i \in 1..Len(ops) : ops[i].outcome # "none" <=> i < head
  /\ state \in {"idle", "in-extended", "closed"}
  /\ {error, failure, skipping, copying} \subseteq BOOLEAN
  /\ served \in 0..Len(ops) /\ flushAt \in 0..Len(ops)
  /\ down \in Seq(ReplyType) /\ out \in Seq(ReplyType)

SessionTyped ==
  /\ {active, lastError, consumed, shown} \subseteq BOOLEAN
  /\ base \in 0..Len(ops)
  /\ prompt \in {"off", "ready", "sync", "results", "end"}
  /\ asked <= drained /\ drained <= ready /\ ready <= Len(slots)
  /\ slots \in Seq(Nat \X Nat) /\ \A s \in 1..Len(slots) : slots[s][2] <= Len(ops)
  /\ asked \in Nat /\ drained \in Nat /\ ready \in Nat

LEMMA TypeParts ==
  /\ TypeInv => WireTyped /\ SessionTyped
  /\ WireTyped' /\ SessionTyped' => TypeInv'
<1>1. ASSUME TypeInv PROVE WireTyped /\ SessionTyped
  <2>1. DOMAIN ops = 1..Len(ops)
    BY <1>1, Parts DEF TypeInv
  <2> QED
    BY <1>1, <2>1 DEF TypeInv, TypeOK, WireTyped, SessionTyped, Settled
<1>2. ASSUME WireTyped', SessionTyped' PROVE TypeInv'
  <2>1. DOMAIN ops' = 1..Len(ops')
    BY <1>2, LenProperties DEF WireTyped
  <2> QED
    BY <1>2, <2>1 DEF TypeInv, TypeOK, WireTyped, SessionTyped, Settled
<1> QED
  BY <1>1, <1>2

LEMMA SessionTypeKept ==
  ASSUME TypeInv, UNCHANGED session, Len(ops') \in Nat, Len(ops') >= Len(ops)
  PROVE  SessionTyped'
<1>1. SessionTyped /\ Len(ops) \in Nat
  BY TypeParts, Parts DEF TypeInv
<1>2. /\ active' = active /\ lastError' = lastError /\ consumed' = consumed /\ shown' = shown
      /\ base' = base /\ prompt' = prompt /\ slots' = slots /\ asked' = asked /\ drained' = drained
      /\ ready' = ready
  BY DEF session
<1>3. \A s \in 1..Len(slots) : slots[s][2] <= Len(ops')
  <2>1. \A s \in 1..Len(slots) : slots[s][2] \in Nat
    BY <1>1, ElementOfSeq DEF SessionTyped
  <2> QED
    BY <1>1, <2>1 DEF SessionTyped
<1>4. base' \in 0..Len(ops')
  BY <1>1, <1>2 DEF SessionTyped
<1>5. {active', lastError', consumed', shown'} \subseteq BOOLEAN
  BY <1>1, <1>2 DEF SessionTyped
<1> QED
  BY <1>1, <1>2, <1>3, <1>4, <1>5 DEF SessionTyped

-----------------------------------------------------------------------------
(* Operations are enqueued.                                                *)

New(new) ==
  /\ new \in Seq(Operations)
  /\ \A n \in 1..Len(new) : new[n].fate = "unread" /\ new[n].outcome = "none"

LEMMA OpIs ==
  ASSUME NEW kind \in {"parse", "execute", "sync"}, NEW by \in {"pipeline", "query"}
  PROVE  /\ Op(kind, by) \in Operations /\ Op(kind, by).by = by /\ Op(kind, by).kind = kind
         /\ Op(kind, by).fate = "unread" /\ Op(kind, by).outcome = "none"
BY DEF Op, Operations

LEMMA EnqueueFacts ==
  ASSUME TypeInv, NEW new, New(new), Enqueue(new)
  PROVE  /\ ops' \in Seq(Operations) /\ Len(ops') \in Nat /\ Len(new) \in Nat
         /\ Len(ops') = Len(ops) + Len(new) /\ Len(ops') <= MaxOps
         /\ \A i \in 1..Len(ops) : ops'[i] = ops[i] /\ i \in 1..Len(ops')
         /\ \A i \in 1..Len(ops') : i \notin 1..Len(ops) =>
              /\ i - Len(ops) \in 1..Len(new) /\ ops'[i] = new[i - Len(ops)]
              /\ ops'[i].fate = "unread" /\ ops'[i].outcome = "none"
<1>1. /\ ops \in Seq(Operations) /\ new \in Seq(Operations) /\ ops' = ops \o new
      /\ Len(ops) + Len(new) <= MaxOps
  BY DEF TypeInv, TypeOK, New, Enqueue
<1>2. /\ ops' \in Seq(Operations) /\ Len(ops') = Len(ops) + Len(new)
      /\ Len(ops) \in Nat /\ Len(new) \in Nat
      /\ \A i \in 1..(Len(ops) + Len(new)) :
           ops'[i] = IF i <= Len(ops) THEN ops[i] ELSE new[i - Len(ops)]
  BY <1>1, ConcatProperties, LenProperties
<1> QED
  BY <1>1, <1>2 DEF New

LEMMA EnqueueWire ==
  ASSUME TypeInv, WireInv, OutcomesTruthful, SyncsTruthful, NEW new, New(new), Enqueue(new)
  PROVE  WireTyped' /\ WireInv' /\ OutcomesTruthful' /\ SyncsTruthful'
<1>0. /\ state # "closed" /\ state' = "in-extended" /\ head' = head /\ failure' = failure
      /\ served' = served /\ skipping' = skipping /\ copying' = copying /\ flushAt' = flushAt
      /\ out' = out /\ down' = down
      /\ error' = IF state = "idle" THEN FALSE ELSE error
  BY DEF Enqueue, server
<1>1. /\ ops' \in Seq(Operations) /\ Len(ops') \in Nat /\ Len(new) \in Nat
      /\ Len(ops') = Len(ops) + Len(new) /\ Len(ops') <= MaxOps
      /\ \A i \in 1..Len(ops) : ops'[i] = ops[i] /\ i \in 1..Len(ops')
      /\ \A i \in 1..Len(ops') : i \notin 1..Len(ops) =>
           ops'[i].fate = "unread" /\ ops'[i].outcome = "none"
  BY EnqueueFacts
<1>2. /\ Len(ops) \in Nat /\ head \in 1..(Len(ops) + 1) /\ head \in Nat /\ head - 1 \in 0..Len(ops)
      /\ served \in Nat /\ served <= Len(ops) /\ DOMAIN ops = 1..Len(ops)
      /\ DOMAIN ops' = 1..Len(ops')
  BY <1>1, Parts, LenProperties DEF TypeInv
<1>3. /\ FatesSound /\ RepliesTrue /\ RepliesOrdered /\ RepliesComplete /\ ErrorSound
      /\ OutcomesSound /\ IdleSound /\ WireTyped
  BY <1>0, TypeParts DEF WireInv
<1>4. error' \in BOOLEAN /\ (error' <=> error)
  BY <1>0, <1>3 DEF IdleSound, WireTyped
<1>5. WireTyped'
  <2>1. flushAt \in 0..Len(ops) /\ {error', failure', skipping', copying'} \subseteq BOOLEAN
    BY <1>0, <1>3, <1>4 DEF WireTyped
  <2>2. \A i \in 1..Len(ops') : ops'[i].outcome # "none" <=> i < head'
    <3>1. \A i \in 1..Len(ops') : i \notin 1..Len(ops) => ~(i < head)
      BY <1>1, <1>2
    <3> QED
      BY <1>0, <1>1, <1>3, <3>1 DEF WireTyped
  <2>3. down' \in Seq(ReplyType) /\ out' \in Seq(ReplyType)
    BY <1>0, <1>3 DEF WireTyped
  <2>4. head' \in 1..(Len(ops') + 1) /\ served' \in 0..Len(ops') /\ flushAt' \in 0..Len(ops')
    BY <1>0, <1>1, <1>2, <2>1
  <2> QED
    BY <1>0, <1>1, <2>1, <2>2, <2>3, <2>4 DEF WireTyped
<1>6. ASSUME NEW i \in 0..Len(ops) PROVE Broken(i)' <=> Broken(i)
  <2>1. i \in Nat /\ \A k \in 1..i : k \in 1..Len(ops)
    BY <1>2
  <2>2. BrokenIn(ops', i) <=> BrokenIn(ops, i)
    BY <1>1, <2>1, BrokenSame
  <2> QED
    BY <2>2 DEF Broken
<1>7. FatesSound'
  <2>1. \A i \in 1..Len(ops') : ops'[i].fate = "unread" <=> i > served
    <3>1. \A i \in 1..Len(ops') : i \notin 1..Len(ops) => i > served
      BY <1>1, <1>2
    <3> QED
      BY <1>1, <1>3, <3>1 DEF FatesSound
  <2>2. Broken(served)' <=> Broken(served)
    <3>1. BrokenIn(ops', served) <=> BrokenIn(ops, served)
      BY <1>2, <1>6 DEF Broken
    <3> QED
      BY <1>0, <3>1 DEF Broken
  <2>3. \A i \in 1..served : i \in 1..Len(ops) /\ i - 1 \in 0..Len(ops)
    BY <1>2
  <2> QED
    BY <1>0, <1>1, <1>3, <1>6, <2>1, <2>2, <2>3 DEF FatesSound
<1>8. Replies' = Replies
  BY <1>0 DEF Replies
<1>9. \A i \in head..served : i \in 1..Len(ops)
  BY <1>2
<1>10. RepliesTrue' /\ RepliesOrdered'
  BY <1>0, <1>1, <1>3, <1>8, <1>9 DEF RepliesTrue, RepliesOrdered
<1>11. \A i, types : HasReply(i, types)' <=> HasReply(i, types)
  BY <1>8 DEF HasReply
<1>12. RepliesComplete'
  <2>1. ASSUME NEW i \in head..served
        PROVE  IF ops'[i].kind = "sync"
                 THEN /\ HasReply(i, {"ready"})'
                      /\ ops'[i].fate = "failed" => HasReply(i, {"error"})' \/ (error' /\ i = head')
                 ELSE ops'[i].fate # "skipped" => HasReply(i, {"complete", "error", "copy"})'
    <3>1. ops'[i] = ops[i]
      BY <1>1, <1>9
    <3> QED
      BY <1>0, <1>3, <1>4, <1>11, <3>1 DEF RepliesComplete
  <2> QED
    BY <1>0, <2>1 DEF RepliesComplete
<1>13. ErrorSound'
  <2>1. Broken(head - 1)' <=> Broken(head - 1)
    <3>1. BrokenIn(ops', head - 1) <=> BrokenIn(ops, head - 1)
      BY <1>2, <1>6 DEF Broken
    <3> QED
      BY <1>0, <3>1 DEF Broken
  <2>2. FailedSync(head) => FailedSync(head)'
    BY <1>0, <1>1, <1>2 DEF FailedSync
  <2>3. HasReply(head, {"error"})' <=> HasReply(head, {"error"})
    BY <1>0, <1>8 DEF HasReply
  <2> QED
    BY <1>3, <1>4, <2>1, <2>2, <2>3 DEF ErrorSound
<1>14. OutcomesSound'
  <2>1. \A i \in 1..(head - 1) : i \in 1..Len(ops) /\ i - 1 \in 0..Len(ops)
    BY <1>2
  <2> QED
    BY <1>0, <1>1, <1>3, <1>6, <2>1 DEF OutcomesSound
<1>15. IdleSound'
  BY <1>0 DEF IdleSound
<1>16. OutcomesTruthful'
  <2>1. ASSUME NEW i \in 1..Len(ops'), ops'[i].kind # "sync"
        PROVE  /\ ops'[i].outcome = "done"    => ops'[i].fate = "done"
               /\ ops'[i].outcome = "failed"  => ops'[i].fate = "failed"
               /\ ops'[i].outcome = "aborted" => ops'[i].fate \in {"unread", "skipped"}
    <3>1. CASE i \in 1..Len(ops)
      BY <1>1, <1>2, <2>1, <3>1 DEF OutcomesTruthful
    <3>2. CASE i \notin 1..Len(ops)
      BY <1>1, <3>2
    <3> QED
      BY <3>1, <3>2
  <2> QED
    BY <1>2, <2>1 DEF OutcomesTruthful
<1>17. SyncsTruthful'
  <2>1. ASSUME NEW i \in 1..Len(ops'), ops'[i].kind = "sync", ops'[i].outcome \in {"done", "failed"}
        PROVE  ops'[i].outcome = "failed" <=> \E j \in Batch(i)' : ops'[j].fate = "failed"
    <3>1. i \in 1..Len(ops) /\ ops'[i] = ops[i]
      BY <1>1, <2>1
    <3>2. \A j \in 1..i : ops'[j] = ops[j] /\ \A k \in j..(i - 1) : ops'[k] = ops[k]
      <4>1. \A j \in 1..i : j \in 1..Len(ops) /\ \A k \in j..(i - 1) : k \in 1..Len(ops)
        BY <1>2, <3>1
      <4> QED
        BY <1>1, <4>1
    <3>3. Batch(i)' = Batch(i) /\ \A j \in Batch(i) : ops'[j] = ops[j]
      BY <3>2 DEF Batch
    <3> QED
      BY <1>2, <2>1, <3>1, <3>3 DEF SyncsTruthful
  <2> QED
    BY <1>2, <2>1 DEF SyncsTruthful
<1> QED
  BY <1>5, <1>7, <1>10, <1>12, <1>13, <1>14, <1>15, <1>16, <1>17 DEF WireInv

-----------------------------------------------------------------------------
(* The connection is closed.                                               *)

LEMMA CloseFails ==
  ASSUME TypeInv, OutcomesTruthful, SyncsTruthful, Close(FailPending), failure' \in BOOLEAN
  PROVE  /\ WireTyped' /\ WireInv' /\ OutcomesTruthful' /\ SyncsTruthful'
         /\ Len(ops') = Len(ops) /\ head' = Len(ops) + 1
         /\ \A i \in 1..Len(ops) :
              /\ ops'[i].kind = ops[i].kind /\ ops'[i].by = ops[i].by
              /\ i < head => ops'[i] = ops[i]
<1>0. /\ ops' = FailPending /\ head' = Len(ops) + 1 /\ state' = "closed" /\ error' = FALSE
      /\ served' = Len(ops) /\ skipping' = FALSE /\ copying' = FALSE /\ flushAt' = 0
      /\ out' = <<>> /\ down' = <<>>
  BY DEF Close
<1>1. /\ Len(ops) \in Nat /\ DOMAIN ops = 1..Len(ops) /\ head \in Nat
      /\ \A i \in 1..Len(ops) : ops[i] \in Operations
      /\ WireTyped
  BY Parts, TypeParts DEF TypeInv
<1> DEFINE G(i) == IF i >= head THEN [ops[i] EXCEPT !.outcome = "lost"] ELSE ops[i]
<1>2. ops' = [i \in 1..Len(ops) |-> G(i)]
  BY <1>0, <1>1 DEF FailPending
<1>3. \A i \in 1..Len(ops) :
        /\ G(i) \in Operations
        /\ G(i).kind = ops[i].kind /\ G(i).by = ops[i].by /\ G(i).fate = ops[i].fate
        /\ i < head => G(i) = ops[i]
        /\ ~(i < head) => G(i).outcome = "lost"
  <2>1. ASSUME NEW i \in 1..Len(ops) PROVE [ops[i] EXCEPT !.outcome = "lost"] \in Operations
    BY <1>1 DEF Operations
  <2>2. \A i \in 1..Len(ops) : i >= head <=> ~(i < head)
    BY <1>1
  <2> QED
    BY <1>1, <2>1, <2>2 DEF Operations
<1> HIDE DEF G
<1>4. ops' \in Seq(Operations) /\ Len(ops') = Len(ops)
  <2>1. ops' \in [1..Len(ops) -> Operations]
    BY <1>2, <1>3
  <2> QED
    BY <1>1, <2>1, Mapped
<1>5. DOMAIN ops' = 1..Len(ops) /\ \A i \in 1..Len(ops) : ops'[i] = G(i)
  BY <1>2
<1>6. WireTyped'
  <2>1. \A i \in 1..Len(ops) : ops'[i].outcome # "none" /\ i < Len(ops) + 1
    BY <1>1, <1>3, <1>5 DEF WireTyped
  <2>2. <<>> \in Seq(ReplyType) /\ Len(ops) + 1 \in 1..(Len(ops) + 1)
    BY <1>1
  <2>3. Len(ops') <= MaxOps /\ served' \in 0..Len(ops') /\ flushAt' \in 0..Len(ops')
    BY <1>0, <1>1, <1>4 DEF WireTyped
  <2>4. {error', failure', skipping', copying'} \subseteq BOOLEAN
    BY <1>0
  <2>5. \A i \in 1..Len(ops') : ops'[i].outcome # "none" <=> i < head'
    BY <1>0, <1>4, <2>1
  <2> QED
    BY <1>0, <1>4, <2>2, <2>3, <2>4, <2>5 DEF WireTyped
<1>7. OutcomesTruthful'
  BY <1>1, <1>3, <1>5 DEF OutcomesTruthful
<1>8. SyncsTruthful'
  <2>1. ASSUME NEW i \in 1..Len(ops), ops'[i].kind = "sync", ops'[i].outcome \in {"done", "failed"}
        PROVE  ops'[i].outcome = "failed" <=> \E j \in Batch(i)' : ops'[j].fate = "failed"
    <3>1. ops'[i] = ops[i]
      BY <1>3, <1>5, <2>1
    <3>2. \A j \in 1..i : /\ ops'[j].fate = ops[j].fate
                          /\ \A k \in j..(i - 1) : ops'[k].kind = ops[k].kind
      <4>1. \A j \in 1..i : j \in 1..Len(ops) /\ \A k \in j..(i - 1) : k \in 1..Len(ops)
        BY <1>1
      <4> QED
        BY <1>3, <1>5, <4>1
    <3>3. Batch(i)' = Batch(i) /\ \A j \in Batch(i) : ops'[j].fate = ops[j].fate
      BY <3>2 DEF Batch
    <3> QED
      BY <1>1, <2>1, <3>1, <3>3 DEF SyncsTruthful
  <2> QED
    BY <1>5, <2>1 DEF SyncsTruthful
<1> QED
  BY <1>0, <1>3, <1>4, <1>5, <1>6, <1>7, <1>8 DEF WireInv

-----------------------------------------------------------------------------
(* The session.                                                            *)

LEMMA SessionKept ==
  ASSUME TypeInv, SessionInv, UNCHANGED session, Len(ops') \in Nat, Len(ops') >= Len(ops),
         head' \in Nat, head' >= head,
         \A i \in 1..Len(ops) : /\ ops'[i].kind = ops[i].kind /\ ops'[i].by = ops[i].by
                                /\ i < head => ops'[i].outcome = ops[i].outcome,
         \A i \in 1..Len(ops') : i \notin 1..Len(ops) => ops'[i].by # "pipeline"
  PROVE  SessionInv'
<1>0. /\ lastError' = lastError /\ consumed' = consumed /\ shown' = shown
      /\ base' = base /\ prompt' = prompt /\ slots' = slots /\ asked' = asked /\ drained' = drained
  BY DEF session
<1>1. Len(ops) \in Nat /\ base \in Nat /\ head \in Nat
  BY Parts DEF TypeInv
<1>2. ASSUME NEW i \in (base + 1)..Len(ops), NotFailed(i)
      PROVE  NotFailed(i)'
  BY <1>1, <1>2 DEF NotFailed
<1>3. ASSUME NEW i \in (base + 1)..Len(ops), AtBarrier(i)
      PROVE  AtBarrier(i)'
  <2>1. i \in 1..Len(ops)
    BY <1>1
  <2>2. \A j \in (i + 1)..Len(ops') : j \in 1..Len(ops') /\ (j \in 1..Len(ops) => j \in (i + 1)..Len(ops))
    BY <1>1, <2>1
  <2>3. \A j \in (i + 1)..Len(ops') : ops'[j].by # "pipeline"
    BY <1>3, <2>2 DEF AtBarrier
  <2> QED
    BY <1>3, <2>1, <2>3 DEF AtBarrier
<1>4. \A i, s : i \in SlotOps(s)' <=> i \in SlotOps(s)
  BY <1>0 DEF SlotOps
<1>5. ASSUME NEW i \in (base + 1)..Len(ops), Told(i)
      PROVE  Told(i)'
  BY <1>0, <1>2, <1>3, <1>4, <1>5 DEF Told
<1>6. ASSUME NEW i \in (base + 1)..Len(ops'), ops'[i].by = "pipeline"
      PROVE  i \in (base + 1)..Len(ops) /\ ops[i].by = "pipeline"
  <2>1. i \in 1..Len(ops') /\ i \in 1..Len(ops)
    BY <1>1, <1>6
  <2> QED
    BY <1>1, <1>6, <2>1
<1>7. \A i \in (base + 1)..Len(ops) : i \in (base + 1)..Len(ops')
  BY <1>1
<1> QED
  BY <1>0, <1>2, <1>3, <1>5, <1>6, <1>7 DEF SessionInv

\* The range of an operation's slot, when the pipeline goes on.
LEMMA SlotsKept ==
  ASSUME TypeInv, NEW x \in Nat \X Nat, slots' = Append(slots, x), x[2] <= Len(ops'),
         Len(ops') \in Nat, Len(ops') >= Len(ops)
  PROVE  /\ Len(slots) \in Nat /\ Len(slots') = Len(slots) + 1
         /\ slots' \in Seq(Nat \X Nat) /\ \A s \in 1..Len(slots') : slots'[s][2] <= Len(ops')
         /\ \A s \in 1..Len(slots) : SlotOps(s)' = SlotOps(s)
         /\ slots'[Len(slots) + 1] = x
<1>1. slots \in Seq(Nat \X Nat) /\ \A s \in 1..Len(slots) : slots[s][2] <= Len(ops)
  BY DEF TypeInv
<1>2. /\ slots' \in Seq(Nat \X Nat) /\ Len(slots') = Len(slots) + 1 /\ Len(slots) \in Nat
      /\ \A s \in 1..Len(slots) : slots'[s] = slots[s]
      /\ slots'[Len(slots) + 1] = x
  BY <1>1, AppendProperties, LenProperties
<1>3. \A s \in 1..Len(slots') : slots'[s][2] <= Len(ops')
  <2>1. \A s \in 1..Len(slots) : slots[s][2] \in Nat
    BY <1>1, ElementOfSeq
  <2>2. \A s \in 1..Len(slots) : slots[s][2] <= Len(ops')
    <3>1. Len(ops) \in Nat
      BY Parts DEF TypeInv
    <3> QED
      BY <1>1, <2>1, <3>1
  <2>3. \A s \in 1..Len(slots') : s \in 1..Len(slots) \/ s = Len(slots) + 1
    BY <1>2
  <2> QED
    BY <1>2, <2>2, <2>3
<1>4. \A s \in 1..Len(slots) : SlotOps(s)' = SlotOps(s)
  BY <1>2 DEF SlotOps
<1> QED
  BY <1>2, <1>3, <1>4

\* Commands that enqueue operations of the pipeline: what was told of the others
\* stays so, and the new ones are in a slot or waited for.
LEMMA SessionEnqueues ==
  ASSUME TypeInv, SessionInv, NEW new, New(new), Enqueue(new), prompt = "ready",
         UNCHANGED <<active, ready, drained, asked, lastError, consumed, shown, base>>,
         prompt' \in {"ready", "sync", "end"},
         Len(slots) \in Nat, Len(slots') \in Nat, Len(slots') >= Len(slots),
         \A s \in 1..Len(slots) : SlotOps(s)' = SlotOps(s),
         \A n \in 1..Len(new) :
           \/ \E s \in (drained + 1)..Len(slots') : Len(ops) + n \in SlotOps(s)'
           \/ prompt' \in {"sync", "end"} /\ n = Len(new) /\ new[n].kind = "sync",
         prompt' \in {"sync", "end"} =>
           Len(new) > 0 /\ new[Len(new)].kind = "sync" /\ new[Len(new)].by = "pipeline"
  PROVE  SessionInv'
<1>0. /\ lastError' = lastError /\ consumed' = consumed /\ shown' = shown /\ base' = base
      /\ drained' = drained /\ asked' = asked /\ head' = head
  BY DEF Enqueue
<1>1. Len(ops) \in Nat /\ base \in Nat /\ base <= Len(ops) /\ head \in Nat /\ drained \in Nat
  BY TypeParts, Parts DEF TypeInv, SessionTyped
<1>2. /\ Len(ops') \in Nat /\ Len(new) \in Nat /\ Len(ops') = Len(ops) + Len(new)
      /\ \A i \in 1..Len(ops) : ops'[i] = ops[i] /\ i \in 1..Len(ops')
      /\ \A i \in 1..Len(ops') : i \notin 1..Len(ops) =>
           i - Len(ops) \in 1..Len(new) /\ ops'[i] = new[i - Len(ops)]
  BY EnqueueFacts
<1> PICK z : z = Len(ops')
  OBVIOUS
<1>3. prompt' \in {"sync", "end"} => AtBarrier(z)'
  <2>1. ASSUME prompt' \in {"sync", "end"}
        PROVE  ops'[z] = new[Len(new)]
    <3>1. z \in 1..Len(ops') /\ z \notin 1..Len(ops) /\ z - Len(ops) = Len(new)
      BY <1>1, <1>2, <2>1
    <3> QED
      BY <1>2, <3>1
  <2>2. \A j \in (z + 1)..Len(ops') : FALSE
    BY <1>2
  <2> QED
    BY <2>1, <2>2 DEF AtBarrier
<1>4. ASSUME NEW i \in (base + 1)..Len(ops'), ops'[i].by = "pipeline"
      PROVE  Told(i)'
  <2>1. CASE i \in 1..Len(ops)
    <3>1. Told(i)
      <4>1. i \in (base + 1)..Len(ops) /\ ops[i].by = "pipeline"
        BY <1>1, <1>2, <1>4, <2>1
      <4> QED
        BY <4>1 DEF SessionInv
    <3>2. shown \/ lastError \/ NotFailed(i) \/ \E s \in (drained + 1)..Len(slots) : i \in SlotOps(s)
      BY <3>1 DEF Told
    <3>3. NotFailed(i) => NotFailed(i)'
      BY <1>0, <1>2, <2>1 DEF NotFailed
    <3>4. ASSUME NEW s \in (drained + 1)..Len(slots), i \in SlotOps(s)
          PROVE  s \in (drained + 1)..Len(slots') /\ i \in SlotOps(s)'
      <4>1. s \in 1..Len(slots) /\ s \in (drained + 1)..Len(slots')
        BY <1>1
      <4>2. SlotOps(s)' = SlotOps(s)
        BY <4>1
      <4> QED
        BY <3>4, <4>1, <4>2
    <3> QED
      BY <1>0, <3>2, <3>3, <3>4 DEF Told
  <2>2. CASE i \notin 1..Len(ops)
    <3>1. i \in 1..Len(ops')
      BY <1>1, <1>2
    <3> PICK n : n = i - Len(ops)
      OBVIOUS
    <3>2. n \in 1..Len(new) /\ i = Len(ops) + n
      BY <1>1, <1>2, <2>2, <3>1
    <3>3. CASE \E s \in (drained + 1)..Len(slots') : i \in SlotOps(s)'
      BY <1>0, <3>3 DEF Told
    <3>4. CASE prompt' \in {"sync", "end"} /\ n = Len(new)
      <4>1. i = z
        BY <1>2, <3>2, <3>4
      <4> QED
        BY <1>3, <3>4, <4>1 DEF Told
    <3> QED
      BY <3>2, <3>3, <3>4
  <2> QED
    BY <2>1, <2>2
<1>5. prompt' \in {"sync", "end"} => \E i \in (base + 1)..Len(ops') : AtBarrier(i)'
  <2>1. prompt' \in {"sync", "end"} => z \in (base + 1)..Len(ops')
    BY <1>1, <1>2
  <2> QED
    BY <1>3, <2>1
<1> QED
  BY <1>0, <1>4, <1>5 DEF SessionInv

LEMMA BarrierIs ==
  ASSUME TypeInv, SessionInv, prompt \in {"sync", "end"}
  PROVE  Barrier \in (base + 1)..Len(ops) /\ AtBarrier(Barrier)
<1>1. PICK b \in (base + 1)..Len(ops) : AtBarrier(b)
  BY DEF SessionInv
<1>2. Len(ops) \in Nat /\ base \in Nat /\ DOMAIN ops = 1..Len(ops) /\ b \in 1..Len(ops)
  BY <1>1, Parts DEF TypeInv
<1> DEFINE Last(i) == /\ ops[i].kind = "sync" /\ ops[i].by = "pipeline"
                      /\ \A j \in (i + 1)..Len(ops) : ops[j].kind # "sync" \/ ops[j].by # "pipeline"
<1>3. Last(b)
  BY <1>1 DEF AtBarrier
<1>4. ASSUME NEW i \in 1..Len(ops), Last(i) PROVE i = b
  <2>1. ~(b \in (i + 1)..Len(ops))
    BY <1>3, <1>4
  <2>2. ~(i \in (b + 1)..Len(ops))
    BY <1>3, <1>4
  <2> QED
    BY <1>2, <2>1, <2>2
<1>5. Barrier = CHOOSE i \in 1..Len(ops) : Last(i)
  BY <1>2 DEF Barrier
<1> HIDE DEF Last
<1>6. Barrier = b
  BY <1>2, <1>3, <1>4, <1>5
<1> QED
  BY <1>1, <1>6

LEMMA WireKept ==
  ASSUME TypeInv, WireInv, OutcomesTruthful, SyncsTruthful, NoProtocolFailure,
         UNCHANGED <<client, served, skipping, copying>>, flushAt' \in 0..Len(ops),
         Replies' = Replies, down' \in Seq(ReplyType), out' \in Seq(ReplyType)
  PROVE  WireTyped' /\ WireInv' /\ OutcomesTruthful' /\ SyncsTruthful' /\ NoProtocolFailure'
<1>0. /\ ops' = ops /\ head' = head /\ error' = error /\ state' = state /\ failure' = failure
      /\ served' = served /\ skipping' = skipping /\ copying' = copying
  BY DEF client
<1>1. WireTyped'
  BY <1>0, TypeParts DEF WireTyped
<1>2. WireInv'
  <2>1. FatesSound => FatesSound'
    BY <1>0 DEF FatesSound, Broken
  <2>2. RepliesTrue => RepliesTrue'
    BY <1>0 DEF RepliesTrue
  <2>3. RepliesOrdered => RepliesOrdered'
    BY DEF RepliesOrdered
  <2>4. RepliesComplete => RepliesComplete'
    BY <1>0 DEF RepliesComplete, HasReply
  <2>5. ErrorSound => ErrorSound'
    BY <1>0 DEF ErrorSound, Broken, FailedSync, HasReply
  <2>6. OutcomesSound => OutcomesSound'
    BY <1>0 DEF OutcomesSound, Broken
  <2>7. IdleSound => IdleSound'
    BY <1>0 DEF IdleSound
  <2> QED
    BY <1>0, <2>1, <2>2, <2>3, <2>4, <2>5, <2>6, <2>7 DEF WireInv
<1>3. OutcomesTruthful' /\ SyncsTruthful'
  BY <1>0 DEF OutcomesTruthful, SyncsTruthful, Batch
<1> QED
  BY <1>0, <1>1, <1>2, <1>3 DEF NoProtocolFailure

-----------------------------------------------------------------------------
(* The server and the connection keep the invariant.                       *)

LEMMA ServeKeeps ==
  ASSUME IInv, Serve
  PROVE  IInv'
<1>0. TypeInv /\ OutcomesTruthful /\ SyncsTruthful /\ WireInv /\ NoProtocolFailure /\ SessionInv
  BY DEF IInv
<1>1. PICK f \in {"done", "failed", "skipped"}, rs \in Seq(ReplyType) : Answered(f, rs)
  BY <1>0, ServeAnswered
<1>2. WireInv' /\ OutcomesTruthful' /\ SyncsTruthful'
  BY <1>0, <1>1, AnsweredKeeps, AnsweredTruthful
<1>3. /\ ops' \in Seq(Operations) /\ Len(ops') = Len(ops) /\ served + 1 \in 1..Len(ops)
      /\ \A i \in 1..Len(ops) :
           /\ ops'[i].kind = ops[i].kind /\ ops'[i].by = ops[i].by
           /\ ops'[i].outcome = ops[i].outcome
  BY <1>0, <1>1, AnsweredFacts
<1>4. /\ UNCHANGED <<head, error, state, failure, session>> /\ served' = served + 1
  BY DEF Serve
<1>5. Len(ops) \in Nat /\ head \in Nat /\ WireTyped
  BY <1>0, Parts, TypeParts DEF TypeInv
<1>6. WireTyped'
  <2>1. /\ down' \in Seq(ReplyType) /\ out' \in Seq(ReplyType)
        /\ {skipping', copying'} \subseteq BOOLEAN /\ flushAt' \in 0..Len(ops')
    BY <1>0, <1>3, ServeAnswered
  <2>2. {error', failure', skipping', copying'} \subseteq BOOLEAN
    BY <1>4, <1>5, <2>1 DEF WireTyped
  <2>3. served' \in 0..Len(ops')
    BY <1>3, <1>4, <1>5
  <2> QED
    BY <1>3, <1>4, <1>5, <2>1, <2>2, <2>3 DEF WireTyped
<1>7. TypeInv'
  BY <1>0, <1>3, <1>4, <1>5, <1>6, SessionTypeKept, TypeParts
<1>8. SessionInv'
  BY <1>0, <1>3, <1>4, <1>5, SessionKept
<1> QED
  BY <1>0, <1>2, <1>4, <1>7, <1>8 DEF IInv, NoProtocolFailure

LEMMA SettledKeeps ==
  ASSUME IInv, NEW h, SettledTo(h), WireInv', error' \in BOOLEAN,
         state' \in {"idle", "in-extended"}, down' \in Seq(ReplyType)
  PROVE  IInv'
<1>0. TypeInv /\ OutcomesTruthful /\ SyncsTruthful /\ WireInv /\ NoProtocolFailure /\ SessionInv
  BY DEF IInv
<1>1. /\ head' = h /\ h \in head..(Len(ops) + 1)
      /\ ops' \in Seq(Operations) /\ Len(ops') = Len(ops)
      /\ \A i \in 1..Len(ops) :
           /\ ops'[i].kind = ops[i].kind /\ ops'[i].by = ops[i].by
           /\ i \notin head..(h - 1) => ops'[i].outcome = ops[i].outcome
      /\ UNCHANGED <<served, skipping, copying, flushAt, out, failure, session>>
  BY DEF SettledTo
<1>2. OutcomesTruthful' /\ SyncsTruthful'
      /\ \A i \in 1..Len(ops') : ops'[i].outcome # "none" <=> i < head'
  BY <1>0, SettledFacts
<1>3. Len(ops) \in Nat /\ head \in 1..(Len(ops) + 1) /\ head \in Nat /\ WireTyped
  BY <1>0, Parts, TypeParts DEF TypeInv
<1>4. WireTyped'
  <2>1. {error', failure', skipping', copying'} \subseteq BOOLEAN
    BY <1>1, <1>3 DEF WireTyped
  <2>2. head' \in 1..(Len(ops') + 1)
    BY <1>1, <1>3
  <2> QED
    BY <1>1, <1>2, <1>3, <2>1, <2>2 DEF WireTyped
<1>5. TypeInv'
  BY <1>0, <1>1, <1>3, <1>4, SessionTypeKept, TypeParts
<1>6. SessionInv'
  <2>1. \A i \in 1..Len(ops) : i < head => ops'[i].outcome = ops[i].outcome
    BY <1>1, <1>3
  <2>2. head' \in Nat /\ head' >= head
    BY <1>1, <1>3
  <2> QED
    BY <1>0, <1>1, <1>3, <2>1, <2>2, SessionKept
<1> QED
  BY <1>0, <1>1, <1>2, <1>5, <1>6 DEF IInv, NoProtocolFailure

LEMMA ClosedKeeps ==
  ASSUME IInv, Close(FailPending), UNCHANGED failure
  PROVE  IInv'
<1>0. TypeInv /\ OutcomesTruthful /\ SyncsTruthful /\ NoProtocolFailure /\ SessionInv
  BY DEF IInv
<1>1. failure' \in BOOLEAN /\ UNCHANGED session
  BY <1>0 DEF TypeInv, TypeOK, Close
<1>2. /\ WireTyped' /\ WireInv' /\ OutcomesTruthful' /\ SyncsTruthful'
      /\ Len(ops') = Len(ops) /\ head' = Len(ops) + 1
      /\ \A i \in 1..Len(ops) :
           /\ ops'[i].kind = ops[i].kind /\ ops'[i].by = ops[i].by
           /\ i < head => ops'[i] = ops[i]
  BY <1>0, <1>1, CloseFails
<1>3. Len(ops) \in Nat /\ head \in 1..(Len(ops) + 1)
  BY <1>0, Parts DEF TypeInv
<1>4. TypeInv'
  BY <1>0, <1>1, <1>2, <1>3, SessionTypeKept, TypeParts
<1>5. SessionInv'
  <2>1. head' \in Nat /\ head' >= head
    BY <1>2, <1>3
  <2> QED
    BY <1>0, <1>1, <1>2, <1>3, <2>1, SessionKept
<1> QED
  BY <1>0, <1>2, <1>4, <1>5 DEF IInv, NoProtocolFailure

LEMMA ReceiveKeeps ==
  ASSUME IInv, Receive
  PROVE  IInv'
<1>0. TypeInv /\ OutcomesTruthful /\ SyncsTruthful /\ WireInv
  BY DEF IInv
<1>1. CASE ReceiveError
  <2>1. \E h : SettledTo(h)
    BY <1>0, <1>1, ErrorSettles
  <2>2. WireInv'
    BY <1>0, <1>1, ErrorWire
  <2>3. down' \in Seq(ReplyType)
    BY <1>0, <1>1, ReplyTaken DEF ReceiveError, server
  <2>4. error' \in BOOLEAN /\ state' \in {"idle", "in-extended"}
    BY <1>1 DEF ReceiveError
  <2> QED
    BY <2>1, <2>2, <2>3, <2>4, SettledKeeps
<1>2. CASE ReceiveReply
  <2>1. \E h : SettledTo(h)
    BY <1>0, <1>2, ReplySettles
  <2>2. WireInv' /\ error' \in BOOLEAN /\ state' \in {"idle", "in-extended"}
    BY <1>0, <1>2, ReplyWire
  <2>3. down' \in Seq(ReplyType)
    <3>1. TakeReply /\ down # <<>>
      BY <1>0, <1>2, ReplyExpected DEF ReceiveReply
    <3> QED
      BY <1>0, <3>1, ReplyTaken DEF TakeReply, server
  <2> QED
    BY <2>1, <2>2, <2>3, SettledKeeps
<1>3. CASE ReceiveCopy
  BY <1>3, ClosedKeeps DEF ReceiveCopy
<1> QED
  BY <1>1, <1>2, <1>3 DEF Receive

-----------------------------------------------------------------------------
(* Commands that enqueue.                                                  *)

LEMMA QueryKeeps ==
  ASSUME IInv, Query
  PROVE  IInv'
<1>0. TypeInv /\ OutcomesTruthful /\ SyncsTruthful /\ WireInv /\ NoProtocolFailure /\ SessionInv
  BY DEF IInv
<1> DEFINE new == <<Op("parse", "query"), Op("execute", "query"), Op("sync", "query")>>
<1>1. Enqueue(new) /\ UNCHANGED session
  BY DEF Query
<1>2. /\ Len(new) = 3 /\ new \in Seq(Operations)
      /\ \A n \in 1..3 : new[n].by = "query" /\ new[n].fate = "unread" /\ new[n].outcome = "none"
  <2>1. /\ Op("parse", "query") \in Operations /\ Op("execute", "query") \in Operations
        /\ Op("sync", "query") \in Operations
    BY OpIs
  <2>2. /\ new[1] = Op("parse", "query") /\ new[2] = Op("execute", "query")
        /\ new[3] = Op("sync", "query")
    OBVIOUS
  <2>3. \A n \in 1..3 : n = 1 \/ n = 2 \/ n = 3
    OBVIOUS
  <2>4. new \in Seq(Operations) /\ Len(new) = 3
    BY <2>1
  <2> HIDE DEF new
  <2> QED
    BY <2>2, <2>3, <2>4, OpIs
<1> HIDE DEF new
<1>3. New(new)
  BY <1>2 DEF New
<1>4. /\ WireTyped' /\ WireInv' /\ OutcomesTruthful' /\ SyncsTruthful'
  BY <1>0, <1>1, <1>3, EnqueueWire
<1>5. /\ Len(ops') \in Nat /\ Len(ops') = Len(ops) + Len(new)
      /\ \A i \in 1..Len(ops) : ops'[i] = ops[i]
      /\ \A i \in 1..Len(ops') : i \notin 1..Len(ops) =>
           i - Len(ops) \in 1..Len(new) /\ ops'[i] = new[i - Len(ops)]
  BY <1>0, <1>1, <1>3, EnqueueFacts
<1>6. Len(ops) \in Nat /\ Len(ops') >= Len(ops) /\ head \in Nat /\ head' = head
  <2>1. Len(ops) \in Nat /\ head \in Nat
    BY <1>0, Parts DEF TypeInv
  <2>2. Len(new) \in Nat /\ Len(ops') = Len(ops) + Len(new)
    BY <1>0, <1>1, <1>3, EnqueueFacts
  <2> QED
    BY <1>1, <2>1, <2>2 DEF Enqueue
<1>7. SessionInv'
  BY <1>0, <1>1, <1>2, <1>5, <1>6, SessionKept
<1>8. TypeInv'
  BY <1>0, <1>1, <1>4, <1>5, <1>6, SessionTypeKept, TypeParts
<1> QED
  BY <1>0, <1>1, <1>4, <1>7, <1>8 DEF IInv, NoProtocolFailure, Enqueue

LEMMA StartKeeps ==
  ASSUME IInv, StartPipeline
  PROVE  IInv'
<1>0. TypeInv /\ OutcomesTruthful /\ SyncsTruthful /\ WireInv /\ NoProtocolFailure /\ SessionInv
  BY DEF IInv
<1>1. /\ Enqueue(<<>>) /\ prompt = "off" /\ prompt' = "ready" /\ active' = TRUE
      /\ lastError' = FALSE /\ shown' = FALSE /\ base' = Len(ops)
      /\ UNCHANGED <<slots, ready, drained, asked, consumed>>
  BY DEF StartPipeline
<1>2. New(<<>>)
  BY DEF New
<1>3. WireTyped' /\ WireInv' /\ OutcomesTruthful' /\ SyncsTruthful'
  BY <1>0, <1>1, <1>2, EnqueueWire
<1>4. Len(ops) \in Nat /\ Len(ops') = Len(ops)
  BY <1>0, <1>1, <1>2, EnqueueFacts, Parts DEF TypeInv
<1>5. SessionTyped /\ ~consumed
  BY <1>0, <1>1, TypeParts DEF SessionInv
<1>6. SessionTyped'
  <2>1. {active', lastError', consumed', shown'} \subseteq BOOLEAN
    BY <1>1, <1>5 DEF SessionTyped
  <2> QED
    BY <1>1, <1>4, <1>5, <2>1 DEF SessionTyped
<1>7. SessionInv'
  <2>1. \A i \in (Len(ops) + 1)..Len(ops) : FALSE
    BY <1>4
  <2> QED
    BY <1>1, <1>4, <1>5, <2>1 DEF SessionInv
<1> QED
  BY <1>0, <1>1, <1>3, <1>6, <1>7, TypeParts DEF IInv, NoProtocolFailure, Enqueue

\* What the commands of a pipeline that enqueue share.
LEMMA CommandKeeps ==
  ASSUME IInv, NEW new, New(new), Enqueue(new), SessionTyped', SessionInv'
  PROVE  IInv'
<1>0. TypeInv /\ OutcomesTruthful /\ SyncsTruthful /\ WireInv /\ NoProtocolFailure
  BY DEF IInv
<1>1. WireTyped' /\ WireInv' /\ OutcomesTruthful' /\ SyncsTruthful'
  BY <1>0, EnqueueWire
<1>2. failure' = failure
  BY DEF Enqueue
<1> QED
  BY <1>0, <1>1, <1>2, TypeParts DEF IInv, NoProtocolFailure

LEMMA SendKeeps ==
  ASSUME IInv, SendPipeline
  PROVE  IInv'
<1>0. TypeInv /\ SessionInv /\ SessionTyped
  BY TypeParts DEF IInv
<1>1. PICK new \in {<<Op("parse", "pipeline"), Op("execute", "pipeline")>>, <<Op("parse", "pipeline")>>} :
        Enqueue(new)
  BY DEF SendPipeline
<1>2. Len(new) \in 1..2 /\ New(new)
  <2>1. Op("parse", "pipeline") \in Operations /\ Op("execute", "pipeline") \in Operations
    BY OpIs
  <2>2. CASE new = <<Op("parse", "pipeline")>>
    <3>1. Len(new) = 1 /\ new[1] = Op("parse", "pipeline") /\ new \in Seq(Operations)
      BY <2>1, <2>2
    <3> QED
      BY <3>1, OpIs DEF New
  <2>3. CASE new = <<Op("parse", "pipeline"), Op("execute", "pipeline")>>
    <3>1. /\ Len(new) = 2 /\ new[1] = Op("parse", "pipeline") /\ new[2] = Op("execute", "pipeline")
          /\ new \in Seq(Operations)
      BY <2>1, <2>3
    <3>2. \A n \in 1..2 : n = 1 \/ n = 2
      OBVIOUS
    <3> QED
      BY <3>1, <3>2, OpIs DEF New
  <2> QED
    BY <1>1, <2>2, <2>3
<1>3. /\ prompt = "ready" /\ prompt' = prompt
      /\ UNCHANGED <<active, ready, drained, asked, lastError, consumed, shown, base>>
      /\ slots' = Append(slots, <<Len(ops) + 1, Len(ops')>>)
  BY DEF SendPipeline
<1>4. /\ Len(ops) \in Nat /\ Len(ops') \in Nat /\ Len(ops') = Len(ops) + Len(new)
      /\ Len(ops') >= Len(ops) /\ base \in 0..Len(ops')
  <2>1. Len(ops) \in Nat
    BY <1>0, Parts DEF TypeInv
  <2>2. Len(new) \in Nat /\ Len(ops') \in Nat /\ Len(ops') = Len(ops) + Len(new)
    BY <1>0, <1>1, <1>2, EnqueueFacts
  <2>3. base \in 0..Len(ops)
    BY <1>0, TypeParts DEF SessionTyped
  <2> QED
    BY <2>1, <2>2, <2>3
<1> PICK x : x = <<Len(ops) + 1, Len(ops')>>
  OBVIOUS
<1>5. x \in Nat \X Nat /\ x[1] = Len(ops) + 1 /\ x[2] = Len(ops')
  BY <1>4
<1>6. /\ Len(slots) \in Nat /\ Len(slots') = Len(slots) + 1
      /\ slots' \in Seq(Nat \X Nat) /\ \A s \in 1..Len(slots') : slots'[s][2] <= Len(ops')
      /\ \A s \in 1..Len(slots) : SlotOps(s)' = SlotOps(s)
      /\ slots'[Len(slots) + 1] = x
  BY <1>0, <1>3, <1>4, <1>5, SlotsKept
<1>7. SessionTyped'
  <2>1. {active', lastError', consumed', shown'} \subseteq BOOLEAN
    BY <1>0, <1>3 DEF SessionTyped
  <2>2. base' \in 0..Len(ops')
    BY <1>3, <1>4
  <2>3. /\ asked' <= drained' /\ drained' <= ready' /\ ready' <= Len(slots')
        /\ asked' \in Nat /\ drained' \in Nat /\ ready' \in Nat
    BY <1>0, <1>3, <1>6 DEF SessionTyped
  <2> QED
    BY <1>3, <1>6, <2>1, <2>2, <2>3 DEF SessionTyped
<1>8. \A n \in 1..Len(new) : \E s \in (drained + 1)..Len(slots') : Len(ops) + n \in SlotOps(s)'
  <2> PICK s : s = Len(slots) + 1
    OBVIOUS
  <2>1. s \in (drained + 1)..Len(slots')
    BY <1>0, <1>6 DEF SessionTyped
  <2>2. \A n \in 1..Len(new) : Len(ops) + n \in SlotOps(s)'
    BY <1>2, <1>4, <1>5, <1>6 DEF SlotOps
  <2> QED
    BY <2>1, <2>2
<1>9. SessionInv'
  <2>1. Len(slots') \in Nat /\ Len(slots') >= Len(slots) /\ prompt' \in {"ready", "sync", "end"}
        /\ prompt' \notin {"sync", "end"}
    BY <1>3, <1>6
  <2> QED
    BY <1>0, <1>1, <1>2, <1>3, <1>6, <1>8, <2>1, SessionEnqueues
<1> QED
  BY <1>1, <1>2, <1>7, <1>9, CommandKeeps

LEMMA SyncIsNew ==
  /\ Len(<<Op("sync", "pipeline")>>) = 1 /\ <<Op("sync", "pipeline")>>[1] = Op("sync", "pipeline")
  /\ New(<<Op("sync", "pipeline")>>)
<1>1. Op("sync", "pipeline") \in Operations
  BY OpIs
<1>2. <<Op("sync", "pipeline")>> \in Seq(Operations) /\ Len(<<Op("sync", "pipeline")>>) = 1
      /\ <<Op("sync", "pipeline")>>[1] = Op("sync", "pipeline")
  BY <1>1
<1> QED
  BY <1>2, OpIs DEF New

LEMMA SyncKeeps ==
  ASSUME IInv, SyncPipeline \/ EndPipeline
  PROVE  IInv'
<1>0. TypeInv /\ SessionInv /\ SessionTyped
  BY TypeParts DEF IInv
<1> PICK new : new = <<Op("sync", "pipeline")>>
  OBVIOUS
<1>1. /\ Enqueue(new) /\ prompt = "ready" /\ prompt' \in {"sync", "end"}
      /\ UNCHANGED <<active, ready, drained, asked, lastError, consumed, shown, base>>
      /\ slots' = slots \/ slots' = Append(slots, <<1, 0>>)
  BY DEF SyncPipeline, EndPipeline
<1>2. /\ Len(new) = 1 /\ new[Len(new)] = Op("sync", "pipeline") /\ New(new)
      /\ new[Len(new)].kind = "sync" /\ new[Len(new)].by = "pipeline"
  BY SyncIsNew, OpIs
<1>3. /\ Len(ops) \in Nat /\ Len(ops') \in Nat /\ Len(ops') = Len(ops) + Len(new)
      /\ Len(ops') >= Len(ops) /\ base \in 0..Len(ops')
  <2>1. Len(ops) \in Nat /\ base \in 0..Len(ops)
    BY <1>0, Parts DEF TypeInv, SessionTyped
  <2>2. Len(ops') = Len(ops) + Len(new)
    BY <1>0, <1>1, <1>2, EnqueueFacts
  <2> QED
    BY <1>2, <2>1, <2>2
<1>4. /\ Len(slots) \in Nat /\ Len(slots') \in Nat /\ Len(slots') >= Len(slots)
      /\ slots' \in Seq(Nat \X Nat) /\ \A s \in 1..Len(slots') : slots'[s][2] <= Len(ops')
      /\ \A s \in 1..Len(slots) : SlotOps(s)' = SlotOps(s)
  <2>1. CASE slots' = slots
    <3>1. slots \in Seq(Nat \X Nat) /\ Len(slots) \in Nat
          /\ \A s \in 1..Len(slots) : slots[s][2] \in Nat /\ slots[s][2] <= Len(ops)
      BY <1>0, LenProperties, ElementOfSeq DEF SessionTyped
    <3> QED
      BY <1>3, <2>1, <3>1 DEF SlotOps
  <2>2. CASE slots' = Append(slots, <<1, 0>>)
    <3> PICK x : x = <<1, 0>>
      OBVIOUS
    <3>1. x \in Nat \X Nat /\ x[2] <= Len(ops')
      BY <1>3
    <3>2. /\ Len(slots) \in Nat /\ Len(slots') = Len(slots) + 1
          /\ slots' \in Seq(Nat \X Nat) /\ \A s \in 1..Len(slots') : slots'[s][2] <= Len(ops')
          /\ \A s \in 1..Len(slots) : SlotOps(s)' = SlotOps(s)
      BY <1>0, <1>3, <2>2, <3>1, SlotsKept
    <3>3. Len(slots') \in Nat /\ Len(slots') >= Len(slots)
      BY <3>2
    <3> QED
      BY <3>2, <3>3
  <2> QED
    BY <1>1, <2>1, <2>2
<1>5. SessionTyped'
  BY <1>0, <1>1, <1>3, <1>4 DEF SessionTyped
<1>6. SessionInv'
  <2>1. /\ \A n \in 1..Len(new) : n = Len(new) /\ new[n].kind = "sync"
        /\ Len(new) > 0 /\ prompt' \in {"ready", "sync", "end"}
    BY <1>1, <1>2
  <2> QED
    BY <1>0, <1>1, <1>2, <1>4, <2>1, SessionEnqueues
<1> QED
  BY <1>1, <1>2, <1>5, <1>6, CommandKeeps

-----------------------------------------------------------------------------
(* Steps that leave the operations alone.                                  *)

LEMMA QuietKeeps ==
  ASSUME IInv, UNCHANGED <<client, served, skipping, copying>>, flushAt' \in 0..Len(ops),
         Replies' = Replies, down' \in Seq(ReplyType), out' \in Seq(ReplyType),
         SessionTyped', SessionInv'
  PROVE  IInv'
<1>0. TypeInv /\ OutcomesTruthful /\ SyncsTruthful /\ WireInv /\ NoProtocolFailure
  BY DEF IInv
<1>1. WireTyped' /\ WireInv' /\ OutcomesTruthful' /\ SyncsTruthful' /\ NoProtocolFailure'
  BY <1>0, WireKept
<1> QED
  BY <1>1, TypeParts DEF IInv

\* A step of psql alone.
LEMMA PsqlKeeps ==
  ASSUME IInv, UNCHANGED <<client, server, down>>, SessionTyped', SessionInv'
  PROVE  IInv'
<1>1. /\ UNCHANGED <<client, served, skipping, copying>> /\ flushAt' = flushAt
      /\ out' = out /\ down' = down
  BY DEF server
<1>2. WireTyped
  BY TypeParts DEF IInv
<1> QED
  BY <1>1, <1>2, QuietKeeps DEF WireTyped, Replies

\* The same operations, and what was told of them at no less a place.
LEMMA ToldKept ==
  ASSUME UNCHANGED <<ops, head>>,
         \A i \in (base + 1)..Len(ops) : ops[i].by = "pipeline" => Told(i)',
         base' = base, consumed' => shown', prompt' \notin {"off", "sync", "end"}
  PROVE  SessionInv'
BY DEF SessionInv

LEMMA OutputKeeps ==
  ASSUME IInv, SendKept \/ FlushRequest
  PROVE  IInv'
<1>0. TypeInv /\ SessionInv /\ SessionTyped /\ WireTyped
  BY TypeParts DEF IInv
<1>1. /\ UNCHANGED <<client, served, skipping, copying>>
      /\ UNCHANGED <<active, prompt, slots, drained, asked, lastError, consumed, shown, base>>
      /\ ready' = ready \/ ready' = Len(slots)
      /\ Send(<<>>) \/ UNCHANGED <<out, down>>
      /\ flushAt' \in {0, flushAt, Len(ops)}
  BY DEF SendKept, FlushRequest, session
<1>2. ops' = ops /\ head' = head
  BY <1>1 DEF client
<1>3. Len(ops) \in Nat /\ flushAt' \in 0..Len(ops)
  BY <1>0, <1>1, Parts DEF TypeInv, WireTyped
<1>4. Replies' = Replies /\ down' \in Seq(ReplyType) /\ out' \in Seq(ReplyType)
  <2>1. CASE Send(<<>>)
    <3>1. <<>> \in Seq(ReplyType)
      OBVIOUS
    <3>2. Replies' = Replies \o <<>> /\ down' \in Seq(ReplyType) /\ out' \in Seq(ReplyType)
      BY <1>0, <2>1, <3>1, RepliesSent
    <3> QED
      BY <1>0, <3>2, RepliesType, ConcatEmptySeq
  <2>2. CASE UNCHANGED <<out, down>>
    BY <1>0, <2>2 DEF WireTyped, Replies
  <2> QED
    BY <1>1, <2>1, <2>2
<1>5. SessionTyped'
  <2>1. Len(slots) \in Nat /\ drained <= ready' /\ ready' <= Len(slots) /\ ready' \in Nat
    <3>1. Len(slots) \in Nat
      BY <1>0, LenProperties DEF SessionTyped
    <3> QED
      BY <1>0, <1>1, <3>1 DEF SessionTyped
  <2> QED
    BY <1>0, <1>1, <1>2, <2>1 DEF SessionTyped
<1>6. SessionInv'
  BY <1>0, <1>1, <1>2 DEF SessionInv, Told, NotFailed, AtBarrier, SlotOps
<1> QED
  BY <1>1, <1>3, <1>4, <1>5, <1>6, QuietKeeps

LEMMA SyncedKeeps ==
  ASSUME IInv, Synced
  PROVE  IInv'
<1>0. TypeInv /\ SessionInv /\ SessionTyped /\ TypeOK
  BY TypeParts DEF IInv, TypeInv
<1>1. /\ prompt = "sync" /\ Settled(Barrier) /\ prompt' = "ready" /\ ready' = Len(slots)
      /\ lastError' = (lastError \/ \E i \in Pending \cup {Barrier} : Rejected(i))
      /\ UNCHANGED <<client, server, down, active, slots, drained, asked, consumed, shown, base>>
  BY DEF Synced
<1>2. ops' = ops /\ head' = head
  BY <1>1 DEF client
<1>3. Barrier \in (base + 1)..Len(ops) /\ AtBarrier(Barrier)
  BY <1>0, <1>1, BarrierIs
<1>4. Len(ops) \in Nat /\ base \in Nat /\ DOMAIN ops = 1..Len(ops) /\ Len(slots) \in Nat
  BY <1>0, Parts, LenProperties DEF SessionTyped
<1>5. SessionTyped'
  <2>1. {active', lastError', consumed', shown'} \subseteq BOOLEAN
    BY <1>0, <1>1 DEF SessionTyped
  <2>2. drained <= Len(slots)
    BY <1>0, <1>4 DEF SessionTyped
  <2> QED
    BY <1>0, <1>1, <1>2, <1>4, <2>1, <2>2 DEF SessionTyped
<1>6. ASSUME NEW i \in (base + 1)..Len(ops), ops[i].by = "pipeline" PROVE Told(i)'
  <2>1. Told(i)
    BY <1>0, <1>1, <1>6 DEF SessionInv
  <2>2. CASE AtBarrier(i)
    <3>1. i = Barrier
      BY <1>3, <1>4, <1>6, <2>2 DEF AtBarrier
    <3>2. i \in 1..Len(ops) /\ i < head
      BY <1>0, <1>1, <1>4, <3>1 DEF TypeOK
    <3>3. ops[i].outcome = "failed" => lastError'
      BY <1>1, <3>1 DEF Rejected
    <3> QED
      BY <1>2, <3>2, <3>3 DEF Told, NotFailed
  <2>3. CASE ~AtBarrier(i)
    <3>1. lastError => lastError'
      BY <1>1
    <3> QED
      BY <1>1, <1>2, <2>1, <2>3, <3>1 DEF Told, NotFailed, SlotOps
  <2> QED
    BY <2>2, <2>3
<1>7. SessionInv'
  <2>1. consumed' => shown'
    BY <1>0, <1>1 DEF SessionInv
  <2> QED
    BY <1>1, <1>2, <1>6, <2>1, ToldKept
<1> QED
  BY <1>1, <1>5, <1>7, PsqlKeeps

LEMMA GetResultsKeeps ==
  ASSUME IInv, GetResults
  PROVE  IInv'
<1>0. TypeInv /\ SessionInv /\ SessionTyped
  BY TypeParts DEF IInv
<1>1. /\ prompt = "ready" /\ prompt' = "results" /\ asked' = drained
      /\ drained' \in (drained + 1)..ready
      /\ UNCHANGED <<client, server, down, active, slots, ready, lastError, consumed, shown, base>>
  BY DEF GetResults
<1>2. ops' = ops /\ head' = head
  BY <1>1 DEF client
<1>3. SessionTyped'
  <2>1. drained' \in Nat /\ asked' <= drained' /\ drained' <= ready
    BY <1>0, <1>1 DEF SessionTyped
  <2> QED
    BY <1>0, <1>1, <1>2, <2>1 DEF SessionTyped
<1>4. SessionInv'
  <2>1. \A i : Told(i) => Told(i)'
    BY <1>1, <1>2 DEF Told, NotFailed, SlotOps
  <2> QED
    BY <1>0, <1>1, <1>2, <2>1, ToldKept DEF SessionInv
<1> QED
  BY <1>1, <1>3, <1>4, PsqlKeeps

LEMMA GotResultsKeeps ==
  ASSUME IInv, GotResults
  PROVE  IInv'
<1>0. TypeInv /\ SessionInv /\ SessionTyped /\ TypeOK
  BY TypeParts DEF IInv, TypeInv
<1> DEFINE Bad == \E s \in (asked + 1)..drained : SlotRejected(s)
<1>1. /\ prompt = "results" /\ prompt' = "ready" /\ asked' = 0
      /\ \A s \in (asked + 1)..drained : SlotSettled(s)
      /\ Bad => shown' = TRUE /\ consumed' = TRUE /\ lastError' = FALSE
      /\ ~Bad => UNCHANGED <<shown, consumed, lastError>>
      /\ UNCHANGED <<client, server, down, active, slots, ready, drained, base>>
  BY DEF GotResults
<1> HIDE DEF Bad
<1>2. ops' = ops /\ head' = head
  BY <1>1 DEF client
<1>3. /\ Len(ops) \in Nat /\ base \in Nat /\ DOMAIN ops = 1..Len(ops) /\ Len(slots) \in Nat
      /\ asked \in Nat /\ drained \in Nat
  BY <1>0, Parts, LenProperties DEF SessionTyped
<1>4. SessionTyped'
  <2>1. {active', lastError', consumed', shown'} \subseteq BOOLEAN
    BY <1>0, <1>1 DEF SessionTyped
  <2>2. asked' <= drained /\ asked' \in Nat
    BY <1>1, <1>3
  <2> QED
    BY <1>0, <1>1, <1>2, <2>1, <2>2 DEF SessionTyped
<1>5. ASSUME NEW i \in (base + 1)..Len(ops), ops[i].by = "pipeline" PROVE Told(i)'
  <2>1. CASE Bad
    BY <1>1, <2>1 DEF Told
  <2>2. CASE ~Bad
    <3>1. Told(i) /\ shown' = shown /\ lastError' = lastError
      BY <1>0, <1>1, <1>5, <2>2 DEF SessionInv
    <3>2. ASSUME NEW s \in (asked + 1)..Len(slots), i \in SlotOps(s)
          PROVE  NotFailed(i) \/ s \in (drained + 1)..Len(slots)
      <4>1. CASE s \in (asked + 1)..drained
        <5>1. ~SlotRejected(s) /\ SlotSettled(s)
          BY <1>1, <2>2, <4>1 DEF Bad
        <5>2. Settled(i) /\ ~Rejected(i)
          BY <3>2, <5>1 DEF SlotSettled, SlotRejected
        <5>3. i \in 1..Len(ops) /\ i < head
          BY <1>0, <1>3, <5>2 DEF TypeOK
        <5> QED
          BY <5>2, <5>3 DEF NotFailed, Rejected
      <4> QED
        BY <1>3, <4>1
    <3>3. shown \/ lastError \/ NotFailed(i) \/ \E s \in (drained + 1)..Len(slots) : i \in SlotOps(s)
      BY <1>1, <3>1, <3>2 DEF Told
    <3>4. NotFailed(i) => NotFailed(i)'
      BY <1>2 DEF NotFailed
    <3>5. \A s : SlotOps(s)' = SlotOps(s)
      BY <1>1 DEF SlotOps
    <3> QED
      BY <1>1, <3>1, <3>3, <3>4, <3>5 DEF Told
  <2> QED
    BY <2>1, <2>2
<1>6. SessionInv'
  <2>1. consumed' => shown'
    <3>1. CASE Bad
      BY <1>1, <3>1
    <3>2. CASE ~Bad
      <4>1. consumed' = consumed /\ shown' = shown /\ (consumed => shown)
        BY <1>0, <1>1, <3>2 DEF SessionInv
      <4> QED
        BY <4>1
    <3> QED
      BY <3>1, <3>2
  <2> QED
    BY <1>1, <1>2, <1>5, <2>1, ToldKept
<1> QED
  BY <1>1, <1>4, <1>6, PsqlKeeps

LEMMA EndedKeeps ==
  ASSUME IInv, Ended
  PROVE  IInv'
<1>0. TypeInv /\ SessionInv /\ SessionTyped /\ TypeOK
  BY TypeParts DEF IInv, TypeInv
<1>1. /\ prompt = "end" /\ Settled(Barrier) /\ prompt' = "off" /\ active' = FALSE
      /\ lastError' = Stash
      /\ shown' = (shown \/ lastError' \/ \E s \in (drained + 1)..Len(slots) : SlotRejected(s))
      /\ slots' = <<>> /\ ready' = 0 /\ drained' = 0 /\ asked' = 0 /\ consumed' = FALSE
      /\ UNCHANGED <<client, server, down, base>>
  BY DEF Ended
<1>2. ops' = ops /\ head' = head
  BY <1>1 DEF client
<1>3. Barrier \in (base + 1)..Len(ops) /\ AtBarrier(Barrier)
  BY <1>0, <1>1, BarrierIs
<1>4. Len(ops) \in Nat /\ base \in Nat /\ DOMAIN ops = 1..Len(ops) /\ head \in Nat
  BY <1>0, Parts DEF SessionTyped
<1>5. SessionTyped'
  <2>1. lastError' \in BOOLEAN /\ shown' \in BOOLEAN
    BY <1>0, <1>1 DEF SessionTyped, Stash
  <2>2. <<>> \in Seq(Nat \X Nat) /\ Len(<<>>) = 0
    OBVIOUS
  <2>3. {active', lastError', consumed', shown'} \subseteq BOOLEAN
    BY <1>1, <2>1
  <2> QED
    BY <1>0, <1>1, <1>2, <2>2, <2>3 DEF SessionTyped
<1>6. ASSUME NEW i \in (base + 1)..Len(ops), ops[i].by = "pipeline", ~shown'
      PROVE  NotFailed(i)
  <2>1. ~shown /\ ~lastError' /\ \A s \in (drained + 1)..Len(slots) : ~SlotRejected(s)
    BY <1>1, <1>6
  <2>2. ~consumed
    BY <1>0, <2>1 DEF SessionInv
  <2>3. ~Rejected(Barrier) /\ ~lastError
    BY <1>1, <2>1, <2>2 DEF Stash
  <2>4. i \in 1..Len(ops) /\ Barrier \in 1..Len(ops) /\ i <= Barrier
    BY <1>3, <1>4, <1>6 DEF AtBarrier
  <2>5. i < head
    BY <1>0, <1>1, <1>4, <2>4 DEF TypeOK
  <2>6. Told(i)
    BY <1>0, <1>1, <1>6 DEF SessionInv
  <2>7. CASE AtBarrier(i)
    <3>1. i = Barrier
      BY <1>3, <1>4, <1>6, <2>7 DEF AtBarrier
    <3> QED
      BY <2>3, <2>5, <3>1 DEF NotFailed, Rejected
  <2>8. CASE \E s \in (drained + 1)..Len(slots) : i \in SlotOps(s)
    BY <2>1, <2>5, <2>8 DEF SlotRejected, Rejected, NotFailed
  <2> QED
    BY <1>1, <2>1, <2>3, <2>6, <2>7, <2>8 DEF Told
<1>7. SessionInv'
  BY <1>1, <1>2, <1>6 DEF SessionInv, NotFailed
<1> QED
  BY <1>1, <1>5, <1>7, PsqlKeeps

LEMMA EndClosedKeeps ==
  ASSUME IInv, EndClosed
  PROVE  IInv'
<1>0. SessionTyped
  BY TypeParts DEF IInv
<1>1. /\ prompt' = "off" /\ shown' = TRUE
      /\ slots' = <<>> /\ ready' = 0 /\ drained' = 0 /\ asked' = 0 /\ consumed' = FALSE
      /\ UNCHANGED <<client, server, down, active, lastError, base>>
  BY DEF EndClosed
<1>2. ops' = ops
  BY <1>1 DEF client
<1>3. SessionTyped'
  <2>1. <<>> \in Seq(Nat \X Nat) /\ Len(<<>>) = 0
    OBVIOUS
  <2>2. {active', lastError', consumed', shown'} \subseteq BOOLEAN
    BY <1>0, <1>1 DEF SessionTyped
  <2> QED
    BY <1>0, <1>1, <1>2, <2>1, <2>2 DEF SessionTyped
<1>4. SessionInv'
  BY <1>1 DEF SessionInv
<1> QED
  BY <1>1, <1>3, <1>4, PsqlKeeps

-----------------------------------------------------------------------------
(* The theorems.                                                           *)

LEMMA InitIInv ==
  ASSUME Init
  PROVE  IInv
<1>1. /\ Len(ops) = 0 /\ DOMAIN ops = {} /\ ops \in Seq(Operations) /\ Len(slots) = 0
      /\ slots \in Seq(Nat \X Nat) /\ down \in Seq(ReplyType) /\ out \in Seq(ReplyType)
  BY DEF Init
<1>2. TypeInv
  <2>1. TypeOK
    <3>1. {error, active, failure, skipping, copying, lastError, consumed, shown} \subseteq BOOLEAN
      BY DEF Init
    <3>2. asked <= drained /\ drained <= ready /\ ready <= Len(slots) /\ Len(ops) <= MaxOps
      BY <1>1, PsqlPipelineConstants DEF Init
    <3>3. head \in 1..(Len(ops) + 1) /\ served \in 0..Len(ops) /\ flushAt \in 0..Len(ops)
          /\ base \in 0..Len(ops)
      BY <1>1 DEF Init
    <3> QED
      BY <1>1, <3>1, <3>2, <3>3 DEF Init, TypeOK
  <2>2. /\ \A s \in 1..Len(slots) : slots[s][2] <= Len(ops)
        /\ asked \in Nat /\ drained \in Nat /\ ready \in Nat
    BY <1>1 DEF Init
  <2> QED
    BY <1>1, <2>1, <2>2 DEF TypeInv
<1>3. Replies = <<>> /\ Len(Replies) = 0
  BY DEF Init, Replies
<1>4. WireInv
  <2>1. ~Broken(0)
    BY DEF Broken, BrokenIn
  <2>2. FatesSound
    BY <1>1, <2>1 DEF Init, FatesSound
  <2>3. RepliesTrue /\ RepliesOrdered /\ RepliesComplete
    BY <1>3 DEF Init, RepliesTrue, RepliesOrdered, RepliesComplete
  <2>4. ErrorSound
    <3>1. head - 1 = 0 /\ ~error
      BY DEF Init
    <3> QED
      BY <2>1, <3>1 DEF ErrorSound
  <2>5. OutcomesSound /\ IdleSound
    BY <1>1, <1>3 DEF Init, OutcomesSound, IdleSound
  <2> QED
    BY <2>2, <2>3, <2>4, <2>5 DEF WireInv
<1>5. SessionInv
  BY <1>1 DEF Init, SessionInv
<1> QED
  BY <1>1, <1>2, <1>4, <1>5 DEF Init, IInv, OutcomesTruthful, SyncsTruthful, NoProtocolFailure

LEMMA NextKeeps ==
  ASSUME IInv, [Next]_vars
  PROVE  IInv'
<1>1. CASE User
  BY <1>1, StartKeeps, SendKeeps, OutputKeeps, SyncKeeps, GetResultsKeeps, EndClosedKeeps DEF User
<1>2. CASE Synced \/ GotResults \/ Ended \/ Query
  BY <1>2, SyncedKeeps, GotResultsKeeps, EndedKeeps, QueryKeeps
<1>3. CASE Serve \/ SendKept \/ Receive
  BY <1>3, ServeKeeps, OutputKeeps, ReceiveKeeps
<1>4. CASE LoseConnection
  BY <1>4, ClosedKeeps DEF LoseConnection
<1>5. CASE UNCHANGED vars
  <2>1. UNCHANGED <<client, server, down, session>>
    BY <1>5 DEF vars
  <2>2. SessionTyped' /\ SessionInv'
    <3>1. SessionTyped /\ SessionInv /\ ops' = ops /\ head' = head
      BY <2>1, TypeParts DEF IInv, client
    <3> QED
      BY <2>1, <3>1 DEF session, SessionTyped, SessionInv, Told, NotFailed, AtBarrier, SlotOps
  <2> QED
    BY <2>1, <2>2, PsqlKeeps
<1> QED
  BY <1>1, <1>2, <1>3, <1>4, <1>5 DEF Next

\* The invariant that the others follow from.
THEOREM Inductive == Spec => []IInv
<1>1. Init => IInv
  BY InitIInv
<1>2. IInv /\ [Next]_vars => IInv'
  BY NextKeeps
<1> QED
  BY <1>1, <1>2, PTL DEF Spec

\* However many operations are enqueued and whenever an error comes, the promise of an
\* operation says what the server did of it, and that of a Sync whether its batch failed.
THEOREM PromisesTruthfulAlways == Spec => []PromisesTruthful
<1>1. IInv => PromisesTruthful
  BY DEF IInv, TypeInv, PromisesTruthful
<1> QED
  BY <1>1, Inductive, PTL

\* The connection is never closed because a reply did not fit the head of its queue.
THEOREM NoProtocolFailureAlways == Spec => []NoProtocolFailure
<1>1. IInv => NoProtocolFailure
  BY DEF IInv
<1> QED
  BY <1>1, Inductive, PTL

\* No pipeline in which an operation failed ends without some error of it on the screen.
THEOREM EndTellsAlways == Spec => []EndTells
<1>1. IInv => EndTells
  BY DEF IInv, SessionInv, EndTells, NotFailed
<1> QED
  BY <1>1, Inductive, PTL
=============================================================================

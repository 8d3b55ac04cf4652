------------------------ MODULE RealtimeStreamProofs ------------------------
(***************************************************************************)
(* Proofs about a client and the service joined by one FIFO wire, for any  *)
(* number of queries, publications, bodies, baseline attempts and frames   *)
(* in flight.  The stream is a case of the unordered client, so what the   *)
(* rows are is known already; what is added is that no frame is taken for  *)
(* a protocol error, that the current queries show one cut, and that       *)
(* listeners and awaitTxId() tell the truth.                               *)
(***************************************************************************)
EXTENDS RealtimeStream, RealtimeUnorderedProofs, FunctionTheorems, WellFoundedInduction

-----------------------------------------------------------------------------
(* A position in the stream of frames.                                     *)

\* Where a query stands: known to the client, its epoch and sequence, and the
\* baseline sync on its way.
Standing == [reg : {"no", "yes", "gone"}, ep : Nat, seq : Nat, att : Nat, sent : Nat,
             ended : BOOLEAN]

\* The publications finished, the bodies of the open one, and every query.
Mark == [cut : Nat, open : BOOLEAN, body : Nat, q : [LiveIds -> Standing]]

Cut == IF Publishing THEN Len(log) - 1 ELSE Len(log)

Registration(l) ==
  IF bases[l] = <<>> THEN "no" ELSE IF l \in detached THEN "gone" ELSE "yes"

StandingNow(l) ==
  [reg |-> Registration(l), ep |-> Len(bases[l]),
   seq |-> IF bases[l] = <<>> THEN 0 ELSE Len(hist[l]) - bases[l][Len(bases[l])].at,
   att |-> syncing[l].attempt, sent |-> syncing[l].sent, ended |-> syncing[l].ended]

\* The position behind everything the service has sent.
Now ==
  [cut |-> Cut, open |-> Publishing,
   body |-> IF Publishing THEN Len(Bodies(Len(log))) ELSE 0,
   q |-> [l \in LiveIds |-> StandingNow(l)]]

\* The queries that the first n bodies of publication p reset.
ResetBy(p, n) ==
  {l \in LiveIds : \E i \in 1..n : /\ Bodies(p)[i].type = "reset_required"
                                   /\ l \in Bodies(p)[i].targets}

-----------------------------------------------------------------------------
(* What a frame does to the position.                                      *)

SameStanding(q, r) ==
  /\ r.reg = q.reg /\ r.ep = q.ep /\ r.seq = q.seq
  /\ r.att = q.att /\ r.sent = q.sent /\ (r.ended <=> q.ended)

OnlyQuery(l, s, t) ==
  /\ t.cut = s.cut /\ ~s.open /\ ~t.open
  /\ \A k \in LiveIds : k # l => SameStanding(s.q[k], t.q[k])

OnlyPublication(s, t) == \A l \in LiveIds : SameStanding(s.q[l], t.q[l])

TakesSubscribed(m, s, t) ==
  /\ m.type = "subscribed" /\ m.id \in LiveIds
  /\ OnlyQuery(m.id, s, t)
  /\ LET q == s.q[m.id]  r == t.q[m.id]
     IN  /\ q.reg = "no" /\ r.reg = "yes" /\ r.ep = m.epoch /\ r.seq = m.first
         /\ r.att = 0 /\ ~r.ended

\* The service may acknowledge an unsubscribe while a publication is open.
TakesUnsubscribed(m, s, t) ==
  /\ m.type = "unsubscribed" /\ m.id \in detached
  /\ t.cut = s.cut /\ t.body = s.body /\ (t.open <=> s.open)
  /\ \A k \in LiveIds : k # m.id => SameStanding(s.q[k], t.q[k])
  /\ s.q[m.id].reg = "yes" /\ t.q[m.id].reg = "gone"

\* A baseline frame of the epoch that is under way.
InBaseline(m, s, t) ==
  /\ m.id \in LiveIds
  /\ OnlyQuery(m.id, s, t)
  /\ LET q == s.q[m.id]  r == t.q[m.id]
     IN  /\ q.reg = "yes" /\ r.reg = "yes" /\ q.ep = m.epoch /\ r.ep = q.ep
         /\ r.seq = q.seq /\ ~q.ended /\ r.att = m.attempt /\ m.attempt # 0

TakesStart(m, s, t) ==
  /\ m.type = "baseline_sync_start" /\ InBaseline(m, s, t)
  /\ LET q == s.q[m.id]  r == t.q[m.id]
     IN  m.attempt = q.att + 1 /\ r.sent = 0 /\ ~r.ended
  /\ m.upto <= s.cut

TakesBatch(m, s, t) ==
  /\ m.type = "baseline_sync_batch" /\ InBaseline(m, s, t)
  /\ LET q == s.q[m.id]  r == t.q[m.id]
     IN  m.attempt = q.att /\ m.index = q.sent /\ r.sent = q.sent + 1 /\ ~r.ended

TakesEnd(m, s, t) ==
  /\ m.type = "baseline_sync_end" /\ InBaseline(m, s, t)
  /\ LET q == s.q[m.id]  r == t.q[m.id]
     IN  m.attempt = q.att /\ m.count = q.sent /\ r.ended

TakesOpen(m, s, t) ==
  /\ m.type = "open" /\ m.pub = s.cut + 1
  /\ t.cut = s.cut /\ ~s.open /\ t.open /\ t.body = 0
  /\ OnlyPublication(s, t)

\* A body names the place of each query it changes, and the next epoch of each
\* query it resets, which it does not change.
TakesBody(m, s, t) ==
  /\ m.type \in {"keyed_results", "reset_required"}
  /\ m.pub = s.cut + 1 /\ m.index = s.body
  /\ t.cut = s.cut /\ s.open /\ t.open /\ t.body = s.body + 1
  /\ OnlyPublication(s, t)
  /\ \A l \in m.targets :
       /\ s.q[l].reg = "yes" /\ l \notin ResetBy(m.pub, m.index)
       /\ m.type = "keyed_results" =>
            m.at[l].epoch = s.q[l].ep /\ m.at[l].seq = s.q[l].seq
       /\ m.type = "reset_required" =>
            /\ m.at[l].epoch = s.q[l].ep + 1 /\ m.at[l].seq = 0
            /\ log[m.pub].staged[m.index + 1][l] = <<>>

\* A query that a publication resets begins a new epoch, one that it changes
\* counts one more batch.
Committed(p, l, q, r) ==
  /\ r.reg = q.reg
  /\ IF l \in log[p].resets
       THEN r.ep = q.ep + 1 /\ r.seq = 0 /\ r.att = 0 /\ ~r.ended
       ELSE /\ r.ep = q.ep /\ r.att = q.att /\ r.sent = q.sent /\ (r.ended <=> q.ended)
            /\ q.reg # "no" => r.seq = IF Whole(p, l) # <<>> THEN q.seq + 1 ELSE q.seq

TakesCommit(m, s, t) ==
  /\ m.type = "commit" /\ m.pub = s.cut + 1 /\ m.count = s.body /\ m.ordered
  /\ t.cut = s.cut + 1 /\ s.open /\ ~t.open
  /\ log[m.pub].done /\ s.body = Len(Bodies(m.pub))
  /\ \A l \in LiveIds : Committed(m.pub, l, s.q[l], t.q[l])

TakesProgress(m, s, t) ==
  /\ m.type = "progress" /\ m.upto = s.cut
  /\ t.cut = s.cut /\ ~s.open /\ ~t.open
  /\ OnlyPublication(s, t)

Takes(m, s, t) ==
  \/ TakesSubscribed(m, s, t) \/ TakesUnsubscribed(m, s, t)
  \/ TakesStart(m, s, t) \/ TakesBatch(m, s, t) \/ TakesEnd(m, s, t)
  \/ TakesOpen(m, s, t) \/ TakesBody(m, s, t) \/ TakesCommit(m, s, t)
  \/ TakesProgress(m, s, t)

-----------------------------------------------------------------------------
(* The service.                                                            *)

Tx(l, i) == hist[l][i][1][1]

\* The batches of publication p begin with a fragment of p, ...
TxSound ==
  /\ \A l \in LiveIds : \A i \in 1..Len(hist[l]) :
       hist[l][i] # <<>> /\ Tx(l, i) \in Nat /\ Tx(l, i) <= Cut
  /\ \A p \in 1..Len(log) : \A i \in 1..Len(Bodies(p)) + 1 : \A l \in LiveIds :
       log[p].staged[i][l] # <<>> => log[p].staged[i][l][1][1] = p

\* ... a publication resets a query or changes it, ...
EitherWay ==
  \A p \in 1..Len(log) :
    /\ log[p].resets = ResetBy(p, Len(Bodies(p)))
    /\ \A l \in log[p].resets : Whole(p, l) = <<>>

\* ... and a baseline sync is one of the latest epoch.
BaselineState == [attempt : Nat, sent : Nat, ended : BOOLEAN]

SyncingSound ==
  /\ syncing \in [LiveIds -> BaselineState]
  /\ \A l \in LiveIds :
       /\ syncing[l].attempt <= MaxAttempts
       /\ syncing[l].ended => syncing[l].sent = bases[l][Len(bases[l])].at
       /\ bases[l] = <<>> => syncing[l].attempt = 0 /\ ~syncing[l].ended /\ l \notin detached
       /\ \A e \in 1..Len(bases[l]) : bases[l][e].upto <= Cut
  /\ detached \subseteq LiveIds

ServiceInv == TxSound /\ EitherWay /\ SyncingSound

-----------------------------------------------------------------------------
(* The service, the wire and the client agree.                             *)

\* The sequence of a query counts its batches up to the cut.
QuerySound(l, q, cut) ==
  /\ q.ep \in 1..Len(bases[l])
  /\ bases[l][q.ep].at + q.seq <= Len(hist[l])
  /\ \A i \in 1..Len(hist[l]) : i <= bases[l][q.ep].at + q.seq <=> Tx(l, i) <= cut

MarkSound(s) ==
  /\ s \in Mark /\ s.cut <= Cut
  /\ s.open => s.cut + 1 \in 1..Len(log) /\ s.body <= Len(Bodies(s.cut + 1))
  /\ \A l \in LiveIds : s.q[l].reg # "no" => QuerySound(l, s.q[l], s.cut)

\* A query that the client delivers to stands where the position says.
QueryAt(l, q, cut) ==
  /\ epoch[l] = q.ep /\ nextSeq[l] = q.seq /\ attempt[l] = q.att
  /\ sync[l].on <=> (q.att # 0 /\ ~q.ended)
  /\ sync[l].on => sync[l].nextBatch = q.sent /\ sync[l].upto <= cut
  /\ Installed(l) <=> q.ended

ResetAt(l, s) ==
  publication.resets[l] =
    IF s.open /\ l \in ResetBy(s.cut + 1, s.body)
      THEN [epoch |-> s.q[l].ep + 1, first |-> 0] ELSE NoReset

ClientAt(s) ==
  /\ publication.open <=> s.open
  /\ s.open => publication.id = s.cut + 1 /\ publication.nextBody = s.body
  /\ \A l \in LiveIds : /\ l \in pending <=> s.q[l].reg = "no"
                        /\ l \in registered <=> s.q[l].reg = "yes"
  /\ \A l \in active : QueryAt(l, s.q[l], s.cut) /\ ResetAt(l, s)

\* Every frame in flight takes the position of the client one step further, and
\* all of them together take it to where the service is.
Marks(st) ==
  /\ st \in Seq(Mark) /\ Len(st) = Len(wire) + 1
  /\ ClientAt(st[1]) /\ st[Len(wire) + 1] = Now
  /\ \A i \in 1..Len(wire) : Takes(wire[i], st[i], st[i + 1])
  /\ \A i \in 1..Len(st) : MarkSound(st[i])

WireSound == conn = "open" => \E st \in Seq(Mark) : Marks(st)

-----------------------------------------------------------------------------
(* The stream is a case of the unordered client.                           *)

\* A publication that is done does not change any more.
FinishedStay == \A p \in 1..Len(log) : log[p].done => log'[p] = log[p]

\* A new batch belongs to a publication behind the cut.
NewBehindCut ==
  /\ Cut \in Nat /\ Cut' \in Nat /\ Cut <= Cut'
  /\ \A l \in LiveIds : \A i \in 1..Len(hist'[l]) :
       i \notin 1..Len(hist[l]) => Tx(l, i)' \in Nat /\ Tx(l, i)' > Cut

ServiceGrows == Grows /\ FinishedStay /\ NewBehindCut /\ detached \subseteq detached'

\* The frames of a baseline are true as soon as its epoch has begun.
LEMMA BaselineFrameTrue ==
  ASSUME NEW l \in LiveIds, NEW e \in DOMAIN bases'[l], bases'[l] # <<>>,
         NEW a \in 1..MaxAttempts, NEW m,
         \/ m = StartFrame(l, e, a)' \/ m = EndFrame(l, e, a)'
         \/ \E i \in 0..(bases'[l][e].at - 1) : m = BatchFrame(l, e, a, i)'
  PROVE  m \in Frames'
<1> DEFINE Of(k, f, b) == {StartFrame(k, f, b)', EndFrame(k, f, b)'}
                            \cup {BatchFrame(k, f, b, i)' : i \in 0..(bases'[k][f].at - 1)}
           All(k) == UNION {Of(k, f, b) : f \in DOMAIN bases'[k], b \in 1..MaxAttempts}
<1>1. m \in Of(l, e, a)
  OBVIOUS
<1>2. l \in Admitted'
  BY DEF Admitted
<1>3. BaselineFrames' = UNION {All(k) : k \in Admitted'}
  BY DEF BaselineFrames
<1>4. m \in All(l)
  <2> HIDE DEF Of
  <2> QED BY <1>1
<1>5. m \in BaselineFrames'
  <2> HIDE DEF All
  <2> QED BY <1>2, <1>3, <1>4
<1> QED BY <1>5 DEF Frames

\* So are the frames of what has been published.
LEMMA PublicationFrameTrue ==
  ASSUME NEW m,
         \/ \E p \in DOMAIN log' : m = OpenFrame(p)
         \/ \E p \in DOMAIN log' : \E i \in 0..(Len(log'[p].bodies) - 1) :
              m = BodyFrame(p, i)'
         \/ \E p \in Done' : \E ordered \in BOOLEAN : m = CommitFrame(p, ordered)'
         \/ \E p \in Done' \cup {0} : m = ProgressFrame(p)
  PROVE  m \in Frames'
<1> DEFINE Of(p) == {BodyFrame(p, i)' : i \in 0..(Len(log'[p].bodies) - 1)}
<1>1. CASE \E p \in DOMAIN log' : m = OpenFrame(p)
  <2>1. m \in {OpenFrame(p) : p \in DOMAIN log'}
    BY <1>1
  <2> QED BY <2>1 DEF Frames, PublicationFrames, OpenFrame
<1>2. CASE \E p \in DOMAIN log' : \E i \in 0..(Len(log'[p].bodies) - 1) :
             m = BodyFrame(p, i)'
  <2>1. PICK p \in DOMAIN log' : m \in Of(p)
    BY <1>2
  <2>2. m \in UNION {Of(q) : q \in DOMAIN log'}
    <3> HIDE DEF Of
    <3> QED BY <2>1
  <2> QED BY <2>2 DEF Frames, PublicationFrames
<1>3. CASE \E p \in Done' : \E ordered \in BOOLEAN : m = CommitFrame(p, ordered)'
  <2>1. m \in {CommitFrame(p, ordered)' : p \in Done', ordered \in BOOLEAN}
    BY <1>3
  <2> QED BY <2>1 DEF Frames, PublicationFrames
<1>4. CASE \E p \in Done' \cup {0} : m = ProgressFrame(p)
  <2>1. m \in {ProgressFrame(p) : p \in Done' \cup {0}}
    BY <1>4
  <2> QED BY <2>1 DEF Frames, PublicationFrames, ProgressFrame
<1> QED BY <1>1, <1>2, <1>3, <1>4

\* A frame that was true stays true.
LEMMA FramesStayTrue ==
  ASSUME ServerInv, ServerInv', ServiceGrows
  PROVE  Frames \subseteq Frames'
<1> SUFFICES ASSUME NEW m \in Frames
             PROVE  m \in Frames'
  OBVIOUS
<1>1. CASE \E l \in Admitted : m = SubscribedFrame(l)
  <2>1. PICK l \in Admitted : m = SubscribedFrame(l)
    BY <1>1
  <2>2. l \in LiveIds /\ bases[l] # <<>>
    BY <2>1 DEF Admitted
  <2>3. Len(bases[l]) \in Nat /\ Len(bases[l]) # 0 /\ Len(bases[l]) <= Len(bases'[l])
    BY <2>2, HistoryTypes DEF ServerInv, ServiceGrows, Grows
  <2>4. l \in Admitted'
    BY <2>2, <2>3 DEF Admitted
  <2> QED BY <2>1, <2>4 DEF Frames, SubscribedFrame
<1>2. CASE \E l \in detached : m = UnsubscribedFrame(l)
  BY <1>2 DEF Frames, UnsubscribedFrame, ServiceGrows
<1>3. CASE \E l \in Admitted : \E e \in DOMAIN bases[l] : \E a \in 1..MaxAttempts :
             \/ m = StartFrame(l, e, a) \/ m = EndFrame(l, e, a)
             \/ \E i \in 0..(bases[l][e].at - 1) : m = BatchFrame(l, e, a, i)
  <2>0. PICK l \in Admitted : \E e \in DOMAIN bases[l] : \E a \in 1..MaxAttempts :
             \/ m = StartFrame(l, e, a) \/ m = EndFrame(l, e, a)
             \/ \E i \in 0..(bases[l][e].at - 1) : m = BatchFrame(l, e, a, i)
    BY <1>3
  <2>1. PICK e \in DOMAIN bases[l], a \in 1..MaxAttempts :
             \/ m = StartFrame(l, e, a) \/ m = EndFrame(l, e, a)
             \/ \E i \in 0..(bases[l][e].at - 1) : m = BatchFrame(l, e, a, i)
    BY <2>0
  <2>2. l \in LiveIds /\ bases[l] \in Seq(Baseline) /\ bases'[l] \in Seq(Baseline)
    BY <2>1 DEF Admitted, ServerInv, ServerTyped
  <2>3. e \in 1..Len(bases[l]) /\ Len(bases[l]) <= Len(bases'[l]) /\ bases'[l][e] = bases[l][e]
    BY <2>1, <2>2 DEF ServiceGrows, Grows
  <2>4. e \in DOMAIN bases'[l] /\ bases'[l] # <<>>
    BY <2>2, <2>3
  <2>5. StartFrame(l, e, a)' = StartFrame(l, e, a) /\ EndFrame(l, e, a)' = EndFrame(l, e, a)
    BY <2>3 DEF StartFrame, EndFrame
  <2>6. ASSUME NEW i \in 0..(bases[l][e].at - 1)
        PROVE  BatchFrame(l, e, a, i)' = BatchFrame(l, e, a, i)
    <3>1. bases[l][e].at \in Nat /\ bases[l][e].at <= Len(hist[l]) /\ Len(hist[l]) \in Nat
      BY <2>2, <2>3, HistoryTypes DEF ServerInv, BasesSound
    <3>2. i + 1 \in 1..Len(hist[l])
      BY <3>1
    <3>3. hist'[l][i + 1] = hist[l][i + 1]
      BY <2>2, <3>2 DEF ServiceGrows, Grows
    <3> QED BY <3>3 DEF BatchFrame
  <2> QED BY <2>1, <2>2, <2>3, <2>4, <2>5, <2>6, BaselineFrameTrue
<1>4. ASSUME NEW p \in DOMAIN log
      PROVE  /\ p \in DOMAIN log' /\ p \in 1..Len(log)
             /\ log[p].done => p \in Done' /\ log'[p] = log[p]
             /\ \A i \in 1..Len(log[p].bodies) : log'[p].bodies[i] = log[p].bodies[i]
             /\ Len(log[p].bodies) \in Nat /\ Len(log'[p].bodies) \in Nat
             /\ Len(log[p].bodies) <= Len(log'[p].bodies)
  <2>1. log \in Seq(Entry) /\ log' \in Seq(Entry) /\ p \in 1..Len(log)
    BY DEF ServerInv, ServerTyped
  <2>2. Len(log) <= Len(log') /\ p \in 1..Len(log')
    BY <2>1 DEF ServiceGrows, Grows
  <2>3. log[p] \in Entry /\ log'[p] \in Entry
    BY <2>1, <2>2, ElementOfSeq
  <2>4. Len(log[p].bodies) \in Nat /\ Len(log'[p].bodies) \in Nat
    BY <2>3 DEF Entry
  <2> QED BY <2>1, <2>2, <2>4 DEF ServiceGrows, Grows, FinishedStay, Done, Bodies
<1>5. CASE \E p \in DOMAIN log :
              \/ m = OpenFrame(p)
              \/ \E i \in 0..(Len(log[p].bodies) - 1) : m = BodyFrame(p, i)
  <2>1. PICK p \in DOMAIN log :
              \/ m = OpenFrame(p)
              \/ \E i \in 0..(Len(log[p].bodies) - 1) : m = BodyFrame(p, i)
    BY <1>5
  <2>2. ASSUME NEW i \in 0..(Len(log[p].bodies) - 1), m = BodyFrame(p, i)
        PROVE  i \in 0..(Len(log'[p].bodies) - 1) /\ m = BodyFrame(p, i)'
    <3>1. i + 1 \in 1..Len(log[p].bodies) /\ i \in 0..(Len(log'[p].bodies) - 1)
      BY <1>4
    <3> QED BY <1>4, <2>2, <3>1 DEF BodyFrame
  <2> QED BY <1>4, <2>1, <2>2, PublicationFrameTrue
<1>6. CASE \E p \in Done : \E ordered \in BOOLEAN : m = CommitFrame(p, ordered)
  <2>1. PICK p \in Done, ordered \in BOOLEAN : m = CommitFrame(p, ordered)
    BY <1>6
  <2>2. p \in Done' /\ m = CommitFrame(p, ordered)'
    BY <1>4, <2>1 DEF Done, CommitFrame
  <2> QED BY <2>2, PublicationFrameTrue
<1>7. CASE \E p \in Done \cup {0} : m = ProgressFrame(p)
  <2>1. Done \subseteq Done'
    BY <1>4 DEF Done
  <2> QED BY <1>7, <2>1, PublicationFrameTrue
<1> QED BY <1>1, <1>2, <1>3, <1>5, <1>6, <1>7, FrameIs

-----------------------------------------------------------------------------
(* What the service does, and which frame it sends.                        *)

\* The service at its own position: with the fields of Now.
NowIs(s) ==
  /\ s.cut = Cut /\ (s.open <=> Publishing)
  /\ s.body = IF Publishing THEN Len(Bodies(Len(log))) ELSE 0
  /\ \A l \in LiveIds :
       /\ s.q[l].reg = Registration(l) /\ s.q[l].ep = Len(bases[l])
       /\ s.q[l].seq = IF bases[l] = <<>> THEN 0 ELSE Len(hist[l]) - bases[l][Len(bases[l])].at
       /\ s.q[l].att = syncing[l].attempt /\ s.q[l].sent = syncing[l].sent
       /\ (s.q[l].ended <=> syncing[l].ended)

LEMMA NowFields ==
  ASSUME NEW s, s = Now
  PROVE  NowIs(s)
<1>1. /\ s.cut = Cut /\ (s.open <=> Publishing)
      /\ s.body = IF Publishing THEN Len(Bodies(Len(log))) ELSE 0
      /\ s.q = [l \in LiveIds |-> StandingNow(l)]
  BY DEF Now
<1>2. ASSUME NEW l \in LiveIds
      PROVE  s.q[l] = StandingNow(l)
  BY <1>1
<1> QED BY <1>1, <1>2 DEF NowIs, StandingNow

LEMMA NextFields ==
  ASSUME NEW t, t = Now'
  PROVE  NowIs(t)'
<1>1. /\ t.cut = Cut' /\ (t.open <=> Publishing')
      /\ t.body = IF Publishing' THEN Len(Bodies(Len(log))') ELSE 0
      /\ t.q = [l \in LiveIds |-> StandingNow(l)']
  BY DEF Now
<1>2. ASSUME NEW l \in LiveIds
      PROVE  t.q[l] = StandingNow(l)'
  BY <1>1
<1> QED BY <1>1, <1>2 DEF NowIs, StandingNow

\* The counters of the service are numbers.
LEMMA ServiceTypes ==
  ASSUME ServerInv, ServiceInv, NEW l \in LiveIds
  PROVE  /\ Len(log) \in Nat /\ Cut \in Nat /\ Cut <= Len(log)
         /\ Publishing => Len(log) \in 1..Len(log) /\ Cut + 1 = Len(log) /\ ~log[Len(log)].done
         /\ ~Publishing => Cut = Len(log)
         /\ syncing[l].attempt \in 0..MaxAttempts /\ syncing[l].sent \in Nat
         /\ syncing[l].ended \in BOOLEAN
         /\ bases[l] # <<>> => Len(bases[l]) \in 1..Len(bases[l])
         /\ bases[l] = <<>> <=> Len(bases[l]) = 0
<1>1. log \in Seq(Entry) /\ Len(log) \in Nat /\ (log # <<>> => Len(log) >= 1)
  BY DEF ServerInv, ServerTyped
<1>2. Cut \in Nat /\ Cut <= Len(log) /\ (~Publishing => Cut = Len(log))
      /\ (Publishing => Len(log) \in 1..Len(log) /\ Cut + 1 = Len(log) /\ ~log[Len(log)].done)
  BY <1>1 DEF Cut, Publishing
<1>3. MaxAttempts \in Nat
  BY ServerBounds
<1>4. syncing[l] \in BaselineState /\ syncing[l].attempt <= MaxAttempts
  BY DEF ServiceInv, SyncingSound
<1>5. bases[l] \in Seq(Baseline) /\ Len(bases[l]) \in Nat
  BY HistoryTypes DEF ServerInv
<1>6. bases[l] = <<>> <=> Len(bases[l]) = 0
  BY <1>5
<1> QED BY <1>1, <1>2, <1>3, <1>4, <1>5, <1>6 DEF BaselineState

\* The position of the service is one that a frame can lead to.
LEMMA NowSound ==
  ASSUME ServerInv', ServiceInv', NEW t, t = Now'
  PROVE  MarkSound(t)'
<1>1. NowIs(t)'
  BY NextFields
<1>2. log' \in Seq(Entry) /\ Len(log') \in Nat /\ (log' # <<>> => Len(log') >= 1)
  BY DEF ServerInv, ServerTyped
<1>3. Cut' \in Nat /\ Cut' <= Len(log') /\ (~Publishing' => Cut' = Len(log'))
      /\ (Publishing' => Len(log') \in 1..Len(log') /\ Cut' + 1 = Len(log'))
  BY <1>2 DEF Cut, Publishing
<1>4. /\ bases' \in [LiveIds -> Seq(Baseline)] /\ hist' \in [LiveIds -> Rows]
      /\ syncing' \in [LiveIds -> BaselineState]
  BY DEF ServerInv, ServerTyped, ServiceInv, SyncingSound
<1>5. Publishing' => Len(Bodies(Len(log))') \in Nat
  <2> SUFFICES ASSUME Publishing' PROVE Len(Bodies(Len(log))') \in Nat
    OBVIOUS
  <2>1. log'[Len(log')] \in Entry
    BY <1>2, <1>3, ElementOfSeq
  <2> QED BY <2>1 DEF Entry, Bodies
<1>6. ASSUME NEW l \in LiveIds
      PROVE  /\ StandingNow(l)' \in Standing
             /\ t.q[l].reg # "no" => QuerySound(l, t.q[l], t.cut)'
  <2>1. /\ bases'[l] \in Seq(Baseline) /\ hist'[l] \in Seq(Batch)
        /\ syncing'[l] \in BaselineState
    BY <1>4 DEF Rows
  <2>2. PICK n : n = Len(bases'[l])
    OBVIOUS
  <2>3. PICK h : h = Len(hist'[l])
    OBVIOUS
  <2>4. n \in Nat /\ h \in Nat /\ (n = 0 <=> bases'[l] = <<>>)
    BY <2>1, <2>2, <2>3
  <2>5. bases'[l] # <<>> => n \in 1..n
    BY <2>4
  <2>6. bases'[l] # <<>> => bases'[l][n].at \in Nat /\ bases'[l][n].at <= h
    <3> SUFFICES ASSUME bases'[l] # <<>>
                 PROVE  bases'[l][n].at \in Nat /\ bases'[l][n].at <= h
      OBVIOUS
    <3>1. bases'[l][n] \in Baseline
      BY <2>1, <2>2, <2>5, ElementOfSeq
    <3> QED BY <3>1, <2>2, <2>3, <2>5 DEF Baseline, ServerInv, BasesSound
  <2>7. /\ syncing'[l].attempt \in Nat /\ syncing'[l].sent \in Nat
        /\ syncing'[l].ended \in BOOLEAN
    BY <2>1 DEF BaselineState
  <2>8. StandingNow(l)' \in Standing
    <3>1. Registration(l)' \in {"no", "yes", "gone"}
      BY DEF Registration
    <3>2. (IF bases'[l] = <<>> THEN 0 ELSE h - bases'[l][n].at) \in Nat
      BY <2>4, <2>6
    <3> QED BY <3>1, <3>2, <2>2, <2>3, <2>4, <2>7 DEF StandingNow, Standing
  <2>9. ASSUME t.q[l].reg # "no"
        PROVE  QuerySound(l, t.q[l], t.cut)'
    <3>1. bases'[l] # <<>>
      BY <2>9, <1>1 DEF NowIs, Registration
    <3>2. t.q[l].ep = n /\ t.q[l].seq = h - bases'[l][n].at /\ t.cut = Cut'
      BY <1>1, <3>1, <2>2, <2>3 DEF NowIs
    <3>3. bases'[l][n].at + t.q[l].seq = h
      BY <3>1, <3>2, <2>4, <2>6
    <3>4. \A i \in 1..h : Tx(l, i)' <= Cut'
      BY <2>3 DEF ServiceInv, TxSound
    <3>5. \A i \in 1..h : i <= h
      BY <2>4
    <3> QED BY <2>2, <2>3, <2>4, <2>5, <3>1, <3>2, <3>3, <3>4, <3>5 DEF QuerySound
  <2> QED BY <2>8, <2>9
<1>7. t \in Mark
  <2>1. [l \in LiveIds |-> StandingNow(l)'] \in [LiveIds -> Standing]
    BY <1>6
  <2>2. Publishing' \in BOOLEAN
    BY DEF Publishing
  <2>3. (IF Publishing' THEN Len(Bodies(Len(log))') ELSE 0) \in Nat
    BY <1>5
  <2> QED BY <2>1, <2>2, <2>3, <1>3 DEF Now, Mark
<1>8. t.cut = Cut' /\ t.cut <= Cut'
  BY <1>1, <1>3 DEF NowIs
<1>9. t.open => t.cut + 1 \in 1..Len(log') /\ t.body <= Len(Bodies(t.cut + 1))'
  <2> SUFFICES ASSUME t.open
               PROVE  t.cut + 1 \in 1..Len(log') /\ t.body <= Len(Bodies(t.cut + 1)')
    OBVIOUS
  <2>1. Publishing' /\ t.cut + 1 = Len(log') /\ t.body = Len(Bodies(Len(log))')
    BY <1>1, <1>3 DEF NowIs
  <2> QED BY <2>1, <1>3, <1>5 DEF Bodies
<1> QED BY <1>6, <1>7, <1>8, <1>9 DEF MarkSound

\* What a position says stays true while the service goes on.
LEMMA ResetByStays ==
  ASSUME Grows, NEW p \in 1..Len(log), NEW n \in Nat, Len(Bodies(p)) \in Nat,
         n <= Len(Bodies(p))
  PROVE  ResetBy(p, n)' = ResetBy(p, n)
<1>1. \A i \in 1..Len(Bodies(p)) : log'[p].bodies[i] = Bodies(p)[i]
  BY Zenon DEF Grows
<1>2. \A i \in 1..n : Bodies(p)[i]' = Bodies(p)[i]
  <2> SUFFICES ASSUME NEW i \in 1..n
               PROVE  log'[p].bodies[i] = Bodies(p)[i]
    BY DEF Bodies
  <2>1. i \in 1..Len(Bodies(p))
    OBVIOUS
  <2> QED BY <1>1, <2>1
<1> QED BY <1>2 DEF ResetBy

LEMMA QueryStays ==
  ASSUME ServerInv, ServerInv', ServiceGrows, NEW l \in LiveIds, NEW q \in Standing,
         NEW cut \in Nat, cut <= Cut, QuerySound(l, q, cut)
  PROVE  QuerySound(l, q, cut)'
<1>1. PICK a : a = bases[l][q.ep].at + q.seq
  OBVIOUS
<1>2. q.ep \in 1..Len(bases[l]) /\ a <= Len(hist[l])
      /\ \A i \in 1..Len(hist[l]) : i <= a <=> Tx(l, i) <= cut
  BY <1>1 DEF QuerySound
<1>3. /\ Len(bases[l]) \in Nat /\ bases[l][q.ep].at \in Nat /\ Len(hist[l]) \in Nat
  BY <1>2, HistoryTypes DEF ServerInv
<1>4. Len(bases'[l]) \in Nat /\ Len(hist'[l]) \in Nat
  <2>1. bases'[l] \in Seq(Baseline) /\ hist'[l] \in Seq(Batch)
    BY DEF ServerInv, ServerTyped, Rows
  <2> QED BY <2>1
<1>5. /\ Len(bases[l]) <= Len(bases'[l]) /\ bases'[l][q.ep] = bases[l][q.ep]
      /\ Len(hist[l]) <= Len(hist'[l])
      /\ \A i \in 1..Len(hist[l]) : hist'[l][i] = hist[l][i]
  BY <1>2 DEF ServiceGrows, Grows
<1>6. q.ep \in 1..Len(bases'[l]) /\ a <= Len(hist'[l]) /\ a \in Nat
  <2>1. q.ep \in Nat /\ q.seq \in Nat
    BY DEF Standing
  <2>2. a \in Nat
    BY <1>1, <1>3, <2>1
  <2> QED BY <1>2, <1>3, <1>4, <1>5, <2>1, <2>2
<1>7. ASSUME NEW i \in 1..Len(hist'[l])
      PROVE  i <= a <=> Tx(l, i)' <= cut
  <2>1. CASE i \in 1..Len(hist[l])
    BY <1>2, <1>5, <2>1 DEF Tx
  <2>2. CASE i \notin 1..Len(hist[l])
    <3>1. Tx(l, i)' \in Nat /\ Tx(l, i)' > Cut /\ Cut \in Nat
      BY <2>2 DEF ServiceGrows, NewBehindCut
    <3>2. ~(i <= a)
      BY <1>2, <1>3, <1>4, <1>6, <2>2
    <3>3. ~(Tx(l, i)' <= cut)
      <4>1. PICK x : x = Tx(l, i)'
        OBVIOUS
      <4> QED BY <3>1, <4>1
    <3> QED BY <3>2, <3>3
  <2> QED BY <2>1, <2>2
<1> QED BY <1>1, <1>5, <1>6, <1>7 DEF QuerySound

LEMMA MarkStays ==
  ASSUME ServerInv, ServerInv', ServiceGrows, NEW s, MarkSound(s)
  PROVE  MarkSound(s)'
<1>1. s \in Mark /\ s.cut <= Cut /\ Cut \in Nat /\ Cut' \in Nat /\ Cut <= Cut'
  BY DEF MarkSound, ServiceGrows, NewBehindCut
<1>2. s.cut \in Nat /\ s.cut <= Cut' /\ s.body \in Nat /\ \A l \in LiveIds : s.q[l] \in Standing
  BY <1>1 DEF Mark
<1>3. s.open => s.cut + 1 \in 1..Len(log') /\ s.body <= Len(Bodies(s.cut + 1))'
  <2> SUFFICES ASSUME s.open
               PROVE  s.cut + 1 \in 1..Len(log') /\ s.body <= Len(Bodies(s.cut + 1)')
    OBVIOUS
  <2>1. PICK p : p = s.cut + 1
    OBVIOUS
  <2>2. p \in 1..Len(log) /\ s.body <= Len(Bodies(p))
    BY <2>1 DEF MarkSound
  <2>3. Len(log) \in Nat /\ log' \in Seq(Entry) /\ Len(log') \in Nat /\ Len(log) <= Len(log')
    BY DEF ServerInv, ServerTyped, ServiceGrows, Grows
  <2>4. p \in 1..Len(log')
    BY <2>2, <2>3
  <2>5. log'[p] \in Entry
    BY <2>3, <2>4, ElementOfSeq
  <2>6. Len(Bodies(p)') \in Nat /\ Len(Bodies(p)) \in Nat /\ Len(Bodies(p)) <= Len(Bodies(p)')
    BY <2>2, <2>5, EntryTypes DEF Entry, Bodies, ServerInv, ServiceGrows, Grows
  <2> QED BY <1>2, <2>1, <2>2, <2>4, <2>6
<1>4. ASSUME NEW l \in LiveIds, s.q[l].reg # "no"
      PROVE  QuerySound(l, s.q[l], s.cut)'
  <2>1. QuerySound(l, s.q[l], s.cut)
    BY <1>4 DEF MarkSound
  <2> QED BY <1>1, <1>2, <2>1, QueryStays
<1> QED BY <1>1, <1>2, <1>3, <1>4 DEF MarkSound

LEMMA TakesStays ==
  ASSUME ServerInv, ServerInv', ServiceGrows, NEW s, NEW t, NEW m, MarkSound(s), Takes(m, s, t)
  PROVE  Takes(m, s, t)'
<1>1. CASE \/ TakesSubscribed(m, s, t) \/ TakesStart(m, s, t) \/ TakesBatch(m, s, t)
           \/ TakesEnd(m, s, t) \/ TakesOpen(m, s, t) \/ TakesProgress(m, s, t)
  BY <1>1 DEF Takes, TakesSubscribed, TakesStart, TakesBatch, TakesEnd, TakesOpen,
              TakesProgress, InBaseline, OnlyQuery, OnlyPublication, SameStanding
<1>2. CASE TakesUnsubscribed(m, s, t)
  BY <1>2 DEF Takes, TakesUnsubscribed, ServiceGrows, SameStanding
<1>3. ASSUME s.open, NEW p, p = s.cut + 1
      PROVE  /\ ResetBy(p, s.body)' = ResetBy(p, s.body)
             /\ log'[p].staged[s.body + 1] = log[p].staged[s.body + 1]
             /\ log[p].done => log'[p] = log[p]
  <2>1. p \in 1..Len(log) /\ s.body \in Nat /\ s.body <= Len(Bodies(p))
    BY <1>3 DEF MarkSound, Mark
  <2>2. Len(Bodies(p)) \in Nat
    BY <2>1, EntryTypes DEF ServerInv
  <2>3. ResetBy(p, s.body)' = ResetBy(p, s.body)
    BY <2>1, <2>2, ResetByStays DEF ServiceGrows
  <2>4. s.body + 1 \in 1..Len(Bodies(p)) + 1
    BY <2>1, <2>2
  <2>5. log'[p].staged[s.body + 1] = log[p].staged[s.body + 1]
    BY <2>1, <2>4 DEF ServiceGrows, Grows
  <2>6. log[p].done => log'[p] = log[p]
    BY <2>1 DEF ServiceGrows, FinishedStay
  <2> QED BY <2>3, <2>5, <2>6
<1>4. CASE TakesBody(m, s, t)
  <2>1. s.open /\ m.pub = s.cut + 1 /\ m.index = s.body
    BY <1>4 DEF TakesBody
  <2>2. ResetBy(m.pub, s.body)' = ResetBy(m.pub, s.body)
    BY <1>3, <2>1
  <2>3. log'[m.pub].staged[s.body + 1] = log[m.pub].staged[s.body + 1]
    BY <1>3, <2>1
  <2>4. /\ ResetBy(m.pub, m.index)' = ResetBy(m.pub, m.index)
        /\ log'[m.pub].staged[m.index + 1] = log[m.pub].staged[m.index + 1]
    BY <2>1, <2>2, <2>3
  <2>5. /\ m.type \in {"keyed_results", "reset_required"}
        /\ m.pub = s.cut + 1 /\ m.index = s.body
        /\ t.cut = s.cut /\ s.open /\ t.open /\ t.body = s.body + 1
        /\ OnlyPublication(s, t)
    BY <1>4 DEF TakesBody
  <2>6. \A l \in m.targets :
          /\ s.q[l].reg = "yes" /\ l \notin ResetBy(m.pub, m.index)
          /\ m.type = "keyed_results" =>
               m.at[l].epoch = s.q[l].ep /\ m.at[l].seq = s.q[l].seq
          /\ m.type = "reset_required" =>
               /\ m.at[l].epoch = s.q[l].ep + 1 /\ m.at[l].seq = 0
               /\ log[m.pub].staged[m.index + 1][l] = <<>>
    BY <1>4 DEF TakesBody
  <2>7. TakesBody(m, s, t)'
    BY <2>4, <2>5, <2>6 DEF TakesBody, OnlyPublication, SameStanding
  <2> QED BY <2>7 DEF Takes
<1>5. CASE TakesCommit(m, s, t)
  <2>1. s.open /\ m.pub = s.cut + 1 /\ log[m.pub].done
    BY <1>5 DEF TakesCommit
  <2>2. log'[m.pub] = log[m.pub]
    BY <1>3, <2>1
  <2>3. \A l \in LiveIds : Committed(m.pub, l, s.q[l], t.q[l])'
    <3>1. \A l \in LiveIds : Committed(m.pub, l, s.q[l], t.q[l])
      BY <1>5 DEF TakesCommit
    <3>2. \A l \in LiveIds : Whole(m.pub, l)' = Whole(m.pub, l)
      BY <2>2 DEF Whole, Bodies
    <3>3. log'[m.pub].resets = log[m.pub].resets
      BY <2>2
    <3> QED BY <3>1, <3>2, <3>3 DEF Committed
  <2>4. /\ m.type = "commit" /\ m.pub = s.cut + 1 /\ m.count = s.body /\ m.ordered
        /\ t.cut = s.cut + 1 /\ s.open /\ ~t.open
        /\ s.body = Len(Bodies(m.pub))
    BY <1>5 DEF TakesCommit
  <2>5. log'[m.pub].done /\ s.body = Len(Bodies(m.pub))'
    BY <2>1, <2>2, <2>4 DEF Bodies
  <2>6. TakesCommit(m, s, t)'
    BY <2>3, <2>4, <2>5 DEF TakesCommit
  <2> QED BY <2>6 DEF Takes
<1> QED BY <1>1, <1>2, <1>4, <1>5 DEF Takes

\* A step of the service that sends frame m, from position s to position t.
Sends(m, s, t) ==
  ServerInv' /\ ServiceGrows /\ ServiceInv' /\ m \in Frames' /\ Takes(m, s, t)'

LEMMA StandsStill ==
  ASSUME NEW s, NEW t, NowIs(s), NowIs(t)', NEW k \in LiveIds,
         bases'[k] = bases[k], hist'[k] = hist[k], syncing'[k] = syncing[k],
         k \in detached' <=> k \in detached
  PROVE  SameStanding(s.q[k], t.q[k])
<1>1. Registration(k)' = Registration(k)
  BY DEF Registration
<1>2. /\ s.q[k].reg = Registration(k) /\ s.q[k].ep = Len(bases[k])
      /\ s.q[k].seq = IF bases[k] = <<>> THEN 0 ELSE Len(hist[k]) - bases[k][Len(bases[k])].at
      /\ s.q[k].att = syncing[k].attempt /\ s.q[k].sent = syncing[k].sent
      /\ (s.q[k].ended <=> syncing[k].ended)
  BY DEF NowIs
<1>3. /\ t.q[k].reg = Registration(k) /\ t.q[k].ep = Len(bases[k])
      /\ t.q[k].seq = IF bases[k] = <<>> THEN 0 ELSE Len(hist[k]) - bases[k][Len(bases[k])].at
      /\ t.q[k].att = syncing[k].attempt /\ t.q[k].sent = syncing[k].sent
      /\ (t.q[k].ended <=> syncing[k].ended)
  BY <1>1 DEF NowIs
<1> QED BY <1>2, <1>3 DEF SameStanding

\* A step that leaves the log and the history alone keeps what they promise.
LEMMA LogSame ==
  ASSUME ServerInv, ServiceInv, log' = log, hist' = hist
  PROVE  /\ Cut' = Cut /\ (Publishing' <=> Publishing) /\ TxSound' /\ EitherWay'
         /\ FinishedStay /\ NewBehindCut
<1>1. Cut' = Cut /\ (Publishing' <=> Publishing)
  BY DEF Cut, Publishing
<1>2. TxSound'
  BY <1>1 DEF ServiceInv, TxSound, Tx, Bodies
<1>3. EitherWay'
  BY DEF ServiceInv, EitherWay, ResetBy, Bodies, Whole
<1>4. Cut \in Nat
  <2>1. log \in Seq(Entry) /\ Len(log) \in Nat /\ (log # <<>> => Len(log) >= 1)
    BY DEF ServerInv, ServerTyped
  <2> QED BY <2>1 DEF Cut, Publishing
<1>5. NewBehindCut
  <2>1. \A x \in Nat : x <= x
    OBVIOUS
  <2> QED BY <1>1, <1>4, <2>1 DEF NewBehindCut
<1> QED BY <1>1, <1>2, <1>3, <1>5 DEF FinishedStay

LEMMA AdmissionSends ==
  ASSUME ServerInv, ServiceInv, NEW l \in LiveIds, SendAdmission(l),
         NEW m, m = SubscribedFrame(l), NEW s, s = Now, NEW t, t = Now'
  PROVE  Sends(m, s, t)
<1>1. /\ Admit(l) /\ bases[l] = <<>> /\ ~Publishing /\ UNCHANGED <<log, hist, detached, syncing>>
      /\ bases' = [bases EXCEPT ![l] = <<Frontier(l)>>]
  BY DEF SendAdmission, Admit
<1>2. ServerInv' /\ Grows
  BY <1>1, AdmitKeeps
<1>3. /\ Cut' = Cut /\ (Publishing' <=> Publishing) /\ TxSound' /\ EitherWay'
      /\ FinishedStay /\ NewBehindCut
  BY <1>1, LogSame
<1>4. /\ bases'[l] = <<Frontier(l)>> /\ bases'[l] # <<>> /\ Len(bases'[l]) = 1
      /\ bases'[l][1] = Frontier(l) /\ \A k \in LiveIds : k # l => bases'[k] = bases[k]
  BY <1>1 DEF ServerInv, ServerTyped
<1>5. Cut = Len(log) /\ Len(log) \in Nat /\ Len(hist[l]) \in Nat
  BY <1>1, ServiceTypes, HistoryTypes DEF ServerInv
<1>6. SyncingSound'
  <2> SUFFICES ASSUME NEW k \in LiveIds
               PROVE  /\ syncing[k].attempt <= MaxAttempts
                      /\ syncing[k].ended => syncing[k].sent = bases'[k][Len(bases'[k])].at
                      /\ bases'[k] = <<>> =>
                           syncing[k].attempt = 0 /\ ~syncing[k].ended /\ k \notin detached
                      /\ \A e \in 1..Len(bases'[k]) : bases'[k][e].upto <= Cut'
    BY <1>1 DEF ServiceInv, SyncingSound
  <2>1. CASE k = l
    <3>1. ~syncing[l].ended /\ syncing[l].attempt <= MaxAttempts
      BY <1>1 DEF ServiceInv, SyncingSound
    <3>2. \A e \in 1..1 : bases'[l][e].upto <= Cut'
      BY <1>3, <1>4, <1>5 DEF Frontier
    <3> QED BY <1>4, <2>1, <3>1, <3>2
  <2>2. CASE k # l
    BY <1>3, <1>4, <2>2 DEF ServiceInv, SyncingSound
  <2> QED BY <2>1, <2>2
<1>7. m \in Frames'
  BY <1>4 DEF Frames, Admitted, SubscribedFrame
<1>8. NowIs(s) /\ NowIs(t)'
  BY NowFields, NextFields
<1>9. \A k \in LiveIds : k # l => SameStanding(s.q[k], t.q[k])
  BY <1>1, <1>4, <1>8, StandsStill
<1>10. s.q[l].reg = "no" /\ t.q[l].reg = "yes" /\ t.q[l].ep = 1 /\ t.q[l].seq = 0
       /\ t.q[l].att = 0 /\ ~t.q[l].ended
  <2>1. Registration(l) = "no" /\ Registration(l)' = "yes"
    BY <1>1, <1>4 DEF Registration, ServiceInv, SyncingSound
  <2>2. syncing[l].attempt = 0 /\ ~syncing[l].ended
    BY <1>1 DEF ServiceInv, SyncingSound
  <2> QED BY <1>1, <1>4, <1>5, <1>8, <2>1, <2>2 DEF NowIs, Frontier
<1>11. t.cut = s.cut /\ ~s.open /\ ~t.open
  BY <1>1, <1>3, <1>8 DEF NowIs
<1>12. TakesSubscribed(m, s, t)
  BY <1>9, <1>10, <1>11 DEF TakesSubscribed, SubscribedFrame, OnlyQuery
<1> QED BY <1>1, <1>2, <1>3, <1>6, <1>7, <1>12
        DEF Sends, ServiceGrows, ServiceInv, Takes, TakesSubscribed, OnlyQuery, SameStanding

LEMMA DetachmentSends ==
  ASSUME ServerInv, ServiceInv, NEW l \in LiveIds, SendDetachment(l),
         NEW m, m = UnsubscribedFrame(l), NEW s, s = Now, NEW t, t = Now'
  PROVE  Sends(m, s, t)
<1>1. /\ l \in Attached /\ UNCHANGED <<log, hist, bases, syncing>>
      /\ detached' = detached \cup {l}
  BY DEF SendDetachment, Detach
<1>2. ServerInv'
  BY <1>1, ServerSame
<1>3. /\ Cut' = Cut /\ (Publishing' <=> Publishing) /\ TxSound' /\ EitherWay'
      /\ FinishedStay /\ NewBehindCut
  BY <1>1, LogSame
<1>4. Grows
  <2>1. /\ \A k \in LiveIds : Len(hist[k]) \in Nat /\ Len(bases[k]) \in Nat
        /\ \A p \in 1..Len(log) : Len(Bodies(p)) \in Nat
        /\ Len(log) \in Nat
    BY HistoryTypes, EntryTypes DEF ServerInv, ServerTyped
  <2> QED BY <1>1, <2>1 DEF Grows, Bodies
<1>5. bases[l] # <<>> /\ l \notin detached /\ l \in detached'
  BY <1>1 DEF Attached
<1>6. SyncingSound'
  BY <1>1, <1>3, <1>5 DEF ServiceInv, SyncingSound
<1>7. m \in Frames'
  BY <1>5 DEF Frames, UnsubscribedFrame
<1>8. NowIs(s) /\ NowIs(t)'
  BY NowFields, NextFields
<1>9. \A k \in LiveIds : k # l => SameStanding(s.q[k], t.q[k])
  BY <1>1, <1>8, StandsStill
<1>10. s.q[l].reg = "yes" /\ t.q[l].reg = "gone"
  <2>1. Registration(l) = "yes" /\ Registration(l)' = "gone"
    BY <1>1, <1>5 DEF Registration
  <2> QED BY <1>8, <2>1 DEF NowIs
<1>11. t.cut = s.cut /\ t.body = s.body /\ (t.open <=> s.open)
  BY <1>1, <1>3, <1>8 DEF NowIs, Bodies
<1>12. TakesUnsubscribed(m, s, t)'
  BY <1>5, <1>9, <1>10, <1>11 DEF TakesUnsubscribed, UnsubscribedFrame, SameStanding
<1> QED BY <1>1, <1>2, <1>3, <1>4, <1>6, <1>7, <1>12
        DEF Sends, ServiceGrows, ServiceInv, Takes

\* The frames of a baseline leave everything but the baseline as it is.
BaselineStep(l) ==
  /\ Cut' = Cut /\ (Publishing' <=> Publishing) /\ TxSound' /\ EitherWay'
  /\ ServerInv' /\ ServiceGrows
  /\ \A k \in LiveIds : k # l => syncing'[k] = syncing[k]

LEMMA BaselineSteps ==
  ASSUME ServerInv, ServiceInv, UNCHANGED serverVars, NEW l \in LiveIds,
         NEW b, syncing' = [syncing EXCEPT ![l] = b]
  PROVE  BaselineStep(l) /\ syncing'[l] = b
<1>1. UNCHANGED <<log, hist, bases, detached>>
  BY DEF serverVars
<1>2. ServerInv'
  BY <1>1, ServerSame
<1>3. /\ Cut' = Cut /\ (Publishing' <=> Publishing) /\ TxSound' /\ EitherWay'
      /\ FinishedStay /\ NewBehindCut
  BY <1>1, LogSame
<1>4. Grows
  <2>1. /\ \A k \in LiveIds : Len(hist[k]) \in Nat /\ Len(bases[k]) \in Nat
        /\ \A p \in 1..Len(log) : Len(Bodies(p)) \in Nat
        /\ Len(log) \in Nat
    BY HistoryTypes, EntryTypes DEF ServerInv, ServerTyped
  <2> QED BY <1>1, <2>1 DEF Grows, Bodies
<1>5. syncing'[l] = b /\ \A k \in LiveIds : k # l => syncing'[k] = syncing[k]
  BY DEF ServiceInv, SyncingSound
<1> QED BY <1>1, <1>2, <1>3, <1>4, <1>5 DEF BaselineStep, ServiceGrows

\* What a baseline sync may become.
LEMMA SyncingNext ==
  ASSUME ServerInv, ServiceInv, UNCHANGED serverVars, NEW l \in LiveIds, bases[l] # <<>>,
         NEW b \in BaselineState, syncing' = [syncing EXCEPT ![l] = b],
         b.attempt <= MaxAttempts, b.ended => b.sent = bases[l][Len(bases[l])].at
  PROVE  SyncingSound'
<1>1. UNCHANGED <<log, hist, bases, detached>>
  BY DEF serverVars
<1>2. BaselineStep(l) /\ syncing'[l] = b
  BY BaselineSteps
<1>3. syncing' \in [LiveIds -> BaselineState]
  BY DEF ServiceInv, SyncingSound
<1>4. ASSUME NEW k \in LiveIds
      PROVE  /\ syncing'[k].attempt <= MaxAttempts
             /\ syncing'[k].ended => syncing'[k].sent = bases[k][Len(bases[k])].at
             /\ bases[k] = <<>> =>
                  syncing'[k].attempt = 0 /\ ~syncing'[k].ended /\ k \notin detached
             /\ \A e \in 1..Len(bases[k]) : bases[k][e].upto <= Cut'
  <2>1. CASE k = l
    BY <1>2, <2>1 DEF ServiceInv, SyncingSound, BaselineStep
  <2>2. CASE k # l
    BY <1>2, <2>2 DEF ServiceInv, SyncingSound, BaselineStep
  <2> QED BY <2>1, <2>2
<1> QED BY <1>1, <1>3, <1>4 DEF ServiceInv, SyncingSound

\* The position before and behind a frame of the baseline of query l.
AroundBaseline(l, s, t) ==
  /\ OnlyQuery(l, s, t) /\ s.cut = Cut
  /\ LET q == s.q[l]  r == t.q[l]
     IN  /\ q.reg = "yes" /\ r.reg = "yes" /\ q.ep = Epoch(l) /\ r.ep = q.ep /\ r.seq = q.seq
         /\ q.att = syncing[l].attempt /\ r.att = syncing'[l].attempt
         /\ q.sent = syncing[l].sent /\ r.sent = syncing'[l].sent
         /\ (q.ended <=> syncing[l].ended) /\ (r.ended <=> syncing'[l].ended)

LEMMA BaselinePositions ==
  ASSUME ServerInv, ServiceInv, UNCHANGED serverVars, NEW l \in Attached, ~Publishing,
         BaselineStep(l), NEW s, s = Now, NEW t, t = Now'
  PROVE  AroundBaseline(l, s, t)
<1>1. UNCHANGED <<log, hist, bases, detached>> /\ l \in LiveIds
  BY DEF serverVars, Attached
<1>2. NowIs(s) /\ NowIs(t)'
  BY NowFields, NextFields
<1>3. \A k \in LiveIds : k # l => SameStanding(s.q[k], t.q[k])
  BY <1>1, <1>2, StandsStill DEF BaselineStep
<1>4. t.cut = s.cut /\ s.cut = Cut /\ ~s.open /\ ~t.open
  BY <1>2 DEF NowIs, BaselineStep
<1>5. Registration(l) = "yes" /\ Registration(l)' = "yes"
  BY <1>1 DEF Registration, Attached
<1>6. /\ s.q[l].reg = Registration(l) /\ s.q[l].ep = Len(bases[l])
      /\ s.q[l].seq = IF bases[l] = <<>> THEN 0 ELSE Len(hist[l]) - bases[l][Len(bases[l])].at
      /\ s.q[l].att = syncing[l].attempt /\ s.q[l].sent = syncing[l].sent
      /\ (s.q[l].ended <=> syncing[l].ended)
  BY <1>1, <1>2 DEF NowIs
<1>7. /\ t.q[l].reg = Registration(l)' /\ t.q[l].ep = Len(bases[l])
      /\ t.q[l].seq = IF bases[l] = <<>> THEN 0 ELSE Len(hist[l]) - bases[l][Len(bases[l])].at
      /\ t.q[l].att = syncing'[l].attempt /\ t.q[l].sent = syncing'[l].sent
      /\ (t.q[l].ended <=> syncing'[l].ended)
  BY <1>1, <1>2 DEF NowIs
<1> QED BY <1>3, <1>4, <1>5, <1>6, <1>7 DEF AroundBaseline, OnlyQuery, Epoch

LEMMA StartSends ==
  ASSUME ServerInv, ServiceInv, UNCHANGED serverVars, NEW l \in LiveIds, ~Publishing,
         SendStart(l), NEW m, m = StartFrame(l, Epoch(l), syncing[l].attempt + 1),
         NEW s, s = Now, NEW t, t = Now'
  PROVE  Sends(m, s, t)
<1>1. PICK a : a = syncing[l].attempt + 1
  OBVIOUS
<1>2. PICK e : e = Epoch(l)
  OBVIOUS
<1>3. PICK b : b = [NoBaseline EXCEPT !.attempt = a]
  OBVIOUS
<1>4. /\ l \in Attached /\ ~syncing[l].ended /\ syncing[l].attempt < MaxAttempts
      /\ syncing' = [syncing EXCEPT ![l] = b]
  BY <1>1, <1>3 DEF SendStart
<1>5. /\ bases[l] # <<>> /\ bases[l] \in Seq(Baseline) /\ Len(bases[l]) \in 1..Len(bases[l])
      /\ syncing[l].attempt \in Nat /\ MaxAttempts \in Nat
  BY <1>4, ServiceTypes, ServerBounds DEF Attached, ServerInv, ServerTyped
<1>6. a \in 1..MaxAttempts /\ a # 0 /\ a <= MaxAttempts /\ a \in Nat
  BY <1>1, <1>4, <1>5
<1>7. b.attempt = a /\ b.sent = 0 /\ ~b.ended /\ b \in BaselineState
  BY <1>3, <1>6 DEF NoBaseline, BaselineState
<1>8. SyncingSound'
  BY <1>4, <1>5, <1>6, <1>7, SyncingNext
<1>9. BaselineStep(l) /\ syncing'[l] = b
  BY <1>4, BaselineSteps
<1>10. AroundBaseline(l, s, t)
  BY <1>4, <1>9, BaselinePositions
<1>11. UNCHANGED bases /\ e \in 1..Len(bases[l]) /\ e \in DOMAIN bases'[l]
  BY <1>2, <1>5 DEF serverVars, Epoch
<1>12. m \in Frames'
  <2>1. m = StartFrame(l, e, a)'
    BY <1>1, <1>2, <1>11 DEF StartFrame
  <2> QED BY <1>5, <1>6, <1>11, <2>1, BaselineFrameTrue
<1>13. bases[l][e].upto <= Cut
  BY <1>11 DEF ServiceInv, SyncingSound
<1>14. TakesStart(m, s, t)
  BY <1>1, <1>2, <1>4, <1>6, <1>7, <1>9, <1>10, <1>13
     DEF TakesStart, StartFrame, InBaseline, AroundBaseline
<1>15. TakesStart(m, s, t)'
  BY <1>14 DEF TakesStart, InBaseline, OnlyQuery, SameStanding
<1> QED BY <1>8, <1>9, <1>12, <1>15 DEF Sends, BaselineStep, ServiceInv, Takes

LEMMA BatchSends ==
  ASSUME ServerInv, ServiceInv, UNCHANGED serverVars, NEW l \in LiveIds, ~Publishing,
         SendBatch(l), NEW m, m = BatchFrame(l, Epoch(l), syncing[l].attempt, syncing[l].sent),
         NEW s, s = Now, NEW t, t = Now'
  PROVE  Sends(m, s, t)
<1>1. PICK a : a = syncing[l].attempt
  OBVIOUS
<1>2. PICK e : e = Epoch(l)
  OBVIOUS
<1>3. PICK b : b = [syncing[l] EXCEPT !.sent = @ + 1]
  OBVIOUS
<1>4. PICK i : i = syncing[l].sent
  OBVIOUS
<1>5. /\ l \in Attached /\ a # 0 /\ i < bases[l][e].at
      /\ syncing' = [syncing EXCEPT ![l] = b]
  BY <1>1, <1>2, <1>3, <1>4 DEF SendBatch
<1>6. /\ bases[l] # <<>> /\ bases[l] \in Seq(Baseline) /\ Len(bases[l]) \in 1..Len(bases[l])
      /\ a \in 0..MaxAttempts /\ i \in Nat /\ MaxAttempts \in Nat
      /\ syncing[l] \in BaselineState
  BY <1>1, <1>4, <1>5, ServiceTypes, ServerBounds
     DEF Attached, ServerInv, ServerTyped, ServiceInv, SyncingSound
<1>7. a \in 1..MaxAttempts /\ a <= MaxAttempts
  BY <1>5, <1>6
<1>8. UNCHANGED <<bases, hist>> /\ e \in 1..Len(bases[l]) /\ e \in DOMAIN bases'[l]
  BY <1>2, <1>6 DEF serverVars, Epoch
<1>9. bases[l][e].at \in Nat
  BY <1>8, HistoryTypes DEF ServerInv
<1>10. ~syncing[l].ended
  BY <1>2, <1>4, <1>5, <1>6, <1>9 DEF ServiceInv, SyncingSound, Epoch
<1>11. b.attempt = a /\ b.sent = i + 1 /\ ~b.ended /\ b \in BaselineState
  BY <1>1, <1>3, <1>4, <1>6, <1>10 DEF BaselineState
<1>12. SyncingSound'
  BY <1>5, <1>6, <1>7, <1>11, SyncingNext
<1>13. BaselineStep(l) /\ syncing'[l] = b
  BY <1>5, BaselineSteps
<1>14. AroundBaseline(l, s, t)
  BY <1>5, <1>13, BaselinePositions
<1>15. m \in Frames'
  <2>1. m = BatchFrame(l, e, a, i)' /\ i \in 0..(bases'[l][e].at - 1)
    BY <1>1, <1>2, <1>4, <1>5, <1>6, <1>8, <1>9 DEF BatchFrame
  <2> QED BY <1>6, <1>7, <1>8, <2>1, BaselineFrameTrue
<1>16. TakesBatch(m, s, t)
  BY <1>1, <1>2, <1>4, <1>5, <1>10, <1>11, <1>13, <1>14
     DEF TakesBatch, BatchFrame, InBaseline, AroundBaseline
<1>17. TakesBatch(m, s, t)'
  BY <1>16 DEF TakesBatch, InBaseline, OnlyQuery, SameStanding
<1> QED BY <1>12, <1>13, <1>15, <1>17 DEF Sends, BaselineStep, ServiceInv, Takes

LEMMA EndSends ==
  ASSUME ServerInv, ServiceInv, UNCHANGED serverVars, NEW l \in LiveIds, ~Publishing,
         SendEnd(l), NEW m, m = EndFrame(l, Epoch(l), syncing[l].attempt),
         NEW s, s = Now, NEW t, t = Now'
  PROVE  Sends(m, s, t)
<1>1. PICK a : a = syncing[l].attempt
  OBVIOUS
<1>2. PICK e : e = Epoch(l)
  OBVIOUS
<1>3. PICK b : b = [syncing[l] EXCEPT !.ended = TRUE]
  OBVIOUS
<1>4. /\ l \in Attached /\ a # 0 /\ ~syncing[l].ended /\ syncing[l].sent = bases[l][e].at
      /\ syncing' = [syncing EXCEPT ![l] = b]
  BY <1>1, <1>2, <1>3 DEF SendEnd
<1>5. /\ bases[l] # <<>> /\ bases[l] \in Seq(Baseline) /\ Len(bases[l]) \in 1..Len(bases[l])
      /\ a \in 0..MaxAttempts /\ MaxAttempts \in Nat
      /\ syncing[l] \in BaselineState
  BY <1>1, <1>4, ServiceTypes, ServerBounds
     DEF Attached, ServerInv, ServerTyped, ServiceInv, SyncingSound
<1>6. a \in 1..MaxAttempts /\ a <= MaxAttempts
  BY <1>4, <1>5
<1>7. UNCHANGED bases /\ e \in 1..Len(bases[l]) /\ e \in DOMAIN bases'[l]
  BY <1>2, <1>5 DEF serverVars, Epoch
<1>8. b.attempt = a /\ b.sent = syncing[l].sent /\ b.ended /\ b \in BaselineState
  BY <1>1, <1>3, <1>5 DEF BaselineState
<1>9. SyncingSound'
  BY <1>2, <1>4, <1>5, <1>6, <1>8, SyncingNext DEF Epoch
<1>10. BaselineStep(l) /\ syncing'[l] = b
  BY <1>4, BaselineSteps
<1>11. AroundBaseline(l, s, t)
  BY <1>4, <1>10, BaselinePositions
<1>12. m \in Frames'
  <2>1. m = EndFrame(l, e, a)'
    BY <1>1, <1>2, <1>7 DEF EndFrame
  <2> QED BY <1>5, <1>6, <1>7, <2>1, BaselineFrameTrue
<1>13. TakesEnd(m, s, t)
  BY <1>1, <1>2, <1>4, <1>8, <1>10, <1>11
     DEF TakesEnd, EndFrame, InBaseline, AroundBaseline
<1>14. TakesEnd(m, s, t)'
  BY <1>13 DEF TakesEnd, InBaseline, OnlyQuery, SameStanding
<1> QED BY <1>9, <1>10, <1>12, <1>14 DEF Sends, BaselineStep, ServiceInv, Takes

LEMMA EntryHolds ==
  ASSUME ServiceInv, NEW p \in 1..Len(log), p \in 1..Len(log'), log'[p] = log[p]
  PROVE  /\ \A i \in 1..Len(Bodies(p)') + 1 : \A l \in LiveIds :
              log'[p].staged[i][l] # <<>> => log'[p].staged[i][l][1][1] = p
         /\ log'[p].resets = ResetBy(p, Len(Bodies(p)))'
         /\ \A l \in log'[p].resets : Whole(p, l)' = <<>>
<1>1. Bodies(p)' = Bodies(p) /\ \A l : Whole(p, l)' = Whole(p, l)
  BY DEF Bodies, Whole
<1>2. ResetBy(p, Len(Bodies(p)))' = ResetBy(p, Len(Bodies(p)))
  BY <1>1 DEF ResetBy
<1> QED BY <1>1, <1>2 DEF ServiceInv, TxSound, EitherWay

LEMMA OpenSends ==
  ASSUME ServerInv, ServiceInv, SendOpen, NEW m, m = OpenFrame(Len(log) + 1),
         NEW s, s = Now, NEW t, t = Now'
  PROVE  Sends(m, s, t)
<1>1. PICK n : n = Len(log)
  OBVIOUS
<1>2. PICK e : e = [bodies |-> <<>>, staged |-> <<Nothing>>, resets |-> {}, done |-> FALSE]
  OBVIOUS
<1>3. /\ OpenPublication /\ ~Publishing /\ UNCHANGED <<hist, bases, detached, syncing>>
      /\ log' = Append(log, e)
  BY <1>2 DEF SendOpen, OpenPublication
<1>4. ServerInv' /\ Grows
  BY <1>3, OpenKeeps
<1>5. log \in Seq(Entry) /\ log' \in Seq(Entry) /\ n \in Nat
  BY <1>1, <1>4 DEF ServerInv, ServerTyped
<1>6. Len(log') = n + 1 /\ log'[n + 1] = e /\ \A p \in 1..n : log'[p] = log[p]
  BY <1>1, <1>3, <1>5
<1>7. ~log'[n + 1].done /\ Len(Bodies(n + 1)') = 0 /\ log'[n + 1].resets = {}
      /\ log'[n + 1].staged[1] = Nothing
  BY <1>2, <1>6 DEF Bodies
<1>8. Cut = n /\ Cut' = n /\ Publishing'
  <2>1. Publishing'
    BY <1>5, <1>6, <1>7 DEF Publishing
  <2> QED BY <1>1, <1>3, <1>5, <1>6, <2>1 DEF Cut
<1>9. \A p \in 1..(n + 1) : p \in 1..n \/ p = n + 1
  BY <1>5
<1>10. TxSound'
  <2>1. \A l \in LiveIds : \A i \in 1..Len(hist[l]) :
          hist'[l][i] # <<>> /\ Tx(l, i)' \in Nat /\ Tx(l, i)' <= Cut'
    BY <1>3, <1>8 DEF ServiceInv, TxSound, Tx
  <2>2. ASSUME NEW p \in 1..(n + 1), NEW i \in 1..Len(Bodies(p)') + 1, NEW l \in LiveIds,
               log'[p].staged[i][l] # <<>>
        PROVE  log'[p].staged[i][l][1][1] = p
    <3>1. CASE p \in 1..n
      <4>1. p \in 1..Len(log')
        BY <1>5, <1>6, <3>1
      <4> QED BY <1>1, <1>6, <2>2, <3>1, <4>1, EntryHolds
    <3>2. CASE p = n + 1
      <4>1. i = 1
        BY <1>7, <3>2
      <4> QED BY <1>7, <2>2, <3>2, <4>1 DEF Nothing
    <3> QED BY <1>9, <3>1, <3>2
  <2> QED BY <1>3, <1>6, <2>1, <2>2 DEF TxSound
<1>11. EitherWay'
  <2>1. ASSUME NEW p \in 1..(n + 1)
        PROVE  /\ log'[p].resets = ResetBy(p, Len(Bodies(p)))'
               /\ \A l \in log'[p].resets : Whole(p, l)' = <<>>
    <3>1. CASE p \in 1..n
      <4>1. p \in 1..Len(log')
        BY <1>5, <1>6, <3>1
      <4> QED BY <1>1, <1>6, <3>1, <4>1, EntryHolds
    <3>2. CASE p = n + 1
      <4>1. ResetBy(p, Len(Bodies(p)))' = {}
        BY <1>7, <3>2 DEF ResetBy
      <4> QED BY <1>7, <3>2, <4>1
    <3> QED BY <1>9, <3>1, <3>2
  <2> QED BY <1>6, <2>1 DEF EitherWay
<1>12. SyncingSound'
  BY <1>3, <1>8 DEF ServiceInv, SyncingSound
<1>13. FinishedStay
  BY <1>1, <1>6 DEF FinishedStay
<1>14. NewBehindCut
  BY <1>3, <1>5, <1>8 DEF NewBehindCut
<1>15. m \in Frames'
  <2>1. n + 1 \in DOMAIN log'
    BY <1>5, <1>6
  <2> QED BY <1>1, <2>1, PublicationFrameTrue
<1>16. NowIs(s) /\ NowIs(t)'
  BY NowFields, NextFields
<1>17. OnlyPublication(s, t)
  BY <1>3, <1>16, StandsStill DEF OnlyPublication
<1>18. t.cut = n /\ s.cut = n /\ ~s.open /\ t.open /\ t.body = 0
  <2>1. Len(log') = n + 1 /\ Len(Bodies(Len(log))') = 0
    BY <1>6, <1>7 DEF Bodies
  <2> QED BY <1>3, <1>8, <1>16, <2>1 DEF NowIs
<1>19. TakesOpen(m, s, t)'
  BY <1>1, <1>17, <1>18 DEF TakesOpen, OpenFrame, OnlyPublication, SameStanding
<1> QED BY <1>3, <1>4, <1>10, <1>11, <1>12, <1>13, <1>14, <1>15, <1>19
        DEF Sends, ServiceGrows, ServiceInv, Takes

LEMMA ProgressSends ==
  ASSUME ServerInv, ServiceInv, UNCHANGED <<serverVars, syncing>>, ~Publishing,
         NEW m, m = ProgressFrame(Len(log)), NEW s, s = Now, NEW t, t = Now'
  PROVE  Sends(m, s, t)
<1>1. UNCHANGED <<log, hist, bases, detached, syncing>>
  BY DEF serverVars
<1>2. ServerInv'
  BY <1>1, ServerSame
<1>3. /\ Cut' = Cut /\ (Publishing' <=> Publishing) /\ TxSound' /\ EitherWay'
      /\ FinishedStay /\ NewBehindCut
  BY <1>1, LogSame
<1>4. Grows
  <2>1. /\ \A k \in LiveIds : Len(hist[k]) \in Nat /\ Len(bases[k]) \in Nat
        /\ \A p \in 1..Len(log) : Len(Bodies(p)) \in Nat
        /\ Len(log) \in Nat
    BY HistoryTypes, EntryTypes DEF ServerInv, ServerTyped
  <2> QED BY <1>1, <2>1 DEF Grows, Bodies
<1>5. SyncingSound'
  BY <1>1, <1>3 DEF ServiceInv, SyncingSound
<1>6. m \in Frames'
  <2>1. Len(log) \in Nat /\ log \in Seq(Entry)
    BY DEF ServerInv, ServerTyped
  <2>2. Len(log) = 0 \/ Len(log) \in 1..Len(log)
    BY <2>1
  <2>3. Len(log) \in 1..Len(log) => log[Len(log)].done
    BY AllDone
  <2>4. Len(log) \in Done' \cup {0}
    BY <1>1, <2>1, <2>2, <2>3 DEF Done
  <2> QED BY <2>4, PublicationFrameTrue
<1>7. NowIs(s) /\ NowIs(t)'
  BY NowFields, NextFields
<1>8. OnlyPublication(s, t)
  BY <1>1, <1>7, StandsStill DEF OnlyPublication
<1>9. t.cut = s.cut /\ s.cut = Len(log) /\ ~s.open /\ ~t.open
  BY <1>3, <1>7 DEF NowIs, Cut
<1>10. TakesProgress(m, s, t)'
  BY <1>8, <1>9 DEF TakesProgress, ProgressFrame, OnlyPublication, SameStanding
<1> QED BY <1>1, <1>2, <1>3, <1>4, <1>5, <1>6, <1>10
        DEF Sends, ServiceGrows, ServiceInv, Takes

\* A body that changes or resets queries which its publication has not reset.
LEMMA BodySent ==
  ASSUME ServerInv, ServiceInv, Publishing, UNCHANGED syncing,
         NEW type \in {"keyed_results", "reset_required"}, NEW targets \in SUBSET LiveIds,
         NEW staged \in [LiveIds -> Batch], NEW resets \in SUBSET LiveIds,
         NEW at \in [LiveIds -> Place], NEW p, NEW n,
         p = Len(log), n = Len(log[p].bodies),
         AddBody(type, targets, staged, resets, at),
         Truthful(p, n, type, targets, staged, resets, at),
         targets \subseteq Attached \ log[p].resets,
         resets = IF type = "reset_required" THEN targets ELSE {},
         NEW m, m = LastBody', NEW s, s = Now, NEW t, t = Now'
  PROVE  Sends(m, s, t)
<1>1. BodyAdded(p, n, type, targets, staged, resets, at)
  BY AddBodyFacts
<1>2. ServerInv' /\ Grows
  BY AddBodyKeeps
<1>3. /\ p \in 1..Len(log) /\ p \in Nat /\ n \in Nat /\ ~log[p].done
      /\ hist' = hist /\ bases' = bases /\ detached' = detached
      /\ Len(log') = p /\ log' \in Seq(Entry)
  <2>1. detached' = detached
    BY DEF AddBody
  <2>2. /\ p \in 1..Len(log) /\ n \in Nat /\ ~log[p].done
        /\ hist' = hist /\ bases' = bases /\ Len(log') = Len(log) /\ log' \in Seq(Entry)
    BY <1>1 DEF BodyAdded
  <2> QED BY <2>1, <2>2
<1>4. /\ \A q \in 1..p : q # p => log'[q] = log[q]
      /\ Len(Bodies(p)') = n + 1
      /\ Bodies(p)'[n + 1] = [type |-> type, targets |-> targets, at |-> at]
      /\ \A i \in 1..n : Bodies(p)'[i] = Bodies(p)[i]
      /\ log'[p].staged[n + 2] = staged
      /\ \A i \in 1..n + 1 : log'[p].staged[i] = log[p].staged[i]
      /\ log'[p].resets = log[p].resets \cup resets /\ ~log'[p].done
  BY <1>1 DEF BodyAdded, Bodies
<1>5. Len(Bodies(p)) = n
  BY DEF Bodies
<1>t. \A l \in targets :
        /\ type = "keyed_results" => /\ at[l].epoch = Len(bases[l])
                                     /\ bases[l][Len(bases[l])].at + at[l].seq = Len(hist[l])
        /\ type = "reset_required" => at[l].epoch = Len(bases[l]) + 1 /\ at[l].seq = 0
  BY Zenon DEF Truthful
<1>5a. \A i \in 1..n + 1 : \A l \in LiveIds :
         log[p].staged[i][l] # <<>> => log[p].staged[i][l][1][1] = p
  BY <1>3, <1>5 DEF ServiceInv, TxSound
<1>6. Publishing' /\ Cut = p - 1 /\ Cut' = p - 1 /\ Cut \in Nat
  <2>1. log' # <<>>
    BY <1>3
  <2>2. Publishing'
    BY <1>3, <1>4, <2>1 DEF Publishing
  <2> QED BY <1>3, <2>2 DEF Cut
<1>7. ASSUME NEW l \in LiveIds
      PROVE  /\ staged[l] # <<>> => staged[l][1][1] = p
             /\ l \in log'[p].resets => staged[l] = <<>>
             /\ l \in targets /\ type = "reset_required" => log[p].staged[n + 1][l] = <<>>
  <2>1. PICK old : old = log[p].staged[n + 1][l]
    OBVIOUS
  <2>2. old # <<>> => old[1][1] = p
    <3>1. n + 1 \in 1..n + 1
      BY <1>3
    <3> QED BY <1>5a, <2>1, <3>1
  <2>3. old \in Batch /\ <<p, n>> \in Fragment
    BY <2>1, BatchTypes
  <2>4. staged[l] = IF type = "keyed_results" /\ l \in targets
                      THEN Append(old, <<p, n>>) ELSE old
    BY <2>1 DEF Truthful
  <2>5. staged[l] # <<>> => staged[l][1][1] = p
    <3>1. CASE old = <<>>
      <4>1. Append(<<>>, <<p, n>>)[1] = <<p, n>>
        OBVIOUS
      <4> QED BY <2>4, <3>1, <4>1
    <3>2. CASE old # <<>>
      <4>1. Len(old) \in Nat /\ 1 \in 1..Len(old)
        BY <2>3, <3>2 DEF Batch
      <4>2. Append(old, <<p, n>>)[1] = old[1]
        BY <2>3, <4>1, AppendMore DEF Batch
      <4> QED BY <2>2, <2>4, <3>2, <4>2
    <3> QED BY <3>1, <3>2
  <2>6. ASSUME l \in log'[p].resets
        PROVE  staged[l] = <<>>
    <3>1. CASE l \in resets
      BY <3>1 DEF Truthful
    <3>2. CASE l \in log[p].resets
      <4>1. old = <<>>
        BY <1>3, <1>5, <2>1, <3>2 DEF ServiceInv, EitherWay, Whole
      <4> QED BY <2>4, <3>2, <4>1
    <3> QED BY <1>4, <2>6, <3>1, <3>2
  <2>7. l \in targets /\ type = "reset_required" => old = <<>>
    BY <2>4 DEF Truthful
  <2> QED BY <2>1, <2>5, <2>6, <2>7
<1>8. ResetBy(p, n) = log[p].resets /\ ResetBy(p, n)' = ResetBy(p, n)
  <2>1. ResetBy(p, n) = log[p].resets
    BY <1>3, <1>5 DEF ServiceInv, EitherWay
  <2>2. ResetBy(p, n)' = ResetBy(p, n)
    BY <1>4 DEF ResetBy
  <2> QED BY <2>1, <2>2
<1>9. ResetBy(p, n + 1)' = log'[p].resets
  <2>1. ASSUME NEW l \in LiveIds
        PROVE  l \in ResetBy(p, n + 1)' <=> l \in ResetBy(p, n)' \/ l \in resets
    <3>1. n + 1 \in 1..n + 1 /\ 1..n \subseteq 1..n + 1
      BY <1>3
    <3>2. \A i \in 1..n + 1 : i \in 1..n \/ i = n + 1
      BY <1>3
    <3>3. Bodies(p)'[n + 1].type = type /\ Bodies(p)'[n + 1].targets = targets
      BY <1>4
    <3> QED BY <3>1, <3>2, <3>3 DEF ResetBy
  <2>2. ResetBy(p, n + 1)' \subseteq LiveIds /\ ResetBy(p, n)' \subseteq LiveIds
    BY DEF ResetBy
  <2> QED BY <1>4, <1>8, <2>1, <2>2
<1>10. \A q \in 1..p : q # p => q \in 1..Len(log) /\ q \in 1..Len(log') /\ log'[q] = log[q]
  BY <1>3, <1>4
<1>11. TxSound'
  <2>1. \A l \in LiveIds : \A i \in 1..Len(hist[l]) :
          hist'[l][i] # <<>> /\ Tx(l, i)' \in Nat /\ Tx(l, i)' <= Cut'
    BY <1>3, <1>6 DEF ServiceInv, TxSound, Tx
  <2>2. ASSUME NEW q \in 1..p, NEW i \in 1..Len(Bodies(q)') + 1, NEW l \in LiveIds,
               log'[q].staged[i][l] # <<>>
        PROVE  log'[q].staged[i][l][1][1] = q
    <3>1. CASE q # p
      BY <1>10, <2>2, <3>1, EntryHolds
    <3>2. CASE q = p
      <4>1. i \in 1..n + 1 \/ i = n + 2
        BY <1>3, <1>4, <3>2
      <4>2. CASE i \in 1..n + 1
        <5>1. log'[p].staged[i] = log[p].staged[i]
          BY <1>4, <4>2
        <5>2. log[p].staged[i][l] # <<>>
          BY <2>2, <3>2, <5>1
        <5>3. log[p].staged[i][l][1][1] = p
          BY <1>5a, <4>2, <5>2
        <5> QED BY <3>2, <5>1, <5>3
      <4>3. CASE i = n + 2
        BY <1>4, <1>7, <2>2, <3>2, <4>3
      <4> QED BY <4>1, <4>2, <4>3
    <3> QED BY <3>1, <3>2
  <2> QED BY <1>3, <2>1, <2>2 DEF TxSound
<1>12. EitherWay'
  <2>1. ASSUME NEW q \in 1..p
        PROVE  /\ log'[q].resets = ResetBy(q, Len(Bodies(q)))'
               /\ \A l \in log'[q].resets : Whole(q, l)' = <<>>
    <3>1. CASE q # p
      BY <1>10, <3>1, EntryHolds
    <3>2. CASE q = p
      <4>1. (n + 1) + 1 = n + 2
        BY <1>3
      <4>2. \A l : Whole(p, l)' = staged[l]
        BY <1>4, <4>1 DEF Whole
      <4>3. log'[p].resets \subseteq LiveIds
        BY <1>9 DEF ResetBy
      <4>4. log'[p].resets = ResetBy(p, Len(Bodies(p)))'
        BY <1>4, <1>9
      <4>5. \A l \in log'[p].resets : Whole(p, l)' = <<>>
        BY <1>7, <4>2, <4>3
      <4> QED BY <3>2, <4>4, <4>5
    <3> QED BY <3>1, <3>2
  <2> QED BY <1>3, <2>1 DEF EitherWay
<1>13. SyncingSound'
  BY <1>3, <1>6 DEF ServiceInv, SyncingSound
<1>14. FinishedStay
  BY <1>3, <1>10 DEF FinishedStay
<1>15. NewBehindCut
  BY <1>3, <1>6 DEF NewBehindCut
<1>16. /\ m = BodyFrame(p, n)' /\ p \in DOMAIN log' /\ n \in 0..(Len(log'[p].bodies) - 1)
       /\ m.type = type /\ m.pub = p /\ m.index = n /\ m.targets = targets /\ m.at = at
  <2>1. (n + 1) - 1 = n /\ n \in 0..n
    BY <1>3
  <2>2. m = BodyFrame(p, n)'
    BY <1>3, <1>4, <2>1 DEF LastBody, BodyFrame, Bodies
  <2>3. p \in DOMAIN log' /\ n \in 0..(Len(log'[p].bodies) - 1)
    BY <1>3, <1>4, <2>1 DEF Bodies
  <2> QED BY <1>4, <2>2, <2>3 DEF BodyFrame, Bodies
<1>17. m \in Frames'
  BY <1>16, PublicationFrameTrue
<1>18. NowIs(s) /\ NowIs(t)'
  BY NowFields, NextFields
<1>19. OnlyPublication(s, t)
  BY <1>3, <1>18, StandsStill DEF OnlyPublication
<1>20. s.cut = p - 1 /\ t.cut = s.cut /\ s.open /\ t.open /\ s.body = n /\ t.body = n + 1
       /\ m.pub = s.cut + 1
  BY <1>3, <1>4, <1>5, <1>6, <1>16, <1>18 DEF NowIs
<1>21. ASSUME NEW l \in targets
       PROVE  /\ s.q[l].reg = "yes" /\ l \notin ResetBy(p, n)'
              /\ type = "keyed_results" => at[l].epoch = s.q[l].ep /\ at[l].seq = s.q[l].seq
              /\ type = "reset_required" =>
                   /\ at[l].epoch = s.q[l].ep + 1 /\ at[l].seq = 0
                   /\ log'[p].staged[n + 1][l] = <<>>
  <2>1. l \in LiveIds /\ l \in Attached /\ l \notin log[p].resets
    OBVIOUS
  <2>2. bases[l] # <<>> /\ l \notin detached
    BY <2>1 DEF Attached
  <2>3. s.q[l].reg = "yes"
    BY <1>18, <2>1, <2>2 DEF NowIs, Registration
  <2>4. at[l] \in Place /\ at[l].seq \in Nat
    BY <2>1 DEF Place
  <2>5. Len(bases[l]) \in 1..Len(bases[l])
    BY <2>1, <2>2, ServiceTypes
  <2>6. bases[l][Len(bases[l])].at \in Nat /\ Len(hist[l]) \in Nat
    BY <2>1, <2>5, HistoryTypes DEF ServerInv
  <2>7. s.q[l].ep = Len(bases[l]) /\ s.q[l].seq = Len(hist[l]) - bases[l][Len(bases[l])].at
    BY <1>18, <2>1, <2>2 DEF NowIs
  <2>8. ASSUME type = "keyed_results"
        PROVE  at[l].epoch = s.q[l].ep /\ at[l].seq = s.q[l].seq
    <3>1. at[l].epoch = Len(bases[l]) /\ bases[l][Len(bases[l])].at + at[l].seq = Len(hist[l])
      BY <1>t, <2>8
    <3> QED BY <2>4, <2>6, <2>7, <3>1
  <2>9. n + 1 \in 1..n + 1
    BY <1>3
  <2>10. ASSUME type = "reset_required"
         PROVE  at[l].epoch = s.q[l].ep + 1 /\ at[l].seq = 0
    BY <1>t, <2>7, <2>10
  <2>11. type = "reset_required" => log'[p].staged[n + 1][l] = <<>>
    <3>1. log'[p].staged[n + 1] = log[p].staged[n + 1]
      BY <1>4, <2>9
    <3> QED BY <1>7, <2>1, <3>1
  <2> QED BY <1>8, <2>1, <2>3, <2>8, <2>10, <2>11
<1>22. TakesBody(m, s, t)'
  BY <1>16, <1>19, <1>20, <1>21 DEF TakesBody, OnlyPublication, SameStanding
<1> QED BY <1>2, <1>3, <1>11, <1>12, <1>13, <1>14, <1>15, <1>17, <1>22
        DEF Sends, ServiceGrows, ServiceInv, Takes

LEMMA BodySends ==
  ASSUME ServerInv, ServiceInv, SendBody,
         NEW m, m = LastBody', NEW s, s = Now, NEW t, t = Now'
  PROVE  Sends(m, s, t)
<1>1. PICK p : p = Len(log)
  OBVIOUS
<1>2. PICK n : n = Len(log[p].bodies)
  OBVIOUS
<1>3. UNCHANGED syncing
  BY DEF SendBody
<1>4. PICK targets \in SUBSET LiveIds : AddChanges(targets) \/ AddReset(targets)
  BY DEF SendBody
<1>5. CASE AddChanges(targets)
  <2>1. PICK staged \in [LiveIds -> Batch], at \in [LiveIds -> Place] :
          /\ AddBody("keyed_results", targets, staged, {}, at)
          /\ Truthful(p, n, "keyed_results", targets, staged, {}, at)
    BY <1>1, <1>2, <1>5, ChangesBody
  <2>2. Publishing /\ targets \subseteq Attached \ log[p].resets
    BY <1>1, <1>5 DEF AddChanges
  <2> QED BY <1>1, <1>2, <1>3, <2>1, <2>2, BodySent
<1>6. CASE AddReset(targets)
  <2>1. PICK staged \in [LiveIds -> Batch], at \in [LiveIds -> Place] :
          /\ AddBody("reset_required", targets, staged, targets, at)
          /\ Truthful(p, n, "reset_required", targets, staged, targets, at)
    BY <1>1, <1>2, <1>6, ResetBody
  <2>2. Publishing /\ targets \subseteq Attached \ log[p].resets
    BY <1>1, <1>6 DEF AddReset
  <2> QED BY <1>1, <1>2, <1>3, <2>1, <2>2, BodySent
<1> QED BY <1>4, <1>5, <1>6

\* What a commit does to the history of one query.
LEMMA CommitQuery ==
  ASSUME ServerInv, CommitPublication, NEW p, NEW n, p = Len(log), n = Len(Bodies(p)),
         NEW l \in LiveIds
  PROVE  /\ l \in log[p].resets =>
              /\ hist'[l] = Append(hist[l], <<<<p, n>>>>)
              /\ bases'[l] = Append(bases[l], [at |-> Len(hist[l]) + 1, upto |-> p])
         /\ l \notin log[p].resets =>
              /\ bases'[l] = bases[l]
              /\ hist'[l] = IF Whole(p, l) # <<>> THEN Append(hist[l], Whole(p, l)) ELSE hist[l]
<1>1. <<<<p, n>>>> # <<>>
  OBVIOUS
<1>2. Staged(p, n)[l] = Whole(p, l)
  BY DEF Staged, Whole
<1> QED BY <1>1, <1>2 DEF CommitPublication, Bodies

LEMMA CommitSends ==
  ASSUME ServerInv, ServiceInv, SendCommit, NEW m, m = CommitFrame(Len(log), TRUE),
         NEW s, s = Now, NEW t, t = Now'
  PROVE  Sends(m, s, t)
<1>1. PICK p : p = Len(log)
  OBVIOUS
<1>2. PICK n : n = Len(Bodies(p))
  OBVIOUS
<1>3. /\ CommitPublication /\ Publishing /\ UNCHANGED detached
      /\ syncing' = [l \in LiveIds |-> IF l \in log[p].resets THEN NoBaseline ELSE syncing[l]]
  BY <1>1 DEF SendCommit, CommitPublication
<1>4. ServerInv' /\ Grows
  BY <1>3, CommitKeeps
<1>5. /\ p \in 1..Len(log) /\ ~log[p].done /\ p \in Nat
      /\ log' \in Seq(Entry) /\ Len(log') = p
      /\ \A q \in 1..p : q # p => log'[q] = log[q]
      /\ log'[p].bodies = log[p].bodies /\ log'[p].staged = log[p].staged
      /\ log'[p].resets = log[p].resets /\ log'[p].done
  <2>1. Len(log) \in Nat
    BY DEF ServerInv, ServerTyped
  <2> QED BY <1>1, <1>3, <2>1, CommitFacts
<1>6. n \in Nat
  BY <1>2, <1>5, EntryTypes DEF ServerInv
<1>7. Cut = p - 1 /\ Cut' = p /\ ~Publishing' /\ Cut \in Nat /\ Cut <= Cut'
  <2>1. ~Publishing'
    BY <1>5 DEF Publishing
  <2> QED BY <1>1, <1>3, <1>5, <2>1 DEF Cut
<1>8. \A q \in 1..p : /\ Bodies(q)' = Bodies(q) /\ log'[q].staged = log[q].staged
                      /\ log'[q].resets = log[q].resets
  BY <1>5 DEF Bodies
<1>9. ASSUME NEW l \in LiveIds
      PROVE  /\ Len(hist[l]) \in Nat /\ Len(hist'[l]) \in Nat
             /\ \A i \in 1..Len(hist[l]) : hist'[l][i] = hist[l][i]
             /\ \A i \in 1..Len(hist'[l]) : i \notin 1..Len(hist[l]) =>
                  hist'[l][i] # <<>> /\ Tx(l, i)' = p
  <2>1. PICK h : h = Len(hist[l])
    OBVIOUS
  <2>2. hist[l] \in Seq(Batch) /\ h \in Nat
    BY <2>1, HistoryTypes DEF ServerInv, Rows
  <2>3. ASSUME NEW b \in Batch, hist'[l] = Append(hist[l], b), b # <<>>, b[1][1] = p
        PROVE  /\ Len(hist'[l]) \in Nat
               /\ \A i \in 1..h : hist'[l][i] = hist[l][i]
               /\ \A i \in 1..Len(hist'[l]) : i \notin 1..h =>
                    hist'[l][i] # <<>> /\ Tx(l, i)' = p
    <3>1. /\ Len(hist'[l]) = h + 1 /\ hist'[l][h + 1] = b
          /\ \A i \in 1..h : hist'[l][i] = hist[l][i]
      BY <2>1, <2>2, <2>3, AppendMore
    <3>2. \A i \in 1..(h + 1) : i \notin 1..h => i = h + 1
      BY <2>2, LastIndex
    <3> QED BY <2>2, <2>3, <3>1, <3>2 DEF Tx
  <2>4. CASE l \in log[p].resets
    <3>1. PICK b : b = <<<<p, n>>>>
      OBVIOUS
    <3>2. b \in Batch /\ b # <<>> /\ b[1][1] = p
      BY <1>5, <1>6, <3>1 DEF Batch, Fragment
    <3>3. hist'[l] = Append(hist[l], <<<<p, n>>>>)
      <4>1. /\ l \in log[p].resets =>
                 /\ hist'[l] = Append(hist[l], <<<<p, n>>>>)
                 /\ bases'[l] = Append(bases[l], [at |-> Len(hist[l]) + 1, upto |-> p])
            /\ l \notin log[p].resets =>
                 /\ bases'[l] = bases[l]
                 /\ hist'[l] = IF Whole(p, l) # <<>> THEN Append(hist[l], Whole(p, l)) ELSE hist[l]
        BY <1>1, <1>2, <1>3, CommitQuery
      <4> QED BY <2>4, <4>1
    <3>4. hist'[l] = Append(hist[l], b)
      BY <3>1, <3>3
    <3> QED BY <2>1, <2>3, <3>2, <3>4
  <2>5. CASE l \notin log[p].resets /\ Whole(p, l) # <<>>
    <3>1. PICK b : b = Whole(p, l)
      OBVIOUS
    <3>2. n + 1 \in 1..n + 1
      BY <1>6
    <3>3. b # <<>> /\ b[1][1] = p
      BY <1>1, <1>2, <1>5, <2>5, <3>1, <3>2 DEF Whole, ServiceInv, TxSound
    <3>4. b \in Batch
      <4>1. log[p].staged[n + 1] \in [LiveIds -> Batch]
        BY <1>1, <1>2, <1>3, BatchTypes DEF Bodies
      <4> QED BY <1>2, <3>1, <4>1 DEF Whole
    <3>5. hist'[l] = Append(hist[l], b)
      BY <1>1, <1>2, <1>3, <2>5, <3>1, CommitQuery
    <3> QED BY <2>1, <2>3, <3>3, <3>4, <3>5
  <2>6. CASE l \notin log[p].resets /\ Whole(p, l) = <<>>
    <3>1. hist'[l] = hist[l]
      BY <1>1, <1>2, <1>3, <2>6, CommitQuery
    <3> QED BY <2>1, <2>2, <3>1
  <2> QED BY <2>4, <2>5, <2>6
<1>10. TxSound'
  <2>1. ASSUME NEW l \in LiveIds, NEW i \in 1..Len(hist'[l])
        PROVE  hist'[l][i] # <<>> /\ Tx(l, i)' \in Nat /\ Tx(l, i)' <= Cut'
    <3>1. CASE i \in 1..Len(hist[l])
      <4>1. hist[l][i] # <<>> /\ Tx(l, i) \in Nat /\ Tx(l, i) <= Cut
        BY <3>1 DEF ServiceInv, TxSound
      <4>2. hist'[l][i] = hist[l][i] /\ Tx(l, i)' = Tx(l, i)
        BY <1>9, <3>1 DEF Tx
      <4>3. PICK x : x = Tx(l, i)
        OBVIOUS
      <4>4. x \in Nat /\ x <= Cut'
        BY <1>5, <1>7, <4>1, <4>3
      <4> QED BY <4>1, <4>2, <4>3, <4>4
    <3>2. CASE i \notin 1..Len(hist[l])
      BY <1>5, <1>7, <1>9, <3>2
    <3> QED BY <3>1, <3>2
  <2>2. \A q \in 1..p : \A i \in 1..Len(Bodies(q)') + 1 : \A l \in LiveIds :
          log'[q].staged[i][l] # <<>> => log'[q].staged[i][l][1][1] = q
    BY <1>1, <1>8 DEF ServiceInv, TxSound
  <2> QED BY <1>5, <2>1, <2>2 DEF TxSound
<1>11. EitherWay'
  <2>1. ASSUME NEW q \in 1..p
        PROVE  /\ log'[q].resets = ResetBy(q, Len(Bodies(q)))'
               /\ \A l \in log'[q].resets : Whole(q, l)' = <<>>
    <3>1. ResetBy(q, Len(Bodies(q)))' = ResetBy(q, Len(Bodies(q)))
      BY <1>8 DEF ResetBy
    <3>2. \A l : Whole(q, l)' = Whole(q, l)
      BY <1>8 DEF Whole
    <3> QED BY <1>1, <1>8, <3>1, <3>2 DEF ServiceInv, EitherWay
  <2> QED BY <1>5, <2>1 DEF EitherWay
<1>12. ASSUME NEW l \in LiveIds, l \in log[p].resets
       PROVE  /\ bases[l] # <<>> /\ bases'[l] # <<>>
              /\ Len(bases'[l]) = Len(bases[l]) + 1 /\ Len(bases[l]) \in Nat
              /\ bases'[l][Len(bases[l]) + 1].at = Len(hist[l]) + 1
              /\ bases'[l][Len(bases[l]) + 1].upto = p
              /\ \A e \in 1..Len(bases[l]) : bases'[l][e] = bases[l][e]
              /\ Len(hist'[l]) = Len(hist[l]) + 1
  <2>1. l \in ResetBy(p, n)
    BY <1>1, <1>2, <1>5, <1>12 DEF ServiceInv, EitherWay
  <2>2. bases[l] # <<>>
    BY <1>1, <1>2, <1>5, <2>1 DEF ResetBy, ServerInv, ResetsSound, Begins
  <2>3. PICK b : b = [at |-> Len(hist[l]) + 1, upto |-> p]
    OBVIOUS
  <2>4. /\ bases[l] \in Seq(Baseline) /\ Len(bases[l]) \in Nat /\ hist[l] \in Seq(Batch)
        /\ Len(hist[l]) \in Nat
    BY HistoryTypes DEF ServerInv, Rows
  <2>5. b \in Baseline
    BY <1>5, <2>3, <2>4 DEF Baseline
  <2>6. bases'[l] = Append(bases[l], b) /\ hist'[l] = Append(hist[l], <<<<p, n>>>>)
    BY <1>1, <1>2, <1>3, <1>12, <2>3, CommitQuery
  <2>7. <<<<p, n>>>> \in Batch
    BY <1>5, <1>6 DEF Batch, Fragment
  <2>8. /\ Len(bases'[l]) = Len(bases[l]) + 1 /\ bases'[l][Len(bases[l]) + 1] = b
        /\ \A e \in 1..Len(bases[l]) : bases'[l][e] = bases[l][e]
    BY <2>4, <2>5, <2>6, AppendMore
  <2>9. bases'[l] # <<>>
    BY <2>4, <2>6
  <2>10. Len(hist'[l]) = Len(hist[l]) + 1
    BY <2>4, <2>6, <2>7, AppendProperties
  <2>11. b.at = Len(hist[l]) + 1 /\ b.upto = p
    BY <2>3
  <2> QED BY <2>2, <2>4, <2>8, <2>9, <2>10, <2>11
<1>13. ASSUME NEW l \in LiveIds, l \notin log[p].resets
       PROVE  /\ bases'[l] = bases[l] /\ syncing'[l] = syncing[l]
              /\ Len(hist'[l]) = IF Whole(p, l) # <<>> THEN Len(hist[l]) + 1 ELSE Len(hist[l])
  <2>1. /\ bases'[l] = bases[l]
        /\ hist'[l] = IF Whole(p, l) # <<>> THEN Append(hist[l], Whole(p, l)) ELSE hist[l]
    BY <1>1, <1>2, <1>3, <1>13, CommitQuery
  <2>2. hist[l] \in Seq(Batch)
    BY HistoryTypes DEF ServerInv, Rows
  <2>3. Whole(p, l) \in Batch
    <3>1. log[p].staged[n + 1] \in [LiveIds -> Batch]
      BY <1>1, <1>2, <1>3, BatchTypes DEF Bodies
    <3> QED BY <1>2, <3>1 DEF Whole
  <2> QED BY <1>3, <1>13, <2>1, <2>2, <2>3
<1>14. \A l \in LiveIds : l \in log[p].resets => syncing'[l] = NoBaseline
  BY <1>3
<1>15. NoBaseline \in BaselineState /\ NoBaseline.attempt = 0 /\ ~NoBaseline.ended
       /\ NoBaseline.sent = 0
  BY DEF NoBaseline, BaselineState
<1>16. SyncingSound'
  <2>1. syncing' \in [LiveIds -> BaselineState]
    BY <1>3, <1>15 DEF ServiceInv, SyncingSound
  <2>2. ASSUME NEW l \in LiveIds
        PROVE  /\ syncing'[l].attempt <= MaxAttempts
               /\ syncing'[l].ended => syncing'[l].sent = bases'[l][Len(bases'[l])].at
               /\ bases'[l] = <<>> =>
                    syncing'[l].attempt = 0 /\ ~syncing'[l].ended /\ l \notin detached'
               /\ \A e \in 1..Len(bases'[l]) : bases'[l][e].upto <= Cut'
    <3>0. ASSUME NEW e \in 1..Len(bases[l])
          PROVE  bases[l][e].upto <= Cut'
      <4>1. bases[l][e].upto <= Cut
        BY DEF ServiceInv, SyncingSound
      <4>2. bases[l][e] \in Baseline
        BY HistoryTypes DEF ServerInv
      <4>3. PICK x : x = bases[l][e].upto
        OBVIOUS
      <4>4. x \in Nat
        BY <4>2, <4>3 DEF Baseline
      <4> QED BY <1>5, <1>7, <4>1, <4>3, <4>4
    <3>1. CASE l \in log[p].resets
      <4>1. \A e \in 1..(Len(bases[l]) + 1) : e \in 1..Len(bases[l]) \/ e = Len(bases[l]) + 1
        BY <1>12, <3>1
      <4>2. \A e \in 1..Len(bases'[l]) : bases'[l][e].upto <= Cut'
        <5> SUFFICES ASSUME NEW e \in 1..Len(bases'[l])
                     PROVE  bases'[l][e].upto <= Cut'
          OBVIOUS
        <5>1. CASE e \in 1..Len(bases[l])
          BY <1>12, <3>0, <3>1, <5>1
        <5>2. CASE e = Len(bases[l]) + 1
          BY <1>5, <1>7, <1>12, <3>1, <5>2
        <5> QED BY <1>12, <3>1, <4>1, <5>1, <5>2
      <4>3. MaxAttempts \in Nat
        BY ServerBounds
      <4> QED BY <1>12, <1>14, <1>15, <3>1, <4>2, <4>3
    <3>2. CASE l \notin log[p].resets
      BY <1>3, <1>13, <3>0, <3>2 DEF ServiceInv, SyncingSound
    <3> QED BY <3>1, <3>2
  <2> QED BY <1>3, <2>1, <2>2 DEF ServiceInv, SyncingSound
<1>17. FinishedStay
  BY <1>1, <1>5 DEF FinishedStay
<1>18. NewBehindCut
  <2>1. ASSUME NEW l \in LiveIds, NEW i \in 1..Len(hist'[l]), i \notin 1..Len(hist[l])
        PROVE  Tx(l, i)' \in Nat /\ Tx(l, i)' > Cut
    BY <1>5, <1>7, <1>9, <2>1
  <2> QED BY <1>5, <1>7, <2>1 DEF NewBehindCut
<1>19. m \in Frames'
  <2>1. p \in Done'
    BY <1>5 DEF Done
  <2>2. m = CommitFrame(p, TRUE)'
    BY <1>1, <1>5 DEF CommitFrame
  <2> QED BY <2>1, <2>2, PublicationFrameTrue
<1>20. NowIs(s) /\ NowIs(t)'
  BY NowFields, NextFields
<1>21. /\ s.cut = p - 1 /\ t.cut = p /\ s.open /\ ~t.open /\ s.body = n
       /\ m.type = "commit" /\ m.pub = p /\ m.count = n /\ m.ordered
       /\ p = s.cut + 1
  BY <1>1, <1>2, <1>3, <1>5, <1>7, <1>20 DEF NowIs, CommitFrame, Bodies
<1>22. ASSUME NEW l \in LiveIds
       PROVE  Committed(p, l, s.q[l], t.q[l])'
  <2>1. /\ s.q[l].reg = Registration(l) /\ s.q[l].ep = Len(bases[l])
        /\ s.q[l].seq = IF bases[l] = <<>> THEN 0 ELSE Len(hist[l]) - bases[l][Len(bases[l])].at
        /\ s.q[l].att = syncing[l].attempt /\ s.q[l].sent = syncing[l].sent
        /\ (s.q[l].ended <=> syncing[l].ended)
    BY <1>20 DEF NowIs
  <2>2. /\ t.q[l].reg = Registration(l)' /\ t.q[l].ep = Len(bases'[l])
        /\ t.q[l].seq = IF bases'[l] = <<>> THEN 0
                        ELSE Len(hist'[l]) - bases'[l][Len(bases'[l])].at
        /\ t.q[l].att = syncing'[l].attempt /\ t.q[l].sent = syncing'[l].sent
        /\ (t.q[l].ended <=> syncing'[l].ended)
    BY <1>20 DEF NowIs
  <2>3. Len(hist[l]) \in Nat /\ Len(bases[l]) \in Nat
    BY HistoryTypes DEF ServerInv
  <2>4. CASE l \in log[p].resets
    <3>1. Registration(l)' = Registration(l)
      BY <1>3, <1>12, <2>4 DEF Registration
    <3>2. bases'[l][Len(bases'[l])].at = Len(hist[l]) + 1
      BY <1>12, <2>4
    <3>3. t.q[l].seq = 0
      BY <1>12, <2>2, <2>3, <2>4, <3>2
    <3> QED BY <1>5, <1>12, <1>14, <1>15, <2>1, <2>2, <2>4, <3>1, <3>3 DEF Committed
  <2>5. CASE l \notin log[p].resets
    <3>1. Registration(l)' = Registration(l)
      BY <1>3, <1>13, <2>5 DEF Registration
    <3>2. Whole(p, l)' = Whole(p, l)
      BY <1>5 DEF Whole, Bodies
    <3>3. ASSUME s.q[l].reg # "no"
          PROVE  t.q[l].seq = IF Whole(p, l) # <<>> THEN s.q[l].seq + 1 ELSE s.q[l].seq
      <4>1. bases[l] # <<>> /\ bases'[l] = bases[l]
        BY <1>13, <2>1, <2>5, <3>3 DEF Registration
      <4>2. Len(bases[l]) \in 1..Len(bases[l])
        BY <4>1, ServiceTypes
      <4>3. PICK a : a = bases[l][Len(bases[l])].at
        OBVIOUS
      <4>4. a \in Nat
        BY <4>2, <4>3, HistoryTypes DEF ServerInv
      <4>5. s.q[l].seq = Len(hist[l]) - a /\ t.q[l].seq = Len(hist'[l]) - a
        BY <2>1, <2>2, <4>1, <4>3
      <4> QED BY <1>13, <2>3, <2>5, <4>4, <4>5
    <3> QED BY <1>5, <1>13, <2>1, <2>2, <2>5, <3>1, <3>2, <3>3 DEF Committed
  <2> QED BY <2>4, <2>5
<1>23. TakesCommit(m, s, t)'
  BY <1>2, <1>5, <1>21, <1>22 DEF TakesCommit, Bodies
<1> QED BY <1>4, <1>3, <1>10, <1>11, <1>16, <1>17, <1>18, <1>19, <1>23
        DEF Sends, ServiceGrows, ServiceInv, Takes

-----------------------------------------------------------------------------
(* What the client makes of a frame that comes in its turn.                *)

\* Only subscribed queries are active, only registered ones are live or about
\* to be, and the service acknowledges only what the client has given up.
ClientInv ==
  /\ conn \in {"open", "closed"}
  /\ conn # "open" => active = {}
  /\ active \subseteq subscribed /\ status \subseteq subscribed
  /\ live \subseteq registered
  /\ \A l \in LiveIds : CatchingUp(l) => l \in registered
  /\ attempt \in [LiveIds -> Nat] /\ \A l \in pending : attempt[l] = 0
  /\ replica \in [LiveIds -> Rows]
  /\ \A l \in detached : l \notin subscribed

\* The client has taken the frame in, or ignored it, and stands at t.
Taken(t) == conn' = "open" /\ ClientAt(t)' /\ ClientInv'

Stays(l) ==
  /\ epoch'[l] = epoch[l] /\ nextSeq'[l] = nextSeq[l] /\ attempt'[l] = attempt[l]
  /\ sync'[l] = sync[l] /\ (Installed(l)' <=> Installed(l))

LEMMA QueryStaysAt ==
  ASSUME NEW l, NEW s, NEW t, QueryAt(l, s.q[l], s.cut), SameStanding(s.q[l], t.q[l]),
         t.cut = s.cut, Stays(l)
  PROVE  QueryAt(l, t.q[l], t.cut)'
BY DEF QueryAt, SameStanding, Stays

\* A frame for one query, outside of publications.
LEMMA OneQueryTaken ==
  ASSUME IInv, NEW l \in LiveIds, NEW s, NEW t, ClientAt(s), OnlyQuery(l, s, t),
         UNCHANGED publication,
         \A k \in LiveIds : k # l => /\ k \in pending' <=> k \in pending
                                     /\ k \in registered' <=> k \in registered,
         \A k \in active' : k # l => k \in active /\ Stays(k),
         l \in pending' <=> t.q[l].reg = "no", l \in registered' <=> t.q[l].reg = "yes",
         active' \subseteq LiveIds,
         l \in active' => QueryAt(l, t.q[l], t.cut)'
  PROVE  ClientAt(t)'
<1>1. ~s.open /\ ~t.open /\ t.cut = s.cut /\ ~publication.open
      /\ \A k \in LiveIds : k # l => SameStanding(s.q[k], t.q[k])
  BY DEF OnlyQuery, ClientAt
<1>2. \A k \in LiveIds : publication.resets[k] = NoReset
  BY <1>1, NothingStaged DEF Reset
<1>3. ASSUME NEW k \in LiveIds
      PROVE  /\ k \in pending' <=> t.q[k].reg = "no"
             /\ k \in registered' <=> t.q[k].reg = "yes"
  <2>1. CASE k # l
    <3>1. t.q[k].reg = s.q[k].reg
      BY <1>1, <2>1 DEF SameStanding
    <3>2. /\ k \in pending <=> s.q[k].reg = "no"
          /\ k \in registered <=> s.q[k].reg = "yes"
      BY DEF ClientAt
    <3> QED BY <2>1, <3>1, <3>2
  <2> QED BY <2>1
<1>4. ASSUME NEW k \in active'
      PROVE  QueryAt(k, t.q[k], t.cut)' /\ ResetAt(k, t)'
  <2>1. k \in LiveIds
    OBVIOUS
  <2>2. ResetAt(k, t)'
    BY <1>1, <1>2, <2>1 DEF ResetAt
  <2>3. ASSUME k # l
        PROVE  QueryAt(k, t.q[k], t.cut)'
    <3>1. QueryAt(k, s.q[k], s.cut) /\ Stays(k)
      BY <2>3 DEF ClientAt
    <3> QED BY <1>1, <2>1, <2>3, <3>1, QueryStaysAt
  <2> QED BY <2>2, <2>3
<1> QED BY <1>1, <1>3, <1>4 DEF ClientAt

LEMMA SubscribedTaken ==
  ASSUME IInv, ClientInv, NEW m, NEW s, NEW t, ClientAt(s), TakesSubscribed(m, s, t),
         Subscribed(m), conn = "open", UNCHANGED serverVars
  PROVE  Taken(t)
<1>1. PICK l : l = m.id
  OBVIOUS
<1>2. /\ l \in LiveIds /\ OnlyQuery(l, s, t) /\ s.q[l].reg = "no" /\ t.q[l].reg = "yes"
      /\ t.q[l].ep = m.epoch /\ t.q[l].seq = m.first /\ t.q[l].att = 0 /\ ~t.q[l].ended
  BY <1>1 DEF TakesSubscribed
<1>3. l \in pending /\ l \notin registered
  BY <1>2 DEF ClientAt
<1>4. /\ pending' = pending \ {l} /\ registered' = registered \cup {l}
      /\ active' = active \cup (subscribed \cap {l})
      /\ epoch' = [epoch EXCEPT ![l] = m.epoch] /\ nextSeq' = [nextSeq EXCEPT ![l] = m.first]
      /\ UNCHANGED <<conn, subscribed, live, attempt, sync, backlog, publication,
                     rows, status, replica, confirmed, calls>>
  BY <1>1, <1>3 DEF Subscribed, visibleVars
<1>5. /\ epoch \in [LiveIds -> Nat] /\ nextSeq \in [LiveIds -> Nat]
      /\ active \subseteq registered /\ registered \subseteq LiveIds \ pending
      /\ l \notin active /\ pending \subseteq LiveIds
  BY <1>3 DEF IInv, ClientTyped
<1>6. \A k : Installed(k)' <=> Installed(k)
  BY <1>4 DEF Installed, CatchingUp
<1>7. sync[l] = NoSync /\ ~Installed(l) /\ attempt[l] = 0
  BY <1>3 DEF IInv, TakenIn, BlankSound, ClientInv
<1>8. QueryAt(l, t.q[l], t.cut)'
  BY <1>2, <1>4, <1>5, <1>6, <1>7 DEF QueryAt, NoSync
<1>9. \A k \in active' : k # l => k \in active /\ Stays(k)
  BY <1>4, <1>5, <1>6 DEF Stays
<1>10. ClientAt(t)'
  BY <1>2, <1>3, <1>4, <1>5, <1>8, <1>9, OneQueryTaken
<1>11. ClientInv'
  BY <1>4, <1>5 DEF ClientInv, CatchingUp, serverVars
<1> QED BY <1>4, <1>10, <1>11 DEF Taken

LEMMA UnsubscribedTaken ==
  ASSUME IInv, ClientInv, NEW m, NEW s, NEW t, ClientAt(s), s.cut \in Nat,
         TakesUnsubscribed(m, s, t), Unsubscribed(m), conn = "open", calls = <<>>,
         m.id \in LiveIds, UNCHANGED serverVars
  PROVE  Taken(t)
<1>1. PICK l : l = m.id
  OBVIOUS
<1>2. /\ l \in LiveIds /\ l \in detached /\ s.q[l].reg = "yes" /\ t.q[l].reg = "gone"
      /\ t.cut = s.cut /\ t.body = s.body /\ (t.open <=> s.open)
      /\ \A k \in LiveIds : k # l => SameStanding(s.q[k], t.q[k])
  BY <1>1 DEF TakesUnsubscribed
<1>3. l \in registered /\ l \notin subscribed /\ l \notin pending
  BY <1>2 DEF ClientAt, ClientInv
<1>4. /\ registered' = registered \ {l} /\ active' = active \ {l} /\ live' = live \ {l}
      /\ publication' = [publication EXCEPT !.batches[l] = <<>>, !.resets[l] = NoReset]
      /\ UNCHANGED <<conn, pending, subscribed, epoch, nextSeq, attempt, sync,
                     rows, status, replica, confirmed, calls>>
  BY <1>1, <1>3 DEF Unsubscribed, visibleVars
<1>5. /\ active \subseteq registered /\ registered \subseteq LiveIds \ pending
      /\ pending \subseteq LiveIds /\ publication \in PublicationType
  BY <1>3 DEF IInv, ClientTyped
<1>6. Blanked(publication, publication', l)
  BY <1>2, <1>4, <1>5, BlankedPublication
<1>7. log' = log
  BY DEF serverVars
<1>8. ASSUME NEW k \in active'
      PROVE  QueryAt(k, t.q[k], t.cut)' /\ ResetAt(k, t)'
  <2>1. k \in active /\ k \in LiveIds /\ k # l
    BY <1>4, <1>5
  <2>2. Installed(k)' <=> Installed(k)
    BY <1>4, <2>1 DEF Installed, CatchingUp
  <2>3. QueryAt(k, s.q[k], s.cut) /\ ResetAt(k, s) /\ SameStanding(s.q[k], t.q[k])
    BY <1>2, <2>1 DEF ClientAt
  <2>4. QueryAt(k, t.q[k], t.cut)'
    BY <1>2, <1>4, <2>2, <2>3, QueryStaysAt DEF Stays
  <2>5. publication'.resets[k] = publication.resets[k]
    BY <1>6, <2>1 DEF Blanked
  <2>6. ResetBy(t.cut + 1, t.body)' = ResetBy(s.cut + 1, s.body)
    BY <1>2, <1>7 DEF ResetBy, Bodies
  <2>7. ResetAt(k, t)'
    BY <1>2, <2>3, <2>5, <2>6 DEF ResetAt, SameStanding
  <2> QED BY <2>4, <2>7
<1>9. ASSUME NEW k \in LiveIds
      PROVE  /\ k \in pending' <=> t.q[k].reg = "no"
             /\ k \in registered' <=> t.q[k].reg = "yes"
  <2>1. CASE k = l
    BY <1>2, <1>3, <1>4, <2>1
  <2>2. CASE k # l
    <3>1. t.q[k].reg = s.q[k].reg
      BY <1>2, <2>2 DEF SameStanding
    <3>2. /\ k \in pending <=> s.q[k].reg = "no"
          /\ k \in registered <=> s.q[k].reg = "yes"
      BY DEF ClientAt
    <3> QED BY <1>4, <2>2, <3>1, <3>2
  <2> QED BY <2>1, <2>2
<1>10. /\ publication'.open = publication.open /\ publication'.id = publication.id
       /\ publication'.nextBody = publication.nextBody
  BY <1>6 DEF Blanked
<1>11. ClientAt(t)'
  BY <1>2, <1>8, <1>9, <1>10 DEF ClientAt
<1>12. \A k : ~CatchingUp(k)'
  BY <1>4 DEF CatchingUp
<1>13. ClientInv'
  BY <1>4, <1>5, <1>12 DEF ClientInv, serverVars
<1> QED BY <1>4, <1>11, <1>13 DEF Taken

\* A baseline frame finds its query registered and no publication open.
LEMMA InTurn ==
  ASSUME IInv, ClientInv, NEW m, NEW s, NEW t, ClientAt(s), InBaseline(m, s, t),
         NEW l, l = m.id
  PROVE  /\ ~Misplaced(m) /\ l \in LiveIds /\ l \in registered /\ l \notin pending
         /\ ~publication.open /\ OnlyQuery(l, s, t)
         /\ t.q[l].reg = "yes" /\ attempt[l] \in Nat
         /\ l \in active =>
              /\ QueryAt(l, s.q[l], s.cut) /\ m.epoch = epoch[l] /\ t.q[l].ep = epoch[l]
              /\ t.q[l].seq = nextSeq[l] /\ ~Installed(l) /\ l \notin live
<1>1. l \in LiveIds /\ OnlyQuery(l, s, t) /\ s.q[l].reg = "yes" /\ t.q[l].reg = "yes"
      /\ s.q[l].ep = m.epoch /\ t.q[l].ep = s.q[l].ep /\ t.q[l].seq = s.q[l].seq
      /\ ~s.q[l].ended
  BY DEF InBaseline
<1>2. l \in registered /\ l \notin pending /\ ~publication.open
  BY <1>1 DEF ClientAt, OnlyQuery
<1>3. attempt[l] \in Nat
  BY <1>1 DEF ClientInv
<1>4. ASSUME l \in active
      PROVE  /\ QueryAt(l, s.q[l], s.cut) /\ m.epoch = epoch[l] /\ t.q[l].ep = epoch[l]
             /\ t.q[l].seq = nextSeq[l] /\ ~Installed(l) /\ l \notin live
  <2>1. QueryAt(l, s.q[l], s.cut)
    BY <1>4 DEF ClientAt
  <2> QED BY <1>1, <2>1 DEF QueryAt, Installed
<1> QED BY <1>1, <1>2, <1>3, <1>4 DEF Misplaced

\* Frames for a query that has left go by.
LEMMA PassedOver ==
  ASSUME IInv, ClientInv, NEW m, NEW s, NEW t, ClientAt(s), InBaseline(m, s, t),
         m.id \notin active, conn = "open", UNCHANGED clientVars, UNCHANGED serverVars
  PROVE  Taken(t)
<1>1. PICK l : l = m.id
  OBVIOUS
<1>2. /\ l \in LiveIds /\ l \in registered /\ l \notin pending /\ OnlyQuery(l, s, t)
      /\ t.q[l].reg = "yes" /\ l \notin active
  BY <1>1, InTurn
<1>3. /\ UNCHANGED <<conn, pending, subscribed, registered, active, live, epoch, nextSeq,
                     attempt, sync, backlog, publication, rows, status, replica, confirmed,
                     calls>>
      /\ UNCHANGED detached
  BY DEF clientVars, targetVars, visibleVars, serverVars
<1>4. \A k : CatchingUp(k)' <=> CatchingUp(k)
  BY <1>3 DEF CatchingUp
<1>5. \A k \in active' : k # l => k \in active /\ Stays(k)
  BY <1>3, <1>4 DEF Stays, Installed
<1>6. active' \subseteq LiveIds
  BY <1>3 DEF IInv, ClientTyped
<1>7. ClientAt(t)'
  BY <1>2, <1>3, <1>5, <1>6, OneQueryTaken
<1>8. ClientInv'
  BY <1>3, <1>4 DEF ClientInv
<1> QED BY <1>3, <1>7, <1>8 DEF Taken

LEMMA StartTaken ==
  ASSUME IInv, ClientInv, NEW m \in Frames, NEW s, NEW t, ClientAt(s), s.cut \in Nat,
         TakesStart(m, s, t), BaselineSyncStart(m), conn = "open", UNCHANGED serverVars
  PROVE  Taken(t)
<1>1. PICK l : l = m.id
  OBVIOUS
<1>2. /\ m.type = "baseline_sync_start" /\ InBaseline(m, s, t)
      /\ m.attempt = s.q[l].att + 1 /\ t.q[l].sent = 0 /\ ~t.q[l].ended /\ m.upto <= s.cut
      /\ t.q[l].att = m.attempt /\ m.attempt # 0
  BY <1>1 DEF TakesStart, InBaseline
<1>3. /\ ~Misplaced(m) /\ l \in LiveIds /\ l \in registered /\ l \notin pending
      /\ OnlyQuery(l, s, t) /\ t.q[l].reg = "yes" /\ attempt[l] \in Nat
      /\ l \in active =>
              /\ QueryAt(l, s.q[l], s.cut) /\ m.epoch = epoch[l] /\ t.q[l].ep = epoch[l]
              /\ t.q[l].seq = nextSeq[l] /\ ~Installed(l) /\ l \notin live
  BY <1>1, <1>2, InTurn
<1>4. CASE l \notin active
  <2>1. UNCHANGED clientVars
    BY <1>1, <1>3, <1>4 DEF BaselineSyncStart, NotAccepted, Accepted, Ignored
  <2> QED BY <1>1, <1>2, <1>4, <2>1, PassedOver
<1>5. CASE l \in active
  <2>1. attempt[l] = s.q[l].att
    BY <1>3, <1>5 DEF QueryAt
  <2>2. /\ m.attempt \in Nat /\ epoch[l] \in Nat /\ t.cut = s.cut
    BY <1>2, <1>3, StartTells, ClientTypes DEF IInv, ServerInv, OnlyQuery
  <2>3. ~Stale(m) /\ ~InvalidStart(m)
    BY <1>1, <1>2, <1>3, <1>5, <2>1, <2>2 DEF Stale, InvalidStart, SameVersion
  <2> DEFINE fresh == [on |-> TRUE, nextBatch |-> 0, rows |-> <<>>, upto |-> m.upto]
  <2>4. /\ attempt' = [attempt EXCEPT ![l] = m.attempt] /\ sync' = [sync EXCEPT ![l] = fresh]
        /\ UNCHANGED <<conn, pending, subscribed, registered, active, live, epoch, nextSeq,
                       backlog, publication, rows, status, replica, confirmed, calls>>
    BY <1>1, <1>3, <1>5, <2>3 DEF BaselineSyncStart, NotAccepted, Ignored, visibleVars
  <2>5. fresh.on /\ fresh.nextBatch = 0 /\ fresh.upto = m.upto
    OBVIOUS
  <2> HIDE DEF fresh
  <2>6. /\ sync'[l] = fresh /\ attempt'[l] = m.attempt /\ attempt' \in [LiveIds -> Nat]
        /\ \A k \in LiveIds : k # l => sync'[k] = sync[k] /\ attempt'[k] = attempt[k]
    BY <1>3, <2>2, <2>4 DEF IInv, ClientTyped
  <2>7. \A k : CatchingUp(k)' <=> CatchingUp(k)
    BY <2>4 DEF CatchingUp
  <2>8. active \subseteq LiveIds /\ pending \subseteq LiveIds
    BY DEF IInv, ClientTyped
  <2>9. \A k \in active' : k # l => k \in active /\ Stays(k)
    BY <2>4, <2>6, <2>7, <2>8 DEF Stays, Installed
  <2>10. QueryAt(l, t.q[l], t.cut)'
    BY <1>2, <1>3, <1>5, <2>2, <2>4, <2>5, <2>6, <2>7 DEF QueryAt, Installed
  <2>11. ClientAt(t)'
    BY <1>3, <2>4, <2>8, <2>9, <2>10, OneQueryTaken
  <2>12. ClientInv'
    BY <1>3, <2>4, <2>6, <2>7, <2>8 DEF ClientInv, serverVars
  <2> QED BY <2>4, <2>11, <2>12 DEF Taken
<1> QED BY <1>4, <1>5

LEMMA BatchTaken ==
  ASSUME IInv, ClientInv, NEW m \in Frames, NEW s, NEW t, ClientAt(s), s.cut \in Nat,
         TakesBatch(m, s, t), BaselineSyncBatch(m), conn = "open", UNCHANGED serverVars
  PROVE  Taken(t)
<1>1. PICK l : l = m.id
  OBVIOUS
<1>2. /\ m.type = "baseline_sync_batch" /\ InBaseline(m, s, t)
      /\ m.attempt = s.q[l].att /\ m.index = s.q[l].sent /\ t.q[l].sent = s.q[l].sent + 1
      /\ ~t.q[l].ended /\ t.q[l].att = m.attempt /\ m.attempt # 0 /\ ~s.q[l].ended
  BY <1>1 DEF TakesBatch, InBaseline
<1>3. /\ ~Misplaced(m) /\ l \in LiveIds /\ l \in registered /\ l \notin pending
      /\ OnlyQuery(l, s, t) /\ t.q[l].reg = "yes" /\ attempt[l] \in Nat
      /\ l \in active =>
              /\ QueryAt(l, s.q[l], s.cut) /\ m.epoch = epoch[l] /\ t.q[l].ep = epoch[l]
              /\ t.q[l].seq = nextSeq[l] /\ ~Installed(l) /\ l \notin live
  BY <1>1, <1>2, InTurn
<1>4. CASE l \notin active
  <2>1. UNCHANGED clientVars
    BY <1>1, <1>3, <1>4 DEF BaselineSyncBatch, NotAccepted, Accepted, Ignored
  <2> QED BY <1>1, <1>2, <1>4, <2>1, PassedOver
<1>5. CASE l \in active
  <2>1. attempt[l] = s.q[l].att /\ sync[l].on /\ sync[l].nextBatch = s.q[l].sent
        /\ sync[l].upto <= s.cut
    BY <1>2, <1>3, <1>5 DEF QueryAt
  <2>2. epoch[l] \in Nat /\ t.cut = s.cut /\ sync[l] \in SyncType
    BY <1>2, <1>3, ClientTypes DEF IInv, ServerInv, OnlyQuery
  <2>3. ~Stale(m) /\ ~InvalidBatch(m)
    BY <1>1, <1>2, <1>3, <1>5, <2>1, <2>2 DEF Stale, InvalidBatch, Running, SameVersion
  <2>4. /\ sync' = [sync EXCEPT ![l].rows = @ \o m.rows, ![l].nextBatch = @ + 1]
        /\ UNCHANGED <<conn, pending, subscribed, registered, active, live, epoch, nextSeq,
                       attempt, backlog, publication, rows, status, replica, confirmed, calls>>
    BY <1>1, <1>3, <1>5, <2>3 DEF BaselineSyncBatch, NotAccepted, Ignored, visibleVars
  <2>5. sync \in [LiveIds -> SyncType]
    BY DEF IInv, ClientTyped
  <2>6. /\ sync'[l].on = sync[l].on /\ sync'[l].nextBatch = sync[l].nextBatch + 1
        /\ sync'[l].upto = sync[l].upto
        /\ \A k \in LiveIds : k # l => sync'[k] = sync[k]
    <3>1. PICK r : r = sync[l].rows \o m.rows
      OBVIOUS
    <3>2. PICK n : n = sync[l].nextBatch + 1
      OBVIOUS
    <3>3. sync' = [sync EXCEPT ![l] = [sync[l] EXCEPT !.rows = r, !.nextBatch = n]]
      BY <1>3, <2>2, <2>4, <2>5, <3>1, <3>2 DEF SyncType
    <3> QED BY <1>3, <2>2, <2>5, <3>2, <3>3 DEF SyncType
  <2>7. \A k : CatchingUp(k)' <=> CatchingUp(k)
    BY <2>4 DEF CatchingUp
  <2>8. active \subseteq LiveIds /\ pending \subseteq LiveIds
    BY DEF IInv, ClientTyped
  <2>9. \A k \in active' : k # l => k \in active /\ Stays(k)
    BY <2>4, <2>6, <2>7, <2>8 DEF Stays, Installed
  <2>10. QueryAt(l, t.q[l], t.cut)'
    BY <1>2, <1>3, <1>5, <2>1, <2>2, <2>4, <2>6, <2>7 DEF QueryAt, Installed
  <2>11. ClientAt(t)'
    BY <1>3, <2>4, <2>8, <2>9, <2>10, OneQueryTaken
  <2>12. ClientInv'
    BY <2>4, <2>7 DEF ClientInv, serverVars
  <2> QED BY <2>4, <2>11, <2>12 DEF Taken
<1> QED BY <1>4, <1>5

LEMMA EndTaken ==
  ASSUME IInv, ClientInv, NEW m \in Frames, NEW s, NEW t, ClientAt(s), s.cut \in Nat,
         TakesEnd(m, s, t), BaselineSyncEnd(m), conn = "open", calls = <<>>,
         UNCHANGED serverVars
  PROVE  Taken(t)
<1>1. PICK l : l = m.id
  OBVIOUS
<1>2. /\ m.type = "baseline_sync_end" /\ InBaseline(m, s, t)
      /\ m.attempt = s.q[l].att /\ m.count = s.q[l].sent /\ t.q[l].ended
      /\ t.q[l].att = m.attempt /\ m.attempt # 0 /\ ~s.q[l].ended
  BY <1>1 DEF TakesEnd, InBaseline
<1>3. /\ ~Misplaced(m) /\ l \in LiveIds /\ l \in registered /\ l \notin pending
      /\ OnlyQuery(l, s, t) /\ t.q[l].reg = "yes" /\ attempt[l] \in Nat
      /\ l \in active =>
              /\ QueryAt(l, s.q[l], s.cut) /\ m.epoch = epoch[l] /\ t.q[l].ep = epoch[l]
              /\ t.q[l].seq = nextSeq[l] /\ ~Installed(l) /\ l \notin live
  BY <1>1, <1>2, InTurn
<1>4. CASE l \notin active
  <2>1. UNCHANGED clientVars
    BY <1>1, <1>3, <1>4 DEF BaselineSyncEnd, NotAccepted, Accepted, Ignored
  <2> QED BY <1>1, <1>2, <1>4, <2>1, PassedOver
<1>5. CASE l \in active
  <2>1. attempt[l] = s.q[l].att /\ sync[l].on /\ sync[l].nextBatch = s.q[l].sent
    BY <1>2, <1>3, <1>5 DEF QueryAt
  <2>2. epoch[l] \in Nat /\ t.cut = s.cut
    BY <1>3, ClientTypes DEF OnlyQuery
  <2>3. ~Stale(m) /\ ~InvalidEnd(m)
    BY <1>1, <1>2, <1>3, <1>5, <2>1, <2>2 DEF Stale, InvalidEnd, Running, SameVersion
  <2>4. /\ InstallBaseline(l) \/ BaselineDecodeFailed(l)
        /\ UNCHANGED <<conn, pending, subscribed, registered, epoch, nextSeq, attempt,
                       publication, status, replica, confirmed>>
    BY <1>1, <1>3, <1>5, <2>3 DEF BaselineSyncEnd, NotAccepted, Ignored
  <2>5. /\ active \subseteq LiveIds /\ pending \subseteq LiveIds
        /\ sync \in [LiveIds -> SyncType]
    BY DEF IInv, ClientTyped
  <2>6. sync'[l] = NoSync /\ \A k \in LiveIds : k # l => sync'[k] = sync[k]
    BY <1>3, <2>4, <2>5 DEF InstallBaseline, BaselineDecodeFailed
  <2>7. \A k : ~CatchingUp(k)
    BY DEF CatchingUp
  <2>8. CASE InstallBaseline(l)
    <3>1. active' = active /\ live' = live
          /\ calls' = <<Call("publishReset", l, sync[l].rows, sync[l].upto)>>
                    \o BacklogCalls(l) \o <<Call("caughtUp", l, <<>>, 0)>>
      BY <2>8 DEF InstallBaseline
    <3>2. CatchingUp(l)' /\ \A k \in LiveIds \ {l} : ~CatchingUp(k)'
      BY <1>3, <3>1, InstallCalls
    <3>3. \A k \in active' : k # l => k \in active /\ Stays(k)
      BY <2>4, <2>5, <2>6, <2>7, <3>1, <3>2 DEF Stays, Installed
    <3>4. QueryAt(l, t.q[l], t.cut)'
      BY <1>2, <1>3, <1>5, <2>1, <2>4, <2>6, <3>2 DEF QueryAt, Installed, NoSync
    <3>5. ClientAt(t)'
      BY <1>3, <2>4, <2>5, <3>1, <3>3, <3>4, OneQueryTaken
    <3>6. ClientInv'
      BY <1>3, <2>4, <3>1, <3>2 DEF ClientInv, serverVars
    <3> QED BY <2>4, <3>5, <3>6 DEF Taken
  <2>9. CASE BaselineDecodeFailed(l)
    <3>1. active' = active \ {l} /\ live' = live \ {l}
          /\ calls' = <<Call("decodeFailed", l, <<>>, 0)>>
      BY <2>9 DEF BaselineDecodeFailed
    <3>2. \A k : ~CatchingUp(k)'
      <4>1. /\ Len(calls') = 1 /\ calls'[1] = Call("decodeFailed", l, <<>>, 0)
        BY <3>1
      <4>2. calls'[1].method = "decodeFailed"
        BY <4>1 DEF Call
      <4> QED BY <4>1, <4>2 DEF CatchingUp
    <3>3. \A k \in active' : k # l => k \in active /\ Stays(k)
      BY <2>4, <2>5, <2>6, <2>7, <3>1, <3>2 DEF Stays, Installed
    <3>4. l \notin active'
      BY <3>1
    <3>5. ClientAt(t)'
      BY <1>3, <2>4, <2>5, <3>1, <3>3, <3>4, OneQueryTaken
    <3>6. ClientInv'
      BY <2>4, <3>1, <3>2 DEF ClientInv, serverVars
    <3> QED BY <2>4, <3>5, <3>6 DEF Taken
  <2> QED BY <2>4, <2>8, <2>9
<1> QED BY <1>4, <1>5

\* A frame of a publication moves no query.
LEMMA PublicationTaken ==
  ASSUME IInv, NEW s, NEW t, ClientAt(s), OnlyPublication(s, t), t.cut = s.cut,
         UNCHANGED <<pending, registered, active, live, epoch, nextSeq, attempt, sync, calls>>,
         publication'.open <=> t.open,
         t.open => publication'.id = t.cut + 1 /\ publication'.nextBody = t.body,
         \A l \in active : ResetAt(l, t)'
  PROVE  ClientAt(t)'
<1>1. \A k : Installed(k)' <=> Installed(k)
  BY DEF Installed, CatchingUp
<1>2. active \subseteq LiveIds
  BY DEF IInv, ClientTyped
<1>3. ASSUME NEW l \in active
      PROVE  QueryAt(l, t.q[l], t.cut)'
  <2>1. QueryAt(l, s.q[l], s.cut) /\ SameStanding(s.q[l], t.q[l])
    BY <1>2 DEF ClientAt, OnlyPublication
  <2> QED BY <1>1, <2>1, QueryStaysAt DEF Stays
<1>4. ASSUME NEW l \in LiveIds
      PROVE  /\ l \in pending' <=> t.q[l].reg = "no"
             /\ l \in registered' <=> t.q[l].reg = "yes"
  BY DEF ClientAt, OnlyPublication, SameStanding
<1> QED BY <1>3, <1>4 DEF ClientAt

LEMMA ClientInvSame ==
  ASSUME ClientInv, UNCHANGED <<conn, pending, subscribed, registered, active, live, attempt,
                                status, replica, calls, detached>>
  PROVE  ClientInv'
BY DEF ClientInv, CatchingUp

LEMMA OpenTaken ==
  ASSUME IInv, ClientInv, NEW m \in Frames, NEW s, NEW t, ClientAt(s),
         TakesOpen(m, s, t), Open(m), conn = "open", UNCHANGED serverVars
  PROVE  Taken(t)
<1>1. m.pub = s.cut + 1 /\ t.cut = s.cut /\ ~s.open /\ t.open /\ t.body = 0
      /\ OnlyPublication(s, t)
  BY DEF TakesOpen
<1>2. /\ publication' = [NoPublication EXCEPT !.open = TRUE, !.id = m.pub]
      /\ UNCHANGED <<conn, pending, subscribed, registered, active, live, epoch, nextSeq,
                     attempt, sync, backlog, rows, status, replica, confirmed, calls>>
  BY <1>1 DEF Open, ClientAt, targetVars, visibleVars
<1>3. /\ publication'.open /\ publication'.id = t.cut + 1 /\ publication'.nextBody = t.body
      /\ \A l \in LiveIds : publication'.resets[l] = NoReset
  BY <1>1, <1>2 DEF NoPublication
<1>4. ASSUME NEW l \in active
      PROVE  ResetAt(l, t)'
  <2>1. l \in LiveIds
    BY DEF IInv, ClientTyped
  <2>2. l \notin ResetBy(t.cut + 1, t.body)'
    BY <1>1 DEF ResetBy
  <2> QED BY <1>3, <2>1, <2>2 DEF ResetAt
<1>5. ClientAt(t)'
  BY <1>1, <1>2, <1>3, <1>4, PublicationTaken
<1>6. ClientInv'
  BY <1>2, ClientInvSame DEF ClientInv, serverVars
<1> QED BY <1>2, <1>5, <1>6 DEF Taken

LEMMA ProgressTaken ==
  ASSUME IInv, ClientInv, NEW m \in Frames, NEW s, NEW t, ClientAt(s), s.cut \in Nat,
         TakesProgress(m, s, t), Progress(m), conn = "open", UNCHANGED serverVars
  PROVE  Taken(t)
<1>1. m.upto = s.cut /\ t.cut = s.cut /\ ~s.open /\ ~t.open /\ OnlyPublication(s, t)
  BY DEF TakesProgress
<1>2. /\ confirmed' = [l \in LiveIds |-> IF l \in Ready
                           THEN confirmed[l] \cup 0..m.upto ELSE confirmed[l]]
      /\ UNCHANGED <<conn, pending, subscribed, registered, active, live, epoch, nextSeq,
                     attempt, sync, backlog, publication, rows, status, replica, calls>>
  BY <1>1 DEF Progress, ClientAt, targetVars
<1>3. ~publication.open
  BY <1>1 DEF ClientAt
<1>4. ASSUME NEW l \in active
      PROVE  ResetAt(l, t)'
  <2>1. l \in LiveIds /\ publication.resets[l] = NoReset
    BY <1>3, NothingStaged DEF Reset, IInv, ClientTyped
  <2> QED BY <1>1, <1>2, <2>1 DEF ResetAt
<1>5. ClientAt(t)'
  BY <1>1, <1>2, <1>3, <1>4, PublicationTaken
<1>7. ClientInv'
  BY <1>2, ClientInvSame DEF serverVars
<1> QED BY <1>2, <1>5, <1>7 DEF Taken

\* One more body resets the queries it names, if it is a reset.
LEMMA ResetByNext ==
  ASSUME NEW p, NEW n \in Nat
  PROVE  ResetBy(p, n + 1) = IF Bodies(p)[n + 1].type = "reset_required"
                               THEN ResetBy(p, n) \cup (LiveIds \cap Bodies(p)[n + 1].targets)
                               ELSE ResetBy(p, n)
<1>1. \A i : i \in 1..(n + 1) <=> i \in 1..n \/ i = n + 1
  OBVIOUS
<1> QED BY <1>1 DEF ResetBy

LEMMA BodyTaken ==
  ASSUME IInv, ClientInv, TxSound, NEW m \in Frames, NEW s, NEW t, ClientAt(s), s.cut \in Nat,
         s.body \in Nat, \A l \in LiveIds : s.q[l].ep \in Nat,
         TakesBody(m, s, t), KeyedResults(m) \/ ResetRequired(m), conn = "open",
         UNCHANGED serverVars
  PROVE  Taken(t)
<1>1. PICK p : p = m.pub
  OBVIOUS
<1>2. PICK n : n = m.index
  OBVIOUS
<1>3. /\ m.type \in {"keyed_results", "reset_required"} /\ p = s.cut + 1 /\ n = s.body
      /\ t.cut = s.cut /\ s.open /\ t.open /\ t.body = n + 1 /\ n \in Nat
      /\ OnlyPublication(s, t)
      /\ \A l \in m.targets :
           /\ s.q[l].reg = "yes" /\ l \notin ResetBy(p, n)
           /\ m.type = "keyed_results" =>
                m.at[l].epoch = s.q[l].ep /\ m.at[l].seq = s.q[l].seq
           /\ m.type = "reset_required" =>
                /\ m.at[l].epoch = s.q[l].ep + 1 /\ m.at[l].seq = 0
                /\ log[p].staged[n + 1][l] = <<>>
  BY <1>1, <1>2 DEF TakesBody
<1>4. ~InvalidBody(m)
  BY <1>1, <1>2, <1>3 DEF InvalidBody, ClientAt
<1>5. /\ p \in 1..Len(log) /\ n + 1 \in 1..Len(Bodies(p)) /\ m.tx = p
      /\ publication.open /\ publication.id = p /\ publication.nextBody = n
      /\ m.type = Bodies(p)[n + 1].type /\ m.targets = Bodies(p)[n + 1].targets
      /\ m.targets \subseteq LiveIds /\ m.at \in [LiveIds -> Place] /\ StagingSound(p, n)
  <2>1. m.type \in {"keyed_results", "reset_required"}
    BY <1>3
  <2>2. /\ p \in 1..Len(log) /\ n \in Nat /\ n + 1 \in 1..Len(Bodies(p)) /\ m.tx = p
        /\ (n + 1) - 1 = n /\ n + 1 \in 1..(n + 1) /\ 1..n \subseteq 1..(n + 1)
        /\ <<p, n>> \in Fragment /\ n + 1 \in 0..Len(Bodies(p))
        /\ publication.open /\ publication.id = p /\ publication.nextBody = n
        /\ m.type = Bodies(p)[n + 1].type /\ m.targets = Bodies(p)[n + 1].targets
        /\ m.at = Bodies(p)[n + 1].at /\ m.targets \subseteq LiveIds
        /\ m.at \in [LiveIds -> Place]
        /\ \A l \in LiveIds : Grown(p, n + 1, l)
        /\ StagingSound(p, n)
    BY <1>1, <1>2, <1>4, <2>1, NextBody
  <2> QED BY <2>2
<1>6. m.targets \subseteq registered
  BY <1>3, <1>5 DEF ClientAt
<1>7. active \subseteq LiveIds /\ publication \in PublicationType
  BY DEF IInv, ClientTyped
<1>8. ASSUME NEW l \in active
      PROVE  /\ QueryAt(l, s.q[l], s.cut) /\ epoch[l] = s.q[l].ep /\ nextSeq[l] = s.q[l].seq
             /\ publication.resets[l] = IF l \in ResetBy(p, n)
                  THEN [epoch |-> s.q[l].ep + 1, first |-> 0] ELSE NoReset
             /\ publication.batches[l] = log[p].staged[n + 1][l]
             /\ publication.batches[l] # <<>> => publication.batches[l][1][1] = p
  <2>1. QueryAt(l, s.q[l], s.cut) /\ ResetAt(l, s)
    BY DEF ClientAt
  <2>2. publication.batches[l] = log[p].staged[n + 1][l]
    BY <1>5 DEF StagingSound, StagedAs
  <2>3. n + 1 \in 1..Len(Bodies(p)) + 1
    BY <1>3, <1>5, EntryTypes DEF IInv, ServerInv
  <2>4. publication.batches[l] # <<>> => publication.batches[l][1][1] = p
    BY <1>5, <1>7, <2>2, <2>3 DEF TxSound
  <2> QED BY <1>3, <2>1, <2>2, <2>4 DEF QueryAt, ResetAt
<1>9. ResetBy(t.cut + 1, t.body)' = IF m.type = "reset_required"
        THEN ResetBy(p, n) \cup m.targets ELSE ResetBy(p, n)
  <2>1. ResetBy(p, n + 1)' = ResetBy(p, n + 1)
    BY DEF ResetBy, Bodies, serverVars
  <2>2. ResetBy(p, n + 1) = IF m.type = "reset_required"
          THEN ResetBy(p, n) \cup m.targets ELSE ResetBy(p, n)
    <3>1. m.targets = LiveIds \cap Bodies(p)[n + 1].targets
      BY <1>5
    <3>2. m.type = Bodies(p)[n + 1].type
      BY <1>5
    <3>3. ResetBy(p, n + 1) = IF Bodies(p)[n + 1].type = "reset_required"
            THEN ResetBy(p, n) \cup (LiveIds \cap Bodies(p)[n + 1].targets) ELSE ResetBy(p, n)
      <4>1. n \in Nat
        BY <1>3
      <4> QED BY <4>1, ResetByNext
    <3> QED BY <3>1, <3>2, <3>3
  <2> QED BY <1>3, <2>1, <2>2
<1>10. SUFFICES ASSUME /\ publication'.open /\ publication'.id = p
                       /\ publication'.nextBody = n + 1
                       /\ UNCHANGED <<conn, pending, subscribed, targetVars, visibleVars, calls>>,
                       \A l \in active : ResetAt(l, t)'
                PROVE  Taken(t)
  <2>1. CASE KeyedResults(m)
    <3>1. m.type = "keyed_results"
      BY <2>1 DEF KeyedResults
    <3>2. ASSUME NEW l \in m.targets \cap active
          PROVE  ~InvalidTarget(m, l)
      BY <1>3, <1>5, <1>8, <3>1 DEF InvalidTarget
    <3>3. /\ publication' =
             [publication EXCEPT
                !.nextBody = @ + 1,
                !.batches = [l \in LiveIds |->
                               IF l \in m.targets \cap active
                                 THEN Append(@[l], <<m.tx, m.index>>) ELSE @[l]]]
          /\ UNCHANGED <<conn, pending, subscribed, targetVars, visibleVars, calls>>
      BY <1>4, <1>6, <2>1, <3>2 DEF KeyedResults
    <3>4. /\ publication'.open /\ publication'.id = p /\ publication'.nextBody = n + 1
          /\ publication'.resets = publication.resets
      BY <1>5, <1>7, <3>3 DEF PublicationType
    <3>5. ASSUME NEW l \in active
          PROVE  ResetAt(l, t)'
      <4>1. t.q[l].ep = s.q[l].ep
        BY <1>3, <1>7 DEF OnlyPublication, SameStanding
      <4> QED BY <1>3, <1>8, <1>9, <3>1, <3>4, <4>1 DEF ResetAt
    <3> QED BY <3>3, <3>4, <3>5
  <2>2. CASE ResetRequired(m)
    <3>1. m.type = "reset_required"
      BY <2>2 DEF ResetRequired
    <3>2. ASSUME NEW l \in m.targets \cap active
          PROVE  ~InvalidReset(m, l)
      <4>1. s.q[l].ep \in Nat /\ m.at[l].epoch = s.q[l].ep + 1 /\ epoch[l] = s.q[l].ep
        BY <1>3, <1>7, <1>8, <3>1
      <4>2. publication.batches[l] = <<>> /\ publication.resets[l] = NoReset
        BY <1>3, <1>8, <3>1
      <4>3. ~(m.at[l].epoch <= epoch[l])
        BY <4>1
      <4> QED BY <4>2, <4>3 DEF InvalidReset
    <3>3. /\ publication' =
             [publication EXCEPT
                !.nextBody = @ + 1,
                !.resets = [l \in LiveIds |->
                              IF l \in m.targets \cap active
                                THEN [epoch |-> m.at[l].epoch, first |-> m.at[l].seq]
                                ELSE @[l]]]
          /\ UNCHANGED <<conn, pending, subscribed, targetVars, visibleVars, calls>>
      BY <1>4, <1>6, <2>2, <3>2 DEF ResetRequired
    <3>4. /\ publication'.open /\ publication'.id = p /\ publication'.nextBody = n + 1
          /\ publication'.resets = [l \in LiveIds |->
                              IF l \in m.targets \cap active
                                THEN [epoch |-> m.at[l].epoch, first |-> m.at[l].seq]
                                ELSE publication.resets[l]]
      BY <1>5, <1>7, <3>3 DEF PublicationType
    <3>5. ASSUME NEW l \in active
          PROVE  ResetAt(l, t)'
      <4>1. t.q[l].ep = s.q[l].ep /\ l \in LiveIds
        BY <1>3, <1>7 DEF OnlyPublication, SameStanding
      <4>2. CASE l \in m.targets
        <5>1. publication'.resets[l] = [epoch |-> t.q[l].ep + 1, first |-> 0]
          BY <1>3, <3>1, <3>4, <4>1, <4>2
        <5> QED BY <1>3, <1>9, <3>1, <4>2, <5>1 DEF ResetAt
      <4>3. CASE l \notin m.targets
        <5>1. publication'.resets[l] = publication.resets[l]
          BY <3>4, <4>1, <4>3
        <5> QED BY <1>3, <1>8, <1>9, <3>1, <4>1, <4>3, <5>1 DEF ResetAt
      <4> QED BY <4>2, <4>3
    <3> QED BY <3>3, <3>4, <3>5
  <2> QED BY <2>1, <2>2
<1>11. ClientAt(t)'
  BY <1>3, <1>10, PublicationTaken DEF targetVars
<1>12. ClientInv'
  BY <1>10, ClientInvSame DEF serverVars, targetVars, visibleVars, ClientInv
<1> QED BY <1>10, <1>11, <1>12 DEF Taken

\* At its commit the client has staged for a query it delivers to what the
\* publication has for it: its batch, or its reset.
LEMMA StagedFor ==
  ASSUME IInv, EitherWay, NEW p, NEW n, Complete(p, n), NEW s, ClientAt(s), s.open,
         p = s.cut + 1, n = s.body, NEW k \in active, s.q[k].ep \in Nat
  PROVE  /\ k \in LiveIds
         /\ k \in Reset <=> k \in log[p].resets
         /\ k \in Reset => publication.resets[k] = [epoch |-> s.q[k].ep + 1, first |-> 0]
         /\ k \in Batched <=> Whole(p, k) # <<>>
         /\ k \in Reset => k \notin Batched
<1>1. k \in LiveIds /\ p \in 1..Len(log) /\ n = Len(Bodies(p)) /\ StagingSound(p, n)
  BY DEF Complete, IInv, ClientTyped
<1>2. publication.batches[k] = Whole(p, k)
  BY <1>1 DEF StagingSound, StagedAs, Whole
<1>3. log[p].resets = ResetBy(p, n) /\ \A l \in log[p].resets : Whole(p, l) = <<>>
  BY <1>1 DEF EitherWay
<1>4. publication.resets[k] = IF k \in ResetBy(p, n)
        THEN [epoch |-> s.q[k].ep + 1, first |-> 0] ELSE NoReset
  BY DEF ClientAt, ResetAt
<1>5. [epoch |-> s.q[k].ep + 1, first |-> 0] # NoReset
  <2>1. s.q[k].ep + 1 # 0
    OBVIOUS
  <2> QED BY <2>1 DEF NoReset
<1>6. k \in Reset <=> k \in ResetBy(p, n)
  BY <1>1, <1>4, <1>5 DEF Reset
<1>7. k \in Batched <=> Whole(p, k) # <<>>
  BY <1>1, <1>2 DEF Batched
<1> QED BY <1>1, <1>3, <1>4, <1>6, <1>7

LEMMA CommitTaken ==
  ASSUME IInv, ClientInv, EitherWay, NEW m \in Frames, NEW s, NEW t, ClientAt(s), s.cut \in Nat,
         \A l \in LiveIds : s.q[l].ep \in Nat,
         TakesCommit(m, s, t), Commit(m), conn = "open", calls = <<>>, UNCHANGED serverVars
  PROVE  Taken(t)
<1>1. PICK p : p = m.pub
  OBVIOUS
<1>2. PICK n : n = m.count
  OBVIOUS
<1>3. /\ m.type = "commit" /\ p = s.cut + 1 /\ n = s.body /\ m.ordered
      /\ t.cut = s.cut + 1 /\ s.open /\ ~t.open
      /\ \A l \in LiveIds : Committed(p, l, s.q[l], t.q[l])
  BY <1>1, <1>2 DEF TakesCommit
<1>4. publication.open /\ publication.id = p /\ publication.nextBody = n
  BY <1>3 DEF ClientAt
<1>5. ~InvalidCommit(m)
  BY <1>1, <1>2, <1>3, <1>4 DEF InvalidCommit
<1>6. PICK failed \in SUBSET (Batched \cap live) : InstallPublication(failed)
  BY <1>5 DEF Commit
<1>7. /\ publication' = NoPublication
      /\ UNCHANGED <<conn, pending, subscribed, registered, status, replica, confirmed>>
  BY <1>5 DEF Commit
<1>8. Complete(p, n)
  BY <1>3, <1>4, <1>5, CommitReads
<1>9. active' = active \ failed /\ live' = live \ (failed \cup Reset)
      /\ attempt' = [l \in LiveIds |-> IF l \in Reset THEN 0 ELSE attempt[l]]
  BY <1>6 DEF InstallPublication
<1>10. active \subseteq LiveIds /\ active \subseteq registered /\ pending \subseteq LiveIds
  BY DEF IInv, ClientTyped
<1>11. failed \in SUBSET LiveIds
  BY DEF Batched
<1>12. \A l : ~CatchingUp(l)'
  BY <1>6, <1>11, PublicationCalls
<1>13. ~publication'.open /\ \A l \in LiveIds : publication'.resets[l] = NoReset
  BY <1>7, BlankPublication
<1>14. ASSUME NEW k \in active'
       PROVE  QueryAt(k, t.q[k], t.cut)' /\ ResetAt(k, t)'
  <2>1. k \in active /\ k \in LiveIds /\ k \notin failed /\ s.q[k].ep \in Nat
    BY <1>9, <1>10
  <2>2. /\ k \in Reset <=> k \in log[p].resets
        /\ k \in Reset => publication.resets[k] = [epoch |-> s.q[k].ep + 1, first |-> 0]
        /\ k \in Batched <=> Whole(p, k) # <<>>
        /\ k \in Reset => k \notin Batched
    BY <1>3, <1>8, <2>1, StagedFor
  <2>3. QueryAt(k, s.q[k], s.cut) /\ s.q[k].reg = "yes" /\ Committed(p, k, s.q[k], t.q[k])
    BY <1>3, <1>10, <2>1 DEF ClientAt
  <2>4. /\ nextSeq'[k] = IF k \in Reset THEN publication.resets[k].first
                         ELSE IF k \in Batched THEN nextSeq[k] + 1 ELSE nextSeq[k]
        /\ epoch'[k] = IF k \in Reset THEN publication.resets[k].epoch ELSE epoch[k]
        /\ sync'[k] = IF k \in Reset THEN NoSync ELSE sync[k]
    BY <1>6, <2>1, InstallAt
  <2>5. /\ Installed(k) <=> k \in live
        /\ Installed(k)' <=> k \in live /\ k \notin failed /\ k \notin Reset
    BY <1>6, <2>1, LiveAfter
  <2>6. attempt'[k] = IF k \in Reset THEN 0 ELSE attempt[k]
    BY <1>9, <2>1
  <2>7. ResetAt(k, t)'
    BY <1>3, <1>13, <2>1 DEF ResetAt
  <2>8. CASE k \in Reset
    <3>1. t.q[k].ep = s.q[k].ep + 1 /\ t.q[k].seq = 0 /\ t.q[k].att = 0 /\ ~t.q[k].ended
      BY <2>2, <2>3, <2>8 DEF Committed
    <3>2. epoch'[k] = s.q[k].ep + 1 /\ nextSeq'[k] = 0 /\ attempt'[k] = 0 /\ ~sync'[k].on
      BY <2>2, <2>4, <2>6, <2>8 DEF NoSync
    <3> QED BY <2>5, <2>7, <2>8, <3>1, <3>2 DEF QueryAt
  <2>9. CASE k \notin Reset
    <3>1. /\ t.q[k].ep = s.q[k].ep /\ t.q[k].att = s.q[k].att /\ t.q[k].sent = s.q[k].sent
          /\ (t.q[k].ended <=> s.q[k].ended)
          /\ t.q[k].seq = IF k \in Batched THEN s.q[k].seq + 1 ELSE s.q[k].seq
      BY <2>2, <2>3, <2>9 DEF Committed
    <3>2. epoch'[k] = epoch[k] /\ sync'[k] = sync[k] /\ attempt'[k] = attempt[k]
          /\ nextSeq'[k] = IF k \in Batched THEN nextSeq[k] + 1 ELSE nextSeq[k]
      BY <2>4, <2>6, <2>9
    <3>0. Installed(k)' <=> Installed(k)
      BY <2>1, <2>5, <2>9
    <3>3. sync[k].on => sync[k].upto <= t.cut
      <4>1. sync[k].upto \in Nat
        BY <2>1 DEF IInv, ClientTyped, SyncType
      <4>2. sync[k].on => sync[k].upto <= s.cut
        BY <2>3 DEF QueryAt
      <4>3. PICK u \in Nat : u = sync[k].upto
        BY <4>1
      <4> QED BY <1>3, <4>2, <4>3
    <3>4. /\ epoch[k] = s.q[k].ep /\ nextSeq[k] = s.q[k].seq /\ attempt[k] = s.q[k].att
          /\ sync[k].on <=> (s.q[k].att # 0 /\ ~s.q[k].ended)
          /\ sync[k].on => sync[k].nextBatch = s.q[k].sent
          /\ Installed(k) <=> s.q[k].ended
      BY <2>3 DEF QueryAt
    <3>5. nextSeq'[k] = t.q[k].seq
      BY <3>1, <3>2, <3>4
    <3>6. Installed(k)' <=> t.q[k].ended
      BY <3>0, <3>1, <3>4
    <3>7. sync'[k].on => sync'[k].nextBatch = t.q[k].sent /\ sync'[k].upto <= t.cut
      BY <3>1, <3>2, <3>3, <3>4
    <3>8. sync'[k].on <=> (t.q[k].att # 0 /\ ~t.q[k].ended)
      BY <3>1, <3>2, <3>4
    <3>9. epoch'[k] = t.q[k].ep /\ attempt'[k] = t.q[k].att
      BY <3>1, <3>2, <3>4
    <3>10. QueryAt(k, t.q[k], t.cut)'
      BY <3>5, <3>6, <3>7, <3>8, <3>9 DEF QueryAt
    <3> QED BY <2>7, <3>10
  <2> QED BY <2>8, <2>9
<1>15. ASSUME NEW k \in LiveIds
       PROVE  /\ k \in pending' <=> t.q[k].reg = "no"
              /\ k \in registered' <=> t.q[k].reg = "yes"
  BY <1>3, <1>7 DEF ClientAt, Committed
<1>16. ClientAt(t)'
  BY <1>3, <1>13, <1>14, <1>15 DEF ClientAt
<1>17. attempt' \in [LiveIds -> Nat] /\ \A l \in pending' : attempt'[l] = 0
  BY <1>7, <1>9, <1>10 DEF ClientInv
<1>18. ClientInv'
  BY <1>7, <1>9, <1>12, <1>17 DEF ClientInv, serverVars
<1> QED BY <1>7, <1>16, <1>18 DEF Taken

\* A frame that comes in its turn takes the client to the next position.
LEMMA FrameTaken ==
  ASSUME IInv, ClientInv, ServiceInv, NEW m \in Frames, NEW s, NEW t, MarkSound(s), ClientAt(s),
         Takes(m, s, t), Receive(m), UNCHANGED serverVars
  PROVE  Taken(t)
<1>1. conn = "open" /\ calls = <<>>
  BY DEF Receive
<1>2. s.cut \in Nat /\ s.body \in Nat /\ \A l \in LiveIds : s.q[l].ep \in Nat
  BY DEF MarkSound, Mark, Standing
<1>3. CASE TakesSubscribed(m, s, t)
  <2>1. Subscribed(m)
    BY <1>3 DEF TakesSubscribed, Receive, Unsubscribed, BaselineSyncStart, BaselineSyncBatch,
       BaselineSyncEnd, Open, KeyedResults, ResetRequired, Commit, Progress
  <2> QED BY <1>1, <1>3, <2>1, SubscribedTaken
<1>4. CASE TakesUnsubscribed(m, s, t)
  <2>1. Unsubscribed(m)
    BY <1>4 DEF TakesUnsubscribed, Receive, Subscribed, BaselineSyncStart, BaselineSyncBatch,
       BaselineSyncEnd, Open, KeyedResults, ResetRequired, Commit, Progress
  <2>2. m.id \in LiveIds
    BY <1>4 DEF TakesUnsubscribed, ServiceInv, SyncingSound
  <2> QED BY <1>1, <1>2, <1>4, <2>1, <2>2, UnsubscribedTaken
<1>5. CASE TakesStart(m, s, t)
  <2>1. BaselineSyncStart(m)
    BY <1>5 DEF TakesStart, Receive, Subscribed, Unsubscribed, BaselineSyncBatch,
       BaselineSyncEnd, Open, KeyedResults, ResetRequired, Commit, Progress
  <2> QED BY <1>1, <1>2, <1>5, <2>1, StartTaken
<1>6. CASE TakesBatch(m, s, t)
  <2>1. BaselineSyncBatch(m)
    BY <1>6 DEF TakesBatch, Receive, Subscribed, Unsubscribed, BaselineSyncStart,
       BaselineSyncEnd, Open, KeyedResults, ResetRequired, Commit, Progress
  <2> QED BY <1>1, <1>2, <1>6, <2>1, BatchTaken
<1>7. CASE TakesEnd(m, s, t)
  <2>1. BaselineSyncEnd(m)
    BY <1>7 DEF TakesEnd, Receive, Subscribed, Unsubscribed, BaselineSyncStart,
       BaselineSyncBatch, Open, KeyedResults, ResetRequired, Commit, Progress
  <2> QED BY <1>1, <1>2, <1>7, <2>1, EndTaken
<1>8. CASE TakesOpen(m, s, t)
  <2>1. Open(m)
    BY <1>8 DEF TakesOpen, Receive, Subscribed, Unsubscribed, BaselineSyncStart,
       BaselineSyncBatch, BaselineSyncEnd, KeyedResults, ResetRequired, Commit, Progress
  <2> QED BY <1>1, <1>8, <2>1, OpenTaken
<1>9. CASE TakesBody(m, s, t)
  <2>1. KeyedResults(m) \/ ResetRequired(m)
    BY <1>9 DEF TakesBody, Receive, Subscribed, Unsubscribed, BaselineSyncStart,
       BaselineSyncBatch, BaselineSyncEnd, Open, Commit, Progress
  <2>2. TxSound
    BY DEF ServiceInv
  <2> QED BY <1>1, <1>2, <1>9, <2>1, <2>2, BodyTaken
<1>10. CASE TakesCommit(m, s, t)
  <2>1. Commit(m)
    BY <1>10 DEF TakesCommit, Receive, Subscribed, Unsubscribed, BaselineSyncStart,
       BaselineSyncBatch, BaselineSyncEnd, Open, KeyedResults, ResetRequired, Progress
  <2>2. EitherWay
    BY DEF ServiceInv
  <2> QED BY <1>1, <1>2, <1>10, <2>1, <2>2, CommitTaken
<1>11. CASE TakesProgress(m, s, t)
  <2>1. Progress(m)
    BY <1>11 DEF TakesProgress, Receive, Subscribed, Unsubscribed, BaselineSyncStart,
       BaselineSyncBatch, BaselineSyncEnd, Open, KeyedResults, ResetRequired, Commit
  <2> QED BY <1>1, <1>2, <1>11, <2>1, ProgressTaken
<1> QED BY <1>3, <1>4, <1>5, <1>6, <1>7, <1>8, <1>9, <1>10, <1>11 DEF Takes

-----------------------------------------------------------------------------
(* Listeners and the application do not move the client.                   *)

LEMMA FewerStand ==
  ASSUME IInv, NEW s, ClientAt(s), UNCHANGED serverVars,
         UNCHANGED <<pending, registered, epoch, nextSeq, attempt>>, active' \subseteq active,
         publication'.open = publication.open, publication'.id = publication.id,
         publication'.nextBody = publication.nextBody,
         \A k \in active' : /\ sync'[k] = sync[k] /\ (Installed(k)' <=> Installed(k))
                            /\ publication'.resets[k] = publication.resets[k]
  PROVE  ClientAt(s)'
<1>1. ASSUME NEW k \in active'
      PROVE  QueryAt(k, s.q[k], s.cut)' /\ ResetAt(k, s)'
  <2>1. QueryAt(k, s.q[k], s.cut) /\ ResetAt(k, s)
    BY DEF ClientAt
  <2>2. QueryAt(k, s.q[k], s.cut)'
    BY <2>1 DEF QueryAt
  <2>3. ResetBy(s.cut + 1, s.body)' = ResetBy(s.cut + 1, s.body)
    BY DEF ResetBy, Bodies, serverVars
  <2>4. ResetAt(k, s)'
    BY <2>1, <2>3 DEF ResetAt
  <2> QED BY <2>2, <2>4
<1> QED BY <1>1 DEF ClientAt

LEMMA LeaveHolds ==
  ASSUME IInv, ClientInv, UNCHANGED serverVars, NEW l \in LiveIds, Leave(l),
         subscribed # {l} => \/ UNCHANGED calls
                             \/ /\ calls # <<>> /\ calls' = Tail(calls)
                                /\ Head(calls).method # "caughtUp",
         NEW s
  PROVE  /\ ClientInv'
         /\ conn' = "open" => conn = "open" /\ (ClientAt(s) => ClientAt(s)')
<1>1. CASE EndConnection("closed")
  <2>1. /\ conn' = "closed" /\ pending' = {} /\ subscribed' = {} /\ active' = {}
        /\ live' = {} /\ status' = {} /\ calls' = <<>> /\ UNCHANGED <<attempt, replica, detached>>
    BY <1>1 DEF EndConnection, serverVars
  <2>2. \A k : ~CatchingUp(k)'
    BY <2>1 DEF CatchingUp
  <2> QED BY <2>1, <2>2 DEF ClientInv
<1>2. CASE ~EndConnection("closed")
  <2>1. /\ subscribed # {l} /\ subscribed' = subscribed \ {l} /\ status' = status \ {l}
        /\ \/ l \in active /\ Deactivate(l)
           \/ l \notin active /\ UNCHANGED <<targetVars, publication>>
        /\ UNCHANGED <<conn, pending, rows, replica, confirmed>>
    BY <1>2 DEF Leave
  <2>2. \A k : CatchingUp(k)' <=> CatchingUp(k)
    <3>1. CASE UNCHANGED calls
      BY <3>1 DEF CatchingUp
    <3>2. CASE calls # <<>> /\ calls' = Tail(calls) /\ Head(calls).method # "caughtUp"
      BY <3>2, CallMade
    <3> QED BY <2>1, <3>1, <3>2
  <2>3. active \subseteq LiveIds /\ publication \in PublicationType /\ UNCHANGED detached
    BY DEF IInv, ClientTyped, serverVars
  <2>4. CASE l \in active /\ Deactivate(l)
    <3>1. /\ active' = active \ {l} /\ live' = live \ {l}
          /\ sync' = [sync EXCEPT ![l] = NoSync]
          /\ publication' = [publication EXCEPT !.batches[l] = <<>>, !.resets[l] = NoReset]
          /\ UNCHANGED <<registered, epoch, nextSeq, attempt>>
      BY <2>4 DEF Deactivate
    <3>2. Blanked(publication, publication', l)
      BY <2>3, <3>1, BlankedPublication
    <3>3. ASSUME NEW k \in active'
          PROVE  /\ sync'[k] = sync[k] /\ (Installed(k)' <=> Installed(k))
                 /\ publication'.resets[k] = publication.resets[k]
      <4>1. k # l /\ k \in LiveIds
        BY <2>3, <3>1
      <4>2. sync'[k] = sync[k]
        BY <3>1, <4>1 DEF IInv, ClientTyped
      <4> QED BY <2>2, <3>1, <3>2, <4>1, <4>2 DEF Installed, Blanked
    <3>4. ClientAt(s) => ClientAt(s)'
      BY <2>1, <3>1, <3>2, <3>3, FewerStand DEF Blanked
    <3>5. ClientInv'
      BY <2>1, <2>2, <2>3, <3>1 DEF ClientInv
    <3> QED BY <2>1, <3>4, <3>5
  <2>5. CASE l \notin active /\ UNCHANGED <<targetVars, publication>>
    <3>1. \A k : Installed(k)' <=> Installed(k)
      BY <2>2, <2>5 DEF Installed, targetVars
    <3>2. ClientAt(s) => ClientAt(s)'
      BY <2>1, <2>5, <3>1, FewerStand DEF targetVars
    <3>3. ClientInv'
      BY <2>1, <2>2, <2>3, <2>5 DEF ClientInv, targetVars
    <3> QED BY <2>1, <3>2, <3>3
  <2> QED BY <2>1, <2>4, <2>5
<1> QED BY <1>1, <1>2

LEMMA OtherCallHolds ==
  ASSUME IInv, ClientInv, UNCHANGED serverVars, calls # <<>>, calls' = Tail(calls),
         Head(calls).method # "caughtUp",
         UNCHANGED <<conn, pending, subscribed, targetVars, publication, rows, status>>,
         replica' \in [LiveIds -> Rows], NEW s
  PROVE  /\ ClientInv'
         /\ conn' = "open" => conn = "open" /\ (ClientAt(s) => ClientAt(s)')
<1>1. \A k : CatchingUp(k)' <=> CatchingUp(k)
  BY CallMade
<1>2. \A k : Installed(k)' <=> Installed(k)
  BY <1>1 DEF Installed, targetVars
<1>3. ClientAt(s) => ClientAt(s)'
  BY <1>2, FewerStand DEF targetVars
<1>4. ClientInv'
  BY <1>1 DEF ClientInv, targetVars, serverVars
<1> QED BY <1>3, <1>4

LEMMA NotifyHolds ==
  ASSUME IInv, ClientInv, UNCHANGED serverVars, Notify, NEW s
  PROVE  /\ ClientInv'
         /\ conn' = "open" => conn = "open" /\ (ClientAt(s) => ClientAt(s)')
<1>1. calls # <<>>
  BY DEF Notify, PublishReset, PublishBatch, CaughtUp, NotifyReset, DecodeFailed, Next1
<1>2. PICK c : c = Head(calls)
  OBVIOUS
<1>3. c \in ListenerCall
  <2>1. calls \in Seq(ListenerCall)
    BY DEF IInv, ClientTyped
  <2> QED BY <1>1, <1>2, <2>1
<1>4. replica \in [LiveIds -> Rows] /\ c.data \in Rows /\ c.id \in LiveIds
  BY <1>3 DEF ListenerCall, ClientInv
<1>5. CASE PublishReset
  <2>1. /\ calls' = Tail(calls) /\ c.method = "publishReset"
        /\ replica' = replica \/ replica' = [replica EXCEPT ![c.id] = c.data]
        /\ UNCHANGED <<conn, pending, subscribed, targetVars, publication, rows, status>>
    BY <1>2, <1>5 DEF PublishReset, Next1
  <2>2. replica' \in [LiveIds -> Rows]
    BY <1>4, <2>1
  <2> QED BY <1>1, <1>2, <2>1, <2>2, OtherCallHolds
<1>6. CASE PublishBatch
  <2>1. /\ calls' = Tail(calls) /\ c.method = "publishBatch"
        /\ replica' = replica \/ replica' = [replica EXCEPT ![c.id] = @ \o c.data]
        /\ UNCHANGED <<conn, pending, subscribed, targetVars, publication, rows, status>>
    BY <1>2, <1>6 DEF PublishBatch, Next1
  <2>2. replica' \in [LiveIds -> Rows]
    <3>1. replica[c.id] \o c.data \in Rows
      BY <1>4 DEF Rows
    <3> QED BY <1>4, <2>1, <3>1
  <2> QED BY <1>1, <1>2, <2>1, <2>2, OtherCallHolds
<1>7. CASE CaughtUp
  <2>1. /\ calls' = Tail(calls) /\ c.method = "caughtUp"
        /\ live' = live \cup {c.id} /\ status' = status \cup ({c.id} \cap subscribed)
        /\ UNCHANGED <<conn, pending, subscribed, registered, active, epoch, nextSeq, attempt,
                 sync, backlog, publication, rows, replica, confirmed>>
    BY <1>2, <1>7 DEF CaughtUp, Next1
  <2>2. \A k : CatchingUp(k)' => CatchingUp(k)
    BY <1>1, <2>1, CallMade
  <2>3. \A k : Installed(k)' <=> Installed(k)
    BY <1>1, <1>2, <2>1, CallMade DEF Installed
  <2>4. c.id \in registered
    BY <1>1, <1>2, <1>4, <2>1, CallMade DEF ClientInv
  <2>5. ClientAt(s) => ClientAt(s)'
    BY <2>1, <2>3, FewerStand
  <2>6. ClientInv'
    BY <2>1, <2>2, <2>4 DEF ClientInv, serverVars
  <2> QED BY <2>1, <2>5, <2>6
<1>8. CASE NotifyReset
  <2>1. /\ calls' = Tail(calls) /\ c.method = "resetRequired"
        /\ UNCHANGED <<conn, pending, subscribed, targetVars, publication, visibleVars>>
    BY <1>2, <1>8 DEF NotifyReset, Next1
  <2> QED BY <1>1, <1>2, <1>4, <2>1, OtherCallHolds DEF visibleVars
<1>9. CASE DecodeFailed
  <2>1. c.method = "decodeFailed"
    BY <1>2, <1>9 DEF DecodeFailed, Next1
  <2>2. PICK l \in LiveIds : l = c.id
    BY <1>4
  <2>3. CASE l \in subscribed /\ Leave(l) /\ (subscribed # {l} => calls' = Tail(calls))
    BY <1>1, <1>2, <2>1, <2>3, LeaveHolds
  <2>4. CASE /\ calls' = Tail(calls)
             /\ UNCHANGED <<conn, pending, subscribed, targetVars, publication, visibleVars>>
    BY <1>1, <1>2, <1>4, <2>1, <2>4, OtherCallHolds DEF visibleVars
  <2> QED BY <1>2, <1>9, <2>2, <2>3, <2>4 DEF DecodeFailed
<1> QED BY <1>5, <1>6, <1>7, <1>8, <1>9 DEF Notify

LEMMA LocalHolds ==
  ASSUME IInv, ClientInv, Local, NEW s
  PROVE  /\ ClientInv'
         /\ conn' = "open" => conn = "open" /\ (ClientAt(s) => ClientAt(s)')
<1>1. UNCHANGED serverVars
  BY DEF Local
<1>2. CASE Notify
  BY <1>1, <1>2, NotifyHolds
<1>3. CASE Close
  <2>1. /\ conn' = "closed" /\ pending' = {} /\ subscribed' = {} /\ active' = {}
        /\ live' = {} /\ status' = {} /\ calls' = <<>> /\ UNCHANGED <<attempt, replica, detached>>
    BY <1>1, <1>3 DEF Close, EndConnection, serverVars
  <2>2. \A k : ~CatchingUp(k)'
    BY <2>1 DEF CatchingUp
  <2> QED BY <2>1, <2>2 DEF ClientInv
<1>4. ASSUME NEW l \in LiveIds, Unsubscribe(l)
      PROVE  /\ ClientInv'
             /\ conn' = "open" => conn = "open" /\ (ClientAt(s) => ClientAt(s)')
  BY <1>1, <1>4, LeaveHolds DEF Unsubscribe
<1> QED BY <1>2, <1>3, <1>4 DEF Local

-----------------------------------------------------------------------------
(* The inductive invariant.                                                *)

WireTrue == wire \in Seq(Frames)

StreamInv == IInv /\ ServiceInv /\ WireTrue /\ ClientInv /\ WireSound

LEMMA StreamStarts ==
  ASSUME Init
  PROVE  StreamInv
<1>1. UnorderedInit /\ wire = <<>> /\ syncing = [l \in LiveIds |-> NoBaseline]
  BY DEF Init, UnorderedInit
<1>2. IInv
  BY <1>1, InitKeeps
<1>3. /\ log = <<>> /\ bases = [l \in LiveIds |-> <<>>] /\ detached = {}
      /\ hist \in [LiveIds -> {<<>>, <<InitialBatch>>}]
      /\ conn = "open" /\ pending = LiveIds /\ subscribed = LiveIds /\ registered = {}
      /\ active = {} /\ live = {} /\ status = {} /\ calls = <<>>
      /\ attempt = [l \in LiveIds |-> 0] /\ replica = Nothing /\ publication = NoPublication
  BY <1>1 DEF UnorderedInit, ServerInit, ClientInit
<1>4. Cut = 0 /\ ~Publishing /\ Len(log) = 0
  BY <1>3 DEF Cut, Publishing
<1>5. TxSound
  <2>1. ASSUME NEW l \in LiveIds, NEW i \in 1..Len(hist[l])
        PROVE  hist[l][i] # <<>> /\ Tx(l, i) \in Nat /\ Tx(l, i) <= Cut
    <3>1. hist[l] = <<InitialBatch>> /\ i = 1
      <4>1. hist[l] = <<>> \/ hist[l] = <<InitialBatch>>
        BY <1>3
      <4>2. hist[l] # <<>>
        OBVIOUS
      <4>3. hist[l] = <<InitialBatch>>
        BY <4>1, <4>2
      <4> QED BY <4>3
    <3>2. hist[l][i] = InitialBatch
      BY <3>1
    <3> QED BY <1>4, <3>2 DEF Tx, InitialBatch
  <2> QED BY <1>4, <2>1 DEF TxSound
<1>6. EitherWay
  BY <1>4 DEF EitherWay
<1>7. SyncingSound
  <2>1. MaxAttempts \in Nat
    BY ServerBounds
  <2>2. NoBaseline \in BaselineState /\ NoBaseline.attempt = 0 /\ ~NoBaseline.ended
    BY DEF NoBaseline, BaselineState
  <2>3. \A l \in LiveIds : bases[l] = <<>> /\ Len(bases[l]) = 0
    BY <1>3
  <2> QED BY <1>1, <1>3, <2>1, <2>2, <2>3 DEF SyncingSound
<1>8. ServiceInv
  BY <1>5, <1>6, <1>7 DEF ServiceInv
<1>9. WireTrue
  BY <1>1 DEF WireTrue
<1>10. \A l : ~CatchingUp(l)
  BY <1>3 DEF CatchingUp
<1>11. ClientInv
  <2>1. replica \in [LiveIds -> Rows]
    BY <1>3 DEF Nothing, Rows
  <2> QED BY <1>3, <1>10, <2>1 DEF ClientInv
<1>12. PICK s : s = Now
  OBVIOUS
<1>13. NowIs(s)
  BY <1>12, NowFields
<1>14. ASSUME NEW l \in LiveIds
       PROVE  s.q[l].reg = "no" /\ StandingNow(l) \in Standing
  <2>1. bases[l] = <<>> /\ Registration(l) = "no" /\ Len(bases[l]) = 0
    BY <1>3 DEF Registration
  <2>2. syncing[l].attempt = 0 /\ syncing[l].sent = 0 /\ syncing[l].ended = FALSE
    BY <1>1 DEF NoBaseline
  <2>3. StandingNow(l) = [reg |-> "no", ep |-> 0, seq |-> 0, att |-> 0, sent |-> 0,
                          ended |-> FALSE]
    BY <2>1, <2>2 DEF StandingNow
  <2> QED BY <1>13, <2>1, <2>3 DEF NowIs, Standing
<1>15. MarkSound(s)
  <2>1. s \in Mark
    <3>1. [l \in LiveIds |-> StandingNow(l)] \in [LiveIds -> Standing]
      BY <1>14
    <3>2. PICK f : f = [l \in LiveIds |-> StandingNow(l)]
      OBVIOUS
    <3>3. Publishing = FALSE
      BY <1>4 DEF Publishing
    <3>4. s = [cut |-> Cut, open |-> Publishing,
               body |-> IF Publishing THEN Len(Bodies(Len(log))) ELSE 0, q |-> f]
      BY <1>12, <3>2 DEF Now
    <3>5. s = [cut |-> 0, open |-> FALSE, body |-> 0, q |-> f]
      BY <1>4, <3>3, <3>4
    <3> QED BY <3>1, <3>2, <3>5 DEF Mark
  <2> QED BY <1>4, <1>13, <1>14, <2>1 DEF MarkSound, NowIs
<1>16. ClientAt(s)
  <2>1. ~publication.open
    BY <1>3, BlankPublication
  <2> QED BY <1>3, <1>4, <1>13, <1>14, <2>1 DEF ClientAt, NowIs
<1>17. Marks(<<s>>)
  <2>1. <<s>> \in Seq(Mark) /\ Len(<<s>>) = 1 /\ <<s>>[1] = s
    BY <1>15 DEF MarkSound
  <2>2. Len(wire) = 0
    BY <1>1
  <2> QED BY <1>12, <1>15, <1>16, <2>1, <2>2 DEF Marks
<1>18. WireSound
  <2>1. <<s>> \in Seq(Mark)
    BY <1>15 DEF MarkSound
  <2> QED BY <1>17, <2>1 DEF WireSound
<1> QED BY <1>2, <1>8, <1>9, <1>11, <1>18 DEF StreamInv

\* The service rests.
LEMMA ServiceRests ==
  ASSUME ServerInv, ServiceInv, UNCHANGED <<serverVars, syncing>>
  PROVE  ServerInv' /\ ServiceInv' /\ ServiceGrows /\ Now' = Now /\ Frames' = Frames
<1>1. log' = log /\ hist' = hist /\ bases' = bases /\ detached' = detached /\ syncing' = syncing
  BY DEF serverVars
<1>2. ServerInv'
  BY <1>1, ServerSame
<1>3. /\ Cut' = Cut /\ (Publishing' <=> Publishing) /\ TxSound' /\ EitherWay'
      /\ FinishedStay /\ NewBehindCut
  BY <1>1, LogSame
<1>4. SyncingSound'
  BY <1>1, <1>3 DEF ServiceInv, SyncingSound
<1>5. Grows
  <2>1. /\ \A k \in LiveIds : Len(hist[k]) \in Nat /\ Len(bases[k]) \in Nat
        /\ \A p \in 1..Len(log) : Len(Bodies(p)) \in Nat
        /\ Len(log) \in Nat
    BY HistoryTypes, EntryTypes DEF ServerInv, ServerTyped
  <2> QED BY <1>1, <2>1 DEF Grows, Bodies
<1>6. Now' = Now
  BY <1>1 DEF Now, StandingNow, Registration, Cut, Publishing, Bodies
<1>7. Frames' = Frames
  BY <1>1 DEF Frames, BaselineFrames, PublicationFrames, Admitted, Done, SubscribedFrame,
              UnsubscribedFrame, StartFrame, BatchFrame, EndFrame, OpenFrame, BodyFrame,
              CommitFrame, ProgressFrame
<1> QED BY <1>1, <1>2, <1>3, <1>4, <1>5, <1>6, <1>7 DEF ServiceInv, ServiceGrows

\* A service step is one of the unordered service, or only a frame, ...
LEMMA ServiceServes ==
  ASSUME Service
  PROVE  /\ UNCHANGED clientVars /\ conn = "open" /\ (Serve \/ UNCHANGED serverVars)
         /\ \A k \in detached' : k \in detached \/ k \notin subscribed
<1>1. UNCHANGED clientVars /\ conn = "open"
  BY DEF Service
<1>2. ASSUME NEW l \in LiveIds, SendAdmission(l)
      PROVE  Admit(l) /\ detached' = detached
  BY <1>2 DEF SendAdmission, Admit
<1>3. ASSUME NEW l \in LiveIds, SendDetachment(l)
      PROVE  Detach(l) /\ l \notin subscribed /\ detached' = detached \cup {l}
  BY <1>3 DEF SendDetachment, Detach
<1>4. ASSUME NEW l \in LiveIds, SendBaseline(l)
      PROVE  UNCHANGED serverVars
  BY <1>4 DEF SendBaseline
<1>5. ASSUME SendOpen
      PROVE  OpenPublication /\ detached' = detached
  BY <1>5 DEF SendOpen, OpenPublication
<1>6. ASSUME SendBody
      PROVE  /\ \E targets \in SUBSET LiveIds : AddChanges(targets) \/ AddReset(targets)
             /\ detached' = detached
  BY <1>6 DEF SendBody, AddChanges, AddReset, AddBody
<1>7. ASSUME SendCommit
      PROVE  CommitPublication /\ detached' = detached
  BY <1>7 DEF SendCommit, CommitPublication
<1>8. ASSUME SendProgress
      PROVE  UNCHANGED serverVars
  BY <1>8 DEF SendProgress
<1>9. /\ Serve \/ UNCHANGED serverVars
      /\ \A k \in detached' : k \in detached \/ k \notin subscribed
  <2>1. ASSUME NEW l \in LiveIds, SendAdmission(l) \/ SendDetachment(l) \/ SendBaseline(l)
        PROVE  /\ Serve \/ UNCHANGED serverVars
               /\ \A k \in detached' : k \in detached \/ k \notin subscribed
    BY <1>1, <1>2, <1>3, <1>4, <2>1 DEF Serve, serverVars
  <2>2. CASE SendOpen \/ SendBody \/ SendCommit \/ SendProgress
    BY <1>1, <1>5, <1>6, <1>7, <1>8, <2>2 DEF Serve, serverVars
  <2> QED BY <2>1, <2>2 DEF Service
<1> QED BY <1>1, <1>9

\* ... and sends the frame that leads from its position to the next.
LEMMA ServiceSends ==
  ASSUME ServerInv, ServiceInv, Service, NEW s, s = Now, NEW t, t = Now'
  PROVE  \E m : Sends(m, s, t) /\ wire' = Append(wire, m)
<1>1. ASSUME NEW l \in LiveIds, SendAdmission(l)
      PROVE  \E m : Sends(m, s, t) /\ wire' = Append(wire, m)
  <2>1. PICK m : m = SubscribedFrame(l)
    OBVIOUS
  <2>2. Sends(m, s, t)
    BY <1>1, <2>1, AdmissionSends
  <2>3. wire' = Append(wire, m)
    BY <1>1, <2>1 DEF SendAdmission, Emit
  <2> QED BY <2>2, <2>3
<1>2. ASSUME NEW l \in LiveIds, SendDetachment(l)
      PROVE  \E m : Sends(m, s, t) /\ wire' = Append(wire, m)
  <2>1. PICK m : m = UnsubscribedFrame(l)
    OBVIOUS
  <2>2. Sends(m, s, t)
    BY <1>2, <2>1, DetachmentSends
  <2>3. wire' = Append(wire, m)
    BY <1>2, <2>1 DEF SendDetachment, Emit
  <2> QED BY <2>2, <2>3
<1>3. ASSUME NEW l \in LiveIds, SendBaseline(l)
      PROVE  \E m : Sends(m, s, t) /\ wire' = Append(wire, m)
  <2>1. ~Publishing /\ UNCHANGED serverVars
    BY <1>3 DEF SendBaseline
  <2>2. CASE SendStart(l)
    <3>1. PICK m : m = StartFrame(l, Epoch(l), syncing[l].attempt + 1)
      OBVIOUS
    <3>2. Sends(m, s, t)
      BY <2>1, <2>2, <3>1, StartSends
    <3>3. wire' = Append(wire, m)
      BY <2>2, <3>1 DEF SendStart, Emit
    <3> QED BY <3>2, <3>3
  <2>3. CASE SendBatch(l)
    <3>1. PICK m : m = BatchFrame(l, Epoch(l), syncing[l].attempt, syncing[l].sent)
      OBVIOUS
    <3>2. Sends(m, s, t)
      BY <2>1, <2>3, <3>1, BatchSends
    <3>3. wire' = Append(wire, m)
      BY <2>3, <3>1 DEF SendBatch, Emit
    <3> QED BY <3>2, <3>3
  <2>4. CASE SendEnd(l)
    <3>1. PICK m : m = EndFrame(l, Epoch(l), syncing[l].attempt)
      OBVIOUS
    <3>2. Sends(m, s, t)
      BY <2>1, <2>4, <3>1, EndSends
    <3>3. wire' = Append(wire, m)
      BY <2>4, <3>1 DEF SendEnd, Emit
    <3> QED BY <3>2, <3>3
  <2> QED BY <1>3, <2>2, <2>3, <2>4 DEF SendBaseline
<1>4. CASE SendOpen
  <2>1. PICK m : m = OpenFrame(Len(log) + 1)
    OBVIOUS
  <2>2. Sends(m, s, t)
    BY <1>4, <2>1, OpenSends
  <2>3. wire' = Append(wire, m)
    BY <1>4, <2>1 DEF SendOpen, Emit
  <2> QED BY <2>2, <2>3
<1>5. CASE SendBody
  <2>1. PICK m : m = LastBody'
    OBVIOUS
  <2>2. Sends(m, s, t)
    BY <1>5, <2>1, BodySends
  <2>3. wire' = Append(wire, m)
    BY <1>5, <2>1 DEF SendBody, Emit
  <2> QED BY <2>2, <2>3
<1>6. CASE SendCommit
  <2>1. PICK m : m = CommitFrame(Len(log), TRUE)
    OBVIOUS
  <2>2. Sends(m, s, t)
    BY <1>6, <2>1, CommitSends
  <2>3. wire' = Append(wire, m)
    BY <1>6, <2>1 DEF SendCommit, Emit
  <2> QED BY <2>2, <2>3
<1>7. CASE SendProgress
  <2>1. PICK m : m = ProgressFrame(Len(log))
    OBVIOUS
  <2>2. Sends(m, s, t)
    BY <1>7, <2>1, ProgressSends DEF SendProgress
  <2>3. wire' = Append(wire, m)
    BY <1>7, <2>1 DEF SendProgress, Emit
  <2> QED BY <2>2, <2>3
<1> QED BY <1>1, <1>2, <1>3, <1>4, <1>5, <1>6, <1>7 DEF Service

\* The client stays where it is while the service goes on.
LEMMA ClientStands ==
  ASSUME ServerInv, ServiceGrows, NEW s, MarkSound(s), ClientAt(s), UNCHANGED clientVars
  PROVE  ClientAt(s)'
<1>1. /\ UNCHANGED <<pending, registered, active, live, epoch, nextSeq, attempt, sync,
                     publication, calls>>
  BY DEF clientVars, targetVars
<1>2. \A k : Installed(k)' <=> Installed(k)
  BY <1>1 DEF Installed, CatchingUp
<1>3. ASSUME s.open
      PROVE  ResetBy(s.cut + 1, s.body)' = ResetBy(s.cut + 1, s.body)
  <2>1. PICK p : p = s.cut + 1
    OBVIOUS
  <2>2. p \in 1..Len(log) /\ s.body \in Nat /\ s.body <= Len(Bodies(p))
    BY <1>3, <2>1 DEF MarkSound, Mark
  <2>3. Len(Bodies(p)) \in Nat
    BY <2>2, EntryTypes DEF ServerInv
  <2>4. ResetBy(p, s.body)' = ResetBy(p, s.body)
    BY <2>2, <2>3, ResetByStays DEF ServiceGrows
  <2> QED BY <2>1, <2>4
<1>4. ASSUME NEW k \in active'
      PROVE  QueryAt(k, s.q[k], s.cut)' /\ ResetAt(k, s)'
  <2>1. QueryAt(k, s.q[k], s.cut) /\ ResetAt(k, s)
    BY <1>1 DEF ClientAt
  <2>2. QueryAt(k, s.q[k], s.cut)'
    BY <1>1, <1>2, <2>1 DEF QueryAt
  <2>3. ResetAt(k, s)'
    BY <1>1, <1>3, <2>1 DEF ResetAt
  <2> QED BY <2>2, <2>3
<1> QED BY <1>1, <1>4 DEF ClientAt

LEMMA ServiceKeepsStream ==
  ASSUME StreamInv, Service
  PROVE  StreamInv'
<1> USE DEF StreamInv
<1>1. /\ UNCHANGED clientVars /\ conn = "open" /\ (Serve \/ UNCHANGED serverVars)
      /\ \A k \in detached' : k \in detached \/ k \notin subscribed
  BY ServiceServes
<1>2. IInv'
  BY <1>1, ServiceKeeps, ClientIdle
<1>3. PICK s : s = Now
  OBVIOUS
<1>4. PICK t : t = Now'
  OBVIOUS
<1>5. PICK m : Sends(m, s, t) /\ wire' = Append(wire, m)
  BY <1>3, <1>4, ServiceSends DEF IInv
<1>6. ServerInv /\ ServerInv' /\ ServiceGrows /\ ServiceInv' /\ m \in Frames' /\ Takes(m, s, t)'
  BY <1>5 DEF Sends, IInv
<1>7. MarkSound(t)'
  BY <1>4, <1>6, NowSound
<1>8. WireTrue'
  <2>1. wire \in Seq(Frames')
    BY <1>6, FramesStayTrue, SeqMonotonic DEF WireTrue
  <2> QED BY <1>5, <1>6, <2>1 DEF WireTrue
<1>9. ClientInv'
  <2>1. UNCHANGED <<conn, pending, subscribed, registered, active, live, attempt, replica, status,
                    calls>>
    BY <1>1 DEF clientVars, targetVars, visibleVars
  <2> QED BY <1>1, <2>1 DEF ClientInv, CatchingUp
<1>10. PICK st \in Seq(Mark) : Marks(st)
  BY <1>1 DEF WireSound
<1>11. PICK n \in Nat : n = Len(wire)
  BY DEF WireTrue
<1>12. /\ Len(st) = n + 1 /\ ClientAt(st[1]) /\ st[n + 1] = s
       /\ \A i \in 1..n : Takes(wire[i], st[i], st[i + 1])
       /\ \A i \in 1..(n + 1) : MarkSound(st[i])
  BY <1>3, <1>10, <1>11 DEF Marks
<1>13. /\ Len(wire') = n + 1 /\ wire'[n + 1] = m /\ \A i \in 1..n : wire'[i] = wire[i]
  BY <1>5, <1>11 DEF WireTrue
<1>14. PICK next : next = Append(st, t)
  OBVIOUS
<1>15. /\ next \in Seq(Mark) /\ Len(next) = (n + 1) + 1 /\ next[(n + 1) + 1] = t
       /\ \A i \in 1..(n + 1) : next[i] = st[i]
  <2>1. t \in Mark
    BY <1>7 DEF MarkSound
  <2> QED BY <1>12, <1>14, <2>1, AppendMore
<1>16. 1 \in 1..(n + 1) /\ next[1] = st[1]
  BY <1>15
<1>17. ClientAt(next[1])'
  <2>1. PICK f : f = st[1]
    OBVIOUS
  <2>2. MarkSound(f) /\ ClientAt(f)
    BY <1>12, <1>16, <2>1
  <2>3. ClientAt(f)'
    BY <1>1, <1>6, <2>2, ClientStands
  <2> QED BY <1>16, <2>1, <2>3
<1>18. ASSUME NEW i \in 1..(n + 1)
       PROVE  Takes(wire[i], next[i], next[i + 1])'
  <2>1. CASE i \in 1..n
    <3>1. i \in 1..(n + 1) /\ i + 1 \in 1..(n + 1)
      BY <2>1
    <3>2. PICK w : w = wire[i]
      OBVIOUS
    <3>3. PICK a : a = st[i]
      OBVIOUS
    <3>4. PICK b : b = st[i + 1]
      OBVIOUS
    <3>5. Takes(w, a, b) /\ MarkSound(a)
      BY <1>12, <2>1, <3>2, <3>3, <3>4
    <3>6. Takes(w, a, b)'
      BY <1>6, <3>5, TakesStays
    <3>7. wire'[i] = w /\ next[i] = a /\ next[i + 1] = b
      BY <1>13, <1>15, <2>1, <3>1, <3>2, <3>3, <3>4
    <3> QED BY <3>6, <3>7
  <2>2. CASE i \notin 1..n
    <3>1. i = n + 1
      BY <2>2, LastIndex
    <3>2. wire'[i] = m /\ next[i] = s /\ next[i + 1] = t
      BY <1>12, <1>13, <1>15, <3>1
    <3> QED BY <1>6, <3>2
  <2> QED BY <2>1, <2>2
<1>19. ASSUME NEW i \in 1..((n + 1) + 1)
       PROVE  MarkSound(next[i])'
  <2>1. CASE i \in 1..(n + 1)
    <3>1. PICK a : a = st[i]
      OBVIOUS
    <3>2. MarkSound(a) /\ next[i] = a
      BY <1>12, <1>15, <2>1, <3>1
    <3>3. MarkSound(a)'
      BY <1>6, <3>2, MarkStays
    <3> QED BY <3>2, <3>3
  <2>2. CASE i \notin 1..(n + 1)
    <3>1. n + 1 \in Nat
      OBVIOUS
    <3>2. i = (n + 1) + 1
      BY <2>2, <3>1, LastIndex
    <3>3. next[i] = t
      BY <1>15, <3>2
    <3> QED BY <1>7, <3>3
  <2> QED BY <2>1, <2>2
<1>20. Marks(next)'
  BY <1>4, <1>13, <1>15, <1>17, <1>18, <1>19 DEF Marks
<1>21. WireSound'
  BY <1>15, <1>20 DEF WireSound
<1> QED BY <1>2, <1>6, <1>8, <1>9, <1>21

\* The client has taken a frame, and the others wait where they were.
LEMMA DeliverKeepsStream ==
  ASSUME StreamInv, Deliver
  PROVE  StreamInv'
<1> USE DEF StreamInv
<1>1. UNCHANGED <<serverVars, syncing>> /\ UNCHANGED serverVars
  BY DEF Deliver
<1>2. ServerInv' /\ ServiceInv' /\ ServiceGrows /\ Now' = Now /\ Frames' = Frames
  BY <1>1, ServiceRests DEF IInv
<1>3. PICK m : m = wire[1]
  OBVIOUS
<1>4. PICK n \in Nat : n + 1 = Len(wire)
  BY DEF Deliver, WireTrue
<1>5. wire' \in Seq(Frames) /\ Len(wire') = n /\ \A i \in 1..n : wire'[i] = wire[i + 1]
  BY <1>4 DEF WireTrue, Deliver
<1>6. m \in Frames /\ Receive(m)
  BY <1>3, <1>4, ElementOfSeq DEF WireTrue, Deliver
<1>7. conn = "open"
  BY <1>6 DEF Receive
<1>8. IInv'
  <2>1. DeliverAny
    BY <1>1, <1>6 DEF DeliverAny
  <2> QED BY <2>1, DeliverKeeps
<1>9. PICK st \in Seq(Mark) : Marks(st)
  BY <1>7 DEF WireSound
<1>10. /\ Len(st) = (n + 1) + 1 /\ ClientAt(st[1]) /\ st[(n + 1) + 1] = Now
       /\ \A i \in 1..(n + 1) : Takes(wire[i], st[i], st[i + 1])
       /\ \A i \in 1..((n + 1) + 1) : MarkSound(st[i])
  BY <1>4, <1>9 DEF Marks
<1>11. PICK s : s = st[1]
  OBVIOUS
<1>12. PICK t : t = st[2]
  OBVIOUS
<1>13. MarkSound(s) /\ ClientAt(s) /\ Takes(m, s, t)
  <2>1. 1 \in 1..(n + 1) /\ 1 \in 1..((n + 1) + 1) /\ 1 + 1 = 2
    OBVIOUS
  <2> QED BY <1>3, <1>10, <1>11, <1>12, <2>1
<1>14. conn' = "open" /\ ClientAt(t)' /\ ClientInv'
  BY <1>1, <1>6, <1>13, FrameTaken DEF Taken
<1>15. PICK rest : rest = Tail(st)
  OBVIOUS
<1>16. /\ rest \in Seq(Mark) /\ Len(rest) = n + 1
       /\ \A i \in 1..(n + 1) : rest[i] = st[i + 1]
  BY <1>9, <1>10, <1>15
<1>17. rest[1] = t /\ rest[n + 1] = Now'
  <2>1. 1 \in 1..(n + 1) /\ n + 1 \in 1..(n + 1) /\ 1 + 1 = 2
    OBVIOUS
  <2> QED BY <1>2, <1>10, <1>12, <1>16, <2>1
<1>18. ASSUME NEW i \in 1..n
       PROVE  Takes(wire[i], rest[i], rest[i + 1])'
  <2>1. i \in 1..(n + 1) /\ i + 1 \in 1..(n + 1) /\ i + 1 \in 1..((n + 1) + 1)
    OBVIOUS
  <2>2. PICK w : w = wire[i + 1]
    OBVIOUS
  <2>3. PICK a : a = st[i + 1]
    OBVIOUS
  <2>4. PICK b : b = st[(i + 1) + 1]
    OBVIOUS
  <2>5. Takes(w, a, b) /\ MarkSound(a)
    BY <1>10, <2>1, <2>2, <2>3, <2>4
  <2>6. Takes(w, a, b)'
    BY <1>2, <2>5, TakesStays DEF IInv
  <2>7. wire'[i] = w /\ rest[i] = a /\ rest[i + 1] = b
    BY <1>5, <1>16, <2>1, <2>2, <2>3, <2>4
  <2> QED BY <2>6, <2>7
<1>19. ASSUME NEW i \in 1..(n + 1)
       PROVE  MarkSound(rest[i])'
  <2>1. i + 1 \in 1..((n + 1) + 1)
    OBVIOUS
  <2>2. PICK a : a = st[i + 1]
    OBVIOUS
  <2>3. MarkSound(a) /\ rest[i] = a
    BY <1>10, <1>16, <2>1, <2>2
  <2>4. MarkSound(a)'
    BY <1>2, <2>3, MarkStays DEF IInv
  <2> QED BY <2>3, <2>4
<1>20. Marks(rest)'
  BY <1>5, <1>14, <1>16, <1>17, <1>18, <1>19 DEF Marks
<1>21. WireSound'
  BY <1>16, <1>20 DEF WireSound
<1>22. WireTrue'
  BY <1>2, <1>5 DEF WireTrue
<1> QED BY <1>2, <1>8, <1>14, <1>21, <1>22

\* Only the client moves: listeners, an unsubscribe, a close.
LEMMA LocalKeepsStream ==
  ASSUME StreamInv, Local, UNCHANGED <<serverVars, wire, syncing>>
  PROVE  StreamInv'
<1> USE DEF StreamInv
<1>1. UNCHANGED <<serverVars, syncing>> /\ wire' = wire
  OBVIOUS
<1>2. ServerInv' /\ ServiceInv' /\ ServiceGrows /\ Now' = Now /\ Frames' = Frames
  BY <1>1, ServiceRests DEF IInv
<1>3. IInv'
  BY LocalKeeps
<1>4. ClientInv' /\ (conn' = "open" => conn = "open")
  <2>1. PICK s : s = Now
    OBVIOUS
  <2> QED BY LocalHolds
<1>5. WireTrue'
  BY <1>1, <1>2 DEF WireTrue
<1>6. ASSUME conn' = "open"
      PROVE  WireSound'
  <2>1. PICK st \in Seq(Mark) : Marks(st)
    BY <1>4, <1>6 DEF WireSound
  <2>2. PICK n \in Nat : n = Len(wire)
    BY DEF WireTrue
  <2>3. /\ Len(st) = n + 1 /\ ClientAt(st[1]) /\ st[n + 1] = Now
        /\ \A i \in 1..n : Takes(wire[i], st[i], st[i + 1])
        /\ \A i \in 1..(n + 1) : MarkSound(st[i])
    BY <2>1, <2>2 DEF Marks
  <2>4. PICK s : s = st[1]
    OBVIOUS
  <2>5. ClientAt(s)'
    BY <1>6, <2>3, <2>4, LocalHolds
  <2>6. ASSUME NEW i \in 1..n
        PROVE  Takes(wire[i], st[i], st[i + 1])'
    <3>1. PICK w : w = wire[i]
      OBVIOUS
    <3>2. PICK a : a = st[i]
      OBVIOUS
    <3>3. PICK b : b = st[i + 1]
      OBVIOUS
    <3>4. i \in 1..(n + 1)
      OBVIOUS
    <3>5. Takes(w, a, b) /\ MarkSound(a)
      BY <2>3, <3>1, <3>2, <3>3, <3>4
    <3>6. Takes(w, a, b)'
      BY <1>2, <3>5, TakesStays DEF IInv
    <3> QED BY <1>1, <3>1, <3>2, <3>3, <3>6
  <2>7. ASSUME NEW i \in 1..(n + 1)
        PROVE  MarkSound(st[i])'
    <3>1. PICK a : a = st[i]
      OBVIOUS
    <3>2. MarkSound(a)
      BY <2>3, <3>1
    <3>3. MarkSound(a)'
      BY <1>2, <3>2, MarkStays DEF IInv
    <3> QED BY <3>1, <3>3
  <2>8. Len(wire') = n
    BY <1>1, <2>2
  <2>9. Marks(st)'
    BY <1>2, <2>1, <2>3, <2>4, <2>5, <2>6, <2>7, <2>8 DEF Marks
  <2> QED BY <2>1, <2>9 DEF WireSound
<1> QED BY <1>2, <1>3, <1>4, <1>5, <1>6 DEF WireSound

\* A step that changes nothing keeps everything.
LEMMA StillKeepsStream ==
  ASSUME StreamInv, UNCHANGED vars
  PROVE  StreamInv'
<1> USE DEF StreamInv
<1>1. UNCHANGED serverVars /\ UNCHANGED clientVars /\ wire' = wire /\ syncing' = syncing
  BY DEF vars
<1>2. ServerInv /\ ServerInv' /\ ServiceInv' /\ ServiceGrows /\ Now' = Now /\ Frames' = Frames
  BY <1>1, ServiceRests DEF IInv
<1>3. IInv'
  BY <1>1, ClientIdle
<1>4. ClientInv' /\ conn' = conn
  <2>1. UNCHANGED <<conn, pending, subscribed, registered, active, live, attempt, replica, status,
                    calls, detached>>
    BY <1>1 DEF clientVars, targetVars, visibleVars, serverVars
  <2> QED BY <2>1 DEF ClientInv, CatchingUp
<1>5. WireTrue'
  BY <1>1, <1>2 DEF WireTrue
<1>6. ASSUME conn' = "open"
      PROVE  WireSound'
  <2>1. PICK st \in Seq(Mark) : Marks(st)
    BY <1>4, <1>6 DEF WireSound
  <2>2. PICK n \in Nat : n = Len(wire)
    BY DEF WireTrue
  <2>3. /\ Len(st) = n + 1 /\ ClientAt(st[1]) /\ st[n + 1] = Now
        /\ \A i \in 1..n : Takes(wire[i], st[i], st[i + 1])
        /\ \A i \in 1..(n + 1) : MarkSound(st[i])
    BY <2>1, <2>2 DEF Marks
  <2>4. PICK s : s = st[1]
    OBVIOUS
  <2>5. ClientAt(s)'
    <3>1. MarkSound(s) /\ ClientAt(s)
      BY <2>3, <2>4
    <3> QED BY <1>1, <1>2, <3>1, ClientStands
  <2>6. ASSUME NEW i \in 1..n
        PROVE  Takes(wire[i], st[i], st[i + 1])'
    <3>1. PICK w : w = wire[i]
      OBVIOUS
    <3>2. PICK a : a = st[i]
      OBVIOUS
    <3>3. PICK b : b = st[i + 1]
      OBVIOUS
    <3>4. i \in 1..(n + 1)
      OBVIOUS
    <3>5. Takes(w, a, b) /\ MarkSound(a)
      BY <2>3, <3>1, <3>2, <3>3, <3>4
    <3>6. Takes(w, a, b)'
      BY <1>2, <3>5, TakesStays
    <3> QED BY <1>1, <3>1, <3>2, <3>3, <3>6
  <2>7. ASSUME NEW i \in 1..(n + 1)
        PROVE  MarkSound(st[i])'
    <3>1. PICK a : a = st[i]
      OBVIOUS
    <3>2. MarkSound(a)
      BY <2>3, <3>1
    <3>3. MarkSound(a)'
      BY <1>2, <3>2, MarkStays
    <3> QED BY <3>1, <3>3
  <2>8. Len(wire') = n
    BY <1>1, <2>2
  <2>9. Marks(st)'
    BY <1>2, <2>1, <2>3, <2>4, <2>5, <2>6, <2>7, <2>8 DEF Marks
  <2> QED BY <2>1, <2>9 DEF WireSound
<1> QED BY <1>2, <1>3, <1>4, <1>5, <1>6 DEF WireSound

\* The listeners and the application are steps of the unordered client.
LEMMA ClientSteps ==
  ASSUME Listeners \/ Application
  PROVE  Local /\ UNCHANGED <<serverVars, wire, syncing>>
<1>1. UNCHANGED <<serverVars, wire, syncing>> /\ UNCHANGED serverVars
  BY DEF Listeners, Application
<1> QED BY <1>1 DEF Listeners, Application, Local

LEMMA StreamKeeps ==
  ASSUME StreamInv, [Next]_vars
  PROVE  StreamInv'
<1>1. CASE Service
  BY <1>1, ServiceKeepsStream
<1>2. CASE Deliver
  BY <1>2, DeliverKeepsStream
<1>3. CASE Listeners \/ Application
  BY <1>3, ClientSteps, LocalKeepsStream
<1>4. CASE UNCHANGED vars
  BY <1>4, StillKeepsStream
<1> QED BY <1>1, <1>2, <1>3, <1>4 DEF Next

\* Every frame in flight is true of the history, and the frames in flight, taken
\* one after the other, lead the client from where it is to where the service is.
THEOREM StreamInvAlways == Spec => []StreamInv
<1>1. Init => StreamInv
  BY StreamStarts
<1>2. StreamInv /\ [Next]_vars => StreamInv'
  BY StreamKeeps
<1> QED BY <1>1, <1>2, PTL DEF Spec

-----------------------------------------------------------------------------
(* The stream implements the unordered client.                             *)

LEMMA StepIsUnordered ==
  ASSUME StreamInv, [Next]_vars
  PROVE  [UnorderedNext]_unorderedVars
<1>1. CASE Service
  BY <1>1, ServiceServes DEF UnorderedNext, unorderedVars
<1>2. CASE Deliver
  <2>1. wire # <<>> /\ wire \in Seq(Frames)
    BY <1>2 DEF Deliver, StreamInv, WireTrue
  <2>2. Head(wire) \in Frames
    BY <2>1
  <2>3. Receive(Head(wire)) /\ UNCHANGED serverVars
    BY <1>2 DEF Deliver
  <2> QED BY <2>2, <2>3 DEF DeliverAny, UnorderedNext
<1>3. CASE Listeners \/ Application
  BY <1>3, ClientSteps DEF UnorderedNext
<1>4. CASE UNCHANGED vars
  BY <1>4 DEF vars, unorderedVars
<1> QED BY <1>1, <1>2, <1>3, <1>4 DEF Next

\* A client on a FIFO wire is a client that may be handed any true frame.
THEOREM StreamIsUnordered == Spec => UnorderedSpec
<1>1. Init => UnorderedInit
  BY DEF Init, UnorderedInit
<1>2. StreamInv /\ [Next]_vars => [UnorderedNext]_unorderedVars
  BY StepIsUnordered
<1> QED BY <1>1, <1>2, StreamInvAlways, PTL DEF Spec, UnorderedSpec

-----------------------------------------------------------------------------
(* One cut.                                                                *)

\* A query that is up to date shows everything up to the client's position.
ShownTo(l, cut) ==
  \A i \in 1..Len(hist[l]) : i <= Len(rows[l]) <=> Tx(l, i) <= cut

LEMMA InstalledShows ==
  ASSUME IInv, NEW s, MarkSound(s), ClientAt(s), NEW l \in active, Installed(l)
  PROVE  ShownTo(l, s.cut)
<1>1. l \in LiveIds /\ l \in registered
  BY DEF IInv, ClientTyped
<1>2. s.q[l].reg = "yes" /\ QueryAt(l, s.q[l], s.cut)
  BY <1>1 DEF ClientAt
<1>3. QuerySound(l, s.q[l], s.cut)
  BY <1>1, <1>2 DEF MarkSound
<1>4. Len(rows[l]) = bases[l][s.q[l].ep].at + s.q[l].seq
  BY <1>2 DEF IInv, TakenIn, RowsSound, Reached, Start, QueryAt
<1> QED BY <1>3, <1>4 DEF QuerySound, ShownTo

LEMMA ShowsUpTo ==
  ASSUME IInv, NEW l \in LiveIds, NEW k, ShownTo(l, k)
  PROVE  ShowsCut(l, k)
<1>1. rows[l] \in Seq(Batch) /\ hist[l] \in Seq(Batch) /\ Shows(rows[l], hist[l])
  BY ClientTypes, HistoryTypes DEF IInv, ServerInv, TakenIn, Rows
<1>2. IsPrefix(rows[l], hist[l]) /\ DOMAIN hist[l] = 1..Len(hist[l])
  BY <1>1, PrefixIs
<1> QED BY <1>2 DEF ShowsCut, ShownTo, Tx

LEMMA CutIs ==
  ASSUME ServerInv
  PROVE  Cut \in Nat /\ Len(log) \in Nat /\ Cut <= Len(log)
<1>1. log \in Seq(Entry) /\ Len(log) \in Nat /\ (log # <<>> => Len(log) # 0)
  BY DEF ServerInv, ServerTyped
<1> QED BY <1>1 DEF Cut, Publishing

LEMMA OneCut ==
  ASSUME StreamInv
  PROVE  CommonCut
<1> USE DEF StreamInv
<1>1. Len(log) \in Nat
  BY DEF IInv, ServerInv, ServerTyped
<1>2. CASE conn = "open"
  <2>1. PICK st \in Seq(Mark) : Marks(st)
    BY <1>2 DEF WireSound
  <2>2. PICK n \in Nat : n = Len(wire)
    BY DEF WireTrue
  <2>3. 1 \in 1..Len(st)
    BY <2>1, <2>2 DEF Marks
  <2>4. PICK s : s = st[1]
    OBVIOUS
  <2>5. MarkSound(s) /\ ClientAt(s)
    BY <2>1, <2>3, <2>4 DEF Marks
  <2>6. s.cut \in 0..Len(log)
    <3>1. s.cut \in Nat /\ s.cut <= Cut
      BY <2>5 DEF MarkSound, Mark
    <3>2. Cut \in Nat /\ Cut <= Len(log)
      BY CutIs DEF IInv
    <3> QED BY <1>1, <3>1, <3>2
  <2>7. ASSUME NEW l \in Current
        PROVE  ShowsCut(l, s.cut)
    <3>1. l \in active /\ Installed(l) /\ l \in LiveIds
      BY DEF Current, Installed, IInv, ClientTyped
    <3> QED BY <2>5, <3>1, InstalledShows, ShowsUpTo
  <2> QED BY <2>6, <2>7 DEF CommonCut
<1>3. CASE conn # "open"
  <2>1. Current = {}
    BY <1>3 DEF ClientInv, Current
  <2>2. 0 \in 0..Len(log)
    BY <1>1
  <2> QED BY <2>1, <2>2 DEF CommonCut
<1> QED BY <1>2, <1>3

\* All the queries that are up to date show one cut of the database history.
THEOREM CommonCutAlways == Spec => []CommonCut
<1>1. StreamInv => CommonCut
  BY OneCut
<1> QED BY <1>1, StreamInvAlways, PTL

-----------------------------------------------------------------------------
(* awaitTxId() tells the truth.                                            *)

\* A query shows all that a transaction has done to it.
Backed(l, x) ==
  /\ x \in Nat /\ x <= Cut
  /\ \A i \in 1..Len(hist[l]) : Tx(l, i) = x => i <= Len(rows[l])

\* A call that confirms transactions confirms those its query shows.
CallTrue(c) ==
  /\ c.method = "publishReset" => \A x \in 0..c.upto : Backed(c.id, x)
  /\ c.method = "publishBatch" => Backed(c.id, c.data[1][1][1])

TrueCalls == {c \in ListenerCall : CallTrue(c)}

TellsTruth ==
  /\ confirmed \in [LiveIds -> SUBSET Nat]
  /\ \A l \in LiveIds : \A x \in confirmed[l] : Backed(l, x)
  /\ calls \in Seq(TrueCalls)

\* What was shown stays shown, and what the service does next is new.
LEMMA BackedStays ==
  ASSUME ServerInv, ServerInv', TxSound, ServiceGrows, NEW l \in LiveIds,
         Len(rows[l]) \in Nat, Len(rows'[l]) \in Nat, Len(rows[l]) <= Len(rows'[l]),
         NEW x, Backed(l, x)
  PROVE  Backed(l, x)'
<1>1. x \in Nat /\ x <= Cut /\ Cut \in Nat /\ Cut' \in Nat /\ Cut <= Cut'
  BY DEF Backed, ServiceGrows, NewBehindCut
<1>2. ASSUME NEW i \in 1..Len(hist'[l]), Tx(l, i)' = x
      PROVE  i <= Len(rows'[l])
  <2>1. CASE i \in 1..Len(hist[l])
    <3>1. hist'[l][i] = hist[l][i]
      BY <2>1 DEF ServiceGrows, Grows
    <3>2. Tx(l, i) = x
      BY <1>2, <3>1 DEF Tx
    <3>3. i <= Len(rows[l])
      BY <2>1, <3>2 DEF Backed
    <3> QED BY <2>1, <3>3
  <2>2. CASE i \notin 1..Len(hist[l])
    <3>1. Tx(l, i)' > Cut
      BY <2>2 DEF ServiceGrows, NewBehindCut
    <3> QED BY <1>1, <1>2, <3>1
  <2> QED BY <2>1, <2>2
<1> QED BY <1>1, <1>2 DEF Backed

\* A query that is up to date at a position shows every transaction behind it.
LEMMA InstalledBacked ==
  ASSUME IInv', NEW t, MarkSound(t)', ClientAt(t)', NEW l \in active', Installed(l)', Cut' \in Nat,
         TxSound', NEW x \in Nat, x <= t.cut
  PROVE  Backed(l, x)'
<1>1. l \in LiveIds /\ l \in registered'
  BY DEF IInv, ClientTyped
<1>2. t.q[l].reg = "yes" /\ QueryAt(l, t.q[l], t.cut)'
  BY <1>1 DEF ClientAt
<1>3. QuerySound(l, t.q[l], t.cut)' /\ t.cut \in Nat /\ t.cut <= Cut'
  BY <1>1, <1>2 DEF MarkSound, Mark
<1>4. Len(rows'[l]) = bases'[l][t.q[l].ep].at + t.q[l].seq
  BY <1>2 DEF IInv, TakenIn, RowsSound, Reached, Start, QueryAt
<1>5. ASSUME NEW i \in 1..Len(hist'[l]), Tx(l, i)' = x
      PROVE  i <= Len(rows'[l])
  BY <1>3, <1>4, <1>5 DEF QuerySound
<1>6. x <= Cut'
  BY <1>3
<1> QED BY <1>5, <1>6 DEF Backed

\* The calls made for a set of queries are what each of them is.
LEMMA CallsIn ==
  ASSUME NEW S \in SUBSET LiveIds, NEW order \in SetToSeqs(S), NEW T, NEW method, NEW data,
         \A l \in S : Call(method, l, data[l], 0) \in T
  PROVE  CallAll(method, order, data) \in Seq(T)
<1>1. IsFiniteSet(S) /\ Cardinality(S) \in Nat
  BY LiveIdsFinite, FS_Subset, FS_CardinalityType
<1>2. PICK n \in Nat : n = Cardinality(S)
  BY <1>1
<1>3. order \in [1..n -> S]
  BY <1>2 DEF SetToSeqs
<1>4. Len(order) = n
  BY <1>3
<1>5. ASSUME NEW i \in 1..n
      PROVE  Call(method, order[i], data[order[i]], 0) \in T
  BY <1>3
<1>6. CallAll(method, order, data) = [i \in 1..n |-> Call(method, order[i], data[order[i]], 0)]
  BY <1>4 DEF CallAll
<1> QED BY <1>5, <1>6

\* A frame that is taken in its turn.
InItsTurn(m, s, t) ==
  /\ m \in Frames /\ Receive(m) /\ Takes(m, s, t)
  /\ MarkSound(s) /\ ClientAt(s) /\ MarkSound(t)' /\ Taken(t)

LEMMA DeliverInTurn ==
  ASSUME StreamInv, Deliver
  PROVE  \E m, s, t : InItsTurn(m, s, t)
<1> USE DEF StreamInv
<1>1. UNCHANGED <<serverVars, syncing>> /\ UNCHANGED serverVars
  BY DEF Deliver
<1>2. ServerInv' /\ ServiceGrows
  BY <1>1, ServiceRests DEF IInv
<1>3. PICK m : m = wire[1]
  OBVIOUS
<1>4. PICK n \in Nat : n + 1 = Len(wire)
  BY DEF Deliver, WireTrue
<1>5. m \in Frames /\ Receive(m)
  BY <1>3, <1>4, ElementOfSeq DEF WireTrue, Deliver
<1>6. PICK st \in Seq(Mark) : Marks(st)
  BY <1>5 DEF WireSound, Receive
<1>7. PICK s : s = st[1]
  OBVIOUS
<1>8. PICK t : t = st[2]
  OBVIOUS
<1>9. MarkSound(s) /\ ClientAt(s) /\ Takes(m, s, t) /\ MarkSound(t)
  <2>1. 1 \in 1..(n + 1) /\ 1 \in 1..((n + 1) + 1) /\ 1 + 1 = 2 /\ 2 \in 1..((n + 1) + 1)
    OBVIOUS
  <2> QED BY <1>3, <1>4, <1>6, <1>7, <1>8, <2>1 DEF Marks
<1>10. MarkSound(t)'
  BY <1>2, <1>9, MarkStays DEF IInv
<1>11. Taken(t)
  BY <1>1, <1>5, <1>9, FrameTaken
<1> QED BY <1>5, <1>9, <1>10, <1>11 DEF InItsTurn

\* Most frames call no listener, confirm nothing and show nothing new.
LEMMA OthersTell ==
  ASSUME NEW m, Receive(m)
  PROVE  /\ replica' = replica /\ (subscribed' = subscribed \/ subscribed' = {})
         /\ \/ calls' = <<>> /\ confirmed' = confirmed /\ rows' = rows
            \/ /\ m.type = "progress" /\ calls' = <<>> /\ rows' = rows
               /\ confirmed' = [l \in LiveIds |-> IF l \in Ready
                                  THEN confirmed[l] \cup 0..m.upto ELSE confirmed[l]]
            \/ /\ m.type = "baseline_sync_end" /\ confirmed' = confirmed
               /\ m.id \in active /\ Running(m)
               /\ InstallBaseline(m.id) \/ BaselineDecodeFailed(m.id)
            \/ /\ m.type = "commit" /\ confirmed' = confirmed /\ ~InvalidCommit(m)
               /\ \E failed \in SUBSET (Batched \cap live) : InstallPublication(failed)
<1> USE DEF Receive
<1> DEFINE quiet == /\ calls' = <<>> /\ confirmed' = confirmed /\ rows' = rows
                    /\ replica' = replica /\ (subscribed' = subscribed \/ subscribed' = {})
<1>1. ASSUME NEW how, EndConnection(how)
      PROVE  quiet
  BY <1>1 DEF EndConnection
<1>2. ASSUME NEW invalid \in BOOLEAN, NotAccepted(m, invalid)
      PROVE  quiet
  BY <1>1, <1>2 DEF NotAccepted, ProtocolFailure, clientVars, visibleVars
<1>3. CASE \/ Subscribed(m) \/ Unsubscribed(m) \/ Open(m) \/ KeyedResults(m) \/ ResetRequired(m)
  BY <1>1, <1>3 DEF Subscribed, Unsubscribed, Open, KeyedResults, ResetRequired,
                    ProtocolFailure, visibleVars
<1>4. CASE BaselineSyncStart(m) \/ BaselineSyncBatch(m)
  <2>1. InvalidStart(m) \in BOOLEAN /\ InvalidBatch(m) \in BOOLEAN
    BY DEF InvalidStart, InvalidBatch
  <2> QED BY <1>2, <1>4, <2>1 DEF BaselineSyncStart, BaselineSyncBatch, visibleVars
<1>5. CASE BaselineSyncEnd(m)
  <2>1. InvalidEnd(m) \in BOOLEAN
    BY DEF InvalidEnd
  <2>2. CASE NotAccepted(m, InvalidEnd(m))
    BY <1>2, <2>1, <2>2
  <2>3. CASE /\ Accepted(m, InvalidEnd(m))
             /\ InstallBaseline(m.id) \/ BaselineDecodeFailed(m.id)
             /\ UNCHANGED <<subscribed, replica, confirmed>>
    <3>1. m.id \in active /\ Running(m)
      BY <2>3 DEF Accepted, Ignored, InvalidEnd
    <3> QED BY <1>5, <2>3, <3>1 DEF BaselineSyncEnd
  <2> QED BY <1>5, <2>2, <2>3 DEF BaselineSyncEnd
<1>6. CASE Commit(m)
  BY <1>1, <1>6 DEF Commit, ProtocolFailure
<1>7. CASE Progress(m)
  BY <1>1, <1>7 DEF Progress, ProtocolFailure
<1> QED BY <1>3, <1>4, <1>5, <1>6, <1>7

\* The baseline and its backlog confirm what they show.
LEMMA InstallTells ==
  ASSUME IInv, IInv', ServiceInv, ServiceInv', NEW m, NEW s, NEW t, InItsTurn(m, s, t),
         m.type = "baseline_sync_end", NEW l, l = m.id, l \in active, Running(m),
         InstallBaseline(l), UNCHANGED serverVars
  PROVE  calls' \in Seq(TrueCalls')
<1>1. /\ MarkSound(s) /\ ClientAt(s) /\ MarkSound(t)' /\ ClientAt(t)'
      /\ l \in LiveIds /\ l \in registered /\ active \subseteq registered
  BY DEF InItsTurn, Taken, IInv, ClientTyped
<1>2. t.cut = s.cut /\ s.cut \in Nat
  BY <1>1 DEF InItsTurn, Takes, TakesSubscribed, TakesUnsubscribed, TakesStart, TakesBatch,
        TakesEnd, TakesOpen, TakesBody, TakesCommit, TakesProgress, InBaseline, OnlyQuery,
        MarkSound, Mark
<1>3. QueryAt(l, s.q[l], s.cut) /\ s.q[l].reg = "yes" /\ QuerySound(l, s.q[l], s.cut)
  BY <1>1 DEF ClientAt, MarkSound
<1>4. sync[l].on /\ sync[l].upto \in Nat /\ sync[l].upto <= s.cut /\ sync[l].rows \in Rows
  BY <1>1, <1>3, ClientTypes DEF Running, QueryAt, SyncType
<1>5. calls' = <<Call("publishReset", l, sync[l].rows, sync[l].upto)>>
                 \o BacklogCalls(l) \o <<Call("caughtUp", l, <<>>, 0)>>
      /\ active' = active
  BY DEF InstallBaseline
<1>6. CatchingUp(l)' /\ Installed(l)'
  BY <1>1, <1>5, InstallCalls DEF Installed
<1>7. Cut' \in Nat /\ TxSound'
  <2>1. Cut \in Nat
    BY CutIs DEF IInv
  <2>2. Cut' = Cut
    BY DEF Cut, Publishing, serverVars
  <2> QED BY <2>1, <2>2 DEF ServiceInv
<1>8. \A x \in Nat : x <= s.cut => Backed(l, x)'
  BY <1>1, <1>2, <1>5, <1>6, <1>7, InstalledBacked
<1>9. PICK n \in Nat : n = Len(backlog[l])
  BY <1>1, ClientTypes
<1>10. ASSUME NEW i \in 1..n
       PROVE  /\ backlog[l][i] \in Batch
              /\ backlog[l][i][1][1] \in Nat /\ backlog[l][i][1][1] <= s.cut
  <2>1. backlog[l] \in Seq(Batch) /\ backlog[l][i] \in Batch
    BY <1>1, <1>9, ClientTypes, ElementOfSeq DEF Rows
  <2>2. ~Installed(l)
    BY <1>4 DEF IInv, TakenIn, SyncSound
  <2>3. n = nextSeq[l] /\ backlog[l][i] = hist[l][Start(l) + i]
    BY <1>9, <2>2 DEF IInv, TakenIn, RowsSound
  <2>4. /\ Start(l) = bases[l][s.q[l].ep].at /\ nextSeq[l] = s.q[l].seq
        /\ s.q[l].ep \in 1..Len(bases[l])
    BY <1>3 DEF Start, QueryAt, QuerySound
  <2>5. Start(l) \in Nat /\ Len(hist[l]) \in Nat
    BY <1>1, <2>4, HistoryTypes DEF IInv, ServerInv
  <2>6. PICK j : j = Start(l) + i
    OBVIOUS
  <2>7. Start(l) + n <= Len(hist[l])
    BY <1>3, <2>3, <2>4 DEF QuerySound
  <2>8. j \in 1..Len(hist[l]) /\ j <= Start(l) + n
    BY <2>5, <2>6, <2>7
  <2>9. Tx(l, j) <= s.cut
    BY <1>3, <2>3, <2>4, <2>8 DEF QuerySound
  <2>10. Tx(l, j) \in Nat
    BY <1>1, <2>8 DEF ServiceInv, TxSound
  <2> QED BY <2>1, <2>3, <2>6, <2>9, <2>10 DEF Tx
<1>11. ASSUME NEW i \in 1..n
       PROVE  Call("publishBatch", l, <<backlog[l][i]>>, 0) \in TrueCalls'
  <2>1. PICK b : b = backlog[l][i]
    OBVIOUS
  <2>2. PICK c : c = Call("publishBatch", l, <<b>>, 0)
    OBVIOUS
  <2>3. b \in Batch /\ b[1][1] \in Nat /\ b[1][1] <= s.cut
    BY <1>10, <2>1
  <2>4. <<b>> \in Rows /\ <<b>>[1] = b
    BY <2>3 DEF Rows
  <2>5. /\ c \in ListenerCall /\ c.method = "publishBatch" /\ c.id = l
        /\ c.data[1][1][1] = b[1][1]
    BY <1>1, <2>2, <2>4 DEF Call, ListenerCall, Listener
  <2>6. Backed(c.id, c.data[1][1][1])'
    BY <1>8, <2>3, <2>5
  <2>7. CallTrue(c)'
    BY <2>5, <2>6 DEF CallTrue
  <2> QED BY <2>1, <2>2, <2>5, <2>7 DEF TrueCalls
<1>12. Call("publishReset", l, sync[l].rows, sync[l].upto) \in TrueCalls'
  <2>1. PICK c : c = Call("publishReset", l, sync[l].rows, sync[l].upto)
    OBVIOUS
  <2>2. /\ c \in ListenerCall /\ c.method = "publishReset" /\ c.id = l
        /\ c.upto = sync[l].upto
    BY <1>1, <1>4, <2>1 DEF Call, ListenerCall, Listener
  <2>3. \A x \in 0..c.upto : Backed(c.id, x)'
    <3>1. PICK u \in Nat : u = c.upto
      BY <1>4, <2>2
    <3>2. u <= s.cut
      BY <1>4, <2>2, <3>1
    <3>3. \A x \in 0..u : x \in Nat /\ x <= s.cut
      BY <1>2, <3>2
    <3> QED BY <1>8, <2>2, <3>1, <3>3
  <2>4. CallTrue(c)'
    BY <2>2, <2>3 DEF CallTrue
  <2> QED BY <2>1, <2>2, <2>4 DEF TrueCalls
<1>13. Call("caughtUp", l, <<>>, 0) \in TrueCalls'
  <2>1. PICK c : c = Call("caughtUp", l, <<>>, 0)
    OBVIOUS
  <2>2. c \in ListenerCall /\ c.method = "caughtUp"
    BY <1>1, <2>1 DEF Call, ListenerCall, Listener, Rows
  <2>3. CallTrue(c)'
    BY <2>2 DEF CallTrue
  <2> QED BY <2>1, <2>2, <2>3 DEF TrueCalls
<1>14. BacklogCalls(l) \in Seq(TrueCalls')
  <2>1. BacklogCalls(l) = [i \in 1..n |-> Call("publishBatch", l, <<backlog[l][i]>>, 0)]
    BY <1>9 DEF BacklogCalls
  <2> QED BY <1>11, <2>1
<1> QED BY <1>5, <1>12, <1>13, <1>14

\* A publication confirms itself to the queries that show it.
LEMMA PublicationTells ==
  ASSUME IInv, IInv', ServiceInv, ServiceInv', NEW m, NEW s, NEW t, InItsTurn(m, s, t),
         m.type = "commit", ~InvalidCommit(m), calls = <<>>,
         NEW failed \in SUBSET (Batched \cap live), InstallPublication(failed),
         UNCHANGED serverVars
  PROVE  calls' \in Seq(TrueCalls')
<1> DEFINE installed == (Batched \cap live) \ failed
<1>1. /\ m \in Frames /\ MarkSound(s) /\ ClientAt(s) /\ MarkSound(t)' /\ ClientAt(t)'
      /\ Batched \cup Reset \subseteq active /\ Batched \cap Reset = {} /\ active \subseteq LiveIds
  BY DEF InItsTurn, Taken, IInv, ClientTyped, TakenIn, PublicationSound
<1>2. PICK p : p = publication.id
  OBVIOUS
<1>3. PICK n : n = publication.nextBody
  OBVIOUS
<1>4. Complete(p, n)
  BY <1>1, <1>2, <1>3, CommitReads
<1>5. p = m.pub /\ t.cut = p /\ p \in Nat
  <2>1. TakesCommit(m, s, t)
    BY DEF InItsTurn, Takes, TakesSubscribed, TakesUnsubscribed, TakesStart, TakesBatch,
        TakesEnd, TakesOpen, TakesBody, TakesProgress
  <2>2. m.pub = s.cut + 1 /\ t.cut = s.cut + 1 /\ s.cut \in Nat
    BY <1>1, <2>1 DEF TakesCommit, MarkSound, Mark
  <2>3. p = m.pub
    BY <1>2 DEF InvalidCommit
  <2> QED BY <2>2, <2>3
<1>6. Cut' \in Nat /\ TxSound'
  <2>1. Cut \in Nat
    BY CutIs DEF IInv
  <2>2. Cut' = Cut
    BY DEF Cut, Publishing, serverVars
  <2> QED BY <2>1, <2>2 DEF ServiceInv
<1>7. ASSUME NEW l \in installed
      PROVE  /\ Backed(l, p)'
             /\ publication.batches[l] \in Batch /\ publication.batches[l][1][1] = p
  <2>1. l \in Batched /\ l \in live /\ l \notin failed /\ l \in active /\ l \notin Reset
        /\ l \in LiveIds
    BY <1>1
  <2>2. l \in active' /\ Installed(l)'
    BY <2>1, LiveAfter DEF InstallPublication
  <2>3. Backed(l, p)'
    <3>1. p <= t.cut
      BY <1>5
    <3> QED BY <1>1, <1>5, <1>6, <2>2, <3>1, InstalledBacked
  <2>4. publication.batches[l] = log[p].staged[n + 1][l]
    BY <1>4, <2>1 DEF Complete, StagingSound, StagedAs
  <2>5. publication.batches[l] # <<>>
    BY <2>1 DEF Batched
  <2>6. p \in 1..Len(log) /\ n = Len(Bodies(p)) /\ n \in Nat
    BY <1>4 DEF Complete
  <2>7. n + 1 \in 1..(Len(Bodies(p)) + 1)
    BY <2>6
  <2>8. log[p].staged[n + 1][l] # <<>> => log[p].staged[n + 1][l][1][1] = p
    BY <2>1, <2>6, <2>7 DEF ServiceInv, TxSound
  <2>9. publication.batches[l] \in Batch
    BY <2>1 DEF IInv, ClientTyped, PublicationType
  <2> QED BY <2>3, <2>4, <2>5, <2>8, <2>9
<1>8. ASSUME NEW l \in installed
      PROVE  Call("publishBatch", l, Alone[l], 0) \in TrueCalls'
  <2>1. PICK b : b = publication.batches[l]
    OBVIOUS
  <2>2. l \in LiveIds
    BY <1>1
  <2>3. Alone[l] = <<b>>
    BY <2>1, <2>2 DEF Alone
  <2>4. PICK c : c = Call("publishBatch", l, <<b>>, 0)
    OBVIOUS
  <2>5. b \in Batch /\ b[1][1] = p
    BY <1>7, <2>1
  <2>6. <<b>> \in Rows /\ <<b>>[1] = b
    BY <2>5 DEF Rows
  <2>7. /\ c \in ListenerCall /\ c.method = "publishBatch" /\ c.id = l
        /\ c.data[1][1][1] = p
    BY <2>2, <2>4, <2>5, <2>6 DEF Call, ListenerCall, Listener
  <2>8. Backed(c.id, c.data[1][1][1])'
    BY <1>7, <2>7
  <2>9. CallTrue(c)'
    BY <2>7, <2>8 DEF CallTrue
  <2> QED BY <2>3, <2>4, <2>7, <2>9 DEF TrueCalls
<1>9. ASSUME NEW l \in LiveIds, NEW method \in {"resetRequired", "decodeFailed"}
      PROVE  Call(method, l, Nothing[l], 0) \in TrueCalls'
  <2>1. PICK c : c = Call(method, l, <<>>, 0)
    OBVIOUS
  <2>2. c \in ListenerCall /\ c.method = method
    BY <2>1 DEF Call, ListenerCall, Listener, Rows
  <2>3. CallTrue(c)'
    BY <2>2 DEF CallTrue
  <2>4. Nothing[l] = <<>>
    BY DEF Nothing
  <2> QED BY <2>1, <2>2, <2>3, <2>4 DEF TrueCalls
<1>10. PICK r \in SetToSeqs(Reset), f \in SetToSeqs(failed), b \in SetToSeqs(installed) :
        calls' = CallAll("resetRequired", r, Nothing) \o CallAll("decodeFailed", f, Nothing)
                   \o CallAll("publishBatch", b, Alone)
  BY DEF InstallPublication
<1>11. Reset \in SUBSET LiveIds /\ failed \in SUBSET LiveIds /\ installed \in SUBSET LiveIds
  BY DEF Reset, Batched
<1> HIDE DEF installed
<1>12. CallAll("resetRequired", r, Nothing) \in Seq(TrueCalls')
  BY <1>9, <1>11, CallsIn
<1>13. CallAll("decodeFailed", f, Nothing) \in Seq(TrueCalls')
  BY <1>9, <1>11, CallsIn
<1>14. CallAll("publishBatch", b, Alone) \in Seq(TrueCalls')
  BY <1>8, <1>11, CallsIn
<1> QED BY <1>10, <1>12, <1>13, <1>14

TruthInv == StreamInv /\ TellsTruth

\* The history grows in every step.
LEMMA StepServes ==
  ASSUME StreamInv, [Next]_vars
  PROVE  ServiceGrows
<1>1. CASE Service
  <2>1. PICK s : s = Now
    OBVIOUS
  <2>2. PICK t : t = Now'
    OBVIOUS
  <2> QED BY <1>1, <2>1, <2>2, ServiceSends DEF StreamInv, IInv, Sends
<1>2. CASE Deliver
  BY <1>2, ServiceRests DEF Deliver, StreamInv, IInv
<1>3. CASE Listeners \/ Application
  BY <1>3, ClientSteps, ServiceRests DEF StreamInv, IInv
<1>4. CASE UNCHANGED vars
  BY <1>4, ServiceRests DEF vars, StreamInv, IInv
<1> QED BY <1>1, <1>2, <1>3, <1>4 DEF Next

LEMMA BackedKept ==
  ASSUME StreamInv, [Next]_vars
  PROVE  /\ \A l \in LiveIds : \A x : Backed(l, x) => Backed(l, x)'
         /\ TrueCalls \subseteq TrueCalls'
<1>1. StreamInv' /\ ServiceGrows /\ [UnorderedNext]_unorderedVars
  BY StreamKeeps, StepServes, StepIsUnordered
<1>2. IInv /\ IInv' /\ ServerInv /\ ServerInv' /\ TxSound
  BY <1>1 DEF StreamInv, IInv, ServiceInv
<1>3. ASSUME NEW l \in LiveIds, NEW x, Backed(l, x)
      PROVE  Backed(l, x)'
  <2>1. rows[l] \in Seq(Batch) /\ rows'[l] \in Seq(Batch)
    BY <1>2 DEF IInv, ClientTyped, Rows
  <2>2. IsPrefix(rows[l], rows'[l])
    BY <1>1, <1>2, StepGrows
  <2>3. Len(rows[l]) <= Len(rows'[l])
    BY <2>1, <2>2, PrefixIs DEF Shows
  <2>4. Len(rows[l]) \in Nat /\ Len(rows'[l]) \in Nat
    BY <2>1
  <2> QED BY <1>1, <1>2, <1>3, <2>3, <2>4, BackedStays
<1>4. ASSUME NEW c \in TrueCalls
      PROVE  c \in TrueCalls'
  <2>1. c \in ListenerCall /\ c.id \in LiveIds /\ CallTrue(c)
    BY DEF TrueCalls, ListenerCall
  <2>2. CallTrue(c)'
    BY <1>3, <2>1 DEF CallTrue
  <2> QED BY <2>1, <2>2 DEF TrueCalls
<1> QED BY <1>3, <1>4

LEMMA SameTells ==
  ASSUME TellsTruth, confirmed' = confirmed, calls' \in Seq(TrueCalls'),
         \A l \in LiveIds : \A x : Backed(l, x) => Backed(l, x)'
  PROVE  TellsTruth'
BY DEF TellsTruth

LEMMA DeliverTells ==
  ASSUME TruthInv, Deliver
  PROVE  TellsTruth'
<1> USE DEF TruthInv
<1>1. UNCHANGED serverVars /\ [Next]_vars
  BY DEF Deliver, Next
<1>2. PICK m, s, t : InItsTurn(m, s, t)
  BY DeliverInTurn
<1>3. Receive(m) /\ MarkSound(t)' /\ ClientAt(t)' /\ calls = <<>> /\ m \in Frames
  BY <1>2 DEF InItsTurn, Taken, Receive
<1>4. IInv /\ IInv' /\ ServiceInv /\ ServiceInv'
  BY <1>1, StreamKeeps DEF StreamInv
<1>5. /\ \A l \in LiveIds : \A x : Backed(l, x) => Backed(l, x)'
      /\ TrueCalls \subseteq TrueCalls'
  BY <1>1, BackedKept
<1>6. CASE calls' = <<>> /\ confirmed' = confirmed
  BY <1>5, <1>6, SameTells
<1>7. CASE /\ m.type = "progress" /\ calls' = <<>>
           /\ confirmed' = [l \in LiveIds |-> IF l \in Ready
                              THEN confirmed[l] \cup 0..m.upto ELSE confirmed[l]]
  <2>1. TakesProgress(m, s, t)
    BY <1>2, <1>7 DEF InItsTurn, Takes, TakesSubscribed, TakesUnsubscribed, TakesStart,
        TakesBatch, TakesEnd, TakesOpen, TakesBody, TakesCommit
  <2>2. m.upto = t.cut /\ t.cut \in Nat /\ ~publication.open
    BY <1>2, <2>1 DEF TakesProgress, InItsTurn, MarkSound, Mark, ClientAt
  <2>3. UNCHANGED <<active, live>>
    <3>1. Progress(m)
      BY <1>3, <1>7 DEF Receive, Subscribed, Unsubscribed, BaselineSyncStart,
           BaselineSyncBatch, BaselineSyncEnd, Open, KeyedResults, ResetRequired, Commit
    <3> QED BY <2>2, <3>1 DEF Progress, targetVars
  <2>4. Cut' \in Nat /\ TxSound'
    BY <1>1, <1>4, CutIs DEF Cut, Publishing, serverVars, ServiceInv, IInv
  <2>5. ASSUME NEW l \in LiveIds, l \in Ready, NEW x \in 0..m.upto
        PROVE  Backed(l, x)'
    <3>1. l \in active' /\ Installed(l)'
      BY <2>3, <2>5 DEF Ready, Installed
    <3>2. x \in Nat /\ x <= t.cut
      BY <2>2
    <3> QED BY <1>3, <1>4, <2>4, <3>1, <3>2, InstalledBacked
  <2>6. confirmed' \in [LiveIds -> SUBSET Nat]
    <3>1. 0..m.upto \subseteq Nat
      OBVIOUS
    <3> QED BY <1>7, <3>1 DEF TellsTruth
  <2>7. ASSUME NEW l \in LiveIds, NEW x \in confirmed'[l]
        PROVE  Backed(l, x)'
    <3>1. x \in confirmed[l] \/ (l \in Ready /\ x \in 0..m.upto)
      BY <1>7
    <3>2. CASE x \in confirmed[l]
      BY <1>5, <3>2 DEF TellsTruth
    <3> QED BY <2>5, <3>1, <3>2
  <2> QED BY <1>7, <2>6, <2>7 DEF TellsTruth
<1>8. CASE /\ m.type = "baseline_sync_end" /\ confirmed' = confirmed
           /\ m.id \in active /\ Running(m)
           /\ InstallBaseline(m.id) \/ BaselineDecodeFailed(m.id)
  <2>1. PICK l : l = m.id
    OBVIOUS
  <2>2. CASE InstallBaseline(l)
    <3>1. calls' \in Seq(TrueCalls')
      BY <1>1, <1>2, <1>4, <1>8, <2>1, <2>2, InstallTells
    <3> QED BY <1>5, <1>8, <3>1, SameTells
  <2>3. CASE BaselineDecodeFailed(l)
    <3>1. PICK c : c = Call("decodeFailed", l, <<>>, 0)
      OBVIOUS
    <3>2. l \in LiveIds
      BY <1>4, <1>8, <2>1 DEF IInv, ClientTyped
    <3>3. c \in ListenerCall /\ c.method = "decodeFailed"
      BY <3>1, <3>2 DEF Call, ListenerCall, Listener, Rows
    <3>4. CallTrue(c)'
      BY <3>3 DEF CallTrue
    <3>5. c \in TrueCalls'
      BY <3>3, <3>4 DEF TrueCalls
    <3>6. calls' = <<c>>
      BY <2>3, <3>1 DEF BaselineDecodeFailed
    <3>7. calls' \in Seq(TrueCalls')
      BY <3>5, <3>6
    <3> QED BY <1>5, <1>8, <3>7, SameTells
  <2> QED BY <1>8, <2>1, <2>2, <2>3
<1>9. CASE /\ m.type = "commit" /\ confirmed' = confirmed /\ ~InvalidCommit(m)
           /\ \E failed \in SUBSET (Batched \cap live) : InstallPublication(failed)
  <2>1. calls' \in Seq(TrueCalls')
    BY <1>1, <1>2, <1>3, <1>4, <1>9, PublicationTells
  <2> QED BY <1>5, <1>9, <2>1, SameTells
<1> QED BY <1>3, <1>6, <1>7, <1>8, <1>9, OthersTell

\* What a call confirms was true when it was made.
LEMMA LocalTells ==
  ASSUME TruthInv, Listeners \/ Application
  PROVE  TellsTruth'
<1> USE DEF TruthInv
<1>1. [Next]_vars
  BY DEF Next
<1>2. /\ \A l \in LiveIds : \A x : Backed(l, x) => Backed(l, x)'
      /\ TrueCalls \subseteq TrueCalls'
  BY <1>1, BackedKept
<1>3. calls \in Seq(TrueCalls')
  BY <1>2, SeqMonotonic DEF TellsTruth
<1>4. calls # <<>> => Tail(calls) \in Seq(TrueCalls')
  BY <1>3
<1>5. ASSUME confirmed' = confirmed,
             calls' = <<>> \/ calls' = calls \/ (calls # <<>> /\ calls' = Tail(calls))
      PROVE  TellsTruth'
  <2>1. <<>> \in Seq(TrueCalls')
    OBVIOUS
  <2>2. calls' \in Seq(TrueCalls')
    BY <1>3, <1>4, <1>5, <2>1
  <2>3. TellsTruth /\ \A l \in LiveIds : \A x : Backed(l, x) => Backed(l, x)'
    BY <1>2
  <2> QED BY <1>5, <2>2, <2>3, SameTells
<1>6. ASSUME NEW l, Leave(l)
      PROVE  confirmed' = confirmed
  BY <1>6 DEF Leave, EndConnection
<1>7. ASSUME NEW l, Leave(l), subscribed = {l} \/ ~(subscribed # {l})
      PROVE  calls' = <<>>
  BY <1>7 DEF Leave, EndConnection
<1>8. CASE Close \/ \E l \in LiveIds : Unsubscribe(l)
  <2>1. CASE Close
    BY <1>5, <2>1 DEF Close, EndConnection
  <2>2. ASSUME NEW l \in LiveIds, Unsubscribe(l)
        PROVE  TellsTruth'
    BY <1>5, <1>6, <1>7, <2>2 DEF Unsubscribe
  <2> QED BY <1>8, <2>1, <2>2
<1>9. CASE CaughtUp \/ NotifyReset
  BY <1>5, <1>9 DEF CaughtUp, NotifyReset, Next1, visibleVars
<1>10. CASE DecodeFailed
  BY <1>5, <1>6, <1>7, <1>10 DEF DecodeFailed, Next1, visibleVars
<1>11. CASE PublishReset \/ PublishBatch
  <2>1. calls # <<>> /\ calls' = Tail(calls)
    BY <1>11 DEF PublishReset, PublishBatch, Next1
  <2>2. PICK c : c = Head(calls)
    OBVIOUS
  <2>3. c \in TrueCalls'
    BY <1>3, <2>1, <2>2
  <2>4. c \in ListenerCall /\ c.id \in LiveIds /\ c.upto \in Nat /\ CallTrue(c)'
    BY <2>3 DEF TrueCalls, ListenerCall
  <2>5. CASE confirmed' = confirmed
    BY <1>5, <2>1, <2>5
  <2>6. CASE confirmed' # confirmed
    <3>1. PICK new : /\ confirmed' = [confirmed EXCEPT ![c.id] = @ \cup new]
                     /\ \A x \in new : Backed(c.id, x)'
      <4>1. CASE PublishReset
        <5>1. confirmed' = [confirmed EXCEPT ![c.id] = @ \cup 0..c.upto]
          BY <2>2, <2>6, <4>1 DEF PublishReset
        <5>2. c.method = "publishReset"
          BY <2>2, <4>1 DEF PublishReset, Next1
        <5>3. \A x \in 0..c.upto : Backed(c.id, x)'
          BY <2>4, <5>2 DEF CallTrue
        <5> QED BY <5>1, <5>3
      <4>2. CASE PublishBatch
        <5>1. PICK d : d = c.data[1][1][1]
          OBVIOUS
        <5>2. PICK set : set = {d}
          OBVIOUS
        <5>3. c.method = "publishBatch"
          BY <2>2, <4>2 DEF PublishBatch, Next1
        <5>4. confirmed' = [confirmed EXCEPT ![c.id] = @ \cup set]
          BY <2>2, <2>6, <4>2, <5>1, <5>2 DEF PublishBatch
        <5>5. Backed(c.id, d)'
          BY <2>4, <5>1, <5>3 DEF CallTrue
        <5>6. \A x \in set : Backed(c.id, x)'
          BY <5>2, <5>5
        <5> QED BY <5>6, <5>4
      <4> QED BY <1>11, <4>1, <4>2
    <3>2. new \subseteq Nat
      BY <3>1 DEF Backed
    <3>3. confirmed' \in [LiveIds -> SUBSET Nat]
      BY <3>1, <3>2 DEF TellsTruth
    <3>4. ASSUME NEW l \in LiveIds, NEW x \in confirmed'[l]
          PROVE  Backed(l, x)'
      <4>1. x \in confirmed[l] \/ (l = c.id /\ x \in new)
        BY <3>1 DEF TellsTruth
      <4>2. CASE x \in confirmed[l]
        BY <1>2, <4>2 DEF TellsTruth
      <4> QED BY <3>1, <4>1, <4>2
    <3>5. calls' \in Seq(TrueCalls')
      BY <1>4, <2>1
    <3> QED BY <3>3, <3>4, <3>5 DEF TellsTruth
  <2> QED BY <2>5, <2>6
<1> QED BY <1>8, <1>9, <1>10, <1>11 DEF Listeners, Application, Notify

LEMMA TruthKeeps ==
  ASSUME TruthInv, [Next]_vars
  PROVE  TruthInv'
<1> USE DEF TruthInv
<1>1. StreamInv'
  BY StreamKeeps
<1>2. /\ \A l \in LiveIds : \A x : Backed(l, x) => Backed(l, x)'
      /\ TrueCalls \subseteq TrueCalls'
  BY BackedKept
<1>3. CASE UNCHANGED <<confirmed, calls>>
  <2>1. calls' \in Seq(TrueCalls')
    BY <1>2, <1>3, SeqMonotonic DEF TellsTruth
  <2> QED BY <1>1, <1>2, <1>3, <2>1, SameTells
<1>4. CASE Service \/ UNCHANGED vars
  <2>1. UNCHANGED <<confirmed, calls>>
    BY <1>4 DEF Service, vars, clientVars, visibleVars
  <2> QED BY <1>3, <2>1
<1>5. CASE Deliver
  BY <1>1, <1>5, DeliverTells
<1>6. CASE Listeners \/ Application
  BY <1>1, <1>6, LocalTells
<1> QED BY <1>4, <1>5, <1>6 DEF Next

LEMMA TruthStarts ==
  ASSUME Init
  PROVE  TruthInv
<1>1. confirmed = [l \in LiveIds |-> {}] /\ calls = <<>>
  BY DEF Init, ClientInit
<1> QED BY <1>1, StreamStarts DEF TruthInv, TellsTruth

\* Whatever awaitTxId() has resolved for was shown, and stays shown.
THEOREM TellsTruthAlways == Spec => []TruthInv
<1>1. Init => TruthInv
  BY TruthStarts
<1>2. TruthInv /\ [Next]_vars => TruthInv'
  BY TruthKeeps
<1> QED BY <1>1, <1>2, PTL DEF Spec

\* awaitTxId() resolves for a transaction only when the query shows every change
\* that the transaction made to it.
THEOREM ReadYourWritesAlways == Spec => []ReadYourWrites
<1>1. TruthInv => ReadYourWrites
  <2> SUFFICES ASSUME TruthInv, NEW l \in subscribed, NEW i \in DOMAIN hist[l],
                      hist[l][i][1][1] \in confirmed[l]
               PROVE  i <= Len(rows[l])
    BY DEF ReadYourWrites
  <2>1. l \in LiveIds
    BY DEF TruthInv, StreamInv, IInv, ClientTyped
  <2>2. hist[l] \in Seq(Batch)
    BY <2>1, HistoryTypes DEF TruthInv, StreamInv, IInv, ServerInv, Rows
  <2>3. i \in 1..Len(hist[l])
    BY <2>2
  <2>4. Backed(l, Tx(l, i))
    BY <2>1 DEF TruthInv, TellsTruth, Tx
  <2> QED BY <2>3, <2>4 DEF Backed
<1> QED BY <1>1, TellsTruthAlways, PTL

\* No frame of a service that keeps its promises is taken for a protocol error,
\* and the client's tables stay well formed.
THEOREM ClientSoundAlways == Spec => []ClientSound
<1>1. TruthInv => ClientSound
  <2> SUFFICES ASSUME TruthInv
               PROVE  ClientSound
    OBVIOUS
  <2>1. ClientInv /\ ClientTyped /\ confirmed \in [LiveIds -> SUBSET Nat]
    BY DEF TruthInv, StreamInv, IInv, TellsTruth
  <2>2. conn # "broken" /\ conn \in {"open", "closed", "broken"}
    BY <2>1 DEF ClientInv
  <2>3. /\ active \subseteq registered \cap subscribed /\ live \subseteq registered
        /\ status \subseteq subscribed /\ replica \in [LiveIds -> Rows]
    BY <2>1 DEF ClientInv, ClientTyped
  <2> QED BY <2>1, <2>2, <2>3 DEF ClientSound, ClientTypeOK, NoProtocolError, ClientTyped,
                                  SyncType, PublicationType, ListenerCall
<1> QED BY <1>1, TellsTruthAlways, PTL

-----------------------------------------------------------------------------
(* What a listener makes of the calls.                                     *)

\* The rows r of a listener of query l after call c.
Heard(c, l, r) ==
  IF c.id # l THEN r
  ELSE IF c.method = "publishReset" THEN c.data
  ELSE IF c.method = "publishBatch" THEN r \o c.data
  ELSE r

\* The listener's rows before the calls, and after each of them.
Replays(f, cs, l, r, s) ==
  /\ Len(f) = Len(cs) + 1 /\ f[1] = r /\ f[Len(cs) + 1] = s
  /\ \A i \in 1..Len(cs) : f[i + 1] = Heard(cs[i], l, f[i])

\* The calls take a listener from the rows r to the rows s.
Reaches(cs, l, r, s) == \E f \in Seq(Rows) : Replays(f, cs, l, r, s)

LEMMA ThreeParts ==
  ASSUME NEW S, NEW a \in Seq(S), NEW b \in Seq(S), NEW c \in Seq(S)
  PROVE  a \o (b \o c) = (a \o b) \o c
  BY SMTT(30), ConcatAssociative

LEMMA ReachesStill ==
  ASSUME NEW l, NEW r \in Rows
  PROVE  Reaches(<<>>, l, r, r)
<1>1. PICK f : f = <<r>>
  OBVIOUS
<1>2. f \in Seq(Rows) /\ Len(f) = 1 /\ f[1] = r
  BY <1>1
<1>3. Len(<<>>) = 0
  OBVIOUS
<1> QED BY <1>2, <1>3 DEF Reaches, Replays

LEMMA ReachedStill ==
  ASSUME NEW l, NEW r, NEW s, Reaches(<<>>, l, r, s)
  PROVE  r = s
<1>1. Len(<<>>) = 0 /\ 0 + 1 = 1
  OBVIOUS
<1> QED BY <1>1 DEF Reaches, Replays

LEMMA ReachesOn ==
  ASSUME NEW S, NEW cs \in Seq(S), cs # <<>>, NEW l, NEW r, NEW s, Reaches(cs, l, r, s)
  PROVE  Reaches(Tail(cs), l, Heard(Head(cs), l, r), s)
<1>1. PICK f : f \in Seq(Rows) /\ Replays(f, cs, l, r, s)
  BY DEF Reaches
<1>2. PICK n \in Nat : n + 1 = Len(cs)
  <2>1. Len(cs) \in Nat /\ Len(cs) # 0
    BY LenProperties, EmptySeq
  <2>2. Len(cs) - 1 \in Nat /\ (Len(cs) - 1) + 1 = Len(cs)
    BY <2>1
  <2> QED BY <2>2
<1>3. PICK ds : ds = Tail(cs)
  OBVIOUS
<1>4. Len(ds) = n /\ (\A i \in 1..n : ds[i] = cs[i + 1]) /\ Head(cs) = cs[1]
  <2>1. /\ Head(cs) = cs[1] /\ Len(Tail(cs)) = Len(cs) - 1
        /\ \A i \in 1..Len(Tail(cs)) : Tail(cs)[i] = cs[i + 1]
    BY HeadTailProperties
  <2> QED BY <1>2, <1>3, <2>1
<1>5. /\ Len(f) = (n + 1) + 1 /\ f[1] = r /\ f[(n + 1) + 1] = s
      /\ \A i \in 1..(n + 1) : f[i + 1] = Heard(cs[i], l, f[i])
  BY <1>1, <1>2 DEF Replays
<1>6. PICK g : g = Tail(f)
  OBVIOUS
<1>7. g \in Seq(Rows) /\ Len(g) = n + 1 /\ \A i \in 1..(n + 1) : g[i] = f[i + 1]
  BY <1>1, <1>5, <1>6
<1>8. g[1] = Heard(cs[1], l, r) /\ g[n + 1] = s
  <2>1. 1 \in 1..(n + 1) /\ n + 1 \in 1..(n + 1)
    OBVIOUS
  <2>2. g[1] = f[1 + 1] /\ g[n + 1] = f[(n + 1) + 1] /\ f[1 + 1] = Heard(cs[1], l, f[1])
    BY <1>5, <1>7, <2>1
  <2> QED BY <1>5, <2>2
<1>9. ASSUME NEW i \in 1..n
      PROVE  g[i + 1] = Heard(ds[i], l, g[i])
  <2>1. i \in 1..(n + 1) /\ i + 1 \in 1..(n + 1)
    OBVIOUS
  <2>2. g[i] = f[i + 1] /\ g[i + 1] = f[(i + 1) + 1] /\ ds[i] = cs[i + 1]
    BY <1>4, <1>7, <2>1
  <2>3. f[(i + 1) + 1] = Heard(cs[i + 1], l, f[i + 1])
    BY <1>5, <2>1
  <2> QED BY <2>2, <2>3
<1>10. Replays(g, ds, l, Heard(cs[1], l, r), s)
  BY <1>4, <1>7, <1>8, <1>9 DEF Replays
<1> QED BY <1>3, <1>4, <1>7, <1>10 DEF Reaches

LEMMA ReachesThen ==
  ASSUME NEW S, NEW as \in Seq(S), NEW bs \in Seq(S), NEW l, NEW r, NEW s, NEW t,
         Reaches(as, l, r, s), Reaches(bs, l, s, t)
  PROVE  Reaches(as \o bs, l, r, t)
<1>1. PICK f : f \in Seq(Rows) /\ Replays(f, as, l, r, s)
  BY DEF Reaches
<1>2. PICK g : g \in Seq(Rows) /\ Replays(g, bs, l, s, t)
  BY DEF Reaches
<1>3. PICK m \in Nat : m = Len(as)
  BY LenProperties
<1>4. PICK n \in Nat : n = Len(bs)
  BY LenProperties
<1>5. PICK cs : cs = as \o bs
  OBVIOUS
<1>6. /\ Len(cs) = m + n /\ (\A i \in 1..m : cs[i] = as[i])
      /\ \A i \in 1..n : cs[m + i] = bs[i]
  <2>1. /\ Len(as \o bs) = Len(as) + Len(bs)
        /\ \A i \in 1..(Len(as) + Len(bs)) :
             (as \o bs)[i] = IF i <= Len(as) THEN as[i] ELSE bs[i - Len(as)]
    BY ConcatProperties
  <2>2. \A i \in 1..(m + n) : cs[i] = IF i <= m THEN as[i] ELSE bs[i - m]
    BY <1>3, <1>4, <1>5, <2>1
  <2>3. \A i \in 1..m : i \in 1..(m + n) /\ i <= m
    OBVIOUS
  <2>4. \A i \in 1..n : m + i \in 1..(m + n) /\ ~(m + i <= m) /\ (m + i) - m = i
    OBVIOUS
  <2>5. Len(cs) = m + n
    BY <1>3, <1>4, <1>5, <2>1
  <2>6. \A i \in 1..m : cs[i] = as[i]
    BY <2>2, <2>3
  <2>7. \A i \in 1..n : cs[m + i] = bs[i]
    BY <2>2, <2>4
  <2> QED BY <2>5, <2>6, <2>7
<1>7. /\ Len(f) = m + 1 /\ f[1] = r /\ f[m + 1] = s
      /\ \A i \in 1..m : f[i + 1] = Heard(as[i], l, f[i])
  BY <1>1, <1>3 DEF Replays
<1>8. /\ Len(g) = n + 1 /\ g[1] = s /\ g[n + 1] = t
      /\ \A i \in 1..n : g[i + 1] = Heard(bs[i], l, g[i])
  BY <1>2, <1>4 DEF Replays
<1>9. PICK h : h = [i \in 1..((m + n) + 1) |-> IF i <= m + 1 THEN f[i] ELSE g[i - m]]
  OBVIOUS
<1>10. h \in Seq(Rows) /\ Len(h) = (m + n) + 1
  <2>1. ASSUME NEW i \in 1..((m + n) + 1)
        PROVE  (IF i <= m + 1 THEN f[i] ELSE g[i - m]) \in Rows
    <3>1. CASE i <= m + 1
      <4>1. i \in 1..Len(f)
        BY <1>7, <3>1
      <4> QED BY <1>1, <3>1, <4>1, ElementOfSeq
    <3>2. CASE ~(i <= m + 1)
      <4>1. i - m \in 1..Len(g)
        BY <1>8, <3>2
      <4> QED BY <1>2, <3>2, <4>1, ElementOfSeq
    <3> QED BY <3>1, <3>2
  <2> QED BY <1>9, <2>1
<1>11. /\ \A i \in 1..(m + 1) : h[i] = f[i]
       /\ \A i \in 1..(n + 1) : h[m + i] = g[i]
  <2>1. ASSUME NEW i \in 1..(m + 1)
        PROVE  h[i] = f[i]
    BY <1>9
  <2>2. ASSUME NEW i \in 1..(n + 1)
        PROVE  h[m + i] = g[i]
    <3>1. m + i \in 1..((m + n) + 1) /\ (m + i) - m = i
      OBVIOUS
    <3>2. CASE i = 1
      <4>1. h[m + 1] = f[m + 1]
        BY <2>1
      <4> QED BY <1>7, <1>8, <3>2, <4>1
    <3>3. CASE i # 1
      <4>1. ~(m + i <= m + 1)
        BY <3>3
      <4> QED BY <1>9, <3>1, <4>1
    <3> QED BY <3>2, <3>3
  <2> QED BY <2>1, <2>2
<1>12. h[1] = r /\ h[(m + n) + 1] = t
  <2>1. 1 \in 1..(m + 1) /\ n + 1 \in 1..(n + 1) /\ m + (n + 1) = (m + n) + 1
    OBVIOUS
  <2> QED BY <1>7, <1>8, <1>11, <2>1
<1>13. ASSUME NEW i \in 1..(m + n)
       PROVE  h[i + 1] = Heard(cs[i], l, h[i])
  <2>1. CASE i \in 1..m
    <3>1. i \in 1..(m + 1) /\ i + 1 \in 1..(m + 1)
      BY <2>1
    <3> QED BY <1>6, <1>7, <1>11, <2>1, <3>1
  <2>2. CASE i \notin 1..m
    <3>1. PICK j \in 1..n : i = m + j
      <4>1. i - m \in 1..n /\ i = m + (i - m)
        BY <2>2
      <4> QED BY <4>1
    <3>2. j \in 1..(n + 1) /\ j + 1 \in 1..(n + 1) /\ i + 1 = m + (j + 1)
      BY <3>1
    <3>3. h[i] = g[j] /\ h[i + 1] = g[j + 1] /\ cs[i] = bs[j]
      BY <1>6, <1>11, <3>1, <3>2
    <3> QED BY <1>8, <3>1, <3>3
  <2> QED BY <2>1, <2>2
<1>14. Replays(h, cs, l, r, t)
  BY <1>6, <1>10, <1>12, <1>13 DEF Replays
<1> QED BY <1>5, <1>10, <1>14 DEF Reaches

LEMMA ReachesIdle ==
  ASSUME NEW S, NEW cs \in Seq(S), NEW l, NEW r \in Rows, \A c \in S : Heard(c, l, r) = r
  PROVE  Reaches(cs, l, r, r)
<1>1. PICK n \in Nat : n = Len(cs)
  OBVIOUS
<1>2. PICK f : f = [i \in 1..(n + 1) |-> r]
  OBVIOUS
<1>3. f \in Seq(Rows) /\ Len(f) = n + 1
  BY <1>2
<1>4. f[1] = r /\ f[n + 1] = r
  <2>1. 1 \in 1..(n + 1) /\ n + 1 \in 1..(n + 1)
    OBVIOUS
  <2> QED BY <1>2, <2>1
<1>5. ASSUME NEW i \in 1..n
      PROVE  f[i + 1] = Heard(cs[i], l, f[i])
  <2>1. i \in 1..(n + 1) /\ i + 1 \in 1..(n + 1) /\ cs[i] \in S
    BY <1>1, ElementOfSeq
  <2>2. f[i] = r /\ f[i + 1] = r
    BY <1>2, <2>1
  <2> QED BY <2>1, <2>2
<1>6. Replays(f, cs, l, r, r)
  BY <1>1, <1>3, <1>4, <1>5 DEF Replays
<1> QED BY <1>3, <1>6 DEF Reaches

LEMMA ReachesOne ==
  ASSUME NEW c, NEW l, NEW r \in Rows, Heard(c, l, r) \in Rows
  PROVE  Reaches(<<c>>, l, r, Heard(c, l, r))
<1>1. PICK s \in Rows : s = Heard(c, l, r)
  OBVIOUS
<1>2. PICK f : f = <<r, s>>
  OBVIOUS
<1>3. f \in Seq(Rows) /\ Len(f) = 2 /\ f[1] = r /\ f[2] = s
  BY <1>2
<1>4. Len(<<c>>) = 1 /\ <<c>>[1] = c /\ 1 + 1 = 2 /\ 1..1 = {1}
  OBVIOUS
<1>5. Replays(f, <<c>>, l, r, s)
  BY <1>1, <1>3, <1>4 DEF Replays
<1> QED BY <1>1, <1>3, <1>5 DEF Reaches

\* A call for another query, and a call that brings no rows.
LEMMA HeardIs ==
  ASSUME NEW k, NEW method, NEW data, NEW upto, NEW l, NEW r
  PROVE  /\ k # l => Heard(Call(method, k, data, upto), l, r) = r
         /\ Heard(Call("caughtUp", k, data, upto), l, r) = r
         /\ Heard(Call("resetRequired", k, data, upto), l, r) = r
         /\ Heard(Call("decodeFailed", k, data, upto), l, r) = r
         /\ Heard(Call("publishReset", l, data, upto), l, r) = data
         /\ Heard(Call("publishBatch", l, data, upto), l, r) = r \o data
BY DEF Heard, Call

\* The backlog is told batch by batch.
LEMMA BacklogReaches ==
  ASSUME NEW l, NEW b \in Rows, NEW r \in Rows, NEW n \in Nat, n = Len(b), NEW cs,
         cs = [i \in 1..n |-> Call("publishBatch", l, <<b[i]>>, 0)]
  PROVE  Reaches(cs, l, r, r \o b)
<1> DEFINE part(i) == r \o SubSeq(b, 1, i)
<1>1. b \in Seq(Batch) /\ r \in Seq(Batch)
  BY DEF Rows
<1>2. ASSUME NEW i \in 0..n
      PROVE  SubSeq(b, 1, i) \in Seq(Batch) /\ part(i) \in Rows
  <2>1. SubSeq(b, 1, i) \in Seq(Batch)
    <3>1. \A j \in 1..i : b[j] \in Batch
      <4>1. \A j \in 1..i : j \in 1..Len(b)
        OBVIOUS
      <4> QED BY <1>1, <4>1, ElementOfSeq
    <3> QED BY <1>1, <3>1
  <2>2. r \o SubSeq(b, 1, i) \in Seq(Batch)
    BY <1>1, <2>1, ConcatProperties
  <2> QED BY <2>1, <2>2 DEF Rows
<1>3. part(0) = r
  <2>1. SubSeq(b, 1, 0) = <<>>
    BY <1>1
  <2> QED BY <1>1, <2>1, ConcatEmptySeq
<1>4. part(n) = r \o b
  <2>1. SubSeq(b, 1, n) = b
    BY <1>1
  <2> QED BY <2>1
<1>5. ASSUME NEW i \in 1..n
      PROVE  part(i) = part(i - 1) \o <<b[i]>>
  <2>1. PICK one : one = <<b[i]>>
    OBVIOUS
  <2>2. one \in Seq(Batch)
    <3>1. i \in 1..Len(b)
      OBVIOUS
    <3>2. b[i] \in Batch
      BY <1>1, <3>1, ElementOfSeq
    <3> QED BY <2>1, <3>2
  <2>3. PICK a \in Seq(Batch) : a = SubSeq(b, 1, i - 1)
    <3>1. i - 1 \in 0..n
      OBVIOUS
    <3> QED BY <1>2, <3>1
  <2>4. SubSeq(b, 1, i) = a \o one
    <3>1. 1 \in 1..Len(b) /\ i \in 1..Len(b)
      OBVIOUS
    <3>2. SubSeq(b, 1, i) = SubSeq(b, 1, i - 1) \o <<b[i]>>
      BY <1>1, <3>1, SubSeqRecursiveSecond
    <3> QED BY <2>1, <2>3, <3>2
  <2>5. r \o (a \o one) = (r \o a) \o one
    <3>1. r \in Seq(Batch)
      BY DEF Rows
    <3> QED BY SMTT(30), <2>2, <2>3, <3>1, ThreeParts
  <2> QED BY <2>1, <2>2, <2>3, <2>4, <2>5
<1>6. PICK f : f = [i \in 1..(n + 1) |-> part(i - 1)]
  OBVIOUS
<1>7. f \in Seq(Rows) /\ Len(f) = n + 1
  <2>1. \A i \in 1..(n + 1) : i - 1 \in 0..n
    OBVIOUS
  <2>2. \A i \in 1..(n + 1) : part(i - 1) \in Rows
    BY <1>2, <2>1
  <2> HIDE DEF part
  <2> QED BY <1>6, <2>2
<1>8. f[1] = r /\ f[n + 1] = r \o b
  <2>1. 1 \in 1..(n + 1) /\ 1 - 1 = 0 /\ n + 1 \in 1..(n + 1) /\ (n + 1) - 1 = n
    OBVIOUS
  <2> HIDE DEF part
  <2> QED BY <1>3, <1>4, <1>6, <2>1
<1>9. ASSUME NEW i \in 1..n
      PROVE  f[i + 1] = Heard(cs[i], l, f[i])
  <2>1. i \in 1..(n + 1) /\ i + 1 \in 1..(n + 1) /\ (i + 1) - 1 = i
    OBVIOUS
  <2> HIDE DEF part
  <2>2. f[i] = part(i - 1) /\ f[i + 1] = part(i)
    BY <1>6, <2>1
  <2>3. cs[i] = Call("publishBatch", l, <<b[i]>>, 0)
    OBVIOUS
  <2>4. Heard(Call("publishBatch", l, <<b[i]>>, 0), l, f[i]) = f[i] \o <<b[i]>>
    BY DEF Heard, Call
  <2> QED BY <1>5, <2>2, <2>3, <2>4
<1>10. Len(cs) = n
  OBVIOUS
<1>11. Replays(f, cs, l, r, r \o b)
  BY <1>7, <1>8, <1>9, <1>10 DEF Replays
<1> QED BY <1>7, <1>11 DEF Reaches

\* Each query of a publication hears its batch once.
LEMMA EachReaches ==
  ASSUME NEW S \in SUBSET LiveIds, NEW order \in SetToSeqs(S), NEW data, NEW l \in S,
         NEW r \in Rows, r \o data[l] \in Rows
  PROVE  Reaches(CallAll("publishBatch", order, data), l, r, r \o data[l])
<1>1. IsFiniteSet(S) /\ Cardinality(S) \in Nat
  BY LiveIdsFinite, FS_Subset, FS_CardinalityType
<1>2. PICK n \in Nat : n = Cardinality(S)
  BY <1>1
<1>3. order \in [1..n -> S] /\ \A i, j \in 1..n : i # j => order[i] # order[j]
  BY <1>2 DEF SetToSeqs
<1>4. order \in Injection(1..n, S)
  <2>1. \A i, j \in 1..n : order[i] = order[j] => i = j
    BY <1>3
  <2> QED BY <1>3, <2>1, Fun_IsInj
<1>5. Cardinality(1..n) = n
  BY FS_Interval
<1>6. order \in Surjection(1..n, S)
  BY <1>1, <1>2, <1>4, <1>5, FS_Injection
<1>7. PICK j \in 1..n : order[j] = l
  BY <1>6, Fun_SurjectionProperties
<1>8. \A i \in 1..n : i # j => order[i] # l
  BY <1>3, <1>7
<1>9. PICK cs : cs = CallAll("publishBatch", order, data)
  OBVIOUS
<1>10. cs = [i \in 1..n |-> Call("publishBatch", order[i], data[order[i]], 0)]
  <2>1. Len(order) = n
    BY <1>3
  <2> QED BY <1>9, <2>1 DEF CallAll
<1>11. PICK s \in Rows : s = r \o data[l]
  OBVIOUS
<1>12. PICK f : f = [i \in 1..(n + 1) |-> IF i <= j THEN r ELSE s]
  OBVIOUS
<1>13. f \in Seq(Rows) /\ Len(f) = n + 1
  BY <1>12
<1>14. f[1] = r /\ f[n + 1] = s
  <2>1. 1 \in 1..(n + 1) /\ n + 1 \in 1..(n + 1) /\ 1 <= j /\ ~(n + 1 <= j)
    OBVIOUS
  <2> QED BY <1>12, <2>1
<1>15. ASSUME NEW i \in 1..n
       PROVE  f[i + 1] = Heard(cs[i], l, f[i])
  <2>1. i \in 1..(n + 1) /\ i + 1 \in 1..(n + 1)
    OBVIOUS
  <2>2. cs[i] = Call("publishBatch", order[i], data[order[i]], 0)
    BY <1>10
  <2>3. CASE i = j
    <3>1. f[i] = r /\ f[i + 1] = s
      BY <1>12, <2>1, <2>3
    <3>2. cs[i] = Call("publishBatch", l, data[l], 0)
      BY <1>7, <2>2, <2>3
    <3>3. Heard(Call("publishBatch", l, data[l], 0), l, r) = r \o data[l]
      BY HeardIs
    <3> QED BY <1>11, <3>1, <3>2, <3>3
  <2>4. CASE i # j
    <3>1. f[i + 1] = f[i]
      BY <1>12, <2>1, <2>4
    <3>2. order[i] # l
      BY <1>8, <2>4
    <3>3. Heard(Call("publishBatch", order[i], data[order[i]], 0), l, f[i]) = f[i]
      BY <3>2, HeardIs
    <3> QED BY <2>2, <3>1, <3>3
  <2> QED BY <2>3, <2>4
<1>16. Len(cs) = n
  BY <1>10
<1>17. Replays(f, cs, l, r, s)
  BY <1>13, <1>14, <1>15, <1>16 DEF Replays
<1> QED BY <1>9, <1>11, <1>13, <1>17 DEF Reaches

-----------------------------------------------------------------------------
(* Listeners and snapshots agree.                                          *)

\* The calls still owed take every listener to the rows its query shows.
ToldSoFar == \A l \in subscribed : Reaches(calls, l, replica[l], rows[l])

ToldInv == StreamInv /\ ToldSoFar

LEMMA InstallReaches ==
  ASSUME IInv, NEW l \in LiveIds, InstallBaseline(l), NEW k \in LiveIds, replica[k] = rows[k]
  PROVE  Reaches(calls', k, replica[k], rows'[k])
<1>1. sync[l].rows \in Rows /\ sync[l].upto \in Nat /\ backlog[l] \in Rows
  BY ClientTypes DEF SyncType
<1>2. rows[k] \in Rows /\ rows \in [LiveIds -> Rows]
  BY ClientTypes DEF IInv, ClientTyped
<1>3. PICK n \in Nat : n = Len(backlog[l])
  BY ClientTypes
<1>4. PICK first : first = Call("publishReset", l, sync[l].rows, sync[l].upto)
  OBVIOUS
<1>5. PICK last : last = Call("caughtUp", l, <<>>, 0)
  OBVIOUS
<1>6. PICK told : told = [i \in 1..n |-> Call("publishBatch", l, <<backlog[l][i]>>, 0)]
  OBVIOUS
<1>7. calls' = <<first>> \o told \o <<last>>
  BY <1>3, <1>4, <1>5, <1>6 DEF InstallBaseline, BacklogCalls
<1> DEFINE mine == {c \in ListenerCall : c.id = l}
<1>8. first \in mine /\ last \in mine
  BY <1>1, <1>4, <1>5 DEF Call, ListenerCall, Listener, Rows
<1>9. told \in Seq(mine)
  <2>1. ASSUME NEW i \in 1..n
        PROVE  Call("publishBatch", l, <<backlog[l][i]>>, 0) \in mine
    <3>1. backlog[l] \in Seq(Batch)
      BY <1>1 DEF Rows
    <3>2. backlog[l][i] \in Batch
      BY <1>3, <3>1, ElementOfSeq
    <3>3. <<backlog[l][i]>> \in Rows
      BY <3>2 DEF Rows
    <3> QED BY <3>3 DEF Call, ListenerCall, Listener
  <2> HIDE DEF mine
  <2> QED BY <1>6, <2>1
<1>10. \A c \in mine : c.id = l
  OBVIOUS
<1> HIDE DEF mine
<1>11. <<first>> \in Seq(mine) /\ <<last>> \in Seq(mine) /\ <<first>> \o told \in Seq(mine)
  BY <1>8, <1>9
<1>12. CASE k # l
  <2>1. calls' \in Seq(mine)
    BY <1>7, <1>11
  <2>2. \A c \in mine : Heard(c, k, rows[k]) = rows[k]
    BY <1>10, <1>12 DEF Heard
  <2>3. Reaches(calls', k, rows[k], rows[k])
    BY <1>2, <2>1, <2>2, ReachesIdle
  <2>4. rows'[k] = rows[k]
    BY <1>2, <1>12 DEF InstallBaseline
  <2> QED BY <2>3, <2>4
<1>13. CASE k = l
  <2>1. PICK r \in Rows : r = rows[l]
    BY <1>2, <1>13
  <2>2. PICK a \in Rows : a = sync[l].rows
    BY <1>1
  <2>3. PICK b \in Rows : b = backlog[l]
    BY <1>1
  <2>4. PICK ab : ab = a \o b
    OBVIOUS
  <2>5. ab \in Rows
    BY <2>2, <2>3, <2>4 DEF Rows
  <2>6. Reaches(<<first>>, l, r, a)
    <3>1. Heard(first, l, r) = a
      BY <1>4, <2>2 DEF Heard, Call
    <3> QED BY <3>1, ReachesOne
  <2>7. Reaches(told, l, a, ab)
    <3>1. told = [i \in 1..n |-> Call("publishBatch", l, <<b[i]>>, 0)] /\ n = Len(b)
      BY <1>3, <1>6, <2>3
    <3> QED BY <2>4, <3>1, BacklogReaches
  <2>8. Reaches(<<last>>, l, ab, ab)
    <3>1. Heard(last, l, ab) = ab
      BY <1>5 DEF Heard, Call
    <3> QED BY <2>5, <3>1, ReachesOne
  <2>9. Reaches(<<first>> \o told, l, r, ab)
    BY <1>9, <1>11, <2>6, <2>7, ReachesThen
  <2>10. Reaches((<<first>> \o told) \o <<last>>, l, r, ab)
    BY <1>11, <2>8, <2>9, ReachesThen
  <2>11. rows'[l] = ab
    BY <1>2, <2>2, <2>3, <2>4 DEF InstallBaseline, CandidateRows
  <2> QED BY <1>7, <1>13, <2>1, <2>10, <2>11
<1> QED BY <1>12, <1>13

LEMMA PublicationReaches ==
  ASSUME IInv, NEW failed \in SUBSET (Batched \cap live), InstallPublication(failed),
         NEW k \in LiveIds, replica[k] = rows[k]
  PROVE  Reaches(calls', k, replica[k], rows'[k])
<1> DEFINE installed == (Batched \cap live) \ failed
<1>1. PICK r \in SetToSeqs(Reset), f \in SetToSeqs(failed), b \in SetToSeqs(installed) :
        calls' = CallAll("resetRequired", r, Nothing) \o CallAll("decodeFailed", f, Nothing)
                   \o CallAll("publishBatch", b, Alone)
  BY DEF InstallPublication
<1>2. Reset \in SUBSET LiveIds /\ failed \in SUBSET LiveIds /\ installed \in SUBSET LiveIds
  BY DEF Reset, Batched
<1>3. rows[k] \in Seq(Batch) /\ publication.batches[k] \in Batch
  BY ClientTypes DEF Rows, IInv, ClientTyped, PublicationType
<1>4. rows'[k] = IF k \in installed THEN Append(rows[k], publication.batches[k]) ELSE rows[k]
  BY DEF InstallPublication
<1> HIDE DEF installed
<1> DEFINE Others == {c \in ListenerCall : c.id # k \/ c.method \in {"resetRequired", "decodeFailed"}}
<1>5. \A c \in Others : \A s : Heard(c, k, s) = s
  BY DEF Heard
<1>6. Nothing \in [LiveIds -> Rows] /\ Alone \in [LiveIds -> Rows]
  <2>1. \A l \in LiveIds : publication.batches[l] \in Batch
    BY DEF IInv, ClientTyped, PublicationType
  <2>2. \A d \in Batch : <<d>> \in Rows
    BY DEF Rows
  <2>3. Alone \in [LiveIds -> Rows]
    BY <2>1, <2>2 DEF Alone
  <2>4. Nothing \in [LiveIds -> Rows]
    BY DEF Nothing, Rows
  <2> QED BY <2>3, <2>4
<1>7. ASSUME NEW l \in LiveIds, NEW method \in {"resetRequired", "decodeFailed"}
      PROVE  Call(method, l, Nothing[l], 0) \in Others
  <2>1. Nothing[l] \in Rows
    BY <1>6
  <2> QED BY <2>1 DEF Call, ListenerCall, Listener
<1>8. ASSUME NEW l \in LiveIds
      PROVE  /\ Call("publishBatch", l, Alone[l], 0) \in ListenerCall
             /\ l # k => Call("publishBatch", l, Alone[l], 0) \in Others
  <2>1. Alone[l] \in Rows
    BY <1>6
  <2> QED BY <2>1 DEF Call, ListenerCall, Listener
<1>9. Others \subseteq ListenerCall
  OBVIOUS
<1> HIDE DEF Others
<1>10. PICK as \in Seq(Others) : as = CallAll("resetRequired", r, Nothing)
  BY <1>2, <1>7, CallsIn
<1>11. PICK bs \in Seq(Others) : bs = CallAll("decodeFailed", f, Nothing)
  BY <1>2, <1>7, CallsIn
<1>12. PICK cs : cs = CallAll("publishBatch", b, Alone)
  OBVIOUS
<1>13. PICK s \in Rows : s = rows[k]
  BY <1>3 DEF Rows
<1>14. as \o bs \in Seq(Others)
  BY ConcatProperties
<1>15. Reaches(as \o bs, k, s, s)
  BY <1>5, <1>14, ReachesIdle
<1>16. as \o bs \in Seq(ListenerCall) /\ cs \in Seq(ListenerCall)
  <2>1. cs \in Seq(ListenerCall)
    BY <1>2, <1>8, <1>12, CallsIn
  <2> QED BY <1>9, <1>14, <2>1, SeqMonotonic
<1>17. CASE k \in installed
  <2>1. s \o Alone[k] = Append(s, publication.batches[k])
    BY <1>3, <1>13, AppendIsConcat DEF Alone
  <2>2. s \o Alone[k] \in Rows
    BY <1>3, <1>13, <2>1, AppendProperties DEF Rows
  <2>3. Reaches(cs, k, s, s \o Alone[k])
    BY <1>2, <1>12, <1>17, <2>2, EachReaches
  <2>4. Reaches((as \o bs) \o cs, k, s, s \o Alone[k])
    BY <1>15, <1>16, <2>3, ReachesThen
  <2> QED BY <1>1, <1>4, <1>10, <1>11, <1>12, <1>13, <1>17, <2>1, <2>4
<1>18. CASE k \notin installed
  <2>1. cs \in Seq(Others)
    BY <1>2, <1>8, <1>12, <1>18, CallsIn
  <2>2. Reaches(cs, k, s, s)
    BY <1>5, <2>1, ReachesIdle
  <2>3. Reaches((as \o bs) \o cs, k, s, s)
    BY <1>15, <1>16, <2>2, ReachesThen
  <2> QED BY <1>1, <1>4, <1>10, <1>11, <1>12, <1>13, <1>18, <2>3
<1> QED BY <1>17, <1>18

LEMMA DeliverTold ==
  ASSUME ToldInv, Deliver
  PROVE  ToldSoFar'
<1> USE DEF ToldInv
<1>1. PICK m : Receive(m)
  BY DEF Deliver
<1>2. replica' = replica /\ (subscribed' = subscribed \/ subscribed' = {})
  BY <1>1, OthersTell
<1>3. IInv /\ calls = <<>> /\ subscribed \subseteq LiveIds
  BY <1>1 DEF StreamInv, Receive, IInv, ClientTyped
<1> SUFFICES ASSUME NEW k \in subscribed'
             PROVE  Reaches(calls', k, replica[k], rows'[k])
  BY <1>2 DEF ToldSoFar
<1>4. k \in subscribed /\ k \in LiveIds
  BY <1>2, <1>3
<1>5. replica[k] = rows[k]
  <2>1. Reaches(<<>>, k, replica[k], rows[k])
    BY <1>3, <1>4 DEF ToldSoFar
  <2> QED BY <2>1, ReachedStill
<1>6. CASE calls' = <<>> /\ rows' = rows
  <2>1. rows[k] \in Rows
    BY <1>3, <1>4, ClientTypes
  <2> QED BY <1>5, <1>6, <2>1, ReachesStill
<1>7. CASE m.id \in active /\ InstallBaseline(m.id)
  <2>1. PICK l : l = m.id
    OBVIOUS
  <2>2. l \in LiveIds
    BY <1>3, <1>7, <2>1 DEF IInv, ClientTyped
  <2> QED BY <1>3, <1>4, <1>5, <1>7, <2>1, <2>2, InstallReaches
<1>8. CASE BaselineDecodeFailed(m.id)
  <2>1. PICK c : c = Call("decodeFailed", m.id, <<>>, 0)
    OBVIOUS
  <2>2. PICK r \in Rows : r = rows[k]
    BY <1>3, <1>4, ClientTypes
  <2>3. Heard(c, k, r) = r
    BY <2>1 DEF Heard, Call
  <2>4. Reaches(<<c>>, k, r, r)
    BY <2>3, ReachesOne
  <2>5. calls' = <<c>> /\ rows' = rows
    BY <1>8, <2>1 DEF BaselineDecodeFailed
  <2> QED BY <1>5, <2>2, <2>4, <2>5
<1>9. CASE \E failed \in SUBSET (Batched \cap live) : InstallPublication(failed)
  BY <1>3, <1>4, <1>5, <1>9, PublicationReaches
<1> QED BY <1>1, <1>6, <1>7, <1>8, <1>9, OthersTell

\* A call is what its listener hears.
LEMMA NotifyTold ==
  ASSUME ToldInv, calls # <<>>, calls' = Tail(calls), rows' = rows, subscribed' \subseteq subscribed,
         \A k \in subscribed : replica'[k] = Heard(Head(calls), k, replica[k])
  PROVE  ToldSoFar'
<1>1. calls \in Seq(ListenerCall)
  BY DEF ToldInv, StreamInv, IInv, ClientTyped
<1> SUFFICES ASSUME NEW k \in subscribed
             PROVE  Reaches(Tail(calls), k, Heard(Head(calls), k, replica[k]), rows[k])
  BY DEF ToldSoFar
<1>2. Reaches(calls, k, replica[k], rows[k])
  BY DEF ToldInv, ToldSoFar
<1> QED BY <1>1, <1>2, ReachesOn

LEMMA LocalTold ==
  ASSUME ToldInv, Listeners \/ Application
  PROVE  ToldSoFar'
<1> USE DEF ToldInv
<1>1. /\ subscribed \subseteq LiveIds /\ replica \in [LiveIds -> Rows]
      /\ calls \in Seq(ListenerCall)
  BY DEF StreamInv, IInv, ClientTyped, ClientInv
<1>2. CASE subscribed' = {}
  BY <1>2 DEF ToldSoFar
<1>3. CASE UNCHANGED <<calls, rows, replica>> /\ subscribed' \subseteq subscribed
  BY <1>3 DEF ToldSoFar
<1>4. ASSUME NEW l, Leave(l)
      PROVE  \/ subscribed' = {}
             \/ subscribed # {l} /\ subscribed' \subseteq subscribed /\ UNCHANGED <<rows, replica>>
  BY <1>4 DEF Leave, EndConnection
<1>5. CASE Close \/ \E l \in LiveIds : Unsubscribe(l)
  <2>1. CASE Close
    BY <1>2, <2>1 DEF Close, EndConnection
  <2>2. ASSUME NEW l \in LiveIds, Unsubscribe(l)
        PROVE  ToldSoFar'
    BY <1>2, <1>3, <1>4, <2>2 DEF Unsubscribe
  <2> QED BY <1>5, <2>1, <2>2
<1>6. CASE Notify
  <2>1. PICK c : c = Head(calls)
    OBVIOUS
  <2>2. calls # <<>>
    BY <1>6 DEF Notify, PublishReset, PublishBatch, CaughtUp, NotifyReset, DecodeFailed, Next1
  <2>3. CASE c.method \in {"caughtUp", "resetRequired", "decodeFailed"}
    <3>1. \A k \in subscribed : Heard(c, k, replica[k]) = replica[k]
      BY <2>3 DEF Heard
    <3>2. CASE CaughtUp \/ NotifyReset
      <4>1. calls' = Tail(calls) /\ UNCHANGED <<rows, replica, subscribed>>
        BY <3>2 DEF CaughtUp, NotifyReset, visibleVars
      <4> QED BY <2>1, <2>2, <3>1, <4>1, NotifyTold
    <3>3. CASE DecodeFailed
      <4>1. \/ subscribed' = {}
            \/ calls' = Tail(calls) /\ UNCHANGED <<rows, replica>> /\ subscribed' \subseteq subscribed
        BY <1>4, <3>3 DEF DecodeFailed, visibleVars
      <4> QED BY <1>2, <2>1, <2>2, <3>1, <4>1, NotifyTold
    <3> QED BY <1>6, <2>1, <2>3, <3>2, <3>3 DEF Notify, PublishReset, PublishBatch, Next1
  <2>4. CASE c.method \notin {"caughtUp", "resetRequired", "decodeFailed"}
    <3>1. calls' = Tail(calls) /\ rows' = rows /\ subscribed' = subscribed
      BY <1>6, <2>1, <2>4 DEF Notify, PublishReset, PublishBatch, CaughtUp, NotifyReset,
                              DecodeFailed, Next1
    <3>2. ASSUME NEW k \in subscribed
          PROVE  replica'[k] = Heard(c, k, replica[k])
      <4>1. CASE PublishReset
        BY <1>1, <2>1, <4>1 DEF PublishReset, Next1, Heard
      <4>2. CASE PublishBatch
        BY <1>1, <2>1, <4>2 DEF PublishBatch, Next1, Heard
      <4> QED BY <1>6, <2>1, <2>4, <4>1, <4>2 DEF Notify, CaughtUp, NotifyReset, DecodeFailed, Next1
    <3> QED BY <2>1, <2>2, <3>1, <3>2, NotifyTold
  <2> QED BY <2>3, <2>4
<1> QED BY <1>5, <1>6 DEF Listeners, Application

LEMMA ToldKeeps ==
  ASSUME ToldInv, [Next]_vars
  PROVE  ToldInv'
<1>1. StreamInv'
  BY StreamKeeps DEF ToldInv
<1>2. CASE Service \/ UNCHANGED vars
  <2>1. UNCHANGED <<calls, rows, replica, subscribed>>
    BY <1>2 DEF Service, vars, clientVars, visibleVars
  <2> QED BY <1>1, <2>1 DEF ToldInv, ToldSoFar
<1>3. CASE Deliver
  BY <1>1, <1>3, DeliverTold DEF ToldInv
<1>4. CASE Listeners \/ Application
  BY <1>1, <1>4, LocalTold DEF ToldInv
<1> QED BY <1>2, <1>3, <1>4 DEF Next

LEMMA ToldStarts ==
  ASSUME Init
  PROVE  ToldInv
<1>1. calls = <<>> /\ replica = Nothing /\ rows = Nothing /\ subscribed = LiveIds
  BY DEF Init, ClientInit
<1>2. ASSUME NEW l \in LiveIds
      PROVE  Reaches(<<>>, l, Nothing[l], Nothing[l])
  <2>1. Nothing[l] \in Rows
    BY DEF Nothing, Rows
  <2> QED BY <2>1, ReachesStill
<1> QED BY <1>1, <1>2, StreamStarts DEF ToldInv, ToldSoFar

\* A listener that applies what it is given ends every handler with the rows that
\* the subscription shows.
THEOREM ListenersAgreeAlways == Spec => []ListenersAgree
<1>1. Init => ToldInv
  BY ToldStarts
<1>2. ToldInv /\ [Next]_vars => ToldInv'
  BY ToldKeeps
<1>3. ToldInv => ListenersAgree
  BY ReachedStill DEF ToldInv, ToldSoFar, ListenersAgree
<1> QED BY <1>1, <1>2, <1>3, PTL DEF Spec

-----------------------------------------------------------------------------
(* The stream implements the view.                                         *)

LEMMA LeastNat ==
  ASSUME NEW T, T \subseteq Nat, T # {}
  PROVE  \E m \in T : \A k \in T : m <= k
<1> DEFINE R == OpToRel(<, Nat)
<1>1. IsWellFoundedOn(R, Nat)
  BY NatLessThanWellFounded
<1>2. PICK m \in T : \A k \in T : ~ (<<k, m>> \in R)
  <2> HIDE DEF R
  <2> QED BY <1>1, WFMin
<1>3. \A k \in T : ~ (k < m)
  BY <1>2 DEF OpToRel
<1> QED BY <1>3

UpTo(W, k) == {i \in W : i <= k}

LEMMA UpToEnds ==
  ASSUME NEW n \in Nat, NEW W, W \subseteq 1..n
  PROVE  UpTo(W, 0) = {} /\ UpTo(W, n) = W
<1>1. \A i \in W : ~(i <= 0) /\ i <= n
  OBVIOUS
<1> QED BY <1>1, Zenon DEF UpTo

\* A counter that goes up at the places in W counts them.
LEMMA CounterCounts ==
  ASSUME NEW n \in Nat, NEW c \in [1..n + 1 -> Nat], NEW W, W \subseteq 1..n,
         \A i \in 1..n : c[i + 1] = IF i \in W THEN c[i] + 1 ELSE c[i]
  PROVE  IsFiniteSet(W) /\ Cardinality(W) \in Nat /\ c[n + 1] = c[1] + Cardinality(W)
<1> DEFINE Good(k) == /\ IsFiniteSet(UpTo(W, k)) /\ Cardinality(UpTo(W, k)) \in Nat
                      /\ c[k + 1] = c[1] + Cardinality(UpTo(W, k))
           bad == {k \in 0..n : ~Good(k)}
<1>1. Good(0)
  <2>1. IsFiniteSet(UpTo(W, 0)) /\ Cardinality(UpTo(W, 0)) = 0
    BY UpToEnds, FS_EmptySet
  <2>2. 1 \in 1..n + 1 /\ 0 + 1 = 1
    OBVIOUS
  <2>3. c[0 + 1] = c[1] /\ c[1] \in Nat
    BY <2>2
  <2> QED BY <2>1, <2>3
<1>2. ASSUME NEW k \in 0..n, k # 0, Good(k - 1)
      PROVE  Good(k)
  <2>1. PICK j \in 0..n : j = k - 1 /\ k = j + 1
    BY <1>2
  <2>2. k \in 1..n /\ k \in 1..n + 1 /\ 1 \in 1..n + 1
    BY <1>2
  <2>3. c[k + 1] = IF k \in W THEN c[k] + 1 ELSE c[k]
    BY <2>2
  <2>4. /\ IsFiniteSet(UpTo(W, j)) /\ Cardinality(UpTo(W, j)) \in Nat
        /\ c[k] = c[1] + Cardinality(UpTo(W, j))
    BY <1>2, <2>1
  <2>5. c[1] \in Nat
    BY <2>2
  <2>n. (\A i \in W : i <= k <=> (i <= j \/ i = k)) /\ ~(k <= j)
    BY <2>1
  <2>6. CASE k \in W
    <3>1. UpTo(W, k) = UpTo(W, j) \cup {k} /\ k \notin UpTo(W, j)
      BY <2>6, <2>n, Zenon DEF UpTo
    <3>2. IsFiniteSet(UpTo(W, k)) /\ Cardinality(UpTo(W, k)) = Cardinality(UpTo(W, j)) + 1
      <4>1. PICK S : S = UpTo(W, j)
        OBVIOUS
      <4>2. PICK x : x = k
        OBVIOUS
      <4>3. IsFiniteSet(S \cup {x}) /\ Cardinality(S \cup {x}) = Cardinality(S) + 1
        BY <2>4, <3>1, <4>1, <4>2, FS_AddElement
      <4> QED BY <3>1, <4>1, <4>2, <4>3
    <3> QED BY <2>3, <2>4, <2>5, <2>6, <3>2
  <2>7. CASE k \notin W
    <3>1. UpTo(W, k) = UpTo(W, j)
      BY <2>7, <2>n, Zenon DEF UpTo
    <3> QED BY <2>3, <2>4, <2>7, <3>1
  <2> QED BY <2>6, <2>7
<1>3. bad = {}
  <2> SUFFICES ASSUME bad # {} PROVE FALSE
    OBVIOUS
  <2>1. PICK b \in bad : \A k \in bad : b <= k
    <3>1. bad \subseteq Nat
      OBVIOUS
    <3> HIDE DEF bad
    <3> QED BY <3>1, LeastNat
  <2>2. b \in 0..n /\ ~Good(b)
    OBVIOUS
  <2>3. b # 0
    <3> HIDE DEF Good
    <3> QED BY <1>1, <2>2
  <2>4. b - 1 \in 0..n /\ ~(b <= b - 1)
    BY <2>2, <2>3
  <2>5. Good(b - 1)
    <3> HIDE DEF Good
    <3> QED BY <2>1, <2>4
  <2> HIDE DEF Good
  <2> QED BY <1>2, <2>2, <2>3, <2>5
<1>4. Good(n)
  <2>1. n \in 0..n
    OBVIOUS
  <2> HIDE DEF Good
  <2> QED BY <1>3, <2>1
<1> QED BY <1>4, UpToEnds

LEMMA TakesCut ==
  ASSUME NEW m, NEW s, NEW t, Takes(m, s, t), MarkSound(s)
  PROVE  t.cut = IF m.type = "commit" THEN s.cut + 1 ELSE s.cut
<1>1. s.cut \in Nat
  BY DEF MarkSound, Mark
<1> QED BY <1>1 DEF Takes, TakesSubscribed, TakesUnsubscribed, TakesStart, TakesBatch, TakesEnd,
                   TakesOpen, TakesBody, TakesCommit, TakesProgress, InBaseline, OnlyQuery

\* Between the positions st[a + 1] and the last there are as many publications as
\* there are commits in the frames behind a.
Commits(w) == {i \in 1..Len(w) : w[i].type = "commit"}

LEMMA CommitsBetween ==
  ASSUME NEW w, NEW st, NEW n \in Nat, Len(w) = n, Len(st) = n + 1, st \in Seq(Mark),
         \A i \in 1..n : Takes(w[i], st[i], st[i + 1]),
         \A i \in 1..n + 1 : MarkSound(st[i])
  PROVE  /\ Cardinality(Commits(w)) \in Nat
         /\ st[n + 1].cut = st[1].cut + Cardinality(Commits(w))
         /\ IsFiniteSet(Commits(w))
<1> DEFINE c == [i \in 1..n + 1 |-> st[i].cut]
<1>1. \A i \in 1..n + 1 : st[i].cut \in Nat
  BY DEF MarkSound, Mark
<1>2. c \in [1..n + 1 -> Nat]
  BY <1>1
<1>3. Commits(w) \subseteq 1..n
  BY DEF Commits
<1>4. ASSUME NEW i \in 1..n
      PROVE  c[i + 1] = IF i \in Commits(w) THEN c[i] + 1 ELSE c[i]
  <2>1. i \in 1..n + 1 /\ i + 1 \in 1..n + 1
    OBVIOUS
  <2>2. st[i + 1].cut = IF w[i].type = "commit" THEN st[i].cut + 1 ELSE st[i].cut
    BY <2>1, TakesCut
  <2>3. i \in Commits(w) <=> w[i].type = "commit"
    BY DEF Commits
  <2> QED BY <2>1, <2>2, <2>3
<1>5. c[n + 1] = st[n + 1].cut /\ c[1] = st[1].cut
  OBVIOUS
<1> HIDE DEF c
<1>6. IsFiniteSet(Commits(w)) /\ Cardinality(Commits(w)) \in Nat
      /\ c[n + 1] = c[1] + Cardinality(Commits(w))
  BY <1>2, <1>3, <1>4, CounterCounts
<1> QED BY <1>5, <1>6

LEMMA TakesCutNext ==
  ASSUME NEW m, NEW s, NEW t, Takes(m, s, t)', s.cut \in Nat
  PROVE  t.cut = IF m.type = "commit" THEN s.cut + 1 ELSE s.cut
BY DEF Takes, TakesSubscribed, TakesUnsubscribed, TakesStart, TakesBatch, TakesEnd,
       TakesOpen, TakesBody, TakesCommit, TakesProgress, InBaseline, OnlyQuery

\* The publications the client has handled.
Handled == Published - InFlight

LEMMA HandledIs ==
  ASSUME StreamInv, NEW st \in Seq(Mark), Marks(st)
  PROVE  /\ InFlight = Cardinality(Commits(wire)) /\ InFlight \in Nat /\ IsFiniteSet(Commits(wire))
         /\ Published = Cut /\ Cut \in Nat
         /\ Handled = st[1].cut /\ st[1].cut \in Nat
<1>1. PICK n \in Nat : n = Len(wire)
  BY DEF StreamInv, WireTrue
<1>2. /\ Len(st) = n + 1 /\ st[n + 1] = Now
      /\ \A i \in 1..n : Takes(wire[i], st[i], st[i + 1])
      /\ \A i \in 1..n + 1 : MarkSound(st[i])
  BY <1>1 DEF Marks
<1>3. /\ Cardinality(Commits(wire)) \in Nat /\ IsFiniteSet(Commits(wire))
      /\ st[n + 1].cut = st[1].cut + Cardinality(Commits(wire))
  BY <1>1, <1>2, CommitsBetween
<1>4. DOMAIN wire = 1..Len(wire)
  BY DEF StreamInv, WireTrue
<1>5. InFlight = Cardinality(Commits(wire))
  BY <1>4 DEF InFlight, Commits
<1>6. st[n + 1].cut = Cut
  BY <1>2 DEF Now
<1>7. Published = Cut /\ Cut \in Nat
  BY CutIs DEF Published, Cut, StreamInv, IInv
<1>8. st[1].cut \in Nat
  <2>1. 1 \in 1..n + 1
    OBVIOUS
  <2> QED BY <1>2, <2>1 DEF MarkSound, Mark
<1> QED BY <1>3, <1>5, <1>6, <1>7, <1>8 DEF Handled

\* A query that is up to date, or will be when the handler is done, shows what the
\* handled publications make of it.
ViewInv == \A l \in active : Installed(l) => View!AtCut(rows[l], l, Handled)

LEMMA ViewHolds ==
  ASSUME StreamInv
  PROVE  ViewInv
<1> USE DEF StreamInv
<1>1. CASE conn = "open"
  <2>1. PICK st \in Seq(Mark) : Marks(st)
    BY <1>1 DEF WireSound
  <2>2. PICK n \in Nat : n = Len(wire)
    BY DEF WireTrue
  <2>3. 1 \in 1..Len(st)
    BY <2>1, <2>2 DEF Marks
  <2>4. PICK s : s = st[1]
    OBVIOUS
  <2>5. MarkSound(s) /\ ClientAt(s)
    BY <2>1, <2>3, <2>4 DEF Marks
  <2>6. Handled = s.cut
    BY <2>1, <2>4, HandledIs
  <2>7. ASSUME NEW l \in active, Installed(l)
        PROVE  View!AtCut(rows[l], l, s.cut)
    <3>1. l \in LiveIds
      BY DEF IInv, ClientTyped
    <3>2. ShowsCut(l, s.cut)
      BY <2>5, <2>7, <3>1, InstalledShows, ShowsUpTo
    <3> QED BY <3>2 DEF ShowsCut, View!AtCut, View!Transaction, IsPrefix, View!IsPrefix
  <2> QED BY <2>6, <2>7 DEF ViewInv
<1>2. CASE conn # "open"
  BY <1>2 DEF ClientInv, ViewInv
<1> QED BY <1>1, <1>2

-----------------------------------------------------------------------------

LEMMA ServiceHistory ==
  ASSUME StreamInv, Service
  PROVE  \A l \in LiveIds : hist'[l] = hist[l] \/ \E b \in Batch : hist'[l] = Append(hist[l], b)
<1>1. CASE hist' = hist
  BY <1>1
<1>2. CASE SendCommit
  <2>1. PICK p : p = Len(log)
    OBVIOUS
  <2>2. PICK n : n = Len(log[p].bodies)
    OBVIOUS
  <2>3. CommitPublication /\ ServerInv
    BY <1>2 DEF SendCommit, StreamInv, IInv
  <2>4. /\ p \in 1..Len(log) /\ n \in Nat /\ <<p, n>> \in Fragment
        /\ log[p].staged[n + 1] \in [LiveIds -> Batch]
    BY <2>1, <2>2, <2>3, BatchTypes DEF CommitPublication
  <2>5. PICK batch \in [LiveIds -> Batch] :
          hist' = [l \in LiveIds |-> IF batch[l] # <<>>
                     THEN Append(hist[l], batch[l]) ELSE hist[l]]
    <3>1. PICK g : g = [l \in LiveIds |-> IF l \in log[p].resets THEN <<<<p, n>>>>
                                          ELSE Staged(p, n)[l]]
      OBVIOUS
    <3>2. g \in [LiveIds -> Batch]
      BY <2>4, <3>1 DEF Staged, Batch
    <3>3. hist' = [l \in LiveIds |-> IF g[l] # <<>> THEN Append(hist[l], g[l]) ELSE hist[l]]
      BY <2>1, <2>2, <2>3, <3>1 DEF CommitPublication
    <3> QED BY <3>2, <3>3
  <2> QED BY <2>5
<1>3. ~SendCommit => hist' = hist
  BY DEF Service, SendAdmission, Admit, SendDetachment, Detach, SendBaseline, serverVars,
         SendOpen, OpenPublication, SendBody, AddChanges, AddReset, AddBody, SendProgress
<1> QED BY <1>1, <1>2, <1>3

\* A service step publishes, or nothing shows of it.
LEMMA ServiceView ==
  ASSUME StreamInv, Service
  PROVE  [View!Next]_View!vars
<1> USE DEF StreamInv
<1>1. PICK s : s = Now
  OBVIOUS
<1>2. PICK t : t = Now'
  OBVIOUS
<1>3. PICK m : Sends(m, s, t) /\ wire' = Append(wire, m)
  BY <1>1, <1>2, ServiceSends DEF IInv
<1>4. StreamInv' /\ ServiceGrows /\ Takes(m, s, t)' /\ ServerInv /\ ServerInv' /\ TxSound'
  BY <1>3, ServiceKeepsStream DEF Sends, ServiceInv, IInv
<1>5. UNCHANGED clientVars /\ conn = "open"
  BY DEF Service
<1>6. PICK st \in Seq(Mark) : Marks(st)
  BY <1>5 DEF WireSound
<1>7. /\ InFlight = Cardinality(Commits(wire)) /\ InFlight \in Nat /\ IsFiniteSet(Commits(wire))
      /\ Published = Cut /\ Cut \in Nat
  BY <1>6, HandledIs
<1>8. s.cut = Cut /\ t.cut = Cut'
  BY <1>1, <1>2 DEF Now
<1>9. Cut' = IF m.type = "commit" THEN Cut + 1 ELSE Cut
  BY <1>4, <1>7, <1>8, TakesCutNext
<1>10. PICK n \in Nat : n = Len(wire)
  BY DEF WireTrue
<1>11. /\ wire' \in Seq(Frames') /\ Len(wire') = n + 1 /\ wire'[n + 1] = m
       /\ \A i \in 1..n : wire'[i] = wire[i]
  BY <1>3, <1>4, <1>10 DEF WireTrue
<1>12. InFlight' = IF m.type = "commit" THEN InFlight + 1 ELSE InFlight
  <2>1. PICK C : C = Commits(wire)
    OBVIOUS
  <2>2. InFlight' = Cardinality(Commits(wire'))
    BY <1>11 DEF InFlight, Commits
  <2>3. C \subseteq 1..n /\ n + 1 \notin C
    BY <1>10, <2>1 DEF Commits
  <2>4. CASE m.type = "commit"
    <3>1. Commits(wire') = C \cup {n + 1}
      BY <1>10, <1>11, <2>1, <2>4 DEF Commits
    <3> QED BY <1>7, <2>1, <2>2, <2>3, <2>4, <3>1, FS_AddElement
  <2>5. CASE m.type # "commit"
    <3>1. Commits(wire') = C
      BY <1>10, <1>11, <2>1, <2>5 DEF Commits
    <3> QED BY <1>7, <2>1, <2>2, <2>5, <3>1
  <2> QED BY <2>4, <2>5
<1>13. Published' = Cut'
  BY DEF Published, Cut
<1>14. Published' - InFlight' = Published - InFlight
  BY <1>7, <1>9, <1>12, <1>13
<1>15. rows' = rows /\ Current' = Current
  BY <1>5 DEF clientVars, targetVars, visibleVars, Current
<1>16. ASSUME NEW l \in LiveIds, hist'[l] # hist[l]
       PROVE  /\ Len(hist'[l]) = Len(hist[l]) + 1
              /\ SubSeq(hist'[l], 1, Len(hist[l])) = hist[l]
              /\ View!Transaction(hist'[l][Len(hist'[l])]) = Cut'
              /\ Cut' = Cut + 1
  <2>1. PICK b \in Batch : hist'[l] = Append(hist[l], b)
    BY <1>16, ServiceHistory
  <2>2. hist[l] \in Seq(Batch)
    BY <1>4 DEF ServerInv, ServerTyped, Rows
  <2>3. PICK h \in Nat : h = Len(hist[l])
    BY <2>2
  <2>4. Len(hist'[l]) = h + 1 /\ SubSeq(hist'[l], 1, h) = hist[l]
    <3>1. PICK a : a = hist[l]
      OBVIOUS
    <3>2. Len(Append(a, b)) = h + 1 /\ SubSeq(Append(a, b), 1, h) = a
      BY <2>2, <2>3, <3>1, SMTT(30)
    <3> QED BY <2>1, <3>1, <3>2
  <2>5. PICK x : x = hist'[l][h + 1][1][1]
    OBVIOUS
  <2>6. h + 1 \in 1..h + 1 /\ h + 1 \notin 1..h
    OBVIOUS
  <2>7. x \in Nat /\ x > Cut
    BY <1>4, <2>3, <2>4, <2>5, <2>6 DEF ServiceGrows, NewBehindCut, Tx
  <2>8. x <= Cut'
    BY <1>4, <2>4, <2>5, <2>6 DEF TxSound, Tx
  <2>9. x = Cut' /\ Cut' = Cut + 1
    BY <1>7, <1>9, <2>7, <2>8
  <2>10. View!Transaction(hist'[l][Len(hist'[l])]) = x
    BY <2>4, <2>5 DEF View!Transaction
  <2> QED BY <2>3, <2>4, <2>9, <2>10
<1>17. CASE Cut' = Cut
  <2>1. \A l \in LiveIds : hist'[l] = hist[l]
    BY <1>7, <1>16, <1>17
  <2>2. hist \in [LiveIds -> Rows] /\ hist' \in [LiveIds -> Rows]
    BY <1>4 DEF ServerInv, ServerTyped
  <2>3. hist' = hist
    BY <2>1, <2>2
  <2> QED BY <1>7, <1>13, <1>14, <1>15, <1>17, <2>3 DEF View!vars
<1>18. CASE Cut' = Cut + 1
  <2>1. View!Publish
    BY <1>7, <1>13, <1>14, <1>15, <1>16, <1>18 DEF View!Publish
  <2> QED BY <2>1 DEF View!Next
<1> QED BY <1>9, <1>17, <1>18

-----------------------------------------------------------------------------

LEMMA DeliverHandled ==
  ASSUME StreamInv, Deliver
  PROVE  \E m, s, t : /\ InItsTurn(m, s, t) /\ MarkSound(t)
                      /\ Handled = s.cut /\ Handled' = t.cut /\ Published' = Published
                      /\ Published = Cut
<1> USE DEF StreamInv
<1>1. UNCHANGED <<serverVars, syncing>> /\ UNCHANGED serverVars
  BY DEF Deliver
<1>2. ServerInv' /\ ServiceGrows
  BY <1>1, ServiceRests DEF IInv
<1>3. PICK m : m = wire[1]
  OBVIOUS
<1>4. PICK n \in Nat : n + 1 = Len(wire)
  BY DEF Deliver, WireTrue
<1>5. m \in Frames /\ Receive(m)
  BY <1>3, <1>4, ElementOfSeq DEF WireTrue, Deliver
<1>6. PICK st \in Seq(Mark) : Marks(st)
  BY <1>5 DEF WireSound, Receive
<1>7. PICK s : s = st[1]
  OBVIOUS
<1>8. PICK t : t = st[2]
  OBVIOUS
<1>9. /\ Len(st) = (n + 1) + 1 /\ ClientAt(st[1]) /\ st[(n + 1) + 1] = Now
      /\ \A i \in 1..(n + 1) : Takes(wire[i], st[i], st[i + 1])
      /\ \A i \in 1..((n + 1) + 1) : MarkSound(st[i])
  BY <1>4, <1>6 DEF Marks
<1>10. MarkSound(s) /\ ClientAt(s) /\ Takes(m, s, t) /\ MarkSound(t)
  <2>1. 1 \in 1..(n + 1) /\ 1 \in 1..((n + 1) + 1) /\ 1 + 1 = 2 /\ 2 \in 1..((n + 1) + 1)
    OBVIOUS
  <2> QED BY <1>3, <1>7, <1>8, <1>9, <2>1
<1>11. MarkSound(t)'
  BY <1>2, <1>10, MarkStays DEF IInv
<1>12. Taken(t)
  BY <1>1, <1>5, <1>10, FrameTaken
<1>13. Handled = s.cut /\ Published = Cut /\ Cut \in Nat
  BY <1>6, <1>7, HandledIs
<1>14. Published' = Published
  BY <1>1 DEF Published, Publishing, serverVars
<1>15. /\ wire' \in Seq(Frames) /\ Len(wire') = n /\ \A i \in 1..n : wire'[i] = wire[i + 1]
       /\ DOMAIN wire' = 1..n
  BY <1>4 DEF WireTrue, Deliver
<1>16. PICK rest : rest = Tail(st)
  OBVIOUS
<1>17. /\ rest \in Seq(Mark) /\ Len(rest) = n + 1
       /\ \A i \in 1..(n + 1) : rest[i] = st[i + 1]
  BY <1>6, <1>9, <1>16
<1>18. PICK w : w = wire'
  OBVIOUS
<1>19. ASSUME NEW i \in 1..n
       PROVE  Takes(w[i], rest[i], rest[i + 1])
  <2>1. i \in 1..(n + 1) /\ i + 1 \in 1..(n + 1)
    OBVIOUS
  <2> QED BY <1>9, <1>15, <1>17, <1>18, <2>1
<1>20. ASSUME NEW i \in 1..n + 1
       PROVE  MarkSound(rest[i])
  <2>1. i + 1 \in 1..((n + 1) + 1)
    OBVIOUS
  <2> QED BY <1>9, <1>17, <2>1
<1>21. /\ Cardinality(Commits(w)) \in Nat
       /\ rest[n + 1].cut = rest[1].cut + Cardinality(Commits(w))
  BY <1>15, <1>17, <1>18, <1>19, <1>20, CommitsBetween
<1>22. InFlight' = Cardinality(Commits(w))
  BY <1>15, <1>18 DEF InFlight, Commits
<1>23. rest[1] = t /\ rest[n + 1].cut = Cut /\ t.cut \in Nat
  <2>1. 1 \in 1..(n + 1) /\ n + 1 \in 1..(n + 1) /\ 1 + 1 = 2
    OBVIOUS
  <2>2. rest[1] = t /\ rest[n + 1] = Now
    BY <1>8, <1>9, <1>17, <2>1
  <2> QED BY <1>10, <2>2 DEF Now, MarkSound, Mark
<1>24. Handled' = t.cut
  <2>1. Handled' = Published' - InFlight'
    BY DEF Handled
  <2> QED BY <1>13, <1>14, <1>21, <1>22, <1>23, <2>1
<1> QED BY <1>5, <1>10, <1>11, <1>12, <1>13, <1>14, <1>24 DEF InItsTurn

\* What a frame does to what the queries show.
LEMMA FrameShows ==
  ASSUME IInv, ClientInv, NEW m, Receive(m), conn' = "open"
  PROVE  \/ rows' = rows /\ Current' \subseteq Current /\ m.type # "commit"
         \/ /\ m.type = "baseline_sync_end" /\ m.id \in active /\ Running(m)
            /\ InstallBaseline(m.id)
         \/ /\ m.type = "commit"
            /\ \E failed \in SUBSET (Batched \cap live) : InstallPublication(failed)
<1> USE DEF Receive
<1> DEFINE still == rows' = rows /\ Current' \subseteq Current
<1>1. ASSUME NEW how, EndConnection(how)
      PROVE  conn' = how /\ still
  BY <1>1 DEF EndConnection, Current
<1>2. ~ProtocolFailure
  BY <1>1 DEF ProtocolFailure
<1>3. CASE Unsubscribed(m) \/ Open(m) \/ KeyedResults(m) \/ ResetRequired(m) \/ Progress(m)
  BY <1>2, <1>3 DEF Unsubscribed, Open, KeyedResults, ResetRequired, Progress, visibleVars,
                    targetVars, Current
<1>4. CASE Subscribed(m)
  <2>1. m.id \notin live
    BY <1>2, <1>4 DEF Subscribed, ClientInv
  <2>2. active' = active \cup (subscribed \cap {m.id}) /\ live' = live /\ rows' = rows
        /\ m.type = "subscribed"
    BY <1>2, <1>4 DEF Subscribed, visibleVars
  <2> QED BY <2>1, <2>2 DEF Current
<1>5. CASE BaselineSyncStart(m) \/ BaselineSyncBatch(m)
  BY <1>2, <1>5 DEF BaselineSyncStart, BaselineSyncBatch, NotAccepted, clientVars, visibleVars,
                    targetVars, Current
<1>6. CASE BaselineSyncEnd(m)
  <2>1. CASE NotAccepted(m, InvalidEnd(m))
    BY <1>2, <1>6, <2>1 DEF BaselineSyncEnd, NotAccepted, clientVars, visibleVars, targetVars, Current
  <2>2. CASE Accepted(m, InvalidEnd(m)) /\ (InstallBaseline(m.id) \/ BaselineDecodeFailed(m.id))
    <3>1. m.id \in active /\ Running(m)
      BY <2>2 DEF Accepted, Ignored, InvalidEnd
    <3>2. CASE BaselineDecodeFailed(m.id)
      BY <1>6, <3>2 DEF BaselineSyncEnd, BaselineDecodeFailed, Current
    <3> QED BY <1>6, <2>2, <3>1, <3>2 DEF BaselineSyncEnd
  <2> QED BY <1>6, <2>1, <2>2 DEF BaselineSyncEnd
<1>7. CASE Commit(m)
  BY <1>2, <1>7 DEF Commit
<1> QED BY <1>3, <1>4, <1>5, <1>6, <1>7

\* A baseline refreshes its query.
LEMMA InstallView ==
  ASSUME StreamInv, ViewInv', UNCHANGED serverVars, NEW l \in active, sync[l].on,
         InstallBaseline(l), Handled' = Handled, Published' = Published
  PROVE  View!Refresh(l)
<1>1. IInv /\ l \in LiveIds
  BY DEF StreamInv, IInv, ClientTyped
<1>2. l \notin live
  BY <1>1 DEF IInv, TakenIn, SyncSound, Installed
<1>3. rows \in [LiveIds -> Rows] /\ rows' = [rows EXCEPT ![l] = CandidateRows(l)]
  BY <1>1 DEF IInv, ClientTyped, InstallBaseline
<1>4. rows' = [rows EXCEPT ![l] = rows'[l]]
  BY <1>1, <1>3
<1>5. l \in active' /\ Installed(l)' /\ Current' = Current
  <2>1. CatchingUp(l)'
    BY <1>1, InstallCalls DEF InstallBaseline
  <2> QED BY <2>1 DEF Installed, InstallBaseline, Current
<1>6. View!AtCut(rows[l], l, Handled)'
  BY <1>5 DEF ViewInv
<1>7. hist' = hist
  BY DEF serverVars
<1>8. View!AtCut(rows'[l], l, Handled)
  BY <1>6, <1>7 DEF View!AtCut
<1> QED BY <1>2, <1>4, <1>5, <1>7, <1>8 DEF View!Refresh, Handled, Current

\* A commit moves all the queries that stay current.
LEMMA PublicationView ==
  ASSUME StreamInv, ViewInv', UNCHANGED serverVars,
         NEW failed \in SUBSET (Batched \cap live), InstallPublication(failed),
         Handled \in Nat, Handled' = Handled + 1, Published' = Published,
         Published \in Nat, Handled' <= Published
  PROVE  View!Advance
<1>1. PublicationSound /\ rows \in [LiveIds -> Rows]
  BY DEF StreamInv, IInv, TakenIn, ClientTyped
<1>2. /\ active' = active \ failed /\ live' = live \ (failed \cup Reset)
      /\ rows' = [l \in LiveIds |-> IF l \in (Batched \cap live) \ failed
                    THEN Append(rows[l], publication.batches[l]) ELSE rows[l]]
  BY DEF InstallPublication
<1>3. Current' \subseteq Current
  BY <1>2 DEF Current
<1>4. ASSUME NEW l \in LiveIds, l \notin Current'
      PROVE  rows'[l] = rows[l]
  BY <1>1, <1>2, <1>4 DEF PublicationSound, Current
<1>5. hist' = hist
  BY DEF serverVars
<1>6. ASSUME NEW l \in Current'
      PROVE  View!AtCut(rows'[l], l, Handled')
  <2>1. l \in active' /\ Installed(l)'
    BY DEF Current, Installed
  <2>2. View!AtCut(rows[l], l, Handled)'
    BY <2>1 DEF ViewInv
  <2> QED BY <1>5, <2>2 DEF View!AtCut
<1>7. DOMAIN rows' = LiveIds
  BY <1>2
<1>8. Handled < Published
  OBVIOUS
<1> QED BY <1>3, <1>4, <1>5, <1>6, <1>7, <1>8 DEF View!Advance, Handled

LEMMA DeliverView ==
  ASSUME StreamInv, ViewInv', Deliver
  PROVE  [View!Next]_View!vars
<1>1. PICK m, s, t : /\ InItsTurn(m, s, t) /\ MarkSound(t)
                     /\ Handled = s.cut /\ Handled' = t.cut /\ Published' = Published
                     /\ Published = Cut
  BY DeliverHandled
<1>2. UNCHANGED serverVars /\ hist' = hist
  BY DEF Deliver, serverVars
<1>3. IInv /\ ClientInv /\ Receive(m) /\ conn' = "open" /\ Takes(m, s, t) /\ MarkSound(s)
  BY <1>1 DEF StreamInv, InItsTurn, Taken
<1>4. /\ s.cut \in Nat /\ t.cut <= Cut /\ Cut \in Nat
      /\ t.cut = IF m.type = "commit" THEN s.cut + 1 ELSE s.cut
  BY <1>1, <1>3, TakesCut, CutIs DEF MarkSound, Mark, IInv
<1>5. CASE rows' = rows /\ Current' \subseteq Current /\ m.type # "commit"
  <2>1. Handled' = Handled
    BY <1>1, <1>4, <1>5
  <2>2. View!Drop
    BY <1>1, <1>2, <1>5, <2>1 DEF View!Drop, Handled
  <2> QED BY <2>2 DEF View!Next
<1>6. CASE /\ m.type = "baseline_sync_end" /\ m.id \in active /\ Running(m)
           /\ InstallBaseline(m.id)
  <2>1. Handled' = Handled
    BY <1>1, <1>4, <1>6
  <2>2. PICK l : l = m.id
    OBVIOUS
  <2>3. View!Refresh(l)
    BY <1>1, <1>2, <1>6, <2>1, <2>2, InstallView DEF Running
  <2>4. l \in LiveIds
    BY <1>3, <1>6, <2>2 DEF IInv, ClientTyped
  <2> QED BY <2>3, <2>4 DEF View!Next
<1>7. CASE /\ m.type = "commit"
           /\ \E failed \in SUBSET (Batched \cap live) : InstallPublication(failed)
  <2>1. Handled \in Nat /\ Handled' = Handled + 1 /\ Published \in Nat /\ Handled' <= Published
    BY <1>1, <1>4, <1>7
  <2>2. View!Advance
    BY <1>1, <1>2, <1>7, <2>1, PublicationView
  <2> QED BY <2>2 DEF View!Next
<1> QED BY <1>3, <1>5, <1>6, <1>7, FrameShows

-----------------------------------------------------------------------------

LEMMA LeaveView ==
  ASSUME NEW l, Leave(l)
  PROVE  rows' = rows /\ Current' \subseteq Current
BY DEF Leave, EndConnection, Deactivate, targetVars, Current

\* A query that has caught up joins; listeners and the application only drop.
LEMMA LocalView ==
  ASSUME StreamInv, Local, UNCHANGED <<serverVars, wire, syncing>>
  PROVE  [View!Next]_View!vars
<1>1. hist' = hist /\ Published' = Published /\ Published' - InFlight' = Published - InFlight
  BY DEF serverVars, Published, Publishing, InFlight
<1>2. ASSUME rows' = rows, Current' \subseteq Current
      PROVE  [View!Next]_View!vars
  BY <1>1, <1>2 DEF View!Next, View!Drop
<1>3. CASE Close \/ \E l \in LiveIds : Unsubscribe(l)
  BY <1>2, <1>3, LeaveView DEF Close, EndConnection, Unsubscribe, Current
<1>4. CASE PublishReset \/ PublishBatch \/ NotifyReset
  BY <1>2, <1>4 DEF PublishReset, PublishBatch, NotifyReset, targetVars, visibleVars, Current
<1>5. CASE DecodeFailed
  <2>1. rows' = rows /\ Current' \subseteq Current
    BY <1>5, LeaveView DEF DecodeFailed, targetVars, visibleVars, Current
  <2> QED BY <1>2, <2>1
<1>6. CASE CaughtUp
  <2>1. PICK l : l = Head(calls).id
    OBVIOUS
  <2>2. live' = live \cup {l} /\ active' = active /\ rows' = rows
    BY <1>6, <2>1 DEF CaughtUp
  <2>3. CASE l \notin active
    BY <1>2, <2>2, <2>3 DEF Current
  <2>4. CASE l \in active
    <3>1. l \in LiveIds /\ calls \in Seq(ListenerCall)
      BY <2>4 DEF StreamInv, IInv, ClientTyped
    <3>2. calls # <<>> /\ Head(calls).method = "caughtUp"
      BY <1>6 DEF CaughtUp, Next1
    <3>3. 1 \in 1..Len(calls) /\ calls[1] = Head(calls)
      BY <3>1, <3>2
    <3>4. Installed(l)
      BY <2>1, <3>2, <3>3 DEF Installed, CatchingUp
    <3>5. View!AtCut(rows[l], l, Published - InFlight)
      BY <2>4, <3>4, ViewHolds DEF ViewInv, Handled
    <3>6. Current' = Current \cup {l}
      BY <2>2, <2>4 DEF Current
    <3>7. View!Join(l)
      BY <1>1, <2>2, <3>5, <3>6 DEF View!Join
    <3> QED BY <3>1, <3>7 DEF View!Next
  <2> QED BY <2>3, <2>4
<1> QED BY <1>3, <1>4, <1>5, <1>6 DEF Local, Notify

LEMMA StillView ==
  ASSUME UNCHANGED vars
  PROVE  UNCHANGED View!vars
BY DEF vars, clientVars, targetVars, visibleVars, serverVars, View!vars, Published, Publishing,
       InFlight, Current

LEMMA StepView ==
  ASSUME StreamInv, ViewInv', [Next]_vars
  PROVE  [View!Next]_View!vars
<1>1. CASE Service
  BY <1>1, ServiceView
<1>2. CASE Deliver
  BY <1>2, DeliverView
<1>3. CASE Listeners \/ Application
  BY <1>3, ClientSteps, LocalView
<1>4. CASE UNCHANGED vars
  BY <1>4, StillView
<1> QED BY <1>1, <1>2, <1>3, <1>4 DEF Next

LEMMA ViewStarts ==
  ASSUME Init
  PROVE  View!Init
<1>1. /\ log = <<>> /\ wire = <<>> /\ live = {} /\ rows = [l \in LiveIds |-> <<>>]
      /\ hist \in [LiveIds -> {<<>>, <<InitialBatch>>}]
  BY DEF Init, ClientInit, ServerInit, Nothing
<1>2. Published = 0
  BY <1>1 DEF Published, Publishing
<1>3. InFlight = 0
  <2>1. {i \in DOMAIN wire : wire[i].type = "commit"} = {}
    BY <1>1
  <2> QED BY <2>1, FS_EmptySet DEF InFlight
<1>4. hist \in [LiveIds -> Seq({<<<<0, 0>>>>})]
  <2>1. PICK b : b = InitialBatch
    OBVIOUS
  <2>2. {<<>>, <<b>>} \subseteq Seq({b})
    OBVIOUS
  <2>3. {b} = {<<<<0, 0>>>>}
    BY <2>1 DEF InitialBatch
  <2>4. hist \in [LiveIds -> Seq({b})]
    BY <1>1, <2>1, <2>2
  <2> QED BY <2>3, <2>4
<1> QED BY <1>1, <1>2, <1>3, <1>4 DEF View!Init, Current

\* Frames, epochs, baselines and listeners implement the view, in which a
\* publication is one step for all the queries that are current.
THEOREM StreamImplementsView == Spec => ImplementsView
<1>1. Init => View!Init
  BY ViewStarts
<1>2. StreamInv => ViewInv
  BY ViewHolds
<1>3. StreamInv /\ ViewInv' /\ [Next]_vars => [View!Next]_View!vars
  BY StepView
<1> QED BY <1>1, <1>2, <1>3, StreamInvAlways, PTL DEF Spec, ImplementsView, View!Spec

=============================================================================

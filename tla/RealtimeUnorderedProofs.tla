----------------------- MODULE RealtimeUnorderedProofs -----------------------
(***************************************************************************)
(* Proofs about the reconciler, for any number of queries, publications,   *)
(* bodies and baseline attempts, and for frames that come in any order,    *)
(* again, or never: what a query shows is a state its result once had, and *)
(* no frame takes it back.                                                 *)
(***************************************************************************)
EXTENDS RealtimeUnordered, SequenceTheorems, FiniteSetTheorems, TLAPS

-----------------------------------------------------------------------------
(* The history of the service.                                             *)

Baseline == [at : Nat, upto : Nat]
Place    == [epoch : Nat, seq : Nat]
Body     == [type : {"keyed_results", "reset_required"}, targets : SUBSET LiveIds,
             at : [LiveIds -> Place]]
Entry    == [bodies : Seq(Body), staged : Seq([LiveIds -> Batch]), resets : SUBSET LiveIds,
             done : BOOLEAN]

ServerTyped ==
  /\ hist \in [LiveIds -> Rows]
  /\ bases \in [LiveIds -> Seq(Baseline)]
  /\ log \in Seq(Entry)

\* An epoch starts behind everything of the one before it.
BasesSound ==
  \A l \in LiveIds :
    /\ \A e \in 1..Len(bases[l]) : bases[l][e].at <= Len(hist[l])
    /\ \A e, f \in 1..Len(bases[l]) : e < f => bases[l][e].at < bases[l][f].at

Bodies(p) == log[p].bodies

\* The batches of a publication grow by the bodies that name their query.
Grown(p, i, l) ==
  log[p].staged[i + 1][l] =
    IF Bodies(p)[i].type = "keyed_results" /\ l \in Bodies(p)[i].targets
      THEN Append(log[p].staged[i][l], <<p, i - 1>>) ELSE log[p].staged[i][l]

StagedSound ==
  \A p \in 1..Len(log) :
    /\ p < Len(log) => log[p].done
    /\ Len(log[p].staged) = Len(Bodies(p)) + 1
    /\ log[p].staged[1] = Nothing
    /\ \A i \in 1..Len(Bodies(p)) : \A l \in LiveIds : Grown(p, i, l)

Whole(p, l) == log[p].staged[Len(Bodies(p)) + 1][l]

\* The epoch e and the sequence s of the batch that publication p has for l.
Placed(p, l, e, s) ==
  /\ e \in 1..Len(bases[l]) /\ l \notin log[p].resets /\ Whole(p, l) # <<>>
  /\ ~log[p].done => e = Len(bases[l]) /\ bases[l][e].at + s = Len(hist[l])
  /\ log[p].done =>
       /\ bases[l][e].at + s < Len(hist[l])
       /\ hist[l][bases[l][e].at + s + 1] = Whole(p, l)
       /\ e < Len(bases[l]) => bases[l][e].at + s + 1 < bases[l][e + 1].at

\* A change stands at its place in the history, or will when it is published, ...
ChangesSound ==
  \A p \in 1..Len(log) : \A i \in 1..Len(Bodies(p)) : \A l \in Bodies(p)[i].targets :
    Bodies(p)[i].type = "keyed_results" =>
      Placed(p, l, Bodies(p)[i].at[l].epoch, Bodies(p)[i].at[l].seq)

\* The epoch e and the sequence s from which publication p resets l.
Begins(p, l, e, s) ==
  /\ s = 0 /\ l \in log[p].resets /\ bases[l] # <<>>
  /\ ~log[p].done => e = Len(bases[l]) + 1
  /\ log[p].done => e \in 1..Len(bases[l])

\* ... and a reset names the epoch that begins with its publication.
ResetsSound ==
  \A p \in 1..Len(log) : \A i \in 1..Len(Bodies(p)) : \A l \in Bodies(p)[i].targets :
    Bodies(p)[i].type = "reset_required" =>
      Begins(p, l, Bodies(p)[i].at[l].epoch, Bodies(p)[i].at[l].seq)

ServerInv == ServerTyped /\ BasesSound /\ StagedSound /\ ChangesSound /\ ResetsSound

-----------------------------------------------------------------------------
(* What the client has taken in.                                           *)

PublicationType ==
  [open : BOOLEAN, id : Nat, nextBody : Nat, batches : [LiveIds -> Batch],
   resets : [LiveIds -> [epoch : Nat, first : Nat]]]

SyncType     == [on : BOOLEAN, nextBatch : Nat, rows : Rows, upto : Nat]
ListenerCall == [method : Listener, id : LiveIds, data : Rows, upto : Nat]

ClientTyped ==
  /\ pending \subseteq LiveIds /\ subscribed \subseteq LiveIds
  /\ registered \subseteq LiveIds \ pending /\ active \subseteq registered
  /\ \A l \in registered : bases[l] # <<>>
  /\ epoch \in [LiveIds -> Nat] /\ nextSeq \in [LiveIds -> Nat]
  /\ attempt \in [LiveIds -> Nat]
  /\ sync \in [LiveIds -> SyncType]
  /\ backlog \in [LiveIds -> Rows] /\ rows \in [LiveIds -> Rows]
  /\ publication \in PublicationType
  /\ calls \in Seq(ListenerCall)

\* The query will be live when the running handler is done.
CatchingUp(l) == \E i \in 1..Len(calls) : calls[i].method = "caughtUp" /\ calls[i].id = l
Installed(l)  == l \in live \/ CatchingUp(l)

Start(l)   == bases[l][epoch[l]].at
Reached(l) == Start(l) + nextSeq[l]

Shows(r, h) == Len(r) <= Len(h) /\ \A i \in 1..Len(r) : r[i] = h[i]

\* The epoch and the sequence of a query name a place in its history, ...
PlaceSound(l) ==
  /\ epoch[l] \in 1..Len(bases[l])
  /\ Reached(l) <= Len(hist[l])
  /\ epoch[l] < Len(bases[l]) => Reached(l) < bases[l][epoch[l] + 1].at

\* ... up to which it shows its history, or keeps what follows the baseline, ...
RowsSound(l) ==
  /\ Len(rows[l]) <= Reached(l)
  /\ Installed(l) => Len(rows[l]) = Reached(l)
  /\ ~Installed(l) =>
       /\ Len(backlog[l]) = nextSeq[l]
       /\ \A i \in 1..Len(backlog[l]) : backlog[l][i] = hist[l][Start(l) + i]

\* ... while a baseline that is on its way is a prefix of it.
SyncSound(l) ==
  sync[l].on =>
    /\ ~Installed(l)
    /\ Len(sync[l].rows) = sync[l].nextBatch /\ Shows(sync[l].rows, hist[l])

\* What is staged of a publication is what the bodies so far have staged, ...
StagedAs(p, n, l) == publication.batches[l] = log[p].staged[n + 1][l]

\* ... for queries whose place it names, ...
BatchNamed(p, n, l) ==
  \E i \in 1..n :
    /\ Bodies(p)[i].type = "keyed_results" /\ l \in Bodies(p)[i].targets
    /\ Bodies(p)[i].at[l].epoch = epoch[l] /\ Bodies(p)[i].at[l].seq = nextSeq[l]

\* ... and its resets lead to a later epoch.
ResetNamed(p, n, l) ==
  \E i \in 1..n :
    /\ Bodies(p)[i].type = "reset_required" /\ l \in Bodies(p)[i].targets
    /\ Bodies(p)[i].at[l].epoch > epoch[l]
    /\ publication.resets[l].epoch = Bodies(p)[i].at[l].epoch
    /\ publication.resets[l].first = Bodies(p)[i].at[l].seq

StagingSound(p, n) ==
  /\ p \in 1..Len(log) /\ n \in 0..Len(Bodies(p))
  /\ \A l \in active \cup pending : StagedAs(p, n, l)
  /\ \A l \in Batched : BatchNamed(p, n, l)
  /\ \A l \in Reset : ResetNamed(p, n, l)

PublicationSound ==
  /\ Batched \cup Reset \subseteq active
  /\ Batched \cap Reset = {}
  /\ ~publication.open => Batched = {} /\ Reset = {}
  /\ publication.open => StagingSound(publication.id, publication.nextBody)

BlankSound(l) ==
  /\ rows[l] = <<>> /\ backlog[l] = <<>> /\ sync[l] = NoSync
  /\ ~Installed(l)

TakenIn ==
  /\ \A l \in LiveIds : Shows(rows[l], hist[l])
  /\ \A l \in pending : BlankSound(l)
  /\ \A l \in active : PlaceSound(l) /\ RowsSound(l) /\ SyncSound(l)
  /\ PublicationSound

IInv == ServerInv /\ ClientTyped /\ TakenIn

-----------------------------------------------------------------------------
(* Sequences and the types of the log.                                     *)

\* A prefix, element by element.
LEMMA PrefixIs ==
  ASSUME NEW S, NEW s \in Seq(S), NEW t \in Seq(S)
  PROVE  IsPrefix(s, t) <=> Shows(s, t)
<1>1. CASE Len(s) <= Len(t)
  <2>1. /\ SubSeq(t, 1, Len(s)) \in Seq(S) /\ Len(SubSeq(t, 1, Len(s))) = Len(s)
        /\ \A i \in 1..Len(s) : SubSeq(t, 1, Len(s))[i] = t[i]
    BY <1>1
  <2>2. /\ SubSeq(s, 1, Len(s)) \in Seq(S) /\ Len(SubSeq(s, 1, Len(s))) = Len(s)
        /\ \A i \in 1..Len(s) : SubSeq(s, 1, Len(s))[i] = s[i]
    OBVIOUS
  <2> QED BY <1>1, <2>1, <2>2, SeqEqual DEF IsPrefix, Shows
<1>2. CASE ~(Len(s) <= Len(t))
  BY <1>2 DEF IsPrefix, Shows
<1> QED BY <1>1, <1>2

\* What an entry of the log and its bodies are made of.
LEMMA EntryTypes ==
  ASSUME ServerTyped, NEW p \in 1..Len(log)
  PROVE  /\ log[p] \in Entry /\ Bodies(p) \in Seq(Body) /\ Len(Bodies(p)) \in Nat
         /\ log[p].staged \in Seq([LiveIds -> Batch])
         /\ log[p].resets \subseteq LiveIds /\ log[p].done \in BOOLEAN
         /\ \A i \in 1..Len(Bodies(p)) :
              /\ Bodies(p)[i] \in Body /\ Bodies(p)[i].targets \subseteq LiveIds
              /\ \A l \in LiveIds : /\ Bodies(p)[i].at[l].epoch \in Nat
                                     /\ Bodies(p)[i].at[l].seq \in Nat
<1>1. log[p] \in Entry
  BY ElementOfSeq DEF ServerTyped
<1>2. /\ Bodies(p) \in Seq(Body) /\ log[p].staged \in Seq([LiveIds -> Batch])
      /\ log[p].resets \subseteq LiveIds /\ log[p].done \in BOOLEAN
  BY <1>1 DEF Entry, Bodies
<1>3. ASSUME NEW i \in 1..Len(Bodies(p))
      PROVE  /\ Bodies(p)[i] \in Body /\ Bodies(p)[i].targets \subseteq LiveIds
             /\ \A l \in LiveIds : /\ Bodies(p)[i].at[l].epoch \in Nat
                                    /\ Bodies(p)[i].at[l].seq \in Nat
  <2>1. Bodies(p)[i] \in Body
    BY <1>2, ElementOfSeq
  <2>2. Bodies(p)[i].at \in [LiveIds -> Place] /\ Bodies(p)[i].targets \subseteq LiveIds
    BY <2>1 DEF Body
  <2> QED BY <2>1, <2>2 DEF Place
<1> QED BY <1>1, <1>2, <1>3

LEMMA HistoryTypes ==
  ASSUME ServerTyped, NEW l \in LiveIds
  PROVE  /\ hist[l] \in Rows /\ Len(hist[l]) \in Nat
         /\ bases[l] \in Seq(Baseline) /\ Len(bases[l]) \in Nat
         /\ \A e \in 1..Len(bases[l]) : bases[l][e] \in Baseline /\ bases[l][e].at \in Nat
<1>1. hist[l] \in Rows /\ bases[l] \in Seq(Baseline)
  BY DEF ServerTyped
<1>2. Len(hist[l]) \in Nat /\ Len(bases[l]) \in Nat
  BY <1>1 DEF Rows
<1>3. ASSUME NEW e \in 1..Len(bases[l])
      PROVE  bases[l][e] \in Baseline /\ bases[l][e].at \in Nat
  <2>1. bases[l][e] \in Baseline
    BY <1>1, ElementOfSeq
  <2> QED BY <2>1 DEF Baseline
<1> QED BY <1>1, <1>2, <1>3

-----------------------------------------------------------------------------
(* What the service does.                                                  *)

\* The history and the log grow at their end, and a new epoch begins behind
\* everything there was.
Grows ==
  /\ \A l \in LiveIds :
       /\ Len(hist[l]) <= Len(hist'[l])
       /\ \A i \in 1..Len(hist[l]) : hist'[l][i] = hist[l][i]
       /\ Len(bases[l]) <= Len(bases'[l])
       /\ \A e \in 1..Len(bases[l]) : bases'[l][e] = bases[l][e]
       /\ bases[l] # <<>> /\ Len(bases[l]) < Len(bases'[l]) =>
            bases'[l][Len(bases[l]) + 1].at > Len(hist[l])
  /\ Len(log) <= Len(log')
  /\ \A p \in 1..Len(log) :
       /\ Len(Bodies(p)) <= Len(log'[p].bodies)
       /\ \A i \in 1..Len(Bodies(p)) : log'[p].bodies[i] = Bodies(p)[i]
       /\ \A i \in 1..Len(Bodies(p)) + 1 : log'[p].staged[i] = log[p].staged[i]

LEMMA AllDone ==
  ASSUME ServerInv, ~Publishing, NEW p \in 1..Len(log)
  PROVE  log[p].done
<1>1. Len(log) \in Nat /\ log # <<>>
  BY DEF ServerInv, ServerTyped
<1>2. CASE p < Len(log)
  BY <1>2 DEF ServerInv, StagedSound
<1>3. CASE p = Len(log)
  BY <1>1, <1>3 DEF Publishing
<1> QED BY <1>1, <1>2, <1>3

\* An admission begins the first epoch of its query.
LEMMA AdmitKeeps ==
  ASSUME ServerInv, NEW l \in LiveIds, Admit(l)
  PROVE  ServerInv' /\ Grows
<1> USE DEF ServerInv
<1>1. /\ bases[l] = <<>> /\ log' = log /\ hist' = hist
      /\ bases' = [bases EXCEPT ![l] = <<Frontier(l)>>]
  BY DEF Admit
<1>2. \A p \in 1..Len(log) : log[p].done
  BY AllDone DEF Admit
<1>3. Frontier(l) \in Baseline /\ Frontier(l).at = Len(hist[l])
  <2>1. Len(hist[l]) \in Nat /\ Len(log) \in Nat
    BY HistoryTypes DEF ServerTyped
  <2> QED BY <2>1 DEF Frontier, Baseline
<1>4. /\ bases'[l] = <<Frontier(l)>> /\ bases'[l] \in Seq(Baseline) /\ Len(bases'[l]) = 1
      /\ bases'[l][1] = Frontier(l)
      /\ \A k \in LiveIds : k # l => bases'[k] = bases[k]
  BY <1>1, <1>3 DEF ServerTyped
<1>5. bases' \in [LiveIds -> Seq(Baseline)]
  BY <1>1, <1>3 DEF ServerTyped
<1>6. ServerTyped'
  BY <1>1, <1>5 DEF ServerTyped
<1>7. BasesSound'
  <2> SUFFICES ASSUME NEW k \in LiveIds
               PROVE  /\ \A e \in 1..Len(bases'[k]) : bases'[k][e].at <= Len(hist[k])
                      /\ \A e, f \in 1..Len(bases'[k]) :
                           e < f => bases'[k][e].at < bases'[k][f].at
    BY <1>1 DEF BasesSound
  <2>1. CASE k = l
    BY <1>3, <1>4, <2>1, HistoryTypes
  <2>2. CASE k # l
    BY <1>4, <2>2 DEF BasesSound
  <2> QED BY <2>1, <2>2
<1>8. StagedSound'
  BY <1>1 DEF StagedSound, Bodies, Grown
<1>9. ChangesSound'
  <2> SUFFICES ASSUME NEW p \in 1..Len(log), NEW i \in 1..Len(Bodies(p)),
                      NEW k \in Bodies(p)[i].targets, Bodies(p)[i].type = "keyed_results"
               PROVE  Placed(p, k, Bodies(p)[i].at[k].epoch, Bodies(p)[i].at[k].seq)'
    BY <1>1 DEF ChangesSound, Bodies
  <2>1. Placed(p, k, Bodies(p)[i].at[k].epoch, Bodies(p)[i].at[k].seq)
    BY DEF ChangesSound
  <2>2. k \in LiveIds
    BY EntryTypes
  <2>3. k # l
    <3>1. Len(<<>>) = 0 /\ 1..0 = {}
      OBVIOUS
    <3> QED BY <1>1, <2>1, <3>1 DEF Placed
  <2>4. bases'[k] = bases[k]
    BY <1>4, <2>2, <2>3
  <2> QED BY <1>1, <2>1, <2>4 DEF Placed, Whole, Bodies
<1>10. ResetsSound'
  <2> SUFFICES ASSUME NEW p \in 1..Len(log), NEW i \in 1..Len(Bodies(p)),
                      NEW k \in Bodies(p)[i].targets, Bodies(p)[i].type = "reset_required"
               PROVE  Begins(p, k, Bodies(p)[i].at[k].epoch, Bodies(p)[i].at[k].seq)'
    BY <1>1 DEF ResetsSound, Bodies
  <2>1. Begins(p, k, Bodies(p)[i].at[k].epoch, Bodies(p)[i].at[k].seq)
    BY DEF ResetsSound
  <2>2. k \in LiveIds
    BY EntryTypes
  <2>3. k # l
    BY <1>1, <2>1 DEF Begins
  <2>4. bases'[k] = bases[k]
    BY <1>4, <2>2, <2>3
  <2> QED BY <1>1, <2>1, <2>4 DEF Begins, Bodies
<1>11. Grows
  <2>1. ASSUME NEW k \in LiveIds
        PROVE  /\ Len(hist[k]) <= Len(hist'[k])
               /\ \A i \in 1..Len(hist[k]) : hist'[k][i] = hist[k][i]
               /\ Len(bases[k]) <= Len(bases'[k])
               /\ \A e \in 1..Len(bases[k]) : bases'[k][e] = bases[k][e]
               /\ bases[k] # <<>> /\ Len(bases[k]) < Len(bases'[k]) =>
                    bases'[k][Len(bases[k]) + 1].at > Len(hist[k])
    BY <1>1, <1>4, HistoryTypes
  <2>2. Len(log) \in Nat /\ \A p \in 1..Len(log) : Len(Bodies(p)) \in Nat
    BY EntryTypes DEF ServerTyped
  <2> QED BY <1>1, <2>1, <2>2 DEF Grows, Bodies
<1> QED BY <1>6, <1>7, <1>8, <1>9, <1>10, <1>11

\* An opened publication has nothing in it.
LEMMA OpenKeeps ==
  ASSUME ServerInv, OpenPublication
  PROVE  ServerInv' /\ Grows
<1> USE DEF ServerInv
<1> DEFINE new == [bodies |-> <<>>, staged |-> <<Nothing>>, resets |-> {}, done |-> FALSE]
<1>1. log' = Append(log, new) /\ hist' = hist /\ bases' = bases
  BY DEF OpenPublication
<1>2. \A p \in 1..Len(log) : log[p].done
  BY AllDone DEF OpenPublication
<1>3. new \in Entry
  <2>1. Nothing \in [LiveIds -> Batch]
    BY DEF Nothing, Batch
  <2>2. <<Nothing>> \in Seq([LiveIds -> Batch])
    BY <2>1
  <2> QED BY <2>2 DEF Entry
<1>4. new.bodies = <<>> /\ new.staged = <<Nothing>> /\ new.resets = {} /\ new.done = FALSE
  OBVIOUS
<1> HIDE DEF new
<1>5. /\ log \in Seq(Entry) /\ log' \in Seq(Entry) /\ Len(log) \in Nat
      /\ Len(log') = Len(log) + 1 /\ log'[Len(log) + 1] = new
      /\ \A p \in 1..Len(log) : log'[p] = log[p]
  BY <1>1, <1>3, AppendProperties DEF ServerTyped
<1>6. ASSUME NEW p \in 1..Len(log'), p \notin 1..Len(log)
      PROVE  p = Len(log) + 1 /\ log'[p] = new
  BY <1>5, <1>6
<1>7. ServerTyped' /\ BasesSound'
  BY <1>1, <1>5 DEF ServerTyped, BasesSound
<1>8. StagedSound'
  <2> SUFFICES ASSUME NEW p \in 1..Len(log')
               PROVE  /\ p < Len(log') => log'[p].done
                      /\ Len(log'[p].staged) = Len(log'[p].bodies) + 1
                      /\ log'[p].staged[1] = Nothing
                      /\ \A i \in 1..Len(log'[p].bodies) : \A l \in LiveIds : Grown(p, i, l)'
    BY DEF StagedSound, Bodies
  <2>1. CASE p \in 1..Len(log)
    <3>1. log'[p] = log[p] /\ log[p].done
      BY <1>2, <1>5, <2>1
    <3>2. /\ Len(log[p].staged) = Len(log[p].bodies) + 1 /\ log[p].staged[1] = Nothing
          /\ \A i \in 1..Len(log[p].bodies) : \A l \in LiveIds : Grown(p, i, l)
      BY <2>1 DEF StagedSound, Bodies
    <3>3. ASSUME NEW i \in 1..Len(log[p].bodies), NEW l \in LiveIds
          PROVE  Grown(p, i, l)'
      <4>1. Grown(p, i, l)
        BY <3>2
      <4> QED BY <3>1, <4>1 DEF Grown, Bodies
    <3> QED BY <3>1, <3>2, <3>3
  <2>2. CASE p \notin 1..Len(log)
    <3>1. p = Len(log') /\ log'[p] = new
      BY <1>5, <1>6, <2>2
    <3>2. Len(new.bodies) = 0 /\ Len(new.staged) = 1 /\ new.staged[1] = Nothing
      BY <1>4
    <3> QED BY <1>5, <3>1, <3>2
  <2> QED BY <2>1, <2>2
<1>9. ChangesSound'
  <2> SUFFICES ASSUME NEW p \in 1..Len(log'), NEW i \in 1..Len(log'[p].bodies),
                      NEW k \in log'[p].bodies[i].targets,
                      log'[p].bodies[i].type = "keyed_results"
               PROVE  Placed(p, k, log[p].bodies[i].at[k].epoch, log[p].bodies[i].at[k].seq)'
    BY DEF ChangesSound, Bodies
  <2>1. p \in 1..Len(log) /\ log'[p] = log[p]
    BY <1>4, <1>5, <1>6
  <2>2. Placed(p, k, log[p].bodies[i].at[k].epoch, log[p].bodies[i].at[k].seq)
    BY <2>1 DEF ChangesSound, Bodies
  <2> QED BY <1>1, <2>1, <2>2 DEF Placed, Whole, Bodies
<1>10. ResetsSound'
  <2> SUFFICES ASSUME NEW p \in 1..Len(log'), NEW i \in 1..Len(log'[p].bodies),
                      NEW k \in log'[p].bodies[i].targets,
                      log'[p].bodies[i].type = "reset_required"
               PROVE  Begins(p, k, log[p].bodies[i].at[k].epoch, log[p].bodies[i].at[k].seq)'
    BY DEF ResetsSound, Bodies
  <2>1. p \in 1..Len(log) /\ log'[p] = log[p]
    BY <1>4, <1>5, <1>6
  <2>2. Begins(p, k, log[p].bodies[i].at[k].epoch, log[p].bodies[i].at[k].seq)
    BY <2>1 DEF ResetsSound, Bodies
  <2> QED BY <1>1, <2>1, <2>2 DEF Begins, Bodies
<1>11. Grows
  <2>1. \A k \in LiveIds : Len(hist[k]) \in Nat /\ Len(bases[k]) \in Nat
    BY HistoryTypes
  <2>2. \A p \in 1..Len(log) : Len(Bodies(p)) \in Nat
    BY EntryTypes
  <2> QED BY <1>1, <1>5, <2>1, <2>2 DEF Grows, Bodies
<1> QED BY <1>7, <1>8, <1>9, <1>10, <1>11

LEMMA AppendMore ==
  ASSUME NEW S, NEW s \in Seq(S), NEW e \in S, NEW m \in Nat, Len(s) = m
  PROVE  /\ Append(s, e) \in Seq(S) /\ Len(Append(s, e)) = m + 1
         /\ Append(s, e)[m + 1] = e /\ \A i \in 1..m : Append(s, e)[i] = s[i]
BY AppendProperties

LEMMA LastIndex ==
  ASSUME NEW n \in Nat, NEW i \in 1..(n + 1), i \notin 1..n
  PROVE  i = n + 1
OBVIOUS

\* A batch of a query is named, and a query that is reset has none.
LEMMA BatchTypes ==
  ASSUME ServerInv, Publishing, NEW p, NEW n, p = Len(log), n = Len(log[p].bodies)
  PROVE  /\ p \in 1..Len(log) /\ n \in Nat /\ <<p, n>> \in Fragment
         /\ log[p].staged[n + 1] \in [LiveIds -> Batch] /\ log[p].resets \subseteq LiveIds
<1> USE DEF ServerInv
<1>1. p \in 1..Len(log) /\ p \in Nat
  BY DEF Publishing, ServerTyped
<1>2. /\ log[p].staged \in Seq([LiveIds -> Batch]) /\ n \in Nat
      /\ log[p].resets \subseteq LiveIds
  BY <1>1, EntryTypes DEF Bodies
<1>3. n + 1 \in 1..Len(log[p].staged)
  BY <1>1, <1>2 DEF StagedSound, Bodies
<1>4. log[p].staged[n + 1] \in [LiveIds -> Batch]
  BY <1>2, <1>3, ElementOfSeq
<1> QED BY <1>1, <1>2, <1>4 DEF Fragment

\* Publication p has one more body, its n-th from zero, and nothing else changes.
BodyAdded(p, n, type, targets, staged, resets, at) ==
  /\ p \in 1..Len(log) /\ n \in Nat /\ ~log[p].done
  /\ hist' = hist /\ bases' = bases /\ Len(log') = Len(log) /\ log' \in Seq(Entry)
  /\ \A q \in 1..Len(log) : q # p => log'[q] = log[q]
  /\ Len(log'[p].bodies) = n + 1
  /\ log'[p].bodies[n + 1] = [type |-> type, targets |-> targets, at |-> at]
  /\ \A i \in 1..n : log'[p].bodies[i] = log[p].bodies[i]
  /\ Len(log[p].staged) = n + 1 /\ Len(log'[p].staged) = n + 2
  /\ log'[p].staged[n + 2] = staged
  /\ \A i \in 1..n + 1 : log'[p].staged[i] = log[p].staged[i]
  /\ log'[p].resets = log[p].resets \cup resets /\ ~log'[p].done

\* What appending one body does to the log.
LEMMA AddBodyFacts ==
  ASSUME ServerInv, Publishing,
         NEW type \in {"keyed_results", "reset_required"}, NEW targets \in SUBSET LiveIds,
         NEW staged \in [LiveIds -> Batch], NEW resets \in SUBSET LiveIds,
         NEW at \in [LiveIds -> Place], NEW p, NEW n,
         p = Len(log), n = Len(log[p].bodies),
         AddBody(type, targets, staged, resets, at)
  PROVE  BodyAdded(p, n, type, targets, staged, resets, at)
<1> USE DEF ServerInv
<1> DEFINE body == [type |-> type, targets |-> targets, at |-> at]
<1>1. log \in Seq(Entry) /\ log # <<>> /\ Len(log) \in Nat /\ ~log[Len(log)].done
  BY DEF Publishing, ServerTyped
<1>2. p \in 1..Len(log) /\ ~log[p].done
  BY <1>1
<1>3. /\ log[p] \in Entry /\ Bodies(p) \in Seq(Body) /\ n \in Nat
      /\ log[p].staged \in Seq([LiveIds -> Batch]) /\ log[p].resets \subseteq LiveIds
  BY <1>2, EntryTypes DEF Bodies
<1>4. Len(log[p].staged) = n + 1
  BY <1>2 DEF StagedSound, Bodies
<1>5. body \in Body
  BY DEF Body
<1> HIDE DEF body
<1>6. /\ Append(log[p].bodies, body) \in Seq(Body)
      /\ Len(Append(log[p].bodies, body)) = n + 1
      /\ Append(log[p].bodies, body)[n + 1] = body
      /\ \A i \in 1..n : Append(log[p].bodies, body)[i] = log[p].bodies[i]
  BY <1>3, <1>5, AppendProperties DEF Bodies
<1>7. /\ Append(log[p].staged, staged) \in Seq([LiveIds -> Batch])
      /\ Len(Append(log[p].staged, staged)) = n + 2
      /\ Append(log[p].staged, staged)[n + 2] = staged
      /\ \A i \in 1..n + 1 : Append(log[p].staged, staged)[i] = log[p].staged[i]
  <2>1. (n + 1) + 1 = n + 2 /\ n + 1 \in Nat
    BY <1>3
  <2>2. /\ Append(log[p].staged, staged) \in Seq([LiveIds -> Batch])
        /\ Len(Append(log[p].staged, staged)) = (n + 1) + 1
        /\ Append(log[p].staged, staged)[(n + 1) + 1] = staged
        /\ \A i \in 1..n + 1 : Append(log[p].staged, staged)[i] = log[p].staged[i]
    <3> PICK r \in Seq([LiveIds -> Batch]) : r = log[p].staged
      BY <1>3
    <3>1. Len(r) = n + 1
      BY <1>4
    <3>2. PICK k \in Nat : k = n + 1
      BY <2>1
    <3>3. /\ Append(r, staged) \in Seq([LiveIds -> Batch]) /\ Len(Append(r, staged)) = k + 1
          /\ Append(r, staged)[k + 1] = staged /\ \A i \in 1..k : Append(r, staged)[i] = r[i]
      BY <3>1, <3>2, AppendMore
    <3> QED BY <3>2, <3>3
  <2> QED BY <2>1, <2>2
<1>8. log' = [log EXCEPT ![p].bodies = Append(@, body),
                         ![p].staged = Append(@, staged),
                         ![p].resets = @ \cup resets]
      /\ hist' = hist /\ bases' = bases
  BY DEF AddBody, body
<1> DEFINE new == [log[p] EXCEPT !.bodies = Append(log[p].bodies, body),
                                 !.staged = Append(log[p].staged, staged),
                                 !.resets = log[p].resets \cup resets]
<1>9. /\ new \in Entry /\ new.bodies = Append(log[p].bodies, body)
      /\ new.staged = Append(log[p].staged, staged)
      /\ new.resets = log[p].resets \cup resets /\ new.done = log[p].done
  BY <1>3, <1>6, <1>7 DEF Entry
<1>10. log' = [log EXCEPT ![p] = new]
  BY <1>1, <1>2, <1>3, <1>8 DEF Entry
<1> HIDE DEF new
<1>11. /\ log' \in Seq(Entry) /\ Len(log') = Len(log) /\ log'[p] = new
       /\ \A q \in 1..Len(log) : q # p => log'[q] = log[q]
  BY <1>1, <1>2, <1>9, <1>10, ExceptSeq
<1>12. /\ Len(log'[p].bodies) = n + 1
       /\ log'[p].bodies[n + 1] = [type |-> type, targets |-> targets, at |-> at]
       /\ \A i \in 1..n : log'[p].bodies[i] = log[p].bodies[i]
  BY <1>6, <1>9, <1>11 DEF body
<1>13. /\ Len(log[p].staged) = n + 1 /\ Len(log'[p].staged) = n + 2
       /\ log'[p].staged[n + 2] = staged
       /\ \A i \in 1..n + 1 : log'[p].staged[i] = log[p].staged[i]
  BY <1>4, <1>7, <1>9, <1>11
<1>14. log'[p].resets = log[p].resets \cup resets /\ ~log'[p].done
  BY <1>2, <1>9, <1>11
<1> QED
  BY <1>2, <1>3, <1>8, <1>11, <1>12, <1>13, <1>14 DEF BodyAdded

\* A body that stages its fragment, and names the places of its targets.
Truthful(p, n, type, targets, staged, resets, at) ==
  /\ \A l \in LiveIds :
       staged[l] = IF type = "keyed_results" /\ l \in targets
                     THEN Append(log[p].staged[n + 1][l], <<p, n>>)
                     ELSE log[p].staged[n + 1][l]
  /\ \A l \in resets : staged[l] = <<>>
  /\ \A l \in targets :
       /\ bases[l] # <<>>
       /\ type = "keyed_results" =>
            /\ l \notin log[p].resets \cup resets /\ at[l].epoch = Len(bases[l])
            /\ bases[l][Len(bases[l])].at + at[l].seq = Len(hist[l])
       /\ type = "reset_required" =>
            l \in resets /\ at[l].epoch = Len(bases[l]) + 1 /\ at[l].seq = 0

\* Such a body keeps the log sound.
LEMMA AddBodyKeeps ==
  ASSUME ServerInv, Publishing,
         NEW type \in {"keyed_results", "reset_required"}, NEW targets \in SUBSET LiveIds,
         NEW staged \in [LiveIds -> Batch], NEW resets \in SUBSET LiveIds,
         NEW at \in [LiveIds -> Place], NEW p, NEW n,
         p = Len(log), n = Len(log[p].bodies),
         AddBody(type, targets, staged, resets, at),
         Truthful(p, n, type, targets, staged, resets, at)
  PROVE  ServerInv' /\ Grows
<1> DEFINE body == [type |-> type, targets |-> targets, at |-> at]
<1>1. /\ p \in 1..Len(log) /\ n \in Nat /\ ~log[p].done
      /\ hist' = hist /\ bases' = bases /\ Len(log') = Len(log) /\ log' \in Seq(Entry)
      /\ \A q \in 1..Len(log) : q # p => log'[q] = log[q]
      /\ Len(log'[p].bodies) = n + 1
      /\ log'[p].bodies[n + 1] = body
      /\ \A i \in 1..n : log'[p].bodies[i] = log[p].bodies[i]
      /\ Len(log[p].staged) = n + 1 /\ Len(log'[p].staged) = n + 2
      /\ log'[p].staged[n + 2] = staged
      /\ \A i \in 1..n + 1 : log'[p].staged[i] = log[p].staged[i]
      /\ log'[p].resets = log[p].resets \cup resets /\ ~log'[p].done
  <2>1. BodyAdded(p, n, type, targets, staged, resets, at)
    BY AddBodyFacts
  <2> QED BY <2>1 DEF BodyAdded
<1>12. \A l \in LiveIds :
         staged[l] = IF type = "keyed_results" /\ l \in targets
                       THEN Append(log[p].staged[n + 1][l], <<p, n>>)
                       ELSE log[p].staged[n + 1][l]
  BY DEF Truthful
<1>13. \A l \in resets : staged[l] = <<>>
  BY DEF Truthful
<1>14. \A l \in targets :
         /\ bases[l] # <<>>
         /\ type = "keyed_results" =>
              /\ l \notin log[p].resets \cup resets /\ at[l].epoch = Len(bases[l])
              /\ bases[l][Len(bases[l])].at + at[l].seq = Len(hist[l])
         /\ type = "reset_required" =>
              l \in resets /\ at[l].epoch = Len(bases[l]) + 1 /\ at[l].seq = 0
  BY DEF Truthful
<1>15. <<p, n>> \in Fragment /\ log[p].staged[n + 1] \in [LiveIds -> Batch]
  BY BatchTypes
<1>16. (n + 1) + 1 = n + 2 /\ (n + 1) - 1 = n /\ n + 1 \in 1..n + 1
  BY <1>1
<1> USE DEF ServerInv
<1>2. body.type = type /\ body.targets = targets /\ body.at = at
  OBVIOUS
<1> HIDE DEF body
<1>3. ServerTyped' /\ BasesSound'
  BY <1>1 DEF ServerTyped, BasesSound
<1>4. ASSUME NEW l \in LiveIds
      PROVE  Append(log[p].staged[n + 1][l], <<p, n>>) # <<>>
  <2>1. PICK b \in Seq(Fragment) : b = log[p].staged[n + 1][l]
    BY <1>15 DEF Batch
  <2>2. PICK f \in Fragment : f = <<p, n>>
    BY <1>15
  <2>3. Append(b, f) # <<>>
    BY AppendProperties
  <2> QED BY <2>1, <2>2, <2>3
<1>5. ASSUME NEW l \in LiveIds,
             log[p].staged[n + 1][l] # <<>> \/ (type = "keyed_results" /\ l \in targets)
      PROVE  staged[l] # <<>>
  BY <1>4, <1>5, <1>12
<1>6. StagedSound'
  <2> SUFFICES ASSUME NEW q \in 1..Len(log')
               PROVE  /\ q < Len(log') => log'[q].done
                      /\ Len(log'[q].staged) = Len(log'[q].bodies) + 1
                      /\ log'[q].staged[1] = Nothing
                      /\ \A i \in 1..Len(log'[q].bodies) : \A l \in LiveIds : Grown(q, i, l)'
    BY DEF StagedSound, Bodies
  <2>1. /\ q < Len(log) => log[q].done
        /\ Len(log[q].staged) = Len(log[q].bodies) + 1 /\ log[q].staged[1] = Nothing
        /\ \A i \in 1..Len(log[q].bodies) : \A l \in LiveIds : Grown(q, i, l)
    BY <1>1 DEF StagedSound, Bodies
  <2>2. CASE q # p
    <3>1. log'[q] = log[q]
      BY <1>1, <2>2
    <3>2. ASSUME NEW i \in 1..Len(log[q].bodies), NEW l \in LiveIds
          PROVE  Grown(q, i, l)'
      <4>1. Grown(q, i, l)
        BY <2>1
      <4> QED BY <3>1, <4>1 DEF Grown, Bodies
    <3> QED BY <1>1, <2>1, <3>1, <3>2
  <2>3. CASE q = p
    <3>1. ASSUME NEW i \in 1..n, NEW l \in LiveIds
          PROVE  Grown(p, i, l)'
      <4>1. Grown(p, i, l)
        BY <1>1, <2>1, <2>3
      <4>2. log'[p].staged[i] = log[p].staged[i] /\ log'[p].staged[i + 1] = log[p].staged[i + 1]
            /\ log'[p].bodies[i] = log[p].bodies[i]
        BY <1>1
      <4> QED BY <4>1, <4>2 DEF Grown, Bodies
    <3>2. ASSUME NEW l \in LiveIds
          PROVE  Grown(p, n + 1, l)'
      <4>1. /\ log'[p].staged[(n + 1) + 1] = staged
            /\ log'[p].staged[n + 1] = log[p].staged[n + 1]
            /\ log'[p].bodies[n + 1] = body /\ (n + 1) - 1 = n
        BY <1>1, <1>16
      <4> QED BY <1>2, <1>12, <4>1 DEF Grown, Bodies
    <3>3. ASSUME NEW i \in 1..n + 1, NEW l \in LiveIds
          PROVE  Grown(p, i, l)'
      <4>1. CASE i \in 1..n
        BY <3>1, <4>1
      <4>2. CASE i \notin 1..n
        <5>1. i = n + 1
          BY <1>1, <4>2, LastIndex
        <5> QED BY <3>2, <5>1
      <4> QED BY <4>1, <4>2
    <3>4. log'[p].staged[1] = Nothing
      BY <1>1, <2>1, <2>3
    <3> QED BY <1>1, <2>3, <3>3, <3>4
  <2> QED BY <2>2, <2>3
<1>7. ASSUME NEW q \in 1..Len(log), NEW k \in LiveIds, NEW e, NEW s, Placed(q, k, e, s)
      PROVE  Placed(q, k, e, s)'
  <2>1. CASE q # p
    <3>1. log'[q] = log[q]
      BY <1>1, <2>1
    <3> QED BY <1>1, <1>7, <3>1 DEF Placed, Whole, Bodies
  <2>2. CASE q = p
    <3>1. Whole(p, k) = log[p].staged[n + 1][k] /\ Whole(p, k)' = staged[k]
      BY <1>1, <1>16 DEF Whole, Bodies
    <3>2. staged[k] # <<>> /\ k \notin resets
      BY <1>5, <1>7, <1>13, <2>2, <3>1 DEF Placed
    <3> QED BY <1>1, <1>7, <2>2, <3>1, <3>2 DEF Placed
  <2> QED BY <2>1, <2>2
<1>8. ASSUME NEW q \in 1..Len(log), NEW k \in LiveIds, NEW e, NEW s, Begins(q, k, e, s)
      PROVE  Begins(q, k, e, s)'
  <2>1. CASE q # p
    BY <1>1, <1>8, <2>1 DEF Begins
  <2>2. CASE q = p
    BY <1>1, <1>8, <2>2 DEF Begins
  <2> QED BY <2>1, <2>2
<1>9. ChangesSound'
  <2> SUFFICES ASSUME NEW q \in 1..Len(log'), NEW i \in 1..Len(log'[q].bodies),
                      NEW k \in log'[q].bodies[i].targets,
                      log'[q].bodies[i].type = "keyed_results",
                      NEW e, NEW s, e = log'[q].bodies[i].at[k].epoch,
                      s = log'[q].bodies[i].at[k].seq
               PROVE  Placed(q, k, e, s)'
    BY DEF ChangesSound, Bodies
  <2>1. CASE log'[q].bodies[i] = log[q].bodies[i] /\ i \in 1..Len(log[q].bodies)
    <3>1. Placed(q, k, e, s)
      <4>1. /\ q \in 1..Len(log) /\ log[q].bodies[i].type = "keyed_results"
            /\ k \in log[q].bodies[i].targets
            /\ e = log[q].bodies[i].at[k].epoch /\ s = log[q].bodies[i].at[k].seq
        BY <1>1, <2>1
      <4> QED BY <2>1, <4>1 DEF ChangesSound, Bodies
    <3>2. k \in LiveIds
      BY <1>1, <2>1, EntryTypes DEF Bodies
    <3> QED BY <1>1, <1>7, <3>1, <3>2
  <2>2. CASE ~(log'[q].bodies[i] = log[q].bodies[i] /\ i \in 1..Len(log[q].bodies))
    <3>1. q = p
      BY <1>1, <2>2
    <3>2. i = n + 1 /\ log'[q].bodies[i] = body
      <4>1. i \in 1..n + 1 /\ n \in Nat /\ n = Len(log[q].bodies)
        BY <1>1, <3>1
      <4>2. i \notin 1..n
        BY <1>1, <2>2, <3>1, <4>1
      <4>3. i = n + 1
        BY <4>1, <4>2, LastIndex
      <4> QED BY <1>1, <3>1, <4>3
    <3>3. k \in targets /\ type = "keyed_results" /\ e = at[k].epoch /\ s = at[k].seq
      BY <1>2, <3>2
    <3>4. Whole(p, k)' = staged[k]
      BY <1>1, <1>16 DEF Whole, Bodies
    <3>5. Len(bases[k]) \in Nat \ {0}
      BY <1>14, <3>3 DEF ServerTyped
    <3>6. /\ staged[k] # <<>> /\ k \notin log'[p].resets /\ e = Len(bases[k])
          /\ bases[k][e].at + s = Len(hist[k])
      BY <1>1, <1>5, <1>14, <3>3
    <3>7. /\ e \in 1..Len(bases'[k]) /\ k \notin log'[p].resets /\ Whole(p, k)' # <<>>
          /\ e = Len(bases'[k]) /\ bases'[k][e].at + s = Len(hist'[k]) /\ ~log'[p].done
      <4>1. Len(bases[k]) \in 1..Len(bases[k])
        BY <3>5
      <4>2. bases' = bases /\ hist' = hist /\ ~log'[p].done
        BY <1>1
      <4> QED BY <3>4, <3>6, <4>1, <4>2
    <3> QED BY <3>1, <3>7 DEF Placed
  <2> QED BY <2>1, <2>2
<1>10. ResetsSound'
  <2> SUFFICES ASSUME NEW q \in 1..Len(log'), NEW i \in 1..Len(log'[q].bodies),
                      NEW k \in log'[q].bodies[i].targets,
                      log'[q].bodies[i].type = "reset_required",
                      NEW e, NEW s, e = log'[q].bodies[i].at[k].epoch,
                      s = log'[q].bodies[i].at[k].seq
               PROVE  Begins(q, k, e, s)'
    BY DEF ResetsSound, Bodies
  <2>1. CASE log'[q].bodies[i] = log[q].bodies[i] /\ i \in 1..Len(log[q].bodies)
    <3>1. Begins(q, k, e, s)
      <4>1. /\ q \in 1..Len(log) /\ log[q].bodies[i].type = "reset_required"
            /\ k \in log[q].bodies[i].targets
            /\ e = log[q].bodies[i].at[k].epoch /\ s = log[q].bodies[i].at[k].seq
        BY <1>1, <2>1
      <4> QED BY <2>1, <4>1 DEF ResetsSound, Bodies
    <3>2. k \in LiveIds
      BY <1>1, <2>1, EntryTypes DEF Bodies
    <3> QED BY <1>1, <1>8, <3>1, <3>2
  <2>2. CASE ~(log'[q].bodies[i] = log[q].bodies[i] /\ i \in 1..Len(log[q].bodies))
    <3>1. q = p
      BY <1>1, <2>2
    <3>2. i = n + 1 /\ log'[q].bodies[i] = body
      <4>1. i \in 1..n + 1 /\ n \in Nat /\ n = Len(log[q].bodies)
        BY <1>1, <3>1
      <4>2. i \notin 1..n
        BY <1>1, <2>2, <3>1, <4>1
      <4>3. i = n + 1
        BY <4>1, <4>2, LastIndex
      <4> QED BY <1>1, <3>1, <4>3
    <3>3. k \in targets /\ type = "reset_required" /\ e = at[k].epoch /\ s = at[k].seq
      BY <1>2, <3>2
    <3> QED BY <1>1, <1>14, <3>1, <3>3 DEF Begins
  <2> QED BY <2>1, <2>2
<1>11. Grows
  <2>1. \A k \in LiveIds : Len(hist[k]) \in Nat /\ Len(bases[k]) \in Nat
    BY HistoryTypes
  <2>2. Len(log) \in Nat /\ \A q \in 1..Len(log) : Len(Bodies(q)) \in Nat
    BY EntryTypes DEF ServerTyped
  <2>3. ASSUME NEW q \in 1..Len(log)
        PROVE  /\ Len(Bodies(q)) <= Len(log'[q].bodies)
               /\ \A i \in 1..Len(Bodies(q)) : log'[q].bodies[i] = Bodies(q)[i]
               /\ \A i \in 1..Len(Bodies(q)) + 1 : log'[q].staged[i] = log[q].staged[i]
    <3>1. CASE q = p
      BY <1>1, <2>2, <3>1 DEF Bodies
    <3>2. CASE q # p
      BY <1>1, <2>2, <3>2 DEF Bodies
    <3> QED BY <3>1, <3>2
  <2>4. hist' = hist /\ bases' = bases /\ Len(log') = Len(log)
    BY <1>1
  <2>5. \A k \in LiveIds :
          /\ Len(hist[k]) <= Len(hist'[k])
          /\ \A i \in 1..Len(hist[k]) : hist'[k][i] = hist[k][i]
          /\ Len(bases[k]) <= Len(bases'[k])
          /\ \A i \in 1..Len(bases[k]) : bases'[k][i] = bases[k][i]
          /\ bases[k] # <<>> /\ Len(bases[k]) < Len(bases'[k]) =>
               bases'[k][Len(bases[k]) + 1].at > Len(hist[k])
    BY <2>1, <2>4
  <2>6. Len(log) <= Len(log')
    BY <2>2, <2>4
  <2> HIDE DEF ServerInv
  <2> QED BY <2>3, <2>5, <2>6 DEF Grows
<1> QED BY <1>3, <1>6, <1>9, <1>10, <1>11

\* Where the next batch goes.
LEMMA PositionIs ==
  ASSUME ServerInv, NEW l \in LiveIds, bases[l] # <<>>
  PROVE  /\ Position(l) \in Place /\ Position(l).epoch = Len(bases[l])
         /\ bases[l][Len(bases[l])].at + Position(l).seq = Len(hist[l])
<1> USE DEF ServerInv
<1>1. Len(bases[l]) \in Nat \ {0} /\ Len(hist[l]) \in Nat
  BY HistoryTypes
<1>2. bases[l][Len(bases[l])].at \in Nat /\ bases[l][Len(bases[l])].at <= Len(hist[l])
  BY <1>1, HistoryTypes DEF BasesSound
<1>3. Position(l).epoch = Len(bases[l])
      /\ Position(l).seq = Len(hist[l]) - bases[l][Len(bases[l])].at
  BY DEF Position, Epoch
<1>4. Len(hist[l]) - bases[l][Len(bases[l])].at \in Nat
  BY <1>1, <1>2
<1>5. Position(l) \in Place
  BY <1>1, <1>4 DEF Position, Place, Epoch
<1> QED BY <1>1, <1>2, <1>3, <1>5

\* The body that names the changes of a publication for some queries.
LEMMA ChangesBody ==
  ASSUME ServerInv, NEW targets \in SUBSET LiveIds, AddChanges(targets),
         NEW p, NEW n, p = Len(log), n = Len(log[p].bodies)
  PROVE  \E staged \in [LiveIds -> Batch], at \in [LiveIds -> Place] :
           /\ AddBody("keyed_results", targets, staged, {}, at)
           /\ Truthful(p, n, "keyed_results", targets, staged, {}, at)
<1> DEFINE staged == [l \in LiveIds |-> IF l \in targets
                        THEN Append(log[p].staged[n + 1][l], <<p, n>>)
                        ELSE log[p].staged[n + 1][l]]
           at == [l \in LiveIds |-> IF l \in targets THEN Position(l) ELSE NoPosition]
<1>3. /\ Publishing /\ targets \subseteq Attached \ log[p].resets
      /\ AddBody("keyed_results", targets, staged, {}, at)
  BY DEF AddChanges, Staged
<1>4. /\ p \in 1..Len(log) /\ n \in Nat /\ <<p, n>> \in Fragment
      /\ log[p].staged[n + 1] \in [LiveIds -> Batch]
  BY <1>3, BatchTypes
<1>5. staged \in [LiveIds -> Batch]
  BY <1>4, AppendProperties DEF Batch
<1>6. \A l \in targets : bases[l] # <<>> /\ l \notin log[p].resets \cup {}
  BY <1>3 DEF Attached
<1>7. at \in [LiveIds -> Place]
  <2>1. NoPosition \in Place
    BY DEF NoPosition, Place
  <2>2. \A l \in targets : Position(l) \in Place
    BY <1>6, PositionIs
  <2> QED BY <2>1, <2>2
<1>8. \A l \in targets : /\ at[l].epoch = Len(bases[l])
                         /\ bases[l][Len(bases[l])].at + at[l].seq = Len(hist[l])
  BY <1>6, PositionIs
<1>9. \A l \in LiveIds :
        staged[l] = IF "keyed_results" = "keyed_results" /\ l \in targets
                      THEN Append(log[p].staged[n + 1][l], <<p, n>>)
                      ELSE log[p].staged[n + 1][l]
  OBVIOUS
<1> HIDE DEF staged, at
<1>10. Truthful(p, n, "keyed_results", targets, staged, {}, at)
  BY <1>6, <1>8, <1>9 DEF Truthful
<1> QED BY <1>3, <1>5, <1>7, <1>10

LEMMA AddChangesKeeps ==
  ASSUME ServerInv, NEW targets \in SUBSET LiveIds, AddChanges(targets)
  PROVE  ServerInv' /\ Grows
<1>1. PICK p : p = Len(log)
  OBVIOUS
<1>2. PICK n : n = Len(log[p].bodies)
  OBVIOUS
<1>3. PICK staged \in [LiveIds -> Batch], at \in [LiveIds -> Place] :
        /\ AddBody("keyed_results", targets, staged, {}, at)
        /\ Truthful(p, n, "keyed_results", targets, staged, {}, at)
  BY <1>1, <1>2, ChangesBody
<1>4. Publishing
  BY DEF AddChanges
<1> QED BY <1>1, <1>2, <1>3, <1>4, AddBodyKeeps

\* The body that names the resets of a publication.
LEMMA ResetBody ==
  ASSUME ServerInv, NEW targets \in SUBSET LiveIds, AddReset(targets),
         NEW p, NEW n, p = Len(log), n = Len(log[p].bodies)
  PROVE  \E staged \in [LiveIds -> Batch], at \in [LiveIds -> Place] :
           /\ AddBody("reset_required", targets, staged, targets, at)
           /\ Truthful(p, n, "reset_required", targets, staged, targets, at)
<1>3. PICK staged : staged = log[p].staged[n + 1]
  OBVIOUS
<1> DEFINE at == [l \in LiveIds |-> IF l \in targets
                    THEN [epoch |-> Epoch(l) + 1, seq |-> 0] ELSE NoPosition]
<1>4. /\ Publishing
      /\ targets \subseteq {l \in Attached \ log[p].resets : staged[l] = <<>>}
      /\ AddBody("reset_required", targets, staged, targets, at)
  BY <1>3 DEF AddReset, Staged
<1>5. staged \in [LiveIds -> Batch]
  BY <1>3, <1>4, BatchTypes
<1>6. \A l \in targets : bases[l] # <<>> /\ staged[l] = <<>>
  BY <1>4 DEF Attached
<1>7. at \in [LiveIds -> Place]
  <2>1. NoPosition \in Place
    BY DEF NoPosition, Place
  <2>2. \A l \in targets : [epoch |-> Epoch(l) + 1, seq |-> 0] \in Place
    <3>1. \A l \in targets : Len(bases[l]) + 1 \in Nat
      BY HistoryTypes DEF ServerInv
    <3> QED BY <3>1 DEF Place, Epoch
  <2> QED BY <2>1, <2>2
<1>8. \A l \in targets : at[l].epoch = Len(bases[l]) + 1 /\ at[l].seq = 0
  BY DEF Epoch
<1>9. \A l \in LiveIds :
        staged[l] = IF "reset_required" = "keyed_results" /\ l \in targets
                      THEN Append(log[p].staged[n + 1][l], <<p, n>>)
                      ELSE log[p].staged[n + 1][l]
  BY <1>3
<1> HIDE DEF at
<1>10. Truthful(p, n, "reset_required", targets, staged, targets, at)
  BY <1>6, <1>8, <1>9 DEF Truthful
<1> QED BY <1>4, <1>5, <1>7, <1>10

LEMMA AddResetKeeps ==
  ASSUME ServerInv, NEW targets \in SUBSET LiveIds, AddReset(targets)
  PROVE  ServerInv' /\ Grows
<1>1. PICK p : p = Len(log)
  OBVIOUS
<1>2. PICK n : n = Len(log[p].bodies)
  OBVIOUS
<1>3. PICK staged \in [LiveIds -> Batch], at \in [LiveIds -> Place] :
        /\ AddBody("reset_required", targets, staged, targets, at)
        /\ Truthful(p, n, "reset_required", targets, staged, targets, at)
  BY <1>1, <1>2, ResetBody
<1>4. Publishing
  BY DEF AddReset
<1> QED BY <1>1, <1>2, <1>3, <1>4, AddBodyKeeps

\* What a commit does to the history of one query.
LEMMA CommitFacts ==
  ASSUME ServerInv, CommitPublication, NEW p, p = Len(log)
  PROVE  /\ p \in 1..Len(log) /\ ~log[p].done
         /\ log' \in Seq(Entry) /\ Len(log') = Len(log)
         /\ \A q \in 1..Len(log) : q # p => log'[q] = log[q]
         /\ log'[p].bodies = log[p].bodies /\ log'[p].staged = log[p].staged
         /\ log'[p].resets = log[p].resets /\ log'[p].done
         /\ ServerTyped'
         /\ \A l \in LiveIds :
              /\ Len(hist'[l]) \in Nat /\ Len(bases'[l]) \in Nat
              /\ \A i \in 1..Len(hist[l]) : hist'[l][i] = hist[l][i]
              /\ \A e \in 1..Len(bases[l]) : bases'[l][e] = bases[l][e]
              /\ Len(hist'[l]) >= Len(hist[l])
              /\ l \in log[p].resets =>
                   /\ Len(hist'[l]) = Len(hist[l]) + 1 /\ Len(bases'[l]) = Len(bases[l]) + 1
                   /\ bases'[l][Len(bases[l]) + 1].at = Len(hist[l]) + 1
              /\ l \notin log[p].resets =>
                   /\ bases'[l] = bases[l]
                   /\ Whole(p, l) # <<>> =>
                        /\ Len(hist'[l]) = Len(hist[l]) + 1
                        /\ hist'[l][Len(hist[l]) + 1] = Whole(p, l)
<1> USE DEF ServerInv
<1>1. PICK n : n = Len(log[p].bodies)
  OBVIOUS
<1>2. /\ p \in 1..Len(log) /\ n \in Nat /\ <<p, n>> \in Fragment
      /\ log[p].staged[n + 1] \in [LiveIds -> Batch] /\ log[p].resets \subseteq LiveIds
  BY <1>1, BatchTypes DEF CommitPublication
<1>3. ~log[p].done /\ log \in Seq(Entry) /\ log[p] \in Entry /\ p \in Nat
  BY <1>2, EntryTypes DEF CommitPublication, Publishing, ServerTyped
<1> DEFINE new == [log[p] EXCEPT !.done = TRUE]
           batch(l) == IF l \in log[p].resets THEN <<<<p, n>>>> ELSE Whole(p, l)
<1>4. /\ new \in Entry /\ new.bodies = log[p].bodies /\ new.staged = log[p].staged
      /\ new.resets = log[p].resets /\ new.done
  BY <1>3 DEF Entry
<1>5. log' = [log EXCEPT ![p] = new]
  BY <1>2, <1>3 DEF CommitPublication, Entry
<1> HIDE DEF new
<1>6. /\ log' \in Seq(Entry) /\ Len(log') = Len(log) /\ log'[p] = new
      /\ \A q \in 1..Len(log) : q # p => log'[q] = log[q]
  BY <1>2, <1>3, <1>4, <1>5, ExceptSeq
<1>7. \A l \in LiveIds : /\ Whole(p, l) = log[p].staged[n + 1][l] /\ Whole(p, l) \in Batch
                         /\ <<<<p, n>>>> \in Batch /\ <<<<p, n>>>> # <<>>
  BY <1>1, <1>2 DEF Whole, Bodies, Batch
<1>8. /\ hist' = [l \in LiveIds |-> IF batch(l) # <<>>
                    THEN Append(hist[l], batch(l)) ELSE hist[l]]
      /\ bases' = [l \in LiveIds |-> IF l \in log[p].resets
                     THEN Append(bases[l], [at |-> Len(hist[l]) + 1, upto |-> p])
                     ELSE bases[l]]
  BY <1>1, <1>7 DEF CommitPublication, Staged
<1>9. \A l \in LiveIds : batch(l) \in Batch
  BY <1>7
<1>10. ASSUME NEW l \in LiveIds
       PROVE  /\ hist'[l] \in Rows /\ bases'[l] \in Seq(Baseline)
              /\ Len(hist'[l]) \in Nat /\ Len(bases'[l]) \in Nat
              /\ \A i \in 1..Len(hist[l]) : hist'[l][i] = hist[l][i]
              /\ \A e \in 1..Len(bases[l]) : bases'[l][e] = bases[l][e]
              /\ Len(hist'[l]) >= Len(hist[l])
              /\ l \in log[p].resets =>
                   /\ Len(hist'[l]) = Len(hist[l]) + 1 /\ Len(bases'[l]) = Len(bases[l]) + 1
                   /\ bases'[l][Len(bases[l]) + 1].at = Len(hist[l]) + 1
              /\ l \notin log[p].resets =>
                   /\ bases'[l] = bases[l]
                   /\ Whole(p, l) # <<>> =>
                        /\ Len(hist'[l]) = Len(hist[l]) + 1
                        /\ hist'[l][Len(hist[l]) + 1] = Whole(p, l)
  <2> DEFINE base == [at |-> Len(hist[l]) + 1, upto |-> p]
  <2>1. /\ hist[l] \in Seq(Batch) /\ bases[l] \in Seq(Baseline) /\ Len(hist[l]) \in Nat
        /\ Len(bases[l]) \in Nat
    BY HistoryTypes DEF Rows
  <2>2. base \in Baseline /\ base.at = Len(hist[l]) + 1
    BY <1>3, <2>1 DEF Baseline
  <2>3. hist'[l] = IF batch(l) # <<>> THEN Append(hist[l], batch(l)) ELSE hist[l]
    BY <1>8
  <2>4. bases'[l] = IF l \in log[p].resets THEN Append(bases[l], base) ELSE bases[l]
    BY <1>8
  <2> HIDE DEF base
  <2>5. /\ Append(bases[l], base) \in Seq(Baseline)
        /\ Len(Append(bases[l], base)) = Len(bases[l]) + 1
        /\ Append(bases[l], base)[Len(bases[l]) + 1] = base
        /\ \A e \in 1..Len(bases[l]) : Append(bases[l], base)[e] = bases[l][e]
    BY <2>1, <2>2, AppendProperties
  <2>6. /\ Append(hist[l], batch(l)) \in Seq(Batch)
        /\ Len(Append(hist[l], batch(l))) = Len(hist[l]) + 1
        /\ Append(hist[l], batch(l))[Len(hist[l]) + 1] = batch(l)
        /\ \A i \in 1..Len(hist[l]) : Append(hist[l], batch(l))[i] = hist[l][i]
    <3>1. PICK b : b = batch(l)
      OBVIOUS
    <3>2. b \in Batch
      BY <1>9, <3>1
    <3> HIDE DEF batch
    <3> QED BY <2>1, <3>1, <3>2, AppendProperties
  <2>7. l \in log[p].resets => batch(l) # <<>>
    BY <1>7
  <2>8. l \notin log[p].resets => batch(l) = Whole(p, l)
    OBVIOUS
  <2> HIDE DEF batch
  <2>9. CASE l \in log[p].resets
    BY <2>1, <2>2, <2>3, <2>4, <2>5, <2>6, <2>7, <2>9 DEF Rows
  <2>10. CASE l \notin log[p].resets
    BY <2>1, <2>3, <2>4, <2>6, <2>8, <2>10 DEF Rows
  <2> QED BY <2>9, <2>10
<1>11. ServerTyped'
  BY <1>6, <1>8, <1>10 DEF ServerTyped
<1> QED BY <1>2, <1>3, <1>4, <1>6, <1>10, <1>11

\* A commit puts the batches at the places that the bodies named, and begins
\* the epochs that they announced.
LEMMA CommitKeeps ==
  ASSUME ServerInv, CommitPublication
  PROVE  ServerInv' /\ Grows
<1>1. PICK p : p = Len(log)
  OBVIOUS
<1>2. /\ p \in 1..Len(log) /\ ~log[p].done
      /\ log' \in Seq(Entry) /\ Len(log') = Len(log)
      /\ \A q \in 1..Len(log) : q # p => log'[q] = log[q]
      /\ log'[p].bodies = log[p].bodies /\ log'[p].staged = log[p].staged
      /\ log'[p].resets = log[p].resets /\ log'[p].done
      /\ ServerTyped'
  BY <1>1, CommitFacts
<1>3. \A l \in LiveIds :
        /\ Len(hist'[l]) \in Nat /\ Len(bases'[l]) \in Nat
        /\ \A i \in 1..Len(hist[l]) : hist'[l][i] = hist[l][i]
        /\ \A e \in 1..Len(bases[l]) : bases'[l][e] = bases[l][e]
        /\ Len(hist'[l]) >= Len(hist[l])
        /\ l \in log[p].resets =>
             /\ Len(hist'[l]) = Len(hist[l]) + 1 /\ Len(bases'[l]) = Len(bases[l]) + 1
             /\ bases'[l][Len(bases[l]) + 1].at = Len(hist[l]) + 1
        /\ l \notin log[p].resets =>
             /\ bases'[l] = bases[l]
             /\ Whole(p, l) # <<>> =>
                  /\ Len(hist'[l]) = Len(hist[l]) + 1
                  /\ hist'[l][Len(hist[l]) + 1] = Whole(p, l)
  BY <1>1, CommitFacts
<1> USE DEF ServerInv
<1>4. \A l \in LiveIds : /\ Len(hist[l]) \in Nat /\ Len(bases[l]) \in Nat
                         /\ \A e \in 1..Len(bases[l]) : bases[l][e].at \in Nat
  BY HistoryTypes
<1>5. \A q \in 1..Len(log) : /\ log'[q].bodies = log[q].bodies
                             /\ log'[q].staged = log[q].staged
                             /\ log'[q].resets = log[q].resets /\ log'[q].done
  <2> SUFFICES ASSUME NEW q \in 1..Len(log)
               PROVE  /\ log'[q].bodies = log[q].bodies /\ log'[q].staged = log[q].staged
                      /\ log'[q].resets = log[q].resets /\ log'[q].done
    OBVIOUS
  <2>1. CASE q = p
    BY <1>2, <2>1
  <2>2. CASE q # p
    <3>1. q < Len(log)
      BY <1>1, <1>2, <2>2 DEF ServerTyped
    <3>2. log[q].done
      BY <3>1 DEF StagedSound
    <3> QED BY <1>2, <2>2, <3>2
  <2> QED BY <2>1, <2>2
<1>6. \A q \in 1..Len(log) : q # p => log[q].done
  <2> SUFFICES ASSUME NEW q \in 1..Len(log), q # p
               PROVE  log[q].done
    OBVIOUS
  <2>1. q < Len(log)
    BY <1>1, <1>2 DEF ServerTyped
  <2> QED BY <2>1 DEF StagedSound
<1>7. BasesSound'
  <2> SUFFICES ASSUME NEW l \in LiveIds
               PROVE  /\ \A e \in 1..Len(bases'[l]) : bases'[l][e].at <= Len(hist'[l])
                      /\ \A e, f \in 1..Len(bases'[l]) :
                           e < f => bases'[l][e].at < bases'[l][f].at
    BY DEF BasesSound
  <2>1. /\ \A e \in 1..Len(bases[l]) : bases[l][e].at <= Len(hist[l])
        /\ \A e, f \in 1..Len(bases[l]) : e < f => bases[l][e].at < bases[l][f].at
    BY DEF BasesSound
  <2>2. CASE l \in log[p].resets
    <3>1. /\ Len(bases'[l]) = Len(bases[l]) + 1 /\ Len(hist'[l]) = Len(hist[l]) + 1
          /\ bases'[l][Len(bases[l]) + 1].at = Len(hist[l]) + 1
          /\ \A e \in 1..Len(bases[l]) : bases'[l][e].at = bases[l][e].at
      BY <1>3, <2>2
    <3>2. ASSUME NEW e \in 1..Len(bases[l]) + 1
          PROVE  e \in 1..Len(bases[l]) \/ e = Len(bases[l]) + 1
      BY <1>4, LastIndex
    <3>3. \A e \in 1..Len(bases[l]) : bases[l][e].at \in Nat
      BY <1>4
    <3>4. \A e \in 1..Len(bases[l]) + 1 : bases'[l][e].at <= Len(hist[l]) + 1
      <4> SUFFICES ASSUME NEW e \in 1..Len(bases[l]) + 1
                   PROVE  bases'[l][e].at <= Len(hist[l]) + 1
        OBVIOUS
      <4>1. CASE e \in 1..Len(bases[l])
        <5>1. bases'[l][e].at = bases[l][e].at
          BY <3>1, <4>1
        <5>2. bases[l][e].at \in Nat /\ bases[l][e].at <= Len(hist[l])
          BY <2>1, <3>3, <4>1
        <5> QED BY <1>4, <5>1, <5>2
      <4>2. CASE e = Len(bases[l]) + 1
        BY <1>4, <3>1, <4>2
      <4> QED BY <3>2, <4>1, <4>2
    <3>5. ASSUME NEW e \in 1..Len(bases[l]) + 1, NEW f \in 1..Len(bases[l]) + 1, e < f
          PROVE  bases'[l][e].at < bases'[l][f].at
      <4>1. e \in 1..Len(bases[l])
        BY <1>4, <3>5
      <4>2. bases'[l][e].at = bases[l][e].at /\ bases[l][e].at <= Len(hist[l])
        BY <2>1, <3>1, <4>1
      <4>3. CASE f \in 1..Len(bases[l])
        <5>1. bases'[l][f].at = bases[l][f].at /\ bases[l][e].at < bases[l][f].at
          BY <2>1, <3>1, <3>5, <4>1, <4>3
        <5> QED BY <4>2, <5>1
      <4>4. CASE f = Len(bases[l]) + 1
        BY <1>4, <3>1, <3>3, <4>1, <4>2, <4>4
      <4> QED BY <3>2, <4>3, <4>4
    <3> QED BY <3>1, <3>4, <3>5
  <2>3. CASE l \notin log[p].resets
    <3>1. bases'[l] = bases[l] /\ Len(hist'[l]) >= Len(hist[l]) /\ Len(hist'[l]) \in Nat
      BY <1>3, <2>3
    <3> HIDE DEF ServerInv
    <3> QED BY <1>4, <2>1, <3>1
  <2> QED BY <2>2, <2>3
<1>8. StagedSound'
  <2> SUFFICES ASSUME NEW q \in 1..Len(log)
               PROVE  /\ q < Len(log) => log'[q].done
                      /\ Len(log'[q].staged) = Len(log'[q].bodies) + 1
                      /\ log'[q].staged[1] = Nothing
                      /\ \A i \in 1..Len(log'[q].bodies) : \A l \in LiveIds : Grown(q, i, l)'
    BY <1>2 DEF StagedSound, Bodies
  <2>1. /\ Len(log[q].staged) = Len(log[q].bodies) + 1 /\ log[q].staged[1] = Nothing
        /\ \A i \in 1..Len(log[q].bodies) : \A l \in LiveIds : Grown(q, i, l)
    BY DEF StagedSound, Bodies
  <2>2. log'[q].bodies = log[q].bodies /\ log'[q].staged = log[q].staged /\ log'[q].done
    BY <1>5
  <2>3. ASSUME NEW i \in 1..Len(log[q].bodies), NEW l \in LiveIds
        PROVE  Grown(q, i, l)'
    <3>1. Grown(q, i, l)
      BY <2>1
    <3> QED BY <2>2, <3>1 DEF Grown, Bodies
  <2> QED BY <2>1, <2>2, <2>3
<1>9. ASSUME NEW q \in 1..Len(log), NEW k \in LiveIds, NEW e, NEW s \in Nat, Placed(q, k, e, s)
      PROVE  Placed(q, k, e, s)'
  <2>1. /\ Whole(q, k)' = Whole(q, k) /\ log'[q].resets = log[q].resets /\ log'[q].done
    BY <1>5 DEF Whole, Bodies
  <2>2. /\ Len(hist[k]) \in Nat /\ Len(bases[k]) \in Nat /\ e \in 1..Len(bases[k])
        /\ k \notin log[q].resets /\ Whole(q, k) # <<>> /\ bases[k][e].at \in Nat
    BY <1>4, <1>9 DEF Placed
  <2>6. PICK a : a = bases[k][e].at
    OBVIOUS
  <2>7. a \in Nat
    BY <2>2, <2>6
  <2>3. /\ Len(hist'[k]) \in Nat /\ Len(bases'[k]) \in Nat
        /\ Len(bases'[k]) >= Len(bases[k]) /\ bases'[k][e] = bases[k][e]
        /\ Len(hist'[k]) >= Len(hist[k])
        /\ \A i \in 1..Len(hist[k]) : hist'[k][i] = hist[k][i]
    <3>1. Len(bases'[k]) >= Len(bases[k])
      BY <1>3, <1>4
    <3> QED BY <1>3, <2>2, <3>1
  <2>4. CASE q = p
    <3>1. e = Len(bases[k]) /\ a + s = Len(hist[k])
      BY <1>2, <1>9, <2>4, <2>6 DEF Placed
    <3>2. /\ bases'[k] = bases[k] /\ Len(hist'[k]) = Len(hist[k]) + 1
          /\ hist'[k][Len(hist[k]) + 1] = Whole(p, k)
      BY <1>3, <2>2, <2>4
    <3>3. bases'[k][e].at = a /\ ~(e < Len(bases'[k]))
      BY <2>2, <2>6, <3>1, <3>2
    <3>4. a + s < Len(hist'[k]) /\ hist'[k][a + s + 1] = Whole(q, k)
      BY <2>2, <2>4, <3>1, <3>2
    <3> QED BY <2>1, <2>2, <3>2, <3>3, <3>4 DEF Placed
  <2>5. CASE q # p
    <3>1. /\ a + s < Len(hist[k]) /\ hist[k][a + s + 1] = Whole(q, k)
          /\ e < Len(bases[k]) => a + s + 1 < bases[k][e + 1].at
      <4>1. log[q].done
        BY <1>6, <2>5
      <4> QED BY <1>9, <2>6, <4>1 DEF Placed
    <3>2. a + s + 1 \in 1..Len(hist[k])
      BY <2>2, <2>7, <3>1
    <3>6. bases'[k][e].at = a
      BY <2>3, <2>6
    <3>3. /\ a + s < Len(hist'[k]) /\ hist'[k][a + s + 1] = Whole(q, k)
      <4>1. hist'[k][a + s + 1] = hist[k][a + s + 1]
        BY <2>3, <3>2
      <4>2. a + s < Len(hist'[k])
        BY <2>2, <2>3, <2>7, <3>1
      <4> QED BY <3>1, <4>1, <4>2
    <3>4. ASSUME e < Len(bases'[k])
          PROVE  a + s + 1 < bases'[k][e + 1].at
      <4>1. CASE e < Len(bases[k])
        <5>1. e + 1 \in 1..Len(bases[k])
          BY <2>2, <4>1
        <5>2. bases'[k][e + 1] = bases[k][e + 1]
          BY <1>3, <5>1
        <5> QED BY <2>3, <3>1, <4>1, <5>2
      <4>2. CASE ~(e < Len(bases[k]))
        <5>1. e = Len(bases[k])
          BY <2>2, <4>2
        <5>2. k \in log[p].resets
          BY <1>3, <3>4, <5>1, <2>2
        <5>3. bases'[k][e + 1].at = Len(hist[k]) + 1
          BY <1>3, <5>1, <5>2
        <5> QED BY <2>2, <2>7, <3>1, <5>3
      <4> QED BY <4>1, <4>2
    <3>5. e \in 1..Len(bases'[k])
      BY <2>2, <2>3
    <3> QED BY <2>1, <2>2, <3>3, <3>4, <3>5, <3>6 DEF Placed
  <2> QED BY <2>4, <2>5
<1>10. ASSUME NEW q \in 1..Len(log), NEW k \in LiveIds, NEW e, NEW s, Begins(q, k, e, s)
       PROVE  Begins(q, k, e, s)'
  <2>1. log'[q].resets = log[q].resets /\ log'[q].done
    BY <1>5
  <2>2. s = 0 /\ k \in log[q].resets /\ bases[k] # <<>>
    BY <1>10 DEF Begins
  <2>3. Len(bases[k]) \in Nat \ {0} /\ Len(bases'[k]) \in Nat
    BY <1>3, <2>2, HistoryTypes
  <2>4. bases'[k] # <<>> /\ Len(bases'[k]) >= Len(bases[k])
    <3>1. Len(bases'[k]) >= Len(bases[k])
      BY <1>3, <1>4
    <3>2. Len(<<>>) = 0
      OBVIOUS
    <3>3. Len(bases'[k]) # 0
      BY <2>3, <3>1
    <3> QED BY <3>1, <3>2, <3>3
  <2>5. e \in 1..Len(bases'[k])
    <3>1. CASE q = p
      <4>1. e = Len(bases[k]) + 1
        BY <1>2, <1>10, <3>1 DEF Begins
      <4>2. Len(bases'[k]) = Len(bases[k]) + 1
        BY <1>3, <2>2, <3>1
      <4> QED BY <2>3, <4>1, <4>2
    <3>2. CASE q # p
      <4>1. e \in 1..Len(bases[k])
        BY <1>6, <1>10, <3>2 DEF Begins
      <4> QED BY <2>3, <2>4, <4>1
    <3> QED BY <3>1, <3>2
  <2> QED BY <2>1, <2>2, <2>4, <2>5 DEF Begins
<1>11. ChangesSound'
  <2> SUFFICES ASSUME NEW q \in 1..Len(log), NEW i \in 1..Len(log[q].bodies),
                      NEW k \in log[q].bodies[i].targets,
                      log[q].bodies[i].type = "keyed_results",
                      NEW e, NEW s, e = log[q].bodies[i].at[k].epoch,
                      s = log[q].bodies[i].at[k].seq
               PROVE  Placed(q, k, e, s)'
    <3>1. Len(log') = Len(log) /\ \A r \in 1..Len(log) : log'[r].bodies = log[r].bodies
      BY <1>2, <1>5 DEF Bodies
    <3> QED BY <3>1 DEF ChangesSound, Bodies
  <2>1. Placed(q, k, e, s)
    BY DEF ChangesSound, Bodies
  <2>2. k \in LiveIds /\ s \in Nat
    BY EntryTypes DEF Bodies
  <2> QED BY <1>9, <2>1, <2>2
<1>12. ResetsSound'
  <2> SUFFICES ASSUME NEW q \in 1..Len(log), NEW i \in 1..Len(log[q].bodies),
                      NEW k \in log[q].bodies[i].targets,
                      log[q].bodies[i].type = "reset_required",
                      NEW e, NEW s, e = log[q].bodies[i].at[k].epoch,
                      s = log[q].bodies[i].at[k].seq
               PROVE  Begins(q, k, e, s)'
    <3>1. Len(log') = Len(log) /\ \A r \in 1..Len(log) : log'[r].bodies = log[r].bodies
      BY <1>2, <1>5 DEF Bodies
    <3> QED BY <3>1 DEF ResetsSound, Bodies
  <2>1. Begins(q, k, e, s)
    BY DEF ResetsSound, Bodies
  <2>2. k \in LiveIds
    BY EntryTypes DEF Bodies
  <2> QED BY <1>10, <2>1, <2>2
<1>13. Grows
  <2>1. ASSUME NEW k \in LiveIds
        PROVE  /\ Len(hist[k]) <= Len(hist'[k])
               /\ \A i \in 1..Len(hist[k]) : hist'[k][i] = hist[k][i]
               /\ Len(bases[k]) <= Len(bases'[k])
               /\ \A e \in 1..Len(bases[k]) : bases'[k][e] = bases[k][e]
               /\ bases[k] # <<>> /\ Len(bases[k]) < Len(bases'[k]) =>
                    bases'[k][Len(bases[k]) + 1].at > Len(hist[k])
    <3>1. Len(bases[k]) <= Len(bases'[k])
      BY <1>3, <1>4
    <3>2. CASE k \in log[p].resets
      <4>1. bases'[k][Len(bases[k]) + 1].at > Len(hist[k])
        BY <1>3, <1>4, <3>2
      <4> QED BY <1>3, <1>4, <3>1, <4>1
    <3>3. CASE k \notin log[p].resets
      <4>1. ~(Len(bases[k]) < Len(bases'[k]))
        BY <1>3, <1>4, <3>3
      <4> QED BY <1>3, <1>4, <3>1, <4>1
    <3> QED BY <3>2, <3>3
  <2>2. Len(log) \in Nat /\ \A q \in 1..Len(log) : Len(Bodies(q)) \in Nat
    BY EntryTypes DEF ServerTyped
  <2>3. Len(log) <= Len(log')
    BY <1>2, <2>2
  <2>4. \A q \in 1..Len(log) :
          /\ Len(Bodies(q)) <= Len(log'[q].bodies)
          /\ \A i \in 1..Len(Bodies(q)) : log'[q].bodies[i] = Bodies(q)[i]
          /\ \A i \in 1..Len(Bodies(q)) + 1 : log'[q].staged[i] = log[q].staged[i]
    BY <1>5, <2>2 DEF Bodies
  <2> HIDE DEF ServerInv
  <2> QED BY <2>1, <2>3, <2>4 DEF Grows
<1>14. ServerTyped'
  BY <1>2
<1> QED BY <1>7, <1>8, <1>11, <1>12, <1>13, <1>14

\* What the client has taken in stays true while the history grows.
LEMMA ClientFollows ==
  ASSUME IInv, ServerInv', Grows, UNCHANGED clientVars
  PROVE  IInv'
<1>1. /\ pending' = pending /\ registered' = registered /\ active' = active
      /\ subscribed' = subscribed
      /\ live' = live /\ epoch' = epoch /\ nextSeq' = nextSeq /\ attempt' = attempt
      /\ sync' = sync /\ backlog' = backlog /\ publication' = publication
      /\ rows' = rows /\ calls' = calls
  BY DEF clientVars, targetVars, visibleVars
<1>2. /\ Len(log) \in Nat /\ Len(log') \in Nat /\ Len(log) <= Len(log')
      /\ \A p \in 1..Len(log) :
           /\ Len(Bodies(p)) \in Nat /\ Len(log'[p].bodies) \in Nat
           /\ Len(Bodies(p)) <= Len(log'[p].bodies)
           /\ \A i \in 1..Len(Bodies(p)) : log'[p].bodies[i] = Bodies(p)[i]
           /\ \A i \in 1..Len(Bodies(p)) + 1 : log'[p].staged[i] = log[p].staged[i]
  <2>1. log' \in Seq(Entry) /\ Len(log) \in Nat /\ Len(log') \in Nat /\ Len(log) <= Len(log')
    BY DEF IInv, ServerInv, ServerTyped, Grows
  <2>2. ASSUME NEW p \in 1..Len(log)
        PROVE  Len(Bodies(p)) \in Nat /\ Len(log'[p].bodies) \in Nat
    <3>1. Len(Bodies(p)) \in Nat
      BY EntryTypes DEF IInv, ServerInv
    <3>2. log'[p] \in Entry
      BY <2>1, ElementOfSeq
    <3> QED BY <3>1, <3>2 DEF Entry
  <2> QED BY <2>1, <2>2 DEF Grows
<1>3. \A l \in LiveIds :
        /\ Len(hist[l]) \in Nat /\ Len(hist'[l]) \in Nat
        /\ Len(bases[l]) \in Nat /\ Len(bases'[l]) \in Nat
        /\ \A e \in 1..Len(bases[l]) : bases[l][e].at \in Nat
        /\ Len(hist[l]) <= Len(hist'[l])
        /\ \A i \in 1..Len(hist[l]) : hist'[l][i] = hist[l][i]
        /\ Len(bases[l]) <= Len(bases'[l])
        /\ \A e \in 1..Len(bases[l]) : bases'[l][e] = bases[l][e]
        /\ bases[l] # <<>> /\ Len(bases[l]) < Len(bases'[l]) =>
             bases'[l][Len(bases[l]) + 1].at > Len(hist[l])
  <2>1. \A l \in LiveIds : hist'[l] \in Rows /\ bases'[l] \in Seq(Baseline)
    BY DEF ServerInv, ServerTyped
  <2>2. \A l \in LiveIds : Len(hist'[l]) \in Nat /\ Len(bases'[l]) \in Nat
    BY <2>1 DEF Rows
  <2>3. \A l \in LiveIds : /\ Len(hist[l]) \in Nat /\ Len(bases[l]) \in Nat
                           /\ \A e \in 1..Len(bases[l]) : bases[l][e].at \in Nat
    BY HistoryTypes DEF IInv, ServerInv
  <2> QED BY <2>2, <2>3 DEF Grows
<1>4. /\ registered \subseteq LiveIds /\ active \subseteq registered
      /\ \A l \in LiveIds : epoch[l] \in Nat /\ nextSeq[l] \in Nat
      /\ \A l \in LiveIds : Len(rows[l]) \in Nat /\ Len(backlog[l]) \in Nat
                            /\ Len(sync[l].rows) \in Nat
  BY DEF IInv, ClientTyped, Rows, SyncType
<1>5. ClientTyped'
  <2>1. ASSUME NEW l \in registered
        PROVE  bases'[l] # <<>>
    <3>1. bases[l] # <<>> /\ l \in LiveIds
      BY <1>4 DEF IInv, ClientTyped
    <3>2. Len(bases[l]) \in Nat \ {0}
      BY <3>1, HistoryTypes DEF IInv, ServerInv, ServerTyped
    <3>3. Len(bases'[l]) # 0 /\ Len(<<>>) = 0
      BY <1>3, <3>1, <3>2
    <3> QED BY <3>3
  <2> QED BY <1>1, <2>1 DEF IInv, ClientTyped
<1>6. ASSUME NEW l \in LiveIds, NEW r \in Rows, Shows(r, hist[l])
      PROVE  Shows(r, hist'[l])
  <2>1. Len(r) \in Nat
    BY DEF Rows
  <2> QED BY <1>3, <1>6, <2>1 DEF Shows
<1>7. \A l \in LiveIds : Shows(rows[l], hist[l])'
  BY <1>1, <1>6 DEF IInv, TakenIn, ClientTyped
<1>8. \A l \in pending : BlankSound(l)'
  BY <1>1 DEF IInv, TakenIn, BlankSound, Installed, CatchingUp
<1>9. ASSUME NEW l \in active
      PROVE  PlaceSound(l)' /\ RowsSound(l)' /\ SyncSound(l)'
  <2>1. l \in LiveIds /\ PlaceSound(l) /\ RowsSound(l) /\ SyncSound(l)
    BY <1>4, <1>9 DEF IInv, TakenIn
  <2>2. PICK e : e = epoch[l]
    OBVIOUS
  <2>3. PICK a : a = bases[l][e].at
    OBVIOUS
  <2>4. PICK q : q = nextSeq[l]
    OBVIOUS
  <2>5. /\ e \in 1..Len(bases[l]) /\ a \in Nat /\ q \in Nat /\ bases'[l][e].at = a
        /\ Len(bases[l]) \in Nat /\ Len(bases'[l]) \in Nat /\ Len(hist[l]) \in Nat
        /\ Len(hist'[l]) \in Nat
    BY <1>3, <1>4, <2>1, <2>2, <2>3, <2>4 DEF PlaceSound
  <2>6. Start(l) = a /\ Start(l)' = a /\ Reached(l) = a + q /\ Reached(l)' = a + q
    BY <1>1, <2>2, <2>3, <2>4, <2>5 DEF Start, Reached
  <2>7. /\ a + q <= Len(hist[l])
        /\ e < Len(bases[l]) => a + q < bases[l][e + 1].at
    BY <2>1, <2>2, <2>6 DEF PlaceSound
  <2>8. ASSUME e < Len(bases'[l])
        PROVE  a + q < bases'[l][e + 1].at
    <3>1. CASE e < Len(bases[l])
      <4>1. e + 1 \in 1..Len(bases[l])
        BY <2>5, <3>1
      <4>2. bases'[l][e + 1] = bases[l][e + 1]
        BY <1>3, <2>1, <4>1
      <4> QED BY <2>7, <3>1, <4>2
    <3>2. CASE ~(e < Len(bases[l]))
      <4>1. e = Len(bases[l]) /\ Len(bases[l]) # 0
        BY <2>5, <3>2
      <4>2. bases[l] # <<>>
        BY <4>1
      <4>3. bases'[l][e + 1].at > Len(hist[l])
        BY <1>3, <2>1, <2>8, <4>1, <4>2
      <4>4. bases'[l][e + 1].at \in Nat
        <5>1. e + 1 \in 1..Len(bases'[l]) /\ bases'[l] \in Seq(Baseline)
          BY <2>1, <2>5, <2>8 DEF ServerInv, ServerTyped
        <5>2. bases'[l][e + 1] \in Baseline
          BY <5>1, ElementOfSeq
        <5> QED BY <5>2 DEF Baseline
      <4> QED BY <2>5, <2>7, <4>3, <4>4
    <3> QED BY <3>1, <3>2
  <2>9. PlaceSound(l)'
    <3>1. e \in 1..Len(bases'[l]) /\ a + q <= Len(hist'[l])
      BY <1>3, <2>1, <2>5, <2>7
    <3> QED BY <1>1, <2>2, <2>6, <2>8, <3>1 DEF PlaceSound
  <2>10. RowsSound(l)'
    <3>1. Installed(l)' <=> Installed(l)
      BY <1>1 DEF Installed, CatchingUp
    <3>2. /\ Len(rows[l]) <= a + q
          /\ Installed(l) => Len(rows[l]) = a + q
          /\ ~Installed(l) =>
               /\ Len(backlog[l]) = q
               /\ \A i \in 1..Len(backlog[l]) : backlog[l][i] = hist[l][a + i]
      BY <2>1, <2>4, <2>6 DEF RowsSound
    <3>3. ASSUME ~Installed(l), NEW i \in 1..Len(backlog[l])
          PROVE  backlog[l][i] = hist'[l][a + i]
      <4>1. a + i \in 1..Len(hist[l])
        BY <2>5, <2>7, <3>2, <3>3
      <4>2. hist'[l][a + i] = hist[l][a + i]
        BY <1>3, <2>1, <4>1
      <4> QED BY <3>2, <3>3, <4>2
    <3> QED BY <1>1, <2>4, <2>6, <3>1, <3>2, <3>3 DEF RowsSound
  <2>11. SyncSound(l)'
    <3>1. Installed(l)' <=> Installed(l)
      BY <1>1 DEF Installed, CatchingUp
    <3>2. sync[l].rows \in Rows
      BY <2>1 DEF IInv, ClientTyped, SyncType
    <3> QED BY <1>1, <1>6, <2>1, <3>1, <3>2 DEF SyncSound
  <2> QED BY <2>9, <2>10, <2>11
<1>10. PublicationSound'
  <2>1. Batched' = Batched /\ Reset' = Reset
    BY <1>1 DEF Batched, Reset
  <2>2. ASSUME publication.open
        PROVE  StagingSound(publication.id, publication.nextBody)'
    <3>1. PICK p : p = publication.id
      OBVIOUS
    <3>2. PICK n : n = publication.nextBody
      OBVIOUS
    <3>3. StagingSound(p, n)
      BY <2>2, <3>1, <3>2 DEF IInv, TakenIn, PublicationSound
    <3>4. /\ p \in 1..Len(log) /\ n \in 0..Len(Bodies(p))
          /\ \A l \in active \cup pending : StagedAs(p, n, l)
          /\ \A l \in Batched : BatchNamed(p, n, l)
          /\ \A l \in Reset : ResetNamed(p, n, l)
      BY <3>3 DEF StagingSound
    <3>5. /\ n + 1 \in 1..Len(Bodies(p)) + 1 /\ \A i \in 1..n : i \in 1..Len(Bodies(p))
          /\ p \in 1..Len(log') /\ n \in 0..Len(log'[p].bodies)
      BY <1>2, <3>4
    <3>6. /\ log'[p].staged[n + 1] = log[p].staged[n + 1]
          /\ \A i \in 1..n : log'[p].bodies[i] = log[p].bodies[i]
      BY <1>2, <3>4, <3>5 DEF Bodies
    <3>7. \A l \in active \cup pending : StagedAs(p, n, l)'
      BY <1>1, <3>4, <3>6 DEF StagedAs
    <3>8. \A l \in Batched : BatchNamed(p, n, l)'
      BY <1>1, <3>4, <3>6 DEF BatchNamed, Bodies
    <3>9. \A l \in Reset : ResetNamed(p, n, l)'
      BY <1>1, <3>4, <3>6 DEF ResetNamed, Bodies
    <3>10. StagingSound(p, n)'
      BY <1>1, <2>1, <3>5, <3>7, <3>8, <3>9 DEF StagingSound, Bodies
    <3>11. p = publication'.id /\ n = publication'.nextBody
      BY <1>1, <3>1, <3>2
    <3> QED BY <3>10, <3>11
  <2> QED BY <1>1, <2>1, <2>2 DEF IInv, TakenIn, PublicationSound
<1> QED BY <1>1, <1>5, <1>7, <1>8, <1>9, <1>10 DEF IInv, TakenIn

LEMMA ServerSame ==
  ASSUME ServerInv, log' = log, hist' = hist, bases' = bases
  PROVE  ServerInv'
<1>1. ServerTyped' /\ BasesSound'
  BY DEF ServerInv, ServerTyped, BasesSound
<1>2. StagedSound'
  BY DEF ServerInv, StagedSound, Grown, Bodies
<1>3. ChangesSound'
  <2>1. \A p, k, e, s : Placed(p, k, e, s)' <=> Placed(p, k, e, s)
    BY DEF Placed, Whole, Bodies
  <2> QED BY <2>1 DEF ServerInv, ChangesSound, Bodies
<1>4. ResetsSound'
  <2>1. \A p, k, e, s : Begins(p, k, e, s)' <=> Begins(p, k, e, s)
    BY DEF Begins
  <2> QED BY <2>1 DEF ServerInv, ResetsSound, Bodies
<1> QED BY <1>1, <1>2, <1>3, <1>4 DEF ServerInv

\* No step of the service disturbs the client.
LEMMA ServiceKeeps ==
  ASSUME IInv, Serve
  PROVE  IInv'
<1>1. ServerInv' /\ Grows
  <2>1. ASSUME NEW l \in LiveIds, Admit(l)
        PROVE  ServerInv' /\ Grows
    BY <2>1, AdmitKeeps DEF IInv
  <2>2. ASSUME NEW l \in LiveIds, Detach(l)
        PROVE  ServerInv' /\ Grows
    <3>1. log' = log /\ hist' = hist /\ bases' = bases
      BY <2>2 DEF Detach
    <3>2. ServerInv'
      BY <3>1, ServerSame DEF IInv
    <3>3. /\ \A k \in LiveIds : Len(hist[k]) \in Nat /\ Len(bases[k]) \in Nat
          /\ Len(log) \in Nat /\ \A q \in 1..Len(log) : Len(Bodies(q)) \in Nat
      BY HistoryTypes, EntryTypes DEF IInv, ServerInv, ServerTyped
    <3>4. Grows
      BY <3>1, <3>3 DEF Grows, Bodies
    <3> QED BY <3>2, <3>4
  <2>3. CASE OpenPublication
    BY <2>3, OpenKeeps DEF IInv
  <2>4. ASSUME NEW targets \in SUBSET LiveIds, AddChanges(targets)
        PROVE  ServerInv' /\ Grows
    BY <2>4, AddChangesKeeps DEF IInv
  <2>5. ASSUME NEW targets \in SUBSET LiveIds, AddReset(targets)
        PROVE  ServerInv' /\ Grows
    BY <2>5, AddResetKeeps DEF IInv
  <2>6. CASE CommitPublication
    BY <2>6, CommitKeeps DEF IInv
  <2> QED BY <2>1, <2>2, <2>3, <2>4, <2>5, <2>6 DEF Serve
<1>2. UNCHANGED clientVars
  BY DEF Serve
<1> QED BY <1>1, <1>2, ClientFollows

-----------------------------------------------------------------------------
(* The frames.                                                             *)

\* A frame is one of the frames that are true of the history.
LEMMA FrameIs ==
  ASSUME NEW m \in Frames
  PROVE  \/ \E l \in Admitted : m = SubscribedFrame(l)
         \/ \E l \in detached : m = UnsubscribedFrame(l)
         \/ \E l \in Admitted : \E e \in DOMAIN bases[l] : \E a \in 1..MaxAttempts :
              \/ m = StartFrame(l, e, a) \/ m = EndFrame(l, e, a)
              \/ \E i \in 0..(bases[l][e].at - 1) : m = BatchFrame(l, e, a, i)
         \/ \E p \in DOMAIN log :
              \/ m = OpenFrame(p)
              \/ \E i \in 0..(Len(log[p].bodies) - 1) : m = BodyFrame(p, i)
         \/ \E p \in Done : \E ordered \in BOOLEAN : m = CommitFrame(p, ordered)
         \/ \E p \in Done \cup {0} : m = ProgressFrame(p)
<1>1. CASE m \in BaselineFrames
  <2>1. PICK l \in Admitted :
          m \in UNION {{StartFrame(l, e, a), EndFrame(l, e, a)}
                         \cup {BatchFrame(l, e, a, i) : i \in 0..(bases[l][e].at - 1)}
                       : e \in DOMAIN bases[l], a \in 1..MaxAttempts}
    BY <1>1 DEF BaselineFrames
  <2>2. PICK e \in DOMAIN bases[l], a \in 1..MaxAttempts :
          m \in {StartFrame(l, e, a), EndFrame(l, e, a)}
                  \cup {BatchFrame(l, e, a, i) : i \in 0..(bases[l][e].at - 1)}
    BY <2>1
  <2> QED BY <2>2
<1>2. CASE m \in PublicationFrames
  <2>1. CASE m \in {OpenFrame(p) : p \in DOMAIN log}
    BY <2>1
  <2>2. CASE m \in UNION {{BodyFrame(p, i) : i \in 0..(Len(log[p].bodies) - 1)}
                         : p \in DOMAIN log}
    <3>1. PICK p \in DOMAIN log :
            m \in {BodyFrame(p, i) : i \in 0..(Len(log[p].bodies) - 1)}
      BY <2>2
    <3> QED BY <3>1
  <2>3. CASE m \in {CommitFrame(p, ordered) : p \in Done, ordered \in BOOLEAN}
    <3>1. PICK p \in Done, ordered \in BOOLEAN : m = CommitFrame(p, ordered)
      BY <2>3
    <3> QED BY <3>1
  <2>4. CASE m \in {ProgressFrame(p) : p \in Done \cup {0}}
    BY <2>4
  <2>5. \/ m \in {OpenFrame(p) : p \in DOMAIN log}
        \/ m \in UNION {{BodyFrame(p, i) : i \in 0..(Len(log[p].bodies) - 1)}
                        : p \in DOMAIN log}
        \/ m \in {CommitFrame(p, ordered) : p \in Done, ordered \in BOOLEAN}
        \/ m \in {ProgressFrame(p) : p \in Done \cup {0}}
    BY <1>2 DEF PublicationFrames
  <2> QED BY <2>1, <2>2, <2>3, <2>4, <2>5
<1>3. CASE m \in {SubscribedFrame(l) : l \in Admitted}
             \/ m \in {UnsubscribedFrame(l) : l \in detached}
  BY <1>3
<1> QED BY <1>1, <1>2, <1>3 DEF Frames

\* A body is sent as it stands in the log.
LEMMA BodyFrameIs ==
  ASSUME ServerTyped, NEW p \in DOMAIN log, NEW i \in 0..(Len(log[p].bodies) - 1), NEW m,
         m = BodyFrame(p, i)
  PROVE  /\ p \in 1..Len(log) /\ i + 1 \in 1..Len(Bodies(p))
         /\ m.type = Bodies(p)[i + 1].type /\ m.type \in {"keyed_results", "reset_required"}
         /\ m.targets = Bodies(p)[i + 1].targets /\ m.at = Bodies(p)[i + 1].at
         /\ m.pub = p /\ m.index = i /\ m.tx = p
<1>1. p \in 1..Len(log)
  BY DEF ServerTyped
<1>2. Bodies(p) \in Seq(Body) /\ Len(Bodies(p)) \in Nat
  BY <1>1, EntryTypes
<1>3. i + 1 \in 1..Len(Bodies(p))
  BY <1>2 DEF Bodies
<1>4. Bodies(p)[i + 1] \in Body
  BY <1>1, <1>3, EntryTypes
<1>5. Bodies(p)[i + 1].type \in {"keyed_results", "reset_required"}
  BY <1>4 DEF Body
<1> QED BY <1>1, <1>3, <1>5 DEF BodyFrame, Bodies

LEMMA SubscribedTells ==
  ASSUME NEW m \in Frames, ServerTyped, m.type = "subscribed"
  PROVE  m.id \in LiveIds /\ bases[m.id] # <<>> /\ m.epoch = 1 /\ m.first = 0
<1>1. PICK l \in Admitted : m = SubscribedFrame(l)
  <2>1. ASSUME NEW p \in DOMAIN log, NEW i \in 0..(Len(log[p].bodies) - 1)
        PROVE  BodyFrame(p, i).type # "subscribed"
    BY <2>1, BodyFrameIs
  <2> QED BY <2>1, FrameIs DEF UnsubscribedFrame, StartFrame, EndFrame, BatchFrame, OpenFrame,
                     CommitFrame, ProgressFrame
<1> QED BY <1>1 DEF Admitted, SubscribedFrame

LEMMA StartTells ==
  ASSUME NEW m \in Frames, ServerTyped, m.type = "baseline_sync_start"
  PROVE  m.attempt \in Nat /\ m.upto \in Nat
<1>1. \A p \in DOMAIN log : \A i \in 0..(Len(log[p].bodies) - 1) :
        BodyFrame(p, i).type # "baseline_sync_start"
  BY BodyFrameIs
<1>2. PICK l \in Admitted : \E e \in DOMAIN bases[l] : \E a \in 1..MaxAttempts :
        m = StartFrame(l, e, a)
  BY <1>1, FrameIs DEF SubscribedFrame, UnsubscribedFrame, EndFrame, BatchFrame, OpenFrame,
                       CommitFrame, ProgressFrame
<1>3. PICK e \in DOMAIN bases[l], a \in 1..MaxAttempts : m = StartFrame(l, e, a)
  BY <1>2
<1>4. bases[l] \in Seq(Baseline)
  BY DEF Admitted, ServerTyped
<1>5. bases[l][e] \in Baseline
  BY <1>4, ElementOfSeq
<1> QED BY <1>3, <1>5, ServerBounds DEF StartFrame, Baseline

LEMMA BatchTells ==
  ASSUME NEW m \in Frames, ServerTyped, BasesSound, m.type = "baseline_sync_batch"
  PROVE  /\ m.index \in Nat /\ m.index + 1 \in 1..Len(hist[m.id])
         /\ m.rows = <<hist[m.id][m.index + 1]>>
<1>1. \A p \in DOMAIN log : \A i \in 0..(Len(log[p].bodies) - 1) :
        BodyFrame(p, i).type # "baseline_sync_batch"
  BY BodyFrameIs
<1>2. PICK l \in Admitted : \E e \in DOMAIN bases[l] : \E a \in 1..MaxAttempts :
        \E i \in 0..(bases[l][e].at - 1) : m = BatchFrame(l, e, a, i)
  BY <1>1, FrameIs DEF SubscribedFrame, UnsubscribedFrame, EndFrame, StartFrame, OpenFrame,
                       CommitFrame, ProgressFrame
<1>3. PICK e \in DOMAIN bases[l], a \in 1..MaxAttempts :
        \E i \in 0..(bases[l][e].at - 1) : m = BatchFrame(l, e, a, i)
  BY <1>2
<1>4. PICK i \in 0..(bases[l][e].at - 1) : m = BatchFrame(l, e, a, i)
  BY <1>3
<1>5. l \in LiveIds /\ e \in 1..Len(bases[l]) /\ Len(hist[l]) \in Nat
      /\ bases[l][e].at \in Nat
  BY HistoryTypes DEF Admitted, ServerTyped
<1>6. bases[l][e].at <= Len(hist[l])
  BY <1>5 DEF BasesSound
<1>7. i \in Nat /\ i + 1 \in 1..Len(hist[l])
  BY <1>5, <1>6
<1> QED BY <1>4, <1>7 DEF BatchFrame

LEMMA EndTells ==
  ASSUME NEW m \in Frames, ServerTyped, m.type = "baseline_sync_end"
  PROVE  m.count = bases[m.id][m.epoch].at
<1>1. \A p \in DOMAIN log : \A i \in 0..(Len(log[p].bodies) - 1) :
        BodyFrame(p, i).type # "baseline_sync_end"
  BY BodyFrameIs
<1>2. PICK l \in Admitted : \E e \in DOMAIN bases[l] : \E a \in 1..MaxAttempts :
        m = EndFrame(l, e, a)
  BY <1>1, FrameIs DEF SubscribedFrame, UnsubscribedFrame, StartFrame, BatchFrame, OpenFrame,
                       CommitFrame, ProgressFrame
<1>3. PICK e \in DOMAIN bases[l], a \in 1..MaxAttempts : m = EndFrame(l, e, a)
  BY <1>2
<1> QED BY <1>3 DEF EndFrame

LEMMA OpenTells ==
  ASSUME NEW m \in Frames, ServerTyped, m.type = "open"
  PROVE  m.pub \in 1..Len(log)
<1>1. \A p \in DOMAIN log : \A i \in 0..(Len(log[p].bodies) - 1) :
        BodyFrame(p, i).type # "open"
  BY BodyFrameIs
<1>2. PICK p \in DOMAIN log : m = OpenFrame(p)
  BY <1>1, FrameIs DEF SubscribedFrame, UnsubscribedFrame, StartFrame, EndFrame, BatchFrame,
                       CommitFrame, ProgressFrame
<1> QED BY <1>2 DEF OpenFrame, ServerTyped

LEMMA BodyTells ==
  ASSUME NEW m \in Frames, ServerTyped, m.type \in {"keyed_results", "reset_required"}
  PROVE  /\ m.pub \in 1..Len(log) /\ m.index \in Nat /\ m.tx = m.pub
         /\ m.index + 1 \in 1..Len(Bodies(m.pub))
         /\ m.type = Bodies(m.pub)[m.index + 1].type
         /\ m.targets = Bodies(m.pub)[m.index + 1].targets
         /\ m.at = Bodies(m.pub)[m.index + 1].at
<1>1. PICK p \in DOMAIN log : \E i \in 0..(Len(log[p].bodies) - 1) : m = BodyFrame(p, i)
  BY FrameIs DEF SubscribedFrame, UnsubscribedFrame, StartFrame, EndFrame, BatchFrame,
                 OpenFrame, CommitFrame, ProgressFrame
<1>2. PICK i \in 0..(Len(log[p].bodies) - 1) : m = BodyFrame(p, i)
  BY <1>1
<1> QED BY <1>2, BodyFrameIs

LEMMA CommitTells ==
  ASSUME NEW m \in Frames, ServerTyped, m.type = "commit"
  PROVE  m.pub \in 1..Len(log) /\ log[m.pub].done /\ m.count = Len(Bodies(m.pub))
<1>1. \A p \in DOMAIN log : \A i \in 0..(Len(log[p].bodies) - 1) :
        BodyFrame(p, i).type # "commit"
  BY BodyFrameIs
<1>2. PICK p \in Done : \E ordered \in BOOLEAN : m = CommitFrame(p, ordered)
  BY <1>1, FrameIs DEF SubscribedFrame, UnsubscribedFrame, StartFrame, EndFrame, BatchFrame,
                       OpenFrame, ProgressFrame
<1> QED BY <1>2 DEF CommitFrame, Done, Bodies, ServerTyped

-----------------------------------------------------------------------------
(* What leaves a query as it is.                                           *)

\* Nothing the client knows of an active query has changed.
LEMMA TargetSame ==
  ASSUME NEW l, PlaceSound(l), RowsSound(l), SyncSound(l),
         bases' = bases, hist' = hist, epoch'[l] = epoch[l], nextSeq'[l] = nextSeq[l],
         rows'[l] = rows[l], backlog'[l] = backlog[l], sync'[l] = sync[l],
         Installed(l)' <=> Installed(l)
  PROVE  PlaceSound(l)' /\ RowsSound(l)' /\ SyncSound(l)'
<1>1. Start(l)' = Start(l) /\ Reached(l)' = Reached(l)
  BY DEF Start, Reached
<1>2. PlaceSound(l)'
  BY <1>1 DEF PlaceSound
<1>3. RowsSound(l)'
  BY <1>1 DEF RowsSound
<1>4. SyncSound(l)'
  BY DEF SyncSound, Shows
<1> QED BY <1>2, <1>3, <1>4

\* The open publication loses what it has for some queries, and no more.
LEMMA PublicationShrinks ==
  ASSUME PublicationSound, log' = log,
         publication'.open = publication.open, publication'.id = publication.id,
         publication'.nextBody = publication.nextBody,
         active' \cup pending' \subseteq active \cup pending,
         \A l \in active' \cup pending' : publication'.batches[l] = publication.batches[l],
         Batched' \subseteq Batched \cap active', Reset' \subseteq Reset \cap active',
         \A l \in Batched' \cup Reset' :
           /\ epoch'[l] = epoch[l] /\ nextSeq'[l] = nextSeq[l]
           /\ publication'.resets[l] = publication.resets[l]
  PROVE  PublicationSound'
<1>1. CASE publication.open
  <2>1. PICK p : p = publication.id
    OBVIOUS
  <2>2. PICK n : n = publication.nextBody
    OBVIOUS
  <2>3. /\ p \in 1..Len(log) /\ n \in 0..Len(Bodies(p))
        /\ \A l \in active \cup pending : StagedAs(p, n, l)
        /\ \A l \in Batched : BatchNamed(p, n, l)
        /\ \A l \in Reset : ResetNamed(p, n, l)
    BY <1>1, <2>1, <2>2 DEF PublicationSound, StagingSound
  <2>4. \A l \in active' \cup pending' : StagedAs(p, n, l)'
    BY <2>3 DEF StagedAs
  <2>5. ASSUME NEW l \in Batched'
        PROVE  BatchNamed(p, n, l)'
    <3>1. BatchNamed(p, n, l) /\ epoch'[l] = epoch[l] /\ nextSeq'[l] = nextSeq[l]
      BY <2>3
    <3> QED BY <3>1 DEF BatchNamed, Bodies
  <2>6. ASSUME NEW l \in Reset'
        PROVE  ResetNamed(p, n, l)'
    <3>1. /\ ResetNamed(p, n, l) /\ epoch'[l] = epoch[l]
          /\ publication'.resets[l] = publication.resets[l]
      BY <2>3
    <3> QED BY <3>1 DEF ResetNamed, Bodies
  <2>7. StagingSound(p, n)'
    BY <2>3, <2>4, <2>5, <2>6 DEF StagingSound, Bodies
  <2>8. p = publication'.id /\ n = publication'.nextBody
    BY <2>1, <2>2
  <2> QED BY <1>1, <2>7, <2>8 DEF PublicationSound
<1>2. CASE ~publication.open
  BY <1>2 DEF PublicationSound
<1> QED BY <1>1, <1>2

LEMMA BlankPublication ==
  /\ NoPublication \in PublicationType /\ ~NoPublication.open
  /\ \A l \in LiveIds : NoPublication.batches[l] = <<>> /\ NoPublication.resets[l] = NoReset
<1>1. Nothing \in [LiveIds -> Batch]
  BY DEF Nothing, Batch
<1>2. [l \in LiveIds |-> NoReset] \in [LiveIds -> [epoch : Nat, first : Nat]]
  BY DEF NoReset
<1>3. NoPublication \in PublicationType /\ ~NoPublication.open
  BY <1>1, <1>2 DEF NoPublication, PublicationType
<1>4. \A l \in LiveIds : NoPublication.batches[l] = <<>> /\ NoPublication.resets[l] = NoReset
  BY DEF NoPublication, Nothing
<1> QED BY <1>3, <1>4

\* Nothing is active, pending or staged when the connection has ended.
LEMMA EndKeeps ==
  ASSUME IInv, NEW how, EndConnection(how), UNCHANGED serverVars
  PROVE  IInv'
<1>1. /\ log' = log /\ hist' = hist /\ bases' = bases
      /\ pending' = {} /\ subscribed' = {} /\ registered' = {} /\ active' = {} /\ live' = {}
      /\ publication' = NoPublication /\ calls' = <<>> /\ rows' = rows
      /\ epoch' = epoch /\ nextSeq' = nextSeq /\ attempt' = attempt /\ sync' = sync
      /\ backlog' = backlog
  BY DEF EndConnection, serverVars
<1>2. ServerInv'
  BY <1>1, ServerSame DEF IInv
<1>3. ClientTyped'
  <2>1. NoPublication \in PublicationType
    BY BlankPublication
  <2>2. <<>> \in Seq(ListenerCall)
    OBVIOUS
  <2> QED BY <1>1, <2>1, <2>2 DEF IInv, ClientTyped
<1>4. \A l \in LiveIds : Shows(rows[l], hist[l])'
  BY <1>1 DEF IInv, TakenIn, Shows
<1>5. PublicationSound'
  <2>1. Batched' = {} /\ Reset' = {} /\ ~publication'.open
    BY <1>1, BlankPublication DEF Batched, Reset
  <2> QED BY <1>1, <2>1 DEF PublicationSound
<1> QED BY <1>1, <1>2, <1>3, <1>4, <1>5 DEF IInv, TakenIn

LEMMA InitKeeps ==
  ASSUME UnorderedInit
  PROVE  IInv
<1>1. ServerInv
  <2>1. log = <<>> /\ bases = [l \in LiveIds |-> <<>>]
        /\ hist \in [LiveIds -> {<<>>, <<InitialBatch>>}]
    BY DEF UnorderedInit, ServerInit
  <2>2. <<>> \in Rows /\ <<InitialBatch>> \in Rows
    <3>1. <<0, 0>> \in Fragment
      BY DEF Fragment
    <3>2. InitialBatch \in Batch
      BY <3>1 DEF InitialBatch, Batch
    <3> QED BY <3>2 DEF Rows
  <2>3. ServerTyped
    BY <2>1, <2>2 DEF ServerTyped
  <2>4. Len(log) = 0 /\ \A l \in LiveIds : Len(bases[l]) = 0
    BY <2>1
  <2> QED BY <2>3, <2>4 DEF ServerInv, BasesSound, StagedSound, ChangesSound, ResetsSound
<1>2. /\ pending = LiveIds /\ subscribed = LiveIds /\ registered = {} /\ active = {}
      /\ live = {} /\ epoch = [l \in LiveIds |-> 0] /\ nextSeq = [l \in LiveIds |-> 0]
      /\ attempt = [l \in LiveIds |-> 0] /\ sync = [l \in LiveIds |-> NoSync]
      /\ backlog = Nothing /\ publication = NoPublication /\ rows = Nothing /\ calls = <<>>
  BY DEF UnorderedInit, ClientInit
<1>3. ClientTyped
  <2>1. NoPublication \in PublicationType
    BY BlankPublication
  <2>2. /\ <<>> \in Seq(ListenerCall) /\ Nothing \in [LiveIds -> Rows]
        /\ NoSync \in SyncType
    BY DEF Nothing, Rows, NoSync, SyncType
  <2> QED BY <1>2, <2>1, <2>2 DEF ClientTyped
<1>4. \A l \in LiveIds : Shows(rows[l], hist[l])
  <2>1. \A l \in LiveIds : rows[l] = <<>> /\ Len(hist[l]) \in Nat
    BY <1>1, <1>2, HistoryTypes DEF Nothing, ServerInv
  <2> QED BY <2>1 DEF Shows
<1>5. \A l \in pending : BlankSound(l)
  BY <1>2 DEF BlankSound, Nothing, Installed, CatchingUp
<1>6. PublicationSound
  <2>1. Batched = {} /\ Reset = {} /\ ~publication.open
    BY <1>2, BlankPublication DEF Batched, Reset
  <2> QED BY <1>2, <2>1 DEF PublicationSound
<1> QED BY <1>1, <1>2, <1>3, <1>4, <1>5, <1>6 DEF IInv, TakenIn

LEMMA ClientTypes ==
  ASSUME IInv, NEW l \in LiveIds
  PROVE  /\ epoch[l] \in Nat /\ nextSeq[l] \in Nat
         /\ rows[l] \in Rows /\ backlog[l] \in Rows /\ sync[l] \in SyncType
         /\ sync[l].rows \in Rows /\ sync[l].nextBatch \in Nat
         /\ Len(rows[l]) \in Nat /\ Len(backlog[l]) \in Nat /\ Len(sync[l].rows) \in Nat
<1>1. /\ epoch[l] \in Nat /\ nextSeq[l] \in Nat
      /\ rows[l] \in Rows /\ backlog[l] \in Rows /\ sync[l] \in SyncType
  BY DEF IInv, ClientTyped
<1>2. sync[l].rows \in Rows /\ sync[l].nextBatch \in Nat
  BY <1>1 DEF SyncType
<1> QED BY <1>1, <1>2 DEF Rows

\* A step leaves what is kept of a query, and staged for it, as it was.
Untouched(l) ==
  /\ epoch'[l] = epoch[l] /\ nextSeq'[l] = nextSeq[l] /\ sync'[l] = sync[l]
  /\ backlog'[l] = backlog[l] /\ (Installed(l)' <=> Installed(l))
  /\ publication'.batches[l] = publication.batches[l]
  /\ publication'.resets[l] = publication.resets[l]

\* Fewer queries are active, and the others are as they were.
LEMMA FewerActive ==
  ASSUME IInv, UNCHANGED serverVars, ClientTyped',
         active' \subseteq active, pending' = pending, rows' = rows,
         \A l \in active' \cup pending : Untouched(l),
         publication'.open = publication.open, publication'.id = publication.id,
         publication'.nextBody = publication.nextBody,
         Batched' \subseteq Batched \cap active', Reset' \subseteq Reset \cap active'
  PROVE  IInv'
<1>1. log' = log /\ hist' = hist /\ bases' = bases
  BY DEF serverVars
<1>2. ServerInv'
  BY <1>1, ServerSame DEF IInv
<1>3. \A l \in LiveIds : Shows(rows[l], hist[l])'
  BY <1>1 DEF IInv, TakenIn, Shows
<1>4. ASSUME NEW l \in pending
      PROVE  BlankSound(l)'
  <2>1. BlankSound(l)
    BY DEF IInv, TakenIn
  <2>2. Untouched(l)
    OBVIOUS
  <2> QED BY <2>1, <2>2 DEF BlankSound, Untouched
<1>5. ASSUME NEW l \in active'
      PROVE  PlaceSound(l)' /\ RowsSound(l)' /\ SyncSound(l)'
  <2>1. PlaceSound(l) /\ RowsSound(l) /\ SyncSound(l)
    BY DEF IInv, TakenIn
  <2>2. Untouched(l)
    OBVIOUS
  <2> QED BY <1>1, <2>1, <2>2, TargetSame DEF Untouched
<1>6. PublicationSound'
  <2>1. PublicationSound
    BY DEF IInv, TakenIn
  <2>2. \A l \in active' \cup pending' : publication'.batches[l] = publication.batches[l]
    BY DEF Untouched
  <2>3. \A l \in Batched' \cup Reset' :
          /\ epoch'[l] = epoch[l] /\ nextSeq'[l] = nextSeq[l]
          /\ publication'.resets[l] = publication.resets[l]
    BY DEF Untouched
  <2>4. active' \cup pending' \subseteq active \cup pending
    OBVIOUS
  <2> QED BY <1>1, <2>1, <2>2, <2>3, <2>4, PublicationShrinks
<1> QED BY <1>2, <1>3, <1>4, <1>5, <1>6 DEF IInv, TakenIn

\* Nothing has changed but what the properties do not read, or who is told.
LEMMA SameTargets ==
  ASSUME IInv, UNCHANGED serverVars,
         UNCHANGED <<pending, registered, active, epoch, nextSeq, attempt, sync, backlog,
                     publication, rows>>,
         subscribed' \subseteq LiveIds, calls' \in Seq(ListenerCall),
         \A l \in LiveIds : Installed(l)' <=> Installed(l)
  PROVE  IInv'
<1>1. ClientTyped'
  BY DEF IInv, ClientTyped, serverVars
<1>2. Batched' = Batched /\ Reset' = Reset
  BY DEF Batched, Reset
<1>3. Batched \subseteq active /\ Reset \subseteq active
  BY DEF IInv, TakenIn, PublicationSound
<1>4. active \cup pending \subseteq LiveIds
  BY DEF IInv, ClientTyped
<1>5. \A l \in active' \cup pending : Untouched(l)
  BY <1>4 DEF Untouched
<1> QED BY <1>1, <1>2, <1>3, <1>5, FewerActive

LEMMA ClientIdle ==
  ASSUME IInv, UNCHANGED serverVars, UNCHANGED clientVars
  PROVE  IInv'
<1>1. \A l \in LiveIds : Installed(l)' <=> Installed(l)
  BY DEF clientVars, targetVars, Installed, CatchingUp
<1>2. subscribed' \subseteq LiveIds /\ calls' \in Seq(ListenerCall)
  BY DEF clientVars, IInv, ClientTyped
<1> QED BY <1>1, <1>2, SameTargets DEF clientVars, targetVars, visibleVars

\* One query is treated, and what is known of it afterwards is sound.
LEMMA OneTarget ==
  ASSUME IInv, UNCHANGED serverVars, UNCHANGED publication, ClientTyped',
         NEW l \in active \cup pending, l \notin Batched \cup Reset,
         active \subseteq active', active' \subseteq active \cup {l},
         pending' \subseteq pending \ {l},
         \A k \in (active' \cup pending') \ {l} : rows'[k] = rows[k] /\ Untouched(k),
         \A k \in LiveIds : Shows(rows'[k], hist[k]),
         PlaceSound(l)' /\ RowsSound(l)' /\ SyncSound(l)'
  PROVE  IInv'
<1>1. log' = log /\ hist' = hist /\ bases' = bases
  BY DEF serverVars
<1>2. ServerInv'
  BY <1>1, ServerSame DEF IInv
<1>3. \A k \in LiveIds : Shows(rows[k], hist[k])'
  BY <1>1
<1>4. ASSUME NEW k \in pending'
      PROVE  BlankSound(k)'
  <2>1. BlankSound(k) /\ rows'[k] = rows[k] /\ Untouched(k)
    BY DEF IInv, TakenIn
  <2> QED BY <2>1 DEF BlankSound, Untouched
<1>5. ASSUME NEW k \in active', k # l
      PROVE  PlaceSound(k)' /\ RowsSound(k)' /\ SyncSound(k)'
  <2>1. k \in active /\ rows'[k] = rows[k] /\ Untouched(k)
    BY <1>5
  <2>2. PlaceSound(k) /\ RowsSound(k) /\ SyncSound(k)
    BY <2>1 DEF IInv, TakenIn
  <2> QED BY <1>1, <2>1, <2>2, TargetSame DEF Untouched
<1>6. PublicationSound'
  <2>1. PublicationSound /\ Batched' = Batched /\ Reset' = Reset
    BY DEF IInv, TakenIn, Batched, Reset
  <2>2. Batched \subseteq active /\ Reset \subseteq active
    BY <2>1 DEF PublicationSound
  <2>3. \A k \in Batched' \cup Reset' :
          /\ epoch'[k] = epoch[k] /\ nextSeq'[k] = nextSeq[k]
          /\ publication'.resets[k] = publication.resets[k]
    BY <2>1, <2>2 DEF Untouched
  <2>4. active' \cup pending' \subseteq active \cup pending
    OBVIOUS
  <2> QED BY <1>1, <2>1, <2>2, <2>3, <2>4, PublicationShrinks
<1> QED BY <1>2, <1>3, <1>4, <1>5, <1>6 DEF IInv, TakenIn

\* Publication d is publication c without what it has for l.
Blanked(c, d, l) ==
  /\ d \in PublicationType /\ d.open = c.open /\ d.id = c.id /\ d.nextBody = c.nextBody
  /\ d.batches[l] = <<>> /\ d.resets[l] = NoReset
  /\ \A k \in LiveIds \ {l} : d.batches[k] = c.batches[k] /\ d.resets[k] = c.resets[k]

LEMMA BlankedPublication ==
  ASSUME NEW c \in PublicationType, NEW l \in LiveIds, NEW d,
         d = [c EXCEPT !.batches[l] = <<>>, !.resets[l] = NoReset]
  PROVE  Blanked(c, d, l)
<1>1. c.batches \in [LiveIds -> Batch] /\ c.resets \in [LiveIds -> [epoch : Nat, first : Nat]]
  BY DEF PublicationType
<1>2. <<>> \in Batch /\ NoReset \in [epoch : Nat, first : Nat]
  BY DEF Batch, NoReset
<1>3. /\ [c.batches EXCEPT ![l] = <<>>] \in [LiveIds -> Batch]
      /\ [c.resets EXCEPT ![l] = NoReset] \in [LiveIds -> [epoch : Nat, first : Nat]]
  BY <1>1, <1>2
<1>4. /\ d.open = c.open /\ d.id = c.id /\ d.nextBody = c.nextBody
      /\ d.batches = [c.batches EXCEPT ![l] = <<>>]
      /\ d.resets = [c.resets EXCEPT ![l] = NoReset]
  BY DEF PublicationType
<1>5. d \in PublicationType
  BY <1>3 DEF PublicationType
<1> QED BY <1>1, <1>4, <1>5 DEF Blanked

\* A query is active no more, and nothing is kept or staged for it.
LEMMA RemovalKeeps ==
  ASSUME IInv, UNCHANGED serverVars, NEW l \in registered,
         registered' \in {registered, registered \ {l}},
         active' = active \ {l}, live' = live \ {l},
         sync' \in {sync, [sync EXCEPT ![l] = NoSync]},
         backlog' = [backlog EXCEPT ![l] = <<>>],
         publication' = [publication EXCEPT !.batches[l] = <<>>, !.resets[l] = NoReset],
         UNCHANGED <<pending, epoch, nextSeq, attempt, rows>>,
         subscribed' \subseteq LiveIds, calls' \in Seq(ListenerCall),
         \A k \in LiveIds \ {l} : CatchingUp(k)' <=> CatchingUp(k)
  PROVE  IInv'
<1>1. /\ registered \subseteq LiveIds /\ active \subseteq registered /\ pending \subseteq LiveIds
      /\ l \notin pending /\ l \in LiveIds
  BY DEF IInv, ClientTyped
<1>2. /\ backlog' \in [LiveIds -> Rows] /\ sync' \in [LiveIds -> SyncType]
      /\ \A k \in LiveIds \ {l} : backlog'[k] = backlog[k] /\ sync'[k] = sync[k]
  <2>1. NoSync \in SyncType /\ <<>> \in Rows
    BY DEF NoSync, SyncType, Rows
  <2> QED BY <2>1 DEF IInv, ClientTyped
<1>3. /\ publication' \in PublicationType
      /\ publication'.open = publication.open /\ publication'.id = publication.id
      /\ publication'.nextBody = publication.nextBody
      /\ publication'.batches[l] = <<>> /\ publication'.resets[l] = NoReset
      /\ \A k \in LiveIds \ {l} : /\ publication'.batches[k] = publication.batches[k]
                                  /\ publication'.resets[k] = publication.resets[k]
  <2>1. publication \in PublicationType
    BY DEF IInv, ClientTyped
  <2>2. PICK c : c = publication
    OBVIOUS
  <2>3. PICK d : d = publication'
    OBVIOUS
  <2>4. d = [c EXCEPT !.batches[l] = <<>>, !.resets[l] = NoReset]
    BY <2>2, <2>3
  <2>5. c \in PublicationType
    BY <2>1, <2>2
  <2>6. Blanked(c, d, l)
    BY <1>1, <2>4, <2>5, BlankedPublication
  <2> QED BY <2>2, <2>3, <2>6 DEF Blanked
<1>4. ClientTyped'
  BY <1>1, <1>2, <1>3 DEF IInv, ClientTyped, serverVars
<1>5. \A k \in active' \cup pending : Untouched(k)
  BY <1>1, <1>2, <1>3 DEF Untouched, Installed
<1>6. Batched' \subseteq Batched \cap active' /\ Reset' \subseteq Reset \cap active'
  <2>1. Batched \subseteq active /\ Reset \subseteq active
    BY DEF IInv, TakenIn, PublicationSound
  <2>2. Batched' \subseteq Batched \ {l} /\ Reset' \subseteq Reset \ {l}
    BY <1>3 DEF Batched, Reset
  <2> QED BY <2>1, <2>2
<1> QED BY <1>3, <1>4, <1>5, <1>6, FewerActive

-----------------------------------------------------------------------------
(* The handlers.                                                           *)

LEMMA SubscribedKeeps ==
  ASSUME IInv, NEW m \in Frames, Subscribed(m), calls = <<>>, UNCHANGED serverVars
  PROVE  IInv'
<1>1. CASE ProtocolFailure
  BY <1>1, EndKeeps DEF ProtocolFailure
<1>2. CASE ~ProtocolFailure
  <2>1. PICK l : l = m.id
    OBVIOUS
  <2>2. /\ m.type = "subscribed" /\ l \in pending /\ l \notin registered
        /\ pending' = pending \ {l} /\ registered' = registered \cup {l}
        /\ active' = active \cup (subscribed \cap {l})
        /\ epoch' = [epoch EXCEPT ![l] = m.epoch]
        /\ nextSeq' = [nextSeq EXCEPT ![l] = m.first]
        /\ UNCHANGED <<subscribed, live, attempt, sync, backlog, publication, rows, calls>>
    BY <1>2, <2>1 DEF Subscribed, visibleVars
  <2>3. l \in LiveIds /\ bases[l] # <<>> /\ m.epoch = 1 /\ m.first = 0
    BY <2>1, <2>2, SubscribedTells DEF IInv, ServerInv
  <2>4. /\ epoch' \in [LiveIds -> Nat] /\ nextSeq' \in [LiveIds -> Nat]
        /\ epoch'[l] = 1 /\ nextSeq'[l] = 0
        /\ \A k \in LiveIds : k # l => epoch'[k] = epoch[k] /\ nextSeq'[k] = nextSeq[k]
    BY <2>2, <2>3 DEF IInv, ClientTyped
  <2>5. bases' = bases /\ hist' = hist /\ log' = log
    BY DEF serverVars
  <2>6. ClientTyped'
    <3>1. registered' \subseteq LiveIds \ pending' /\ active' \subseteq registered'
      BY <2>2, <2>3 DEF IInv, ClientTyped
    <3>2. \A k \in registered' : bases'[k] # <<>>
      BY <2>2, <2>3, <2>5 DEF IInv, ClientTyped
    <3> QED BY <2>2, <2>4, <3>1, <3>2 DEF IInv, ClientTyped
  <2>7. \A k \in LiveIds : Installed(k)' <=> Installed(k)
    BY <2>2 DEF Installed, CatchingUp
  <2>8. active \subseteq registered /\ registered \subseteq LiveIds /\ pending \subseteq LiveIds
    BY DEF IInv, ClientTyped
  <2>9. \A k \in (active \cup pending) \ {l} : rows'[k] = rows[k] /\ Untouched(k)
    BY <2>2, <2>4, <2>7, <2>8 DEF Untouched
  <2>10. BlankSound(l) /\ PublicationSound
    BY <2>2 DEF IInv, TakenIn
  <2>11. l \notin Batched \cup Reset
    BY <2>2, <2>8, <2>10 DEF PublicationSound
  <2>12. PlaceSound(l)' /\ RowsSound(l)' /\ SyncSound(l)'
    <3>1. /\ Len(bases[l]) \in Nat /\ Len(bases[l]) # 0 /\ Len(hist[l]) \in Nat
          /\ \A e \in 1..Len(bases[l]) : bases[l][e].at \in Nat
      BY <2>3, HistoryTypes DEF IInv, ServerInv, ServerTyped
    <3>2. 1 \in 1..Len(bases[l]) /\ bases[l][1].at \in Nat
      BY <3>1
    <3>3. /\ bases[l][1].at <= Len(hist[l])
          /\ 1 < Len(bases[l]) => bases[l][1].at < bases[l][2].at
      BY <2>3, <3>1, <3>2 DEF IInv, ServerInv, BasesSound
    <3>4. Start(l)' = bases[l][1].at /\ Reached(l)' = bases[l][1].at
      BY <2>4, <2>5, <3>2 DEF Start, Reached
    <3>5. PlaceSound(l)'
      BY <2>4, <2>5, <3>2, <3>3, <3>4 DEF PlaceSound
    <3>6. RowsSound(l)'
      <4>1. rows'[l] = <<>> /\ backlog'[l] = <<>> /\ ~Installed(l)'
        BY <2>2, <2>3, <2>7, <2>10 DEF BlankSound
      <4> QED BY <2>4, <3>2, <3>4, <4>1 DEF RowsSound
    <3>7. SyncSound(l)'
      <4>1. sync'[l] = NoSync
        BY <2>2, <2>10 DEF BlankSound
      <4> QED BY <4>1 DEF SyncSound, NoSync
    <3> QED BY <3>5, <3>6, <3>7
  <2>13. \A k \in LiveIds : Shows(rows'[k], hist[k])
    BY <2>2 DEF IInv, TakenIn
  <2>14. CASE l \in subscribed
    <3>1. active' = active \cup {l} /\ pending' = pending \ {l} /\ publication' = publication
      BY <2>2, <2>14
    <3> QED BY <2>2, <2>6, <2>9, <2>11, <2>12, <2>13, <3>1, OneTarget
  <2>15. CASE l \notin subscribed
    <3>1. active' = active /\ pending' = pending \ {l} /\ publication' = publication
      BY <2>2, <2>15
    <3>2. ServerInv'
      BY <2>5, ServerSame DEF IInv
    <3>3. \A k \in LiveIds : Shows(rows[k], hist[k])'
      BY <2>5, <2>13
    <3>4. ASSUME NEW k \in pending'
          PROVE  BlankSound(k)'
      <4>1. BlankSound(k) /\ rows'[k] = rows[k] /\ Untouched(k)
        BY <2>9, <3>1 DEF IInv, TakenIn
      <4> QED BY <4>1 DEF BlankSound, Untouched
    <3>5. ASSUME NEW k \in active'
          PROVE  PlaceSound(k)' /\ RowsSound(k)' /\ SyncSound(k)'
      <4>1. k \in active /\ k # l
        BY <2>2, <2>8, <3>1
      <4>2. PlaceSound(k) /\ RowsSound(k) /\ SyncSound(k) /\ rows'[k] = rows[k] /\ Untouched(k)
        BY <2>9, <4>1 DEF IInv, TakenIn
      <4> QED BY <2>5, <4>2, TargetSame DEF Untouched
    <3>6. PublicationSound'
      <4>1. Batched' = Batched /\ Reset' = Reset
        BY <3>1 DEF Batched, Reset
      <4>2. Batched \subseteq active /\ Reset \subseteq active
        BY <2>10 DEF PublicationSound
      <4>3. \A k \in Batched' \cup Reset' :
              /\ epoch'[k] = epoch[k] /\ nextSeq'[k] = nextSeq[k]
              /\ publication'.resets[k] = publication.resets[k]
        BY <2>4, <2>8, <2>11, <3>1, <4>1, <4>2
      <4> QED BY <2>5, <2>10, <3>1, <4>1, <4>2, <4>3, PublicationShrinks
    <3> QED BY <2>6, <3>2, <3>3, <3>4, <3>5, <3>6 DEF IInv, TakenIn
  <2> QED BY <2>14, <2>15
<1> QED BY <1>1, <1>2

LEMMA UnsubscribedKeeps ==
  ASSUME IInv, NEW m \in Frames, Unsubscribed(m), calls = <<>>, UNCHANGED serverVars
  PROVE  IInv'
<1>1. CASE ProtocolFailure
  BY <1>1, EndKeeps DEF ProtocolFailure
<1>2. CASE ~ProtocolFailure
  <2>1. PICK l : l = m.id
    OBVIOUS
  <2>2. /\ l \in registered
        /\ registered' = registered \ {l} /\ active' = active \ {l} /\ live' = live \ {l}
        /\ backlog' = [backlog EXCEPT ![l] = <<>>]
        /\ publication' = [publication EXCEPT !.batches[l] = <<>>, !.resets[l] = NoReset]
        /\ UNCHANGED <<pending, subscribed, epoch, nextSeq, attempt, sync, rows, calls>>
    BY <1>2, <2>1 DEF Unsubscribed, visibleVars
  <2>3. subscribed' \subseteq LiveIds /\ calls' \in Seq(ListenerCall)
    BY <2>2 DEF IInv, ClientTyped
  <2>4. \A k \in LiveIds \ {l} : CatchingUp(k)' <=> CatchingUp(k)
    BY <2>2 DEF CatchingUp
  <2>5. /\ registered' \in {registered, registered \ {l}}
        /\ sync' \in {sync, [sync EXCEPT ![l] = NoSync]}
        /\ UNCHANGED <<pending, epoch, nextSeq, attempt, rows>>
    BY <2>2
  <2> QED BY <2>2, <2>3, <2>4, <2>5, RemovalKeeps
<1> QED BY <1>1, <1>2

\* A baseline frame that is not taken in changes nothing, or ends the connection.
LEMMA RefusalKeeps ==
  ASSUME IInv, NEW m, NEW invalid \in BOOLEAN, NotAccepted(m, invalid), UNCHANGED serverVars
  PROVE  IInv'
<1>1. CASE ProtocolFailure
  BY <1>1, EndKeeps DEF ProtocolFailure
<1>2. CASE UNCHANGED clientVars
  BY <1>2, ClientIdle
<1> QED BY <1>1, <1>2 DEF NotAccepted

\* No publication is open when a baseline frame is taken in.
LEMMA NothingStaged ==
  ASSUME IInv, ~publication.open
  PROVE  Batched = {} /\ Reset = {}
BY DEF IInv, TakenIn, PublicationSound

LEMMA StartKeeps ==
  ASSUME IInv, NEW m \in Frames, BaselineSyncStart(m), calls = <<>>, UNCHANGED serverVars
  PROVE  IInv'
<1>1. CASE NotAccepted(m, InvalidStart(m))
  BY <1>1, RefusalKeeps DEF InvalidStart
<1>2. CASE ~NotAccepted(m, InvalidStart(m))
  <2>1. PICK l : l = m.id
    OBVIOUS
  <2> DEFINE fresh == [on |-> TRUE, nextBatch |-> 0, rows |-> <<>>, upto |-> m.upto]
  <2>2. /\ m.type = "baseline_sync_start" /\ l \in active /\ l \notin live
        /\ ~publication.open
        /\ attempt' = [attempt EXCEPT ![l] = m.attempt] /\ sync' = [sync EXCEPT ![l] = fresh]
        /\ UNCHANGED <<pending, subscribed, registered, active, live, epoch, nextSeq,
                       backlog, publication, rows, calls>>
    BY <1>2, <2>1 DEF BaselineSyncStart, Accepted, Misplaced, Ignored, InvalidStart,
                      visibleVars
  <2>3. /\ active \subseteq registered /\ registered \subseteq LiveIds \ pending
        /\ l \in LiveIds /\ pending \subseteq LiveIds
    BY <2>2 DEF IInv, ClientTyped
  <2>4. m.attempt \in Nat /\ m.upto \in Nat
    BY <2>2, StartTells DEF IInv, ServerInv
  <2>5. fresh \in SyncType /\ fresh.rows = <<>> /\ fresh.nextBatch = 0
    BY <2>4 DEF SyncType, Rows
  <2> HIDE DEF fresh
  <2>6. /\ sync' \in [LiveIds -> SyncType] /\ sync'[l] = fresh
        /\ attempt' \in [LiveIds -> Nat]
        /\ \A k \in LiveIds : k # l => sync'[k] = sync[k]
    BY <2>2, <2>3, <2>4, <2>5 DEF IInv, ClientTyped
  <2>7. bases' = bases /\ hist' = hist /\ log' = log
    BY DEF serverVars
  <2>8. ClientTyped'
    BY <2>2, <2>6, <2>7 DEF IInv, ClientTyped
  <2>9. \A k \in LiveIds : Installed(k)' <=> Installed(k)
    BY <2>2 DEF Installed, CatchingUp
  <2>10. \A k \in (active \cup pending) \ {l} : rows'[k] = rows[k] /\ Untouched(k)
    BY <2>2, <2>3, <2>6, <2>9 DEF Untouched
  <2>11. PlaceSound(l) /\ RowsSound(l) /\ ~Installed(l)
    BY <2>2 DEF IInv, TakenIn, Installed, CatchingUp
  <2>12. Start(l)' = Start(l) /\ Reached(l)' = Reached(l)
    BY <2>2, <2>7 DEF Start, Reached
  <2>13. PlaceSound(l)' /\ RowsSound(l)'
    BY <2>2, <2>3, <2>7, <2>9, <2>11, <2>12 DEF PlaceSound, RowsSound
  <2>14. SyncSound(l)'
    <3>1. Len(hist[l]) \in Nat
      BY <2>3, HistoryTypes DEF IInv, ServerInv
    <3>2. Shows(sync'[l].rows, hist'[l]) /\ Len(sync'[l].rows) = sync'[l].nextBatch
      BY <2>5, <2>6, <2>7, <3>1 DEF Shows
    <3> QED BY <2>3, <2>9, <2>11, <3>2 DEF SyncSound
  <2>15. \A k \in LiveIds : Shows(rows'[k], hist[k])
    BY <2>2 DEF IInv, TakenIn
  <2> QED BY <2>2, <2>3, <2>8, <2>10, <2>13, <2>14, <2>15, NothingStaged, OneTarget
<1> QED BY <1>1, <1>2

LEMMA BatchKeeps ==
  ASSUME IInv, NEW m \in Frames, BaselineSyncBatch(m), calls = <<>>, UNCHANGED serverVars
  PROVE  IInv'
<1>1. CASE NotAccepted(m, InvalidBatch(m))
  BY <1>1, RefusalKeeps DEF InvalidBatch
<1>2. CASE ~NotAccepted(m, InvalidBatch(m))
  <2>1. PICK l : l = m.id
    OBVIOUS
  <2>2. /\ m.type = "baseline_sync_batch" /\ l \in active /\ sync[l].on
        /\ m.index = sync[l].nextBatch /\ ~publication.open
        /\ sync' = [sync EXCEPT ![l].rows = @ \o m.rows, ![l].nextBatch = @ + 1]
        /\ UNCHANGED <<pending, subscribed, registered, active, live, epoch, nextSeq,
                       attempt, backlog, publication, rows, calls>>
    BY <1>2, <2>1 DEF BaselineSyncBatch, Accepted, Misplaced, Ignored, InvalidBatch,
                      Running, visibleVars
  <2>3. /\ active \subseteq registered /\ registered \subseteq LiveIds \ pending
        /\ l \in LiveIds /\ pending \subseteq LiveIds
    BY <2>2 DEF IInv, ClientTyped
  <2>4. PICK i \in Nat : i = sync[l].nextBatch
    BY <2>3, ClientTypes
  <2>5. /\ i + 1 \in 1..Len(hist[l]) /\ m.rows = <<hist[l][i + 1]>>
        /\ hist[l] \in Seq(Batch)
    BY <2>1, <2>2, <2>3, <2>4, BatchTells, HistoryTypes DEF IInv, ServerInv, Rows
  <2>6. hist[l][i + 1] \in Batch
    BY <2>5, ElementOfSeq
  <2>7. PICK s \in Seq(Batch) : s = sync[l].rows
    BY <2>3, ClientTypes DEF Rows
  <2>8. PlaceSound(l) /\ RowsSound(l) /\ SyncSound(l)
    BY <2>2 DEF IInv, TakenIn
  <2>9. ~Installed(l) /\ Len(s) = i /\ Shows(s, hist[l])
    BY <2>2, <2>4, <2>7, <2>8 DEF SyncSound
  <2>10. /\ s \o m.rows \in Seq(Batch) /\ Len(s \o m.rows) = i + 1
         /\ \A j \in 1..i : (s \o m.rows)[j] = s[j]
         /\ (s \o m.rows)[i + 1] = hist[l][i + 1]
    <3>1. s \o m.rows = Append(s, hist[l][i + 1])
      BY <2>5, <2>6, AppendIsConcat
    <3> QED BY <2>6, <2>9, <3>1, AppendMore
  <2>11. Shows(s \o m.rows, hist[l])
    <3>1. \A j \in 1..(i + 1) : (s \o m.rows)[j] = hist[l][j]
      <4> SUFFICES ASSUME NEW j \in 1..(i + 1)
                   PROVE  (s \o m.rows)[j] = hist[l][j]
        OBVIOUS
      <4>1. CASE j \in 1..i
        BY <2>9, <2>10, <4>1 DEF Shows
      <4>2. CASE j \notin 1..i
        <5>1. j = i + 1
          BY <4>2, LastIndex
        <5> QED BY <2>10, <5>1
      <4> QED BY <4>1, <4>2
    <3> QED BY <2>5, <2>10, <3>1 DEF Shows
  <2>12. /\ sync' \in [LiveIds -> SyncType] /\ sync'[l].rows = s \o m.rows
         /\ sync'[l].nextBatch = i + 1
         /\ \A k \in LiveIds : k # l => sync'[k] = sync[k]
    <3>1. sync \in [LiveIds -> SyncType] /\ sync[l] \in SyncType
      BY <2>3 DEF IInv, ClientTyped
    <3> DEFINE more == [sync[l] EXCEPT !.rows = s \o m.rows, !.nextBatch = i + 1]
    <3>2. more \in SyncType /\ more.rows = s \o m.rows /\ more.nextBatch = i + 1
      <4>1. PICK t : t = s \o m.rows
        OBVIOUS
      <4>2. PICK n : n = i + 1
        OBVIOUS
      <4>3. t \in Rows /\ n \in Nat
        BY <2>10, <4>1, <4>2 DEF Rows
      <4>4. more = [sync[l] EXCEPT !.rows = t, !.nextBatch = n]
        BY <4>1, <4>2
      <4> HIDE DEF more
      <4>5. more \in SyncType /\ more.rows = t /\ more.nextBatch = n
        BY <3>1, <4>3, <4>4 DEF SyncType
      <4> QED BY <4>1, <4>2, <4>5
    <3>3. sync' = [sync EXCEPT ![l] = more]
      BY <2>2, <2>3, <2>4, <2>7, <3>1 DEF SyncType
    <3> HIDE DEF more
    <3> QED BY <2>3, <3>1, <3>2, <3>3
  <2>13. bases' = bases /\ hist' = hist /\ log' = log
    BY DEF serverVars
  <2>14. ClientTyped'
    BY <2>2, <2>12, <2>13 DEF IInv, ClientTyped
  <2>15. \A k \in LiveIds : Installed(k)' <=> Installed(k)
    BY <2>2 DEF Installed, CatchingUp
  <2>16. \A k \in (active \cup pending) \ {l} : rows'[k] = rows[k] /\ Untouched(k)
    BY <2>2, <2>3, <2>12, <2>15 DEF Untouched
  <2>17. Start(l)' = Start(l) /\ Reached(l)' = Reached(l)
    BY <2>2, <2>13 DEF Start, Reached
  <2>18. PlaceSound(l)' /\ RowsSound(l)'
    BY <2>2, <2>3, <2>8, <2>13, <2>15, <2>17 DEF PlaceSound, RowsSound
  <2>19. SyncSound(l)'
    BY <2>3, <2>9, <2>10, <2>11, <2>12, <2>13, <2>15 DEF SyncSound
  <2>20. \A k \in LiveIds : Shows(rows'[k], hist[k])
    BY <2>2 DEF IInv, TakenIn
  <2> QED BY <2>2, <2>3, <2>14, <2>16, <2>18, <2>19, <2>20, NothingStaged, OneTarget
<1> QED BY <1>1, <1>2

\* The calls of a caught-up query: all are its own, and the last one sets it live.
LEMMA InstallCalls ==
  ASSUME IInv, NEW l \in LiveIds,
         calls' = <<Call("publishReset", l, sync[l].rows, sync[l].upto)>>
                    \o BacklogCalls(l) \o <<Call("caughtUp", l, <<>>, 0)>>
  PROVE  /\ calls' \in Seq(ListenerCall) /\ CatchingUp(l)'
         /\ \A k \in LiveIds \ {l} : ~CatchingUp(k)'
<1> DEFINE mine == {c \in ListenerCall : c.id = l}
           first == Call("publishReset", l, sync[l].rows, sync[l].upto)
           last == Call("caughtUp", l, <<>>, 0)
<1>1. sync[l].rows \in Rows /\ sync[l].upto \in Nat /\ backlog[l] \in Seq(Batch)
  BY ClientTypes DEF SyncType, Rows
<1>2. first \in mine
  BY <1>1 DEF Call, ListenerCall, Listener
<1>3. last \in mine /\ last.method = "caughtUp" /\ last.id = l
  BY DEF Call, ListenerCall, Listener, Rows
<1>4. PICK n \in Nat : n = Len(backlog[l])
  BY <1>1
<1>5. ASSUME NEW i \in 1..n
      PROVE  Call("publishBatch", l, <<backlog[l][i]>>, 0) \in mine
  <2>1. backlog[l][i] \in Batch
    BY <1>1, <1>4, ElementOfSeq
  <2>2. <<backlog[l][i]>> \in Rows
    BY <2>1 DEF Rows
  <2> QED BY <2>2 DEF Call, ListenerCall, Listener
<1>6. BacklogCalls(l) \in Seq(mine)
  <2>1. BacklogCalls(l) = [i \in 1..n |-> Call("publishBatch", l, <<backlog[l][i]>>, 0)]
    BY <1>4 DEF BacklogCalls
  <2> HIDE DEF mine
  <2> QED BY <1>4, <1>5, <2>1
<1>7. mine \subseteq ListenerCall /\ \A c \in mine : c.id = l
  OBVIOUS
<1>8. calls' = <<first>> \o BacklogCalls(l) \o <<last>>
  OBVIOUS
<1> HIDE DEF mine, first, last
<1>9. PICK b \in Seq(mine) : b = BacklogCalls(l)
  BY <1>6
<1>10. <<first>> \o b \in Seq(mine)
  BY <1>2
<1>11. PICK s \in Seq(mine) : s = <<first>> \o b
  BY <1>10
<1>12. s \o <<last>> = Append(s, last)
  BY <1>3, AppendIsConcat
<1>13. calls' = Append(s, last)
  BY <1>8, <1>9, <1>11, <1>12
<1>14. /\ calls' \in Seq(mine) /\ Len(calls') \in 1..Len(calls')
       /\ calls'[Len(calls')] = last
  <2>1. PICK k \in Nat : k = Len(s)
    OBVIOUS
  <2>2. /\ Append(s, last) \in Seq(mine) /\ Len(Append(s, last)) = k + 1
        /\ Append(s, last)[k + 1] = last
    BY <1>3, <2>1, AppendMore
  <2>3. k + 1 \in 1..(k + 1)
    OBVIOUS
  <2> QED BY <1>13, <2>2, <2>3
<1>15. calls' \in Seq(ListenerCall)
  BY <1>7, <1>14, SeqMonotonic
<1>16. CatchingUp(l)'
  BY <1>3, <1>14 DEF CatchingUp
<1>17. \A k \in LiveIds \ {l} : ~CatchingUp(k)'
  <2>1. \A i \in 1..Len(calls') : calls'[i].id = l
    BY <1>7, <1>14, ElementOfSeq
  <2> QED BY <2>1 DEF CatchingUp
<1> QED BY <1>15, <1>16, <1>17

\* The rows of a whole baseline and the backlog are the history so far.
LEMMA BaselineEndKeeps ==
  ASSUME IInv, NEW m \in Frames, BaselineSyncEnd(m), calls = <<>>, UNCHANGED serverVars
  PROVE  IInv'
<1>1. CASE NotAccepted(m, InvalidEnd(m))
  BY <1>1, RefusalKeeps DEF InvalidEnd
<1>2. CASE ~NotAccepted(m, InvalidEnd(m))
  <2>1. PICK l : l = m.id
    OBVIOUS
  <2>2. /\ m.type = "baseline_sync_end" /\ l \in active /\ sync[l].on
        /\ m.epoch = epoch[l] /\ m.count = sync[l].nextBatch /\ ~publication.open
        /\ InstallBaseline(l) \/ BaselineDecodeFailed(l)
        /\ UNCHANGED <<pending, subscribed, registered, epoch, nextSeq, attempt, publication>>
    BY <1>2, <2>1 DEF BaselineSyncEnd, Accepted, Misplaced, Ignored, InvalidEnd,
                      Running, SameVersion
  <2>3. /\ active \subseteq registered /\ registered \subseteq LiveIds \ pending
        /\ l \in LiveIds /\ pending \subseteq LiveIds
    BY <2>2 DEF IInv, ClientTyped
  <2>4. PlaceSound(l) /\ RowsSound(l) /\ SyncSound(l)
    BY <2>2 DEF IInv, TakenIn
  <2>5. bases' = bases /\ hist' = hist /\ log' = log
    BY DEF serverVars
  <2>6. Batched = {} /\ Reset = {}
    BY <2>2, NothingStaged
  <2>7. \A k : ~CatchingUp(k)
    BY DEF CatchingUp
  <2>8. /\ NoSync \in SyncType /\ <<>> \in Rows /\ NoSync.on = FALSE
    BY DEF NoSync, SyncType, Rows
  <2>9. CASE InstallBaseline(l)
    <3>1. /\ rows' = [rows EXCEPT ![l] = CandidateRows(l)]
          /\ sync' = [sync EXCEPT ![l] = NoSync]
          /\ backlog' = [backlog EXCEPT ![l] = <<>>]
          /\ active' = active /\ live' = live
      BY <2>9 DEF InstallBaseline
    <3>2. /\ calls' \in Seq(ListenerCall) /\ CatchingUp(l)'
          /\ \A k \in LiveIds \ {l} : ~CatchingUp(k)'
      BY <2>3, <2>9, InstallCalls DEF InstallBaseline
    <3>3. PICK s \in Seq(Batch) : s = sync[l].rows
      BY <2>3, ClientTypes DEF Rows
    <3>4. PICK b \in Seq(Batch) : b = backlog[l]
      BY <2>3, ClientTypes DEF Rows
    <3>5. PICK a \in Nat : a = bases[l][epoch[l]].at
      BY <2>3, <2>4, HistoryTypes DEF PlaceSound, IInv, ServerInv
    <3>6. PICK q \in Nat : q = nextSeq[l]
      BY <2>3, ClientTypes
    <3>7. Start(l) = a /\ Reached(l) = a + q /\ a + q <= Len(hist[l]) /\ Len(hist[l]) \in Nat
      BY <2>3, <2>4, <3>5, <3>6, HistoryTypes DEF Start, Reached, PlaceSound, IInv, ServerInv
    <3>8. Len(s) = a /\ Shows(s, hist[l]) /\ ~Installed(l)
      <4>1. m.count = a
        BY <2>1, <2>2, <3>5, EndTells DEF IInv, ServerInv
      <4> QED BY <2>2, <2>4, <3>3, <4>1 DEF SyncSound
    <3>9. Len(b) = q /\ \A i \in 1..q : b[i] = hist[l][a + i]
      BY <2>4, <3>4, <3>6, <3>7, <3>8 DEF RowsSound
    <3>10. /\ s \o b \in Seq(Batch) /\ Len(s \o b) = a + q
           /\ \A i \in 1..(a + q) : (s \o b)[i] = IF i <= a THEN s[i] ELSE b[i - a]
      BY <3>8, <3>9, ConcatProperties
    <3>11. Shows(s \o b, hist[l])
      <4>1. ASSUME NEW i \in 1..(a + q)
            PROVE  (s \o b)[i] = hist[l][i]
        <5>1. CASE i <= a
          BY <3>8, <3>10, <5>1 DEF Shows
        <5>2. CASE ~(i <= a)
          <6>1. i - a \in 1..q /\ a + (i - a) = i
            BY <5>2
          <6>2. (s \o b)[i] = b[i - a]
            BY <3>10, <5>2
          <6>3. b[i - a] = hist[l][a + (i - a)]
            BY <3>9, <6>1
          <6> QED BY <6>1, <6>2, <6>3
        <5> QED BY <5>1, <5>2
      <4> QED BY <3>7, <3>10, <4>1 DEF Shows
    <3>12. /\ rows' \in [LiveIds -> Rows] /\ rows'[l] = s \o b
           /\ \A k \in LiveIds \ {l} : rows'[k] = rows[k]
      <4>1. CandidateRows(l) = s \o b /\ s \o b \in Rows
        BY <3>3, <3>4, <3>10 DEF CandidateRows, Rows
      <4> QED BY <2>3, <3>1, <4>1 DEF IInv, ClientTyped
    <3>13. /\ sync' \in [LiveIds -> SyncType] /\ sync'[l] = NoSync
           /\ backlog' \in [LiveIds -> Rows]
           /\ \A k \in LiveIds \ {l} : sync'[k] = sync[k] /\ backlog'[k] = backlog[k]
      BY <2>3, <2>8, <3>1 DEF IInv, ClientTyped
    <3>14. ClientTyped'
      BY <2>2, <2>5, <3>1, <3>2, <3>12, <3>13 DEF IInv, ClientTyped
    <3>15. \A k \in (active \cup pending) \ {l} : rows'[k] = rows[k] /\ Untouched(k)
      BY <2>2, <2>3, <2>7, <3>1, <3>2, <3>12, <3>13 DEF Untouched, Installed
    <3>16. Start(l)' = a /\ Reached(l)' = a + q
      BY <2>2, <2>5, <3>7 DEF Start, Reached
    <3>17. PlaceSound(l)'
      BY <2>2, <2>4, <2>5, <3>7, <3>16 DEF PlaceSound
    <3>18. RowsSound(l)' /\ SyncSound(l)'
      <4>1. Installed(l)'
        BY <3>2 DEF Installed
      <4> QED BY <2>8, <3>10, <3>12, <3>13, <3>16, <4>1 DEF RowsSound, SyncSound
    <3>19. \A k \in LiveIds : Shows(rows'[k], hist[k])
      BY <3>11, <3>12 DEF IInv, TakenIn
    <3>20. pending' = pending /\ active' = active /\ publication' = publication
           /\ l \in active \cup pending /\ l \notin pending
      BY <2>2, <2>3, <3>1
    <3> QED BY <2>6, <3>14, <3>15, <3>17, <3>18, <3>19, <3>20, OneTarget
  <2>10. CASE BaselineDecodeFailed(l)
    <3>1. /\ rows' = rows /\ sync' = [sync EXCEPT ![l] = NoSync]
          /\ backlog' = [backlog EXCEPT ![l] = <<>>]
          /\ active' = active \ {l} /\ live' = live \ {l}
          /\ calls' = <<Call("decodeFailed", l, <<>>, 0)>>
      BY <2>10 DEF BaselineDecodeFailed
    <3>2. calls' \in Seq(ListenerCall) /\ \A k : ~CatchingUp(k)'
      <4>1. /\ Call("decodeFailed", l, <<>>, 0) \in ListenerCall
            /\ Call("decodeFailed", l, <<>>, 0).method # "caughtUp"
        BY <2>3, <2>8 DEF Call, ListenerCall, Listener
      <4>2. PICK c \in ListenerCall : c = Call("decodeFailed", l, <<>>, 0)
        BY <4>1
      <4>3. calls' = <<c>> /\ c.method # "caughtUp"
        BY <3>1, <4>1, <4>2
      <4>4. Len(<<c>>) = 1 /\ <<c>>[1] = c /\ <<c>> \in Seq(ListenerCall)
        OBVIOUS
      <4> QED BY <4>3, <4>4 DEF CatchingUp
    <3>3. /\ sync' \in [LiveIds -> SyncType] /\ backlog' \in [LiveIds -> Rows]
          /\ \A k \in LiveIds \ {l} : sync'[k] = sync[k] /\ backlog'[k] = backlog[k]
      BY <2>3, <2>8, <3>1 DEF IInv, ClientTyped
    <3>4. ClientTyped'
      BY <2>2, <2>5, <3>1, <3>2, <3>3 DEF IInv, ClientTyped
    <3>5. \A k \in active' \cup pending : Untouched(k)
      BY <2>2, <2>3, <2>7, <3>1, <3>2, <3>3 DEF Untouched, Installed
    <3>6. Batched' = {} /\ Reset' = {}
      BY <2>2, <2>6 DEF Batched, Reset
    <3>7. active' \subseteq active /\ pending' = pending /\ rows' = rows
          /\ publication' = publication
      BY <2>2, <3>1
    <3> QED BY <3>4, <3>5, <3>6, <3>7, FewerActive
  <2> QED BY <2>2, <2>9, <2>10
<1> QED BY <1>1, <1>2

\* An opened publication has staged nothing, as its log says.
LEMMA OpenFrameKeeps ==
  ASSUME IInv, NEW m \in Frames, Open(m), calls = <<>>, UNCHANGED serverVars
  PROVE  IInv'
<1>1. CASE ProtocolFailure
  BY <1>1, EndKeeps DEF ProtocolFailure
<1>2. CASE ~ProtocolFailure
  <2>1. /\ m.type = "open" /\ publication' = [NoPublication EXCEPT !.open = TRUE, !.id = m.pub]
        /\ UNCHANGED <<pending, subscribed, registered, active, live, epoch, nextSeq, attempt,
                       sync, backlog, rows, calls>>
    BY <1>2 DEF Open, targetVars, visibleVars
  <2>2. PICK p \in 1..Len(log) : p = m.pub
    BY <2>1, OpenTells DEF IInv, ServerInv
  <2>3. /\ publication' \in PublicationType /\ publication'.open /\ publication'.id = p
        /\ publication'.nextBody = 0
        /\ \A l \in LiveIds : /\ publication'.batches[l] = <<>>
                              /\ publication'.resets[l] = NoReset
    <3>1. p \in Nat /\ NoPublication.nextBody = 0
      BY DEF IInv, ServerInv, ServerTyped, NoPublication
    <3>2. publication' = [NoPublication EXCEPT !.open = TRUE, !.id = p]
      BY <2>1, <2>2
    <3> QED BY <3>1, <3>2, BlankPublication DEF PublicationType
  <2>4. log' = log /\ hist' = hist /\ bases' = bases
    BY DEF serverVars
  <2>5. ServerInv'
    BY <2>4, ServerSame DEF IInv
  <2>6. ClientTyped'
    BY <2>1, <2>3, <2>4 DEF IInv, ClientTyped
  <2>7. \A l \in LiveIds : Shows(rows[l], hist[l])'
    BY <2>1, <2>4 DEF IInv, TakenIn, Shows
  <2>8. \A l : Installed(l)' <=> Installed(l)
    BY <2>1 DEF Installed, CatchingUp
  <2>9. ASSUME NEW l \in pending'
        PROVE  BlankSound(l)'
    <3>1. BlankSound(l)
      BY <2>1 DEF IInv, TakenIn
    <3> QED BY <2>1, <2>8, <3>1 DEF BlankSound
  <2>10. ASSUME NEW l \in active'
         PROVE  PlaceSound(l)' /\ RowsSound(l)' /\ SyncSound(l)'
    <3>1. PlaceSound(l) /\ RowsSound(l) /\ SyncSound(l)
      BY <2>1 DEF IInv, TakenIn
    <3> QED BY <2>1, <2>4, <2>8, <3>1, TargetSame
  <2>11. PublicationSound'
    <3>1. Batched' = {} /\ Reset' = {}
      BY <2>3 DEF Batched, Reset
    <3>2. log[p].staged[1] = Nothing /\ Len(Bodies(p)) \in Nat
      BY EntryTypes DEF IInv, ServerInv, StagedSound
    <3>3. \A l \in active' \cup pending' : StagedAs(p, 0, l)'
      <4>1. active' \cup pending' \subseteq LiveIds
        BY <2>6 DEF ClientTyped
      <4> QED BY <2>3, <2>4, <3>2, <4>1 DEF StagedAs, Nothing
    <3>4. StagingSound(p, 0)'
      BY <2>4, <3>1, <3>2, <3>3 DEF StagingSound, Bodies
    <3>5. p = publication'.id /\ 0 = publication'.nextBody
      BY <2>3
    <3> QED BY <2>3, <3>1, <3>4, <3>5 DEF PublicationSound
  <2> QED BY <2>5, <2>6, <2>7, <2>9, <2>10, <2>11 DEF IInv, TakenIn
<1> QED BY <1>1, <1>2

LEMMA ProgressKeeps ==
  ASSUME IInv, NEW m \in Frames, Progress(m), calls = <<>>, UNCHANGED serverVars
  PROVE  IInv'
<1>1. CASE ProtocolFailure
  BY <1>1, EndKeeps DEF ProtocolFailure
<1>2. CASE ~ProtocolFailure
  <2>1. UNCHANGED <<pending, subscribed, registered, active, live, epoch, nextSeq, attempt,
                    sync, backlog, publication, rows, calls>>
    BY <1>2 DEF Progress, targetVars
  <2>2. \A l \in LiveIds : Installed(l)' <=> Installed(l)
    BY <2>1 DEF Installed, CatchingUp
  <2>3. subscribed' \subseteq LiveIds /\ calls' \in Seq(ListenerCall)
    BY <2>1 DEF IInv, ClientTyped
  <2> QED BY <2>1, <2>2, <2>3, SameTargets
<1> QED BY <1>1, <1>2

\* The next body of the open publication, as the client and the log have it.
LEMMA NextBody ==
  ASSUME IInv, NEW m \in Frames, m.type \in {"keyed_results", "reset_required"},
         ~InvalidBody(m), NEW p, NEW n, p = m.pub, n = m.index
  PROVE  /\ p \in 1..Len(log) /\ n \in Nat /\ n + 1 \in 1..Len(Bodies(p)) /\ m.tx = p
         /\ (n + 1) - 1 = n /\ n + 1 \in 1..(n + 1) /\ 1..n \subseteq 1..(n + 1)
         /\ <<p, n>> \in Fragment /\ n + 1 \in 0..Len(Bodies(p))
         /\ publication.open /\ publication.id = p /\ publication.nextBody = n
         /\ m.type = Bodies(p)[n + 1].type /\ m.targets = Bodies(p)[n + 1].targets
         /\ m.at = Bodies(p)[n + 1].at /\ m.targets \subseteq LiveIds
         /\ m.at \in [LiveIds -> Place]
         /\ \A l \in LiveIds : Grown(p, n + 1, l)
         /\ StagingSound(p, n)
<1>1. /\ p \in 1..Len(log) /\ n \in Nat /\ m.tx = p /\ n + 1 \in 1..Len(Bodies(p))
      /\ m.type = Bodies(p)[n + 1].type /\ m.targets = Bodies(p)[n + 1].targets
      /\ m.at = Bodies(p)[n + 1].at
  BY BodyTells DEF IInv, ServerInv
<1>2. publication.open /\ publication.id = p /\ publication.nextBody = n
  BY DEF InvalidBody
<1>3. Bodies(p)[n + 1] \in Body /\ Len(Bodies(p)) \in Nat
  BY <1>1, EntryTypes DEF IInv, ServerInv
<1>4. m.targets \subseteq LiveIds /\ m.at \in [LiveIds -> Place]
  BY <1>1, <1>3 DEF Body
<1>5. \A l \in LiveIds : Grown(p, n + 1, l)
  BY <1>1 DEF IInv, ServerInv, StagedSound
<1>6. StagingSound(p, n)
  BY <1>2 DEF IInv, TakenIn, PublicationSound
<1>7. /\ (n + 1) - 1 = n /\ n + 1 \in 1..(n + 1) /\ 1..n \subseteq 1..(n + 1)
      /\ n + 1 \in 0..Len(Bodies(p))
  BY <1>1, <1>3
<1>8. <<p, n>> \in Fragment
  BY <1>1 DEF Fragment, IInv, ServerInv, ServerTyped
<1> QED BY <1>1, <1>2, <1>4, <1>5, <1>6, <1>7, <1>8

\* The open publication changes, the rest does not.
LEMMA StagingKeeps ==
  ASSUME IInv, UNCHANGED serverVars,
         UNCHANGED <<pending, subscribed, registered, active, live, epoch, nextSeq, attempt,
                     sync, backlog, rows, calls>>,
         publication' \in PublicationType, PublicationSound'
  PROVE  IInv'
<1>1. log' = log /\ hist' = hist /\ bases' = bases
  BY DEF serverVars
<1>2. ServerInv'
  BY <1>1, ServerSame DEF IInv
<1>3. ClientTyped'
  BY <1>1 DEF IInv, ClientTyped
<1>4. \A l \in LiveIds : Shows(rows[l], hist[l])'
  BY <1>1 DEF IInv, TakenIn, Shows
<1>5. \A l : Installed(l)' <=> Installed(l)
  BY DEF Installed, CatchingUp
<1>6. ASSUME NEW l \in pending'
      PROVE  BlankSound(l)'
  <2>1. BlankSound(l)
    BY DEF IInv, TakenIn
  <2> QED BY <1>5, <2>1 DEF BlankSound
<1>7. ASSUME NEW l \in active'
      PROVE  PlaceSound(l)' /\ RowsSound(l)' /\ SyncSound(l)'
  <2>1. PlaceSound(l) /\ RowsSound(l) /\ SyncSound(l)
    BY DEF IInv, TakenIn
  <2> QED BY <1>1, <1>5, <2>1, TargetSame
<1> QED BY <1>2, <1>3, <1>4, <1>6, <1>7 DEF IInv, TakenIn

\* What the open publication becomes when a body is staged.
StagedBy(c, d, k, b, r) ==
  /\ d \in PublicationType /\ d.open = c.open /\ d.id = c.id /\ d.nextBody = k
  /\ d.batches = b /\ d.resets = r

LEMMA StagedBatches ==
  ASSUME NEW c \in PublicationType, NEW k \in Nat, NEW d, NEW b \in [LiveIds -> Batch],
         d = [c EXCEPT !.nextBody = k, !.batches = b]
  PROVE  StagedBy(c, d, k, b, c.resets)
BY DEF PublicationType, StagedBy

LEMMA StagedResets ==
  ASSUME NEW c \in PublicationType, NEW k \in Nat, NEW d,
         NEW r \in [LiveIds -> [epoch : Nat, first : Nat]],
         d = [c EXCEPT !.nextBody = k, !.resets = r]
  PROVE  StagedBy(c, d, k, c.batches, r)
BY DEF PublicationType, StagedBy

\* The parts of a reset stay named when one more body is read.
LEMMA StillReset ==
  ASSUME NEW p, NEW n \in Nat, NEW l, ResetNamed(p, n, l), log' = log, epoch' = epoch,
         publication'.resets[l] = publication.resets[l]
  PROVE  ResetNamed(p, n + 1, l)'
<1>1. PICK i \in 1..n :
        /\ Bodies(p)[i].type = "reset_required" /\ l \in Bodies(p)[i].targets
        /\ Bodies(p)[i].at[l].epoch > epoch[l]
        /\ publication.resets[l].epoch = Bodies(p)[i].at[l].epoch
        /\ publication.resets[l].first = Bodies(p)[i].at[l].seq
  BY DEF ResetNamed
<1>2. i \in 1..(n + 1)
  OBVIOUS
<1> QED BY <1>1, <1>2 DEF ResetNamed, Bodies

\* A body that is taken in stages what the log says it stages.
LEMMA KeyedResultsKeeps ==
  ASSUME IInv, NEW m \in Frames, KeyedResults(m), calls = <<>>, UNCHANGED serverVars
  PROVE  IInv'
<1>1. CASE ProtocolFailure
  BY <1>1, EndKeeps DEF ProtocolFailure
<1>2. CASE ~ProtocolFailure
  <2>1. PICK p : p = m.pub
    OBVIOUS
  <2>2. PICK n : n = m.index
    OBVIOUS
  <2>3. /\ m.type = "keyed_results" /\ ~InvalidBody(m) /\ m.targets \subseteq registered
        /\ \A l \in m.targets \cap active : ~InvalidTarget(m, l)
        /\ publication' =
             [publication EXCEPT
                !.nextBody = @ + 1,
                !.batches = [l \in LiveIds |->
                               IF l \in m.targets \cap active
                                 THEN Append(@[l], <<m.tx, m.index>>) ELSE @[l]]]
        /\ UNCHANGED <<pending, subscribed, registered, active, live, epoch, nextSeq, attempt,
                       sync, backlog, rows, calls>>
    BY <1>2 DEF KeyedResults, targetVars, visibleVars
  <2>4. /\ p \in 1..Len(log) /\ n \in Nat /\ n + 1 \in 1..Len(Bodies(p)) /\ m.tx = p
        /\ (n + 1) - 1 = n /\ n + 1 \in 1..(n + 1) /\ 1..n \subseteq 1..(n + 1)
        /\ <<p, n>> \in Fragment /\ n + 1 \in 0..Len(Bodies(p))
        /\ publication.open /\ publication.id = p /\ publication.nextBody = n
        /\ m.type = Bodies(p)[n + 1].type /\ m.targets = Bodies(p)[n + 1].targets
        /\ m.at = Bodies(p)[n + 1].at /\ m.targets \subseteq LiveIds
        /\ m.at \in [LiveIds -> Place]
        /\ \A l \in LiveIds : Grown(p, n + 1, l)
        /\ StagingSound(p, n)
    BY <2>1, <2>2, <2>3, NextBody
  <2>5. /\ active \subseteq registered /\ registered \subseteq LiveIds \ pending
        /\ pending \subseteq LiveIds /\ publication \in PublicationType
    BY DEF IInv, ClientTyped
  <2>6. \A l \in LiveIds : publication.batches[l] \in Batch
    BY <2>5 DEF PublicationType
  <2> DEFINE staged == [l \in LiveIds |-> IF l \in m.targets \cap active
                          THEN Append(publication.batches[l], <<p, n>>)
                          ELSE publication.batches[l]]
  <2>7. staged \in [LiveIds -> Batch]
    <3>1. \A l \in LiveIds : Append(publication.batches[l], <<p, n>>) \in Batch
      BY <2>4, <2>6, AppendProperties DEF Batch
    <3> QED BY <2>6, <3>1
  <2>8. \A l \in LiveIds :
          staged[l] = IF l \in m.targets \cap active
                        THEN Append(publication.batches[l], <<p, n>>) ELSE publication.batches[l]
    OBVIOUS
  <2>9. publication' = [publication EXCEPT !.nextBody = n + 1, !.batches = staged]
    BY <2>2, <2>3, <2>4, <2>5 DEF PublicationType
  <2> HIDE DEF staged
  <2>10. /\ publication' \in PublicationType /\ publication'.open /\ publication'.id = p
         /\ publication'.nextBody = n + 1 /\ publication'.batches = staged
         /\ publication'.resets = publication.resets
    <3>1. PICK c \in PublicationType : c = publication
      BY <2>5
    <3>2. PICK k \in Nat : k = n + 1
      BY <2>4
    <3>3. publication' = [c EXCEPT !.nextBody = k, !.batches = staged]
      BY <2>9, <3>1, <3>2
    <3>4. StagedBy(c, publication', k, staged, c.resets)
      BY <2>7, <3>3, StagedBatches
    <3> QED BY <2>4, <3>1, <3>2, <3>4 DEF StagedBy
  <2>11. Reset' = Reset /\ Batched' = Batched \cup (m.targets \cap active)
    <3>1. Reset' = Reset
      BY <2>10 DEF Reset
    <3>2. \A l \in LiveIds : Append(publication.batches[l], <<p, n>>) # <<>>
      <4>1. \A s \in Seq(Fragment) : Append(s, <<p, n>>) # <<>>
        BY <2>4, AppendProperties
      <4> QED BY <2>6, <4>1 DEF Batch
    <3>3. \A l \in LiveIds : l \in Batched' <=> l \in Batched \/ l \in m.targets \cap active
      BY <2>8, <2>10, <3>2 DEF Batched
    <3>4. Batched \subseteq LiveIds /\ Batched' \subseteq LiveIds
      BY DEF Batched
    <3> QED BY <2>4, <3>1, <3>3, <3>4
  <2>12. log' = log
    BY DEF serverVars
  <2>13. /\ \A l \in active \cup pending : StagedAs(p, n, l)
         /\ \A l \in Batched : BatchNamed(p, n, l)
         /\ \A l \in Reset : ResetNamed(p, n, l)
         /\ Batched \cup Reset \subseteq active /\ Batched \cap Reset = {}
    BY <2>4 DEF StagingSound, IInv, TakenIn, PublicationSound
  <2>14. ASSUME NEW l \in active \cup pending
         PROVE  StagedAs(p, n + 1, l)'
    <3>1. l \in LiveIds /\ publication.batches[l] = log[p].staged[n + 1][l]
      BY <2>5, <2>13 DEF StagedAs
    <3>2. log[p].staged[(n + 1) + 1][l] = IF l \in m.targets
            THEN Append(log[p].staged[n + 1][l], <<p, n>>) ELSE log[p].staged[n + 1][l]
      BY <2>3, <2>4, <3>1 DEF Grown
    <3>3. l \in m.targets => l \in active
      BY <2>3, <2>5
    <3>4. publication'.batches[l] = log[p].staged[(n + 1) + 1][l]
      BY <2>8, <2>10, <3>1, <3>2, <3>3
    <3> QED BY <2>12, <3>4 DEF StagedAs
  <2>15. ASSUME NEW l \in Batched'
         PROVE  BatchNamed(p, n + 1, l)'
    <3>1. CASE l \in Batched
      <4>1. BatchNamed(p, n, l)
        BY <2>13, <3>1
      <4> QED BY <2>3, <2>4, <2>12, <4>1 DEF BatchNamed, Bodies
    <3>2. CASE l \in m.targets \cap active
      <4>1. m.at[l].epoch = epoch[l] /\ m.at[l].seq = nextSeq[l]
        BY <2>3, <3>2 DEF InvalidTarget
      <4> QED BY <2>3, <2>4, <2>12, <3>2, <4>1 DEF BatchNamed, Bodies
    <3> QED BY <2>11, <3>1, <3>2
  <2>16. ASSUME NEW l \in Reset'
         PROVE  ResetNamed(p, n + 1, l)'
    <3>1. ResetNamed(p, n, l)
      BY <2>11, <2>13
    <3>2. publication'.resets[l] = publication.resets[l]
      BY <2>10
    <3> QED BY <2>3, <2>4, <2>12, <3>1, <3>2, StillReset
  <2>17. StagingSound(p, n + 1)'
    BY <2>3, <2>4, <2>12, <2>14, <2>15, <2>16 DEF StagingSound, Bodies
  <2>18. Batched' \cup Reset' \subseteq active /\ Batched' \cap Reset' = {}
    <3>1. \A l \in m.targets \cap active : l \notin Reset
      BY <2>3 DEF InvalidTarget, Reset
    <3> QED BY <2>11, <2>13, <3>1
  <2>19. PublicationSound'
    <3>1. p = publication'.id /\ n + 1 = publication'.nextBody
      BY <2>10
    <3> QED BY <2>3, <2>10, <2>17, <2>18, <3>1 DEF PublicationSound
  <2> QED BY <2>3, <2>10, <2>19, StagingKeeps
<1> QED BY <1>1, <1>2

\* A reset that is taken in leads the query to a later epoch.
LEMMA ResetRequiredKeeps ==
  ASSUME IInv, NEW m \in Frames, ResetRequired(m), calls = <<>>, UNCHANGED serverVars
  PROVE  IInv'
<1>1. CASE ProtocolFailure
  BY <1>1, EndKeeps DEF ProtocolFailure
<1>2. CASE ~ProtocolFailure
  <2>1. PICK p : p = m.pub
    OBVIOUS
  <2>2. PICK n : n = m.index
    OBVIOUS
  <2>3. /\ m.type = "reset_required" /\ ~InvalidBody(m) /\ m.targets \subseteq registered
        /\ \A l \in m.targets \cap active : ~InvalidReset(m, l)
        /\ publication' =
             [publication EXCEPT
                !.nextBody = @ + 1,
                !.resets = [l \in LiveIds |->
                              IF l \in m.targets \cap active
                                THEN [epoch |-> m.at[l].epoch, first |-> m.at[l].seq]
                                ELSE @[l]]]
        /\ UNCHANGED <<pending, subscribed, registered, active, live, epoch, nextSeq, attempt,
                       sync, backlog, rows, calls>>
    BY <1>2 DEF ResetRequired, targetVars, visibleVars
  <2>4. /\ p \in 1..Len(log) /\ n \in Nat /\ n + 1 \in 1..Len(Bodies(p)) /\ m.tx = p
        /\ (n + 1) - 1 = n /\ n + 1 \in 1..(n + 1) /\ 1..n \subseteq 1..(n + 1)
        /\ <<p, n>> \in Fragment /\ n + 1 \in 0..Len(Bodies(p))
        /\ publication.open /\ publication.id = p /\ publication.nextBody = n
        /\ m.type = Bodies(p)[n + 1].type /\ m.targets = Bodies(p)[n + 1].targets
        /\ m.at = Bodies(p)[n + 1].at /\ m.targets \subseteq LiveIds
        /\ m.at \in [LiveIds -> Place]
        /\ \A l \in LiveIds : Grown(p, n + 1, l)
        /\ StagingSound(p, n)
    BY <2>1, <2>2, <2>3, NextBody
  <2>5. /\ active \subseteq registered /\ registered \subseteq LiveIds \ pending
        /\ pending \subseteq LiveIds /\ publication \in PublicationType
    BY DEF IInv, ClientTyped
  <2>6. \A l \in LiveIds : /\ publication.resets[l] \in [epoch : Nat, first : Nat]
                           /\ m.at[l].epoch \in Nat /\ m.at[l].seq \in Nat /\ epoch[l] \in Nat
    BY <2>4, <2>5 DEF PublicationType, Place, IInv, ClientTyped
  <2> DEFINE to(l) == [epoch |-> m.at[l].epoch, first |-> m.at[l].seq]
             resets == [l \in LiveIds |-> IF l \in m.targets \cap active
                          THEN to(l) ELSE publication.resets[l]]
  <2>7. resets \in [LiveIds -> [epoch : Nat, first : Nat]]
    BY <2>6
  <2>8. \A l \in LiveIds :
          resets[l] = IF l \in m.targets \cap active THEN to(l) ELSE publication.resets[l]
    OBVIOUS
  <2>9. publication' = [publication EXCEPT !.nextBody = n + 1, !.resets = resets]
    BY <2>3, <2>4, <2>5 DEF PublicationType
  <2>20. ASSUME NEW l \in m.targets \cap active
         PROVE  /\ m.at[l].epoch > epoch[l] /\ to(l) # NoReset
                /\ to(l).epoch = m.at[l].epoch /\ to(l).first = m.at[l].seq
                /\ l \notin Batched /\ l \in LiveIds
    <3>1. l \in LiveIds /\ ~(m.at[l].epoch <= epoch[l]) /\ publication.batches[l] = <<>>
      BY <2>3, <2>4 DEF InvalidReset
    <3>2. m.at[l].epoch > epoch[l] /\ m.at[l].epoch # 0
      BY <2>6, <3>1
    <3>3. to(l) # NoReset
      BY <3>2 DEF NoReset
    <3> QED BY <3>1, <3>2, <3>3 DEF Batched
  <2> HIDE DEF resets, to
  <2>10. /\ publication' \in PublicationType /\ publication'.open /\ publication'.id = p
         /\ publication'.nextBody = n + 1 /\ publication'.resets = resets
         /\ publication'.batches = publication.batches
    <3>1. PICK c \in PublicationType : c = publication
      BY <2>5
    <3>2. PICK k \in Nat : k = n + 1
      BY <2>4
    <3>3. publication' = [c EXCEPT !.nextBody = k, !.resets = resets]
      BY <2>9, <3>1, <3>2
    <3>4. StagedBy(c, publication', k, c.batches, resets)
      BY <2>7, <3>3, StagedResets
    <3> QED BY <2>4, <3>1, <3>2, <3>4 DEF StagedBy
  <2>11. Batched' = Batched /\ Reset' = Reset \cup (m.targets \cap active)
    <3>1. Batched' = Batched
      BY <2>10 DEF Batched
    <3>2. \A l \in LiveIds : l \in Reset' <=> l \in Reset \/ l \in m.targets \cap active
      BY <2>8, <2>10, <2>20 DEF Reset
    <3>3. Reset \subseteq LiveIds /\ Reset' \subseteq LiveIds
      BY DEF Reset
    <3> QED BY <2>4, <3>1, <3>2, <3>3
  <2>12. log' = log
    BY DEF serverVars
  <2>13. /\ \A l \in active \cup pending : StagedAs(p, n, l)
         /\ \A l \in Batched : BatchNamed(p, n, l)
         /\ \A l \in Reset : ResetNamed(p, n, l)
         /\ Batched \cup Reset \subseteq active /\ Batched \cap Reset = {}
    BY <2>4 DEF StagingSound, IInv, TakenIn, PublicationSound
  <2>14. ASSUME NEW l \in active \cup pending
         PROVE  StagedAs(p, n + 1, l)'
    <3>1. l \in LiveIds /\ publication.batches[l] = log[p].staged[n + 1][l]
      BY <2>5, <2>13 DEF StagedAs
    <3>2. log[p].staged[(n + 1) + 1][l] = log[p].staged[n + 1][l]
      BY <2>3, <2>4, <3>1 DEF Grown
    <3> QED BY <2>10, <2>12, <3>1, <3>2 DEF StagedAs
  <2>15. ASSUME NEW l \in Batched'
         PROVE  BatchNamed(p, n + 1, l)'
    <3>1. BatchNamed(p, n, l)
      BY <2>11, <2>13
    <3> QED BY <2>3, <2>4, <2>12, <3>1 DEF BatchNamed, Bodies
  <2>16. ASSUME NEW l \in Reset'
         PROVE  ResetNamed(p, n + 1, l)'
    <3>1. CASE l \in m.targets \cap active
      <4>1. /\ publication'.resets[l].epoch = m.at[l].epoch
            /\ publication'.resets[l].first = m.at[l].seq /\ m.at[l].epoch > epoch[l]
        BY <2>8, <2>10, <2>20, <3>1
      <4> QED BY <2>3, <2>4, <2>12, <3>1, <4>1 DEF ResetNamed, Bodies
    <3>2. CASE l \notin m.targets \cap active
      <4>1. l \in LiveIds /\ ResetNamed(p, n, l)
        BY <2>5, <2>11, <2>13, <3>2
      <4>2. publication'.resets[l] = publication.resets[l]
        BY <2>8, <2>10, <3>2, <4>1
      <4> QED BY <2>3, <2>4, <2>12, <4>1, <4>2, StillReset
    <3> QED BY <3>1, <3>2
  <2>17. StagingSound(p, n + 1)'
    BY <2>3, <2>4, <2>12, <2>14, <2>15, <2>16 DEF StagingSound, Bodies
  <2>18. Batched' \cup Reset' \subseteq active /\ Batched' \cap Reset' = {}
    BY <2>11, <2>13, <2>20
  <2>19. PublicationSound'
    <3>1. p = publication'.id /\ n + 1 = publication'.nextBody
      BY <2>10
    <3> QED BY <2>3, <2>10, <2>17, <2>18, <3>1 DEF PublicationSound
  <2> QED BY <2>3, <2>10, <2>19, StagingKeeps
<1> QED BY <1>1, <1>2

\* The listener calls of a publication: none sets a query live.
Quiet == {c \in ListenerCall : c.method # "caughtUp"}

LEMMA CallsQuiet ==
  ASSUME NEW S \in SUBSET LiveIds, NEW order \in SetToSeqs(S),
         NEW method \in Listener \ {"caughtUp"}, NEW data \in [LiveIds -> Rows]
  PROVE  CallAll(method, order, data) \in Seq(Quiet)
<1>1. IsFiniteSet(S) /\ Cardinality(S) \in Nat
  BY LiveIdsFinite, FS_Subset, FS_CardinalityType
<1>2. PICK n \in Nat : n = Cardinality(S)
  BY <1>1
<1>3. order \in [1..n -> S]
  BY <1>2 DEF SetToSeqs
<1>4. Len(order) = n
  BY <1>3
<1>5. ASSUME NEW i \in 1..n
      PROVE  Call(method, order[i], data[order[i]], 0) \in Quiet
  <2>1. order[i] \in LiveIds /\ data[order[i]] \in Rows
    BY <1>3
  <2> QED BY <2>1 DEF Call, ListenerCall, Listener, Quiet
<1>6. CallAll(method, order, data) = [i \in 1..n |-> Call(method, order[i], data[order[i]], 0)]
  BY <1>4 DEF CallAll
<1> QED BY <1>5, <1>6

LEMMA PublicationCalls ==
  ASSUME IInv, calls = <<>>, NEW failed \in SUBSET LiveIds, InstallPublication(failed)
  PROVE  calls' \in Seq(ListenerCall) /\ \A l : ~CatchingUp(l) /\ ~CatchingUp(l)'
<1> DEFINE installed == (Batched \cap live) \ failed
<1>1. Nothing \in [LiveIds -> Rows] /\ Alone \in [LiveIds -> Rows]
  <2>1. \A l \in LiveIds : publication.batches[l] \in Batch
    BY DEF IInv, ClientTyped, PublicationType
  <2>2. \A b \in Batch : <<b>> \in Rows
    BY DEF Rows
  <2>3. Alone \in [LiveIds -> Rows]
    BY <2>1, <2>2 DEF Alone
  <2>4. Nothing \in [LiveIds -> Rows]
    BY DEF Nothing, Rows
  <2> QED BY <2>3, <2>4
<1>2. Reset \in SUBSET LiveIds /\ installed \in SUBSET LiveIds
  BY DEF Reset, Batched
<1>3. PICK r \in SetToSeqs(Reset), f \in SetToSeqs(failed), b \in SetToSeqs(installed) :
        calls' = CallAll("resetRequired", r, Nothing) \o CallAll("decodeFailed", f, Nothing)
                   \o CallAll("publishBatch", b, Alone)
  BY DEF InstallPublication
<1> HIDE DEF installed
<1>4. /\ CallAll("resetRequired", r, Nothing) \in Seq(Quiet)
      /\ CallAll("decodeFailed", f, Nothing) \in Seq(Quiet)
      /\ CallAll("publishBatch", b, Alone) \in Seq(Quiet)
  BY <1>1, <1>2, CallsQuiet DEF Listener
<1>5. calls' \in Seq(Quiet)
  BY <1>3, <1>4
<1>6. calls' \in Seq(ListenerCall)
  BY <1>5, SeqMonotonic DEF Quiet
<1>7. \A l : ~CatchingUp(l)'
  BY <1>5, ElementOfSeq DEF CatchingUp, Quiet
<1>8. \A l : ~CatchingUp(l)
  BY DEF CatchingUp
<1> QED BY <1>6, <1>7, <1>8

\* The batch that is staged for a query is the next one of its history, ...
Lands(l) ==
  /\ l \in active /\ publication.batches[l] \in Batch
  /\ Reached(l) + 1 <= Len(hist[l])
  /\ hist[l][Reached(l) + 1] = publication.batches[l]
  /\ epoch[l] < Len(bases[l]) => Reached(l) + 1 < bases[l][epoch[l] + 1].at

\* ... and a reset leads to an epoch that begins further on.
Leads(l) ==
  /\ l \in active
  /\ publication.resets[l].epoch \in 1..Len(bases[l])
  /\ publication.resets[l].epoch > epoch[l] /\ publication.resets[l].first = 0
  /\ Reached(l) <= bases[l][publication.resets[l].epoch].at

\* What is open has been read to its end, and is published.
Complete(p, n) ==
  /\ p \in 1..Len(log) /\ log[p].done /\ n = Len(Bodies(p)) /\ n \in Nat
  /\ publication.open /\ publication.id = p /\ publication.nextBody = n
  /\ StagingSound(p, n)

LEMMA CommitReads ==
  ASSUME IInv, NEW m \in Frames, m.type = "commit", ~InvalidCommit(m), NEW p, NEW n,
         p = publication.id, n = publication.nextBody
  PROVE  Complete(p, n)
<1>1. /\ publication.open /\ p = m.pub /\ n = m.count
  BY DEF InvalidCommit
<1>2. p \in 1..Len(log) /\ log[p].done /\ n = Len(Bodies(p))
  BY <1>1, CommitTells DEF IInv, ServerInv
<1>3. Len(Bodies(p)) \in Nat
  BY <1>2, EntryTypes DEF IInv, ServerInv
<1>4. StagingSound(p, n)
  BY <1>1 DEF IInv, TakenIn, PublicationSound
<1> QED BY <1>1, <1>2, <1>3, <1>4 DEF Complete

LEMMA BatchLands ==
  ASSUME IInv, NEW p, NEW n, Complete(p, n), NEW l \in Batched
  PROVE  Lands(l)
<1>1. l \in active /\ l \in LiveIds
  BY DEF IInv, TakenIn, PublicationSound, Batched
<1>2. publication.batches[l] = log[p].staged[n + 1][l] /\ BatchNamed(p, n, l)
  BY <1>1 DEF Complete, StagingSound, StagedAs
<1>3. publication.batches[l] = Whole(p, l)
  BY <1>2 DEF Whole, Complete
<1>4. PICK i \in 1..n :
        /\ Bodies(p)[i].type = "keyed_results" /\ l \in Bodies(p)[i].targets
        /\ Bodies(p)[i].at[l].epoch = epoch[l] /\ Bodies(p)[i].at[l].seq = nextSeq[l]
  BY <1>2 DEF BatchNamed
<1>5. Placed(p, l, epoch[l], nextSeq[l])
  BY <1>4 DEF IInv, ServerInv, ChangesSound, Complete
<1>6. /\ Reached(l) < Len(hist[l]) /\ hist[l][Reached(l) + 1] = Whole(p, l)
      /\ epoch[l] < Len(bases[l]) => Reached(l) + 1 < bases[l][epoch[l] + 1].at
  BY <1>5 DEF Placed, Complete, Reached, Start
<1>7. PlaceSound(l)
  BY <1>1 DEF IInv, TakenIn
<1>8. Reached(l) \in Nat /\ Len(hist[l]) \in Nat
  <2>1. Start(l) \in Nat
    BY <1>1, <1>7, HistoryTypes DEF PlaceSound, Start, IInv, ServerInv
  <2> QED BY <1>1, <2>1, ClientTypes, HistoryTypes DEF Reached, IInv, ServerInv
<1>9. publication.batches[l] \in Batch
  BY <1>1 DEF IInv, ClientTyped, PublicationType
<1> QED BY <1>1, <1>3, <1>6, <1>8, <1>9 DEF Lands

LEMMA ResetLeads ==
  ASSUME IInv, NEW p, NEW n, Complete(p, n), NEW l \in Reset
  PROVE  Leads(l)
<1>1. l \in active /\ l \in LiveIds
  BY DEF IInv, TakenIn, PublicationSound, Reset
<1>2. ResetNamed(p, n, l)
  BY <1>1 DEF Complete, StagingSound
<1>3. PICK i \in 1..n :
        /\ Bodies(p)[i].type = "reset_required" /\ l \in Bodies(p)[i].targets
        /\ Bodies(p)[i].at[l].epoch > epoch[l]
        /\ publication.resets[l].epoch = Bodies(p)[i].at[l].epoch
        /\ publication.resets[l].first = Bodies(p)[i].at[l].seq
  BY <1>2 DEF ResetNamed
<1>4. PICK e : e = publication.resets[l].epoch
  OBVIOUS
<1>5. PICK s : s = publication.resets[l].first
  OBVIOUS
<1>6. Begins(p, l, e, s)
  BY <1>3, <1>4, <1>5 DEF IInv, ServerInv, ResetsSound, Complete
<1>7. s = 0 /\ e \in 1..Len(bases[l]) /\ e > epoch[l]
  BY <1>3, <1>4, <1>6 DEF Begins, Complete
<1>8. PlaceSound(l) /\ epoch[l] \in Nat /\ Len(bases[l]) \in Nat
  BY <1>1, ClientTypes, HistoryTypes DEF IInv, TakenIn, ServerInv
<1>9. PICK d \in Nat : d = epoch[l]
  BY <1>8
<1>10. d + 1 \in 1..Len(bases[l]) /\ d < Len(bases[l]) /\ d + 1 <= e
  BY <1>7, <1>8, <1>9
<1>11. Reached(l) < bases[l][d + 1].at
  BY <1>8, <1>9, <1>10 DEF PlaceSound
<1>12. d + 1 = e \/ bases[l][d + 1].at < bases[l][e].at
  BY <1>1, <1>7, <1>10 DEF IInv, ServerInv, BasesSound
<1>13. /\ bases[l][d + 1].at \in Nat /\ bases[l][e].at \in Nat /\ Reached(l) \in Nat
  <2>1. Start(l) \in Nat
    BY <1>1, <1>8, HistoryTypes DEF PlaceSound, Start, IInv, ServerInv
  <2> QED BY <1>1, <1>7, <1>10, <2>1, ClientTypes, HistoryTypes DEF Reached, IInv, ServerInv
<1>14. Reached(l) <= bases[l][e].at
  BY <1>11, <1>12, <1>13
<1> QED BY <1>1, <1>4, <1>5, <1>7, <1>14 DEF Leads

\* What a publication does to one query.
LEMMA InstallAt ==
  ASSUME NEW failed \in SUBSET (Batched \cap live), InstallPublication(failed),
         NEW k \in LiveIds
  PROVE  /\ rows'[k] = IF k \in (Batched \cap live) \ failed
                         THEN Append(rows[k], publication.batches[k]) ELSE rows[k]
         /\ backlog'[k] = IF k \in Reset THEN <<>>
                          ELSE IF k \in Batched \ live
                            THEN Append(backlog[k], publication.batches[k]) ELSE backlog[k]
         /\ nextSeq'[k] = IF k \in Reset THEN publication.resets[k].first
                          ELSE IF k \in Batched THEN nextSeq[k] + 1 ELSE nextSeq[k]
         /\ epoch'[k] = IF k \in Reset THEN publication.resets[k].epoch ELSE epoch[k]
         /\ sync'[k] = IF k \in Reset THEN NoSync ELSE sync[k]
BY DEF InstallPublication

LEMMA LiveAfter ==
  ASSUME IInv, calls = <<>>, NEW failed \in SUBSET (Batched \cap live),
         InstallPublication(failed), NEW k \in LiveIds
  PROVE  /\ Installed(k) <=> k \in live
         /\ Installed(k)' <=> k \in live /\ k \notin failed /\ k \notin Reset
<1>1. failed \in SUBSET LiveIds
  BY DEF Batched
<1>2. ~CatchingUp(k) /\ ~CatchingUp(k)'
  BY <1>1, PublicationCalls
<1>3. live' = live \ (failed \cup Reset)
  BY DEF InstallPublication
<1> QED BY <1>2, <1>3 DEF Installed

\* The next batch of a live query is shown, ...
LEMMA ShownNext ==
  ASSUME IInv, NEW k \in LiveIds, Lands(k), Installed(k), Installed(k)',
         hist' = hist, bases' = bases, epoch'[k] = epoch[k], nextSeq'[k] = nextSeq[k] + 1,
         sync'[k] = sync[k], rows'[k] = Append(rows[k], publication.batches[k])
  PROVE  /\ PlaceSound(k)' /\ RowsSound(k)' /\ SyncSound(k)' /\ Shows(rows'[k], hist[k])
<1>1. PlaceSound(k) /\ RowsSound(k) /\ SyncSound(k) /\ Shows(rows[k], hist[k])
  BY DEF IInv, TakenIn, Lands
<1>2. Start(k) \in Nat /\ nextSeq[k] \in Nat /\ Reached(k) \in Nat /\ Len(hist[k]) \in Nat
  <2>1. Start(k) \in Nat /\ nextSeq[k] \in Nat
    BY <1>1, HistoryTypes, ClientTypes DEF PlaceSound, Start, IInv, ServerInv
  <2> QED BY <2>1, HistoryTypes DEF Reached, IInv, ServerInv
<1>3. Start(k)' = Start(k) /\ Reached(k)' = Reached(k) + 1
  <2>1. Start(k)' = Start(k)
    BY DEF Start
  <2> QED BY <1>2, <2>1 DEF Reached
<1>4. PICK r \in Seq(Batch) : r = rows[k]
  BY ClientTypes DEF Rows
<1>5. PICK n \in Nat : n = Reached(k)
  BY <1>2
<1>6. PICK b \in Batch : b = publication.batches[k]
  BY DEF Lands
<1>7. Len(r) = n
  BY <1>1, <1>4, <1>5 DEF RowsSound
<1>8. /\ Append(r, b) \in Seq(Batch) /\ Len(Append(r, b)) = n + 1
      /\ Append(r, b)[n + 1] = b /\ \A i \in 1..n : Append(r, b)[i] = r[i]
  BY <1>7, AppendMore
<1>9. n + 1 <= Len(hist[k]) /\ hist[k][n + 1] = b
  BY <1>5, <1>6 DEF Lands
<1>10. Shows(Append(r, b), hist[k])
  <2>1. \A i \in 1..(n + 1) : Append(r, b)[i] = hist[k][i]
    <3> SUFFICES ASSUME NEW i \in 1..(n + 1)
                 PROVE  Append(r, b)[i] = hist[k][i]
      OBVIOUS
    <3>1. CASE i \in 1..n
      BY <1>1, <1>4, <1>7, <1>8, <3>1 DEF Shows
    <3>2. CASE i \notin 1..n
      <4>1. i = n + 1
        BY <3>2, LastIndex
      <4> QED BY <1>8, <1>9, <4>1
    <3> QED BY <3>1, <3>2
  <2> QED BY <1>8, <1>9, <2>1 DEF Shows
<1>11. PlaceSound(k)'
  BY <1>1, <1>3 DEF PlaceSound, Lands
<1>12. RowsSound(k)'
  BY <1>3, <1>4, <1>5, <1>6, <1>8 DEF RowsSound
<1>13. SyncSound(k)'
  BY <1>1 DEF SyncSound
<1> QED BY <1>4, <1>6, <1>10, <1>11, <1>12, <1>13

\* ... that of another is kept for its baseline.
LEMMA KeptNext ==
  ASSUME IInv, NEW k \in LiveIds, Lands(k), ~Installed(k), ~Installed(k)',
         hist' = hist, bases' = bases, epoch'[k] = epoch[k], nextSeq'[k] = nextSeq[k] + 1,
         sync'[k] = sync[k], rows'[k] = rows[k],
         backlog'[k] = Append(backlog[k], publication.batches[k])
  PROVE  /\ PlaceSound(k)' /\ RowsSound(k)' /\ SyncSound(k)'
<1>1. PlaceSound(k) /\ RowsSound(k) /\ SyncSound(k)
  BY DEF IInv, TakenIn, Lands
<1>2. /\ Start(k) \in Nat /\ nextSeq[k] \in Nat /\ Reached(k) \in Nat
      /\ Len(hist[k]) \in Nat /\ Len(rows[k]) \in Nat
  <2>1. Start(k) \in Nat /\ nextSeq[k] \in Nat
    BY <1>1, HistoryTypes, ClientTypes DEF PlaceSound, Start, IInv, ServerInv
  <2> QED BY <2>1, HistoryTypes, ClientTypes DEF Reached, IInv, ServerInv
<1>3. Start(k)' = Start(k) /\ Reached(k)' = Reached(k) + 1
  <2>1. Start(k)' = Start(k)
    BY DEF Start
  <2> QED BY <1>2, <2>1 DEF Reached
<1>4. PICK s \in Seq(Batch) : s = backlog[k]
  BY ClientTypes DEF Rows
<1>5. PICK n \in Nat : n = nextSeq[k]
  BY <1>2
<1>6. PICK b \in Batch : b = publication.batches[k]
  BY DEF Lands
<1>7. PICK a \in Nat : a = Start(k)
  BY <1>2
<1>8. Len(s) = n /\ \A i \in 1..n : s[i] = hist[k][a + i]
  BY <1>1, <1>4, <1>5, <1>7 DEF RowsSound
<1>9. /\ Append(s, b) \in Seq(Batch) /\ Len(Append(s, b)) = n + 1
      /\ Append(s, b)[n + 1] = b /\ \A i \in 1..n : Append(s, b)[i] = s[i]
  BY <1>8, AppendMore
<1>10. hist[k][a + (n + 1)] = b
  <2>1. a + (n + 1) = Reached(k) + 1
    BY <1>5, <1>7 DEF Reached
  <2> QED BY <1>6, <2>1 DEF Lands
<1>11. \A i \in 1..(n + 1) : Append(s, b)[i] = hist[k][a + i]
  <2> SUFFICES ASSUME NEW i \in 1..(n + 1)
               PROVE  Append(s, b)[i] = hist[k][a + i]
    OBVIOUS
  <2>1. CASE i \in 1..n
    BY <1>8, <1>9, <2>1
  <2>2. CASE i \notin 1..n
    <3>1. i = n + 1
      BY <2>2, LastIndex
    <3> QED BY <1>9, <1>10, <3>1
  <2> QED BY <2>1, <2>2
<1>12. PlaceSound(k)'
  BY <1>1, <1>3 DEF PlaceSound, Lands
<1>13. RowsSound(k)'
  <2>1. Len(rows[k]) <= Reached(k) + 1
    BY <1>1, <1>2 DEF RowsSound
  <2>2. Len(backlog'[k]) = nextSeq'[k]
    BY <1>4, <1>5, <1>6, <1>9
  <2>3. \A i \in 1..Len(backlog'[k]) : backlog'[k][i] = hist'[k][Start(k)' + i]
    BY <1>3, <1>4, <1>6, <1>7, <1>9, <1>11
  <2> QED BY <1>3, <2>1, <2>2, <2>3 DEF RowsSound
<1>14. SyncSound(k)'
  BY <1>1 DEF SyncSound
<1> QED BY <1>12, <1>13, <1>14

\* A query that is reset waits for the baseline of its new epoch.
LEMMA LedOn ==
  ASSUME IInv, NEW k \in LiveIds, Leads(k), ~Installed(k)',
         hist' = hist, bases' = bases, epoch'[k] = publication.resets[k].epoch,
         nextSeq'[k] = publication.resets[k].first,
         sync'[k] = NoSync, rows'[k] = rows[k], backlog'[k] = <<>>
  PROVE  /\ PlaceSound(k)' /\ RowsSound(k)' /\ SyncSound(k)'
<1>1. PlaceSound(k) /\ RowsSound(k)
  BY DEF IInv, TakenIn, Leads
<1>2. PICK e : e = publication.resets[k].epoch
  OBVIOUS
<1>3. e \in 1..Len(bases[k]) /\ Reached(k) <= bases[k][e].at /\ epoch'[k] = e /\ nextSeq'[k] = 0
  BY <1>2 DEF Leads
<1>4. /\ bases[k][e].at \in Nat /\ Reached(k) \in Nat /\ Len(rows[k]) \in Nat
      /\ Len(hist[k]) \in Nat /\ Len(bases[k]) \in Nat
  <2>1. Start(k) \in Nat
    BY <1>1, HistoryTypes DEF PlaceSound, Start, IInv, ServerInv
  <2> QED BY <1>3, <2>1, HistoryTypes, ClientTypes DEF Reached, IInv, ServerInv
<1>5. Start(k)' = bases[k][e].at /\ Reached(k)' = bases[k][e].at
  <2>1. Start(k)' = bases[k][e].at
    BY <1>3 DEF Start
  <2> QED BY <1>3, <1>4, <2>1 DEF Reached
<1>6. /\ bases[k][e].at <= Len(hist[k])
      /\ e < Len(bases[k]) => bases[k][e].at < bases[k][e + 1].at
  <2>1. e < Len(bases[k]) => e + 1 \in 1..Len(bases[k]) /\ e < e + 1
    BY <1>3, <1>4
  <2> QED BY <1>3, <2>1 DEF IInv, ServerInv, BasesSound
<1>7. PlaceSound(k)'
  BY <1>3, <1>5, <1>6 DEF PlaceSound
<1>8. RowsSound(k)'
  <2>1. Len(rows[k]) <= bases[k][e].at
    BY <1>1, <1>3, <1>4 DEF RowsSound
  <2>2. Len(backlog'[k]) = 0 /\ 1..0 = {}
    OBVIOUS
  <2> QED BY <1>3, <1>5, <2>1, <2>2 DEF RowsSound
<1>9. SyncSound(k)'
  BY DEF SyncSound, NoSync
<1> QED BY <1>7, <1>8, <1>9

\* A publication passes by a query it has nothing for.
Passed(k) ==
  /\ epoch'[k] = epoch[k] /\ nextSeq'[k] = nextSeq[k] /\ sync'[k] = sync[k]
  /\ backlog'[k] = backlog[k] /\ rows'[k] = rows[k] /\ (Installed(k)' <=> Installed(k))

LEMMA NotStagedFor ==
  ASSUME IInv, NEW k \in LiveIds, k \notin Batched, k \notin Reset,
         NEW failed \in SUBSET (Batched \cap live), InstallPublication(failed), calls = <<>>
  PROVE  Passed(k)
<1>1. Installed(k)' <=> Installed(k)
  BY LiveAfter
<1>2. /\ rows'[k] = rows[k] /\ backlog'[k] = backlog[k] /\ nextSeq'[k] = nextSeq[k]
      /\ epoch'[k] = epoch[k] /\ sync'[k] = sync[k]
  BY InstallAt
<1> QED BY <1>1, <1>2 DEF Passed

\* Everything a publication brings an active query is sound.
LEMMA CommitTarget ==
  ASSUME IInv, UNCHANGED serverVars, calls = <<>>,
         NEW failed \in SUBSET (Batched \cap live), InstallPublication(failed),
         NEW k \in active \ failed, k \in Batched => Lands(k), k \in Reset => Leads(k)
  PROVE  PlaceSound(k)' /\ RowsSound(k)' /\ SyncSound(k)' /\ Shows(rows'[k], hist[k])
<1>1. k \in LiveIds /\ hist' = hist /\ bases' = bases
  BY DEF IInv, ClientTyped, serverVars
<1>2. Batched \cap Reset = {} /\ Shows(rows[k], hist[k])
  BY <1>1 DEF IInv, TakenIn, PublicationSound
<1>3. CASE k \in Reset
  <2>1. /\ rows'[k] = rows[k] /\ backlog'[k] = <<>> /\ sync'[k] = NoSync
        /\ epoch'[k] = publication.resets[k].epoch /\ nextSeq'[k] = publication.resets[k].first
    BY <1>1, <1>2, <1>3, InstallAt
  <2>2. ~Installed(k)'
    BY <1>1, <1>3, LiveAfter
  <2> QED BY <1>1, <1>2, <1>3, <2>1, <2>2, LedOn
<1>4. CASE k \in Batched /\ k \in live
  <2>1. k \notin Reset
    BY <1>2, <1>4
  <2>2. /\ rows'[k] = Append(rows[k], publication.batches[k]) /\ sync'[k] = sync[k]
        /\ epoch'[k] = epoch[k] /\ nextSeq'[k] = nextSeq[k] + 1
    BY <1>1, <1>4, <2>1, InstallAt
  <2>3. Installed(k) /\ Installed(k)'
    BY <1>1, <1>4, <2>1, LiveAfter
  <2> QED BY <1>1, <1>4, <2>2, <2>3, ShownNext
<1>5. CASE k \in Batched /\ k \notin live
  <2>1. k \notin Reset
    BY <1>2, <1>5
  <2>2. /\ rows'[k] = rows[k] /\ sync'[k] = sync[k]
        /\ backlog'[k] = Append(backlog[k], publication.batches[k])
        /\ epoch'[k] = epoch[k] /\ nextSeq'[k] = nextSeq[k] + 1
    BY <1>1, <1>5, <2>1, InstallAt
  <2>3. ~Installed(k) /\ ~Installed(k)'
    BY <1>1, <1>5, LiveAfter
  <2> QED BY <1>1, <1>2, <1>5, <2>2, <2>3, KeptNext
<1>6. CASE k \notin Batched /\ k \notin Reset
  <2>1. Passed(k)
    BY <1>1, <1>6, NotStagedFor
  <2>2. PlaceSound(k) /\ RowsSound(k) /\ SyncSound(k)
    BY DEF IInv, TakenIn
  <2>3. PlaceSound(k)' /\ RowsSound(k)' /\ SyncSound(k)'
    BY <1>1, <2>1, <2>2, TargetSame DEF Passed
  <2> QED BY <1>2, <2>1, <2>3 DEF Passed
<1> QED BY <1>3, <1>4, <1>5, <1>6

\* The fields of every query keep their types.
LEMMA InstallTyped ==
  ASSUME IInv, NEW p, NEW n, Complete(p, n),
         NEW failed \in SUBSET (Batched \cap live), InstallPublication(failed)
  PROVE  /\ epoch' \in [LiveIds -> Nat] /\ nextSeq' \in [LiveIds -> Nat]
         /\ attempt' \in [LiveIds -> Nat] /\ sync' \in [LiveIds -> SyncType]
         /\ backlog' \in [LiveIds -> Rows] /\ rows' \in [LiveIds -> Rows]
<1> DEFINE installed == (Batched \cap live) \ failed
<1>1. /\ publication.batches \in [LiveIds -> Batch]
      /\ \A l \in LiveIds : /\ publication.resets[l].epoch \in Nat
                            /\ publication.resets[l].first \in Nat
  BY DEF IInv, ClientTyped, PublicationType
<1>2. /\ epoch \in [LiveIds -> Nat] /\ nextSeq \in [LiveIds -> Nat]
      /\ attempt \in [LiveIds -> Nat] /\ sync \in [LiveIds -> SyncType]
      /\ backlog \in [LiveIds -> Rows] /\ rows \in [LiveIds -> Rows]
  BY DEF IInv, ClientTyped
<1>3. \A r \in Rows : \A b \in Batch : Append(r, b) \in Rows
  BY AppendProperties DEF Rows
<1>4. <<>> \in Rows /\ NoSync \in SyncType
  BY DEF Rows, NoSync, SyncType
<1>5. epoch' \in [LiveIds -> Nat]
  BY <1>1, <1>2 DEF InstallPublication
<1>6. nextSeq' \in [LiveIds -> Nat]
  BY <1>1, <1>2 DEF InstallPublication
<1>7. attempt' \in [LiveIds -> Nat]
  BY <1>1, <1>2 DEF InstallPublication
<1>8. sync' \in [LiveIds -> SyncType]
  BY <1>2, <1>4 DEF InstallPublication
<1>9. backlog' \in [LiveIds -> Rows]
  BY <1>1, <1>2, <1>3, <1>4 DEF InstallPublication
<1>10. rows' \in [LiveIds -> Rows]
  BY <1>1, <1>2, <1>3 DEF InstallPublication
<1> QED BY <1>5, <1>6, <1>7, <1>8, <1>9, <1>10

LEMMA CommitFrameKeeps ==
  ASSUME IInv, NEW m \in Frames, Commit(m), calls = <<>>, UNCHANGED serverVars
  PROVE  IInv'
<1>1. CASE ProtocolFailure
  BY <1>1, EndKeeps DEF ProtocolFailure
<1>2. CASE ~ProtocolFailure
  <2>1. PICK failed \in SUBSET (Batched \cap live) : InstallPublication(failed)
    BY <1>2 DEF Commit
  <2>2. /\ m.type = "commit" /\ ~InvalidCommit(m) /\ publication' = NoPublication
        /\ UNCHANGED <<pending, subscribed, registered>>
    BY <1>2 DEF Commit
  <2>3. PICK p : p = publication.id
    OBVIOUS
  <2>4. PICK n : n = publication.nextBody
    OBVIOUS
  <2>5. Complete(p, n)
    BY <2>2, <2>3, <2>4, CommitReads
  <2>6. log' = log /\ hist' = hist /\ bases' = bases
    BY DEF serverVars
  <2>7. ServerInv'
    BY <2>6, ServerSame DEF IInv
  <2>8. active' = active \ failed
    BY <2>1 DEF InstallPublication
  <2>9. failed \in SUBSET LiveIds
    BY DEF Batched
  <2>10. calls' \in Seq(ListenerCall)
    BY <2>1, <2>9, PublicationCalls
  <2>11. ClientTyped'
    <3>1. publication' \in PublicationType
      BY <2>2, BlankPublication
    <3>2. /\ epoch' \in [LiveIds -> Nat] /\ nextSeq' \in [LiveIds -> Nat]
          /\ attempt' \in [LiveIds -> Nat] /\ sync' \in [LiveIds -> SyncType]
          /\ backlog' \in [LiveIds -> Rows] /\ rows' \in [LiveIds -> Rows]
      BY <2>1, <2>5, InstallTyped
    <3> QED BY <2>2, <2>6, <2>8, <2>10, <3>1, <3>2 DEF IInv, ClientTyped
  <2>12. ASSUME NEW k \in active'
         PROVE  PlaceSound(k)' /\ RowsSound(k)' /\ SyncSound(k)' /\ Shows(rows'[k], hist[k])
    <3>1. k \in active \ failed
      BY <2>8
    <3>2. /\ k \in Batched => Lands(k)
          /\ k \in Reset => Leads(k)
      BY <2>5, BatchLands, ResetLeads
    <3> QED BY <2>1, <3>1, <3>2, CommitTarget
  <2>13. ASSUME NEW k \in LiveIds
         PROVE  Shows(rows[k], hist[k])'
    <3>1. CASE k \in active'
      BY <2>6, <2>12, <3>1
    <3>2. CASE k \notin active'
      <4>1. k \notin (Batched \cap live) \ failed
        BY <2>8, <3>2 DEF IInv, TakenIn, PublicationSound
      <4>2. rows'[k] = rows[k] /\ Shows(rows[k], hist[k])
        BY <2>1, <4>1, InstallAt DEF IInv, TakenIn
      <4> QED BY <2>6, <4>2
    <3> QED BY <3>1, <3>2
  <2>14. ASSUME NEW k \in pending'
         PROVE  BlankSound(k)'
    <3>1. k \in pending /\ k \in LiveIds /\ k \notin active
      BY <2>2 DEF IInv, ClientTyped
    <3>2. k \notin Batched /\ k \notin Reset /\ BlankSound(k)
      BY <3>1 DEF IInv, TakenIn, PublicationSound
    <3>3. Passed(k)
      BY <2>1, <3>1, <3>2, NotStagedFor
    <3> QED BY <3>2, <3>3 DEF BlankSound, Passed
  <2>15. PublicationSound'
    <3>1. ~publication'.open /\ Batched' = {} /\ Reset' = {}
      BY <2>2, BlankPublication DEF Batched, Reset
    <3> QED BY <3>1 DEF PublicationSound
  <2> QED BY <2>7, <2>11, <2>12, <2>13, <2>14, <2>15 DEF IInv, TakenIn
<1> QED BY <1>1, <1>2

LEMMA DeliverKeeps ==
  ASSUME IInv, DeliverAny
  PROVE  IInv'
<1>1. PICK m \in Frames : Receive(m)
  BY DEF DeliverAny
<1>2. calls = <<>> /\ UNCHANGED serverVars
  BY <1>1 DEF Receive, DeliverAny
<1> QED BY <1>1, <1>2, SubscribedKeeps, UnsubscribedKeeps, StartKeeps, BatchKeeps,
           BaselineEndKeeps, OpenFrameKeeps, KeyedResultsKeeps, ResetRequiredKeeps,
           CommitFrameKeeps, ProgressKeeps DEF Receive

-----------------------------------------------------------------------------
(* The listener calls and the application.                                 *)

\* The first of the listener calls has been made.
LEMMA CallMade ==
  ASSUME IInv, calls # <<>>, calls' = Tail(calls)
  PROVE  /\ Head(calls) \in ListenerCall /\ calls' \in Seq(ListenerCall)
         /\ \A l : CatchingUp(l) /\ ~CatchingUp(l)' =>
              Head(calls).method = "caughtUp" /\ Head(calls).id = l
         /\ \A l : CatchingUp(l)' => CatchingUp(l)
         /\ Head(calls).method = "caughtUp" => CatchingUp(Head(calls).id)
<1>1. PICK s \in Seq(ListenerCall) : s = calls
  BY DEF IInv, ClientTyped
<1>2. s # <<>>
  BY <1>1
<1>3. PICK n \in Nat : n = Len(s)
  OBVIOUS
<1>4. /\ Tail(s) \in Seq(ListenerCall) /\ n # 0 /\ Len(Tail(s)) = n - 1
      /\ \A i \in 1..(n - 1) : Tail(s)[i] = s[i + 1]
      /\ Head(s) = s[1] /\ s[1] \in ListenerCall
  BY <1>2, <1>3
<1>5. calls' = Tail(s)
  BY <1>1
<1>6. ASSUME NEW l, CatchingUp(l)
      PROVE  CatchingUp(l)' \/ (Head(calls).method = "caughtUp" /\ Head(calls).id = l)
  <2>1. PICK i \in 1..n : s[i].method = "caughtUp" /\ s[i].id = l
    BY <1>1, <1>3, <1>6 DEF CatchingUp
  <2>2. CASE i = 1
    BY <1>1, <1>4, <2>1, <2>2
  <2>3. CASE i # 1
    <3>1. PICK j \in 1..(n - 1) : i = j + 1
      <4>1. i - 1 \in 1..(n - 1) /\ i = (i - 1) + 1
        BY <2>3
      <4> QED BY <4>1
    <3>2. Tail(s)[j].method = "caughtUp" /\ Tail(s)[j].id = l /\ j \in 1..Len(Tail(s))
      BY <1>4, <2>1, <3>1
    <3>3. \E x \in 1..Len(calls') : calls'[x].method = "caughtUp" /\ calls'[x].id = l
      BY <1>5, <3>2
    <3> QED BY <3>3 DEF CatchingUp
  <2> QED BY <2>2, <2>3
<1>7. ASSUME NEW l, CatchingUp(l)'
      PROVE  CatchingUp(l)
  <2>1. PICK i \in 1..(n - 1) : Tail(s)[i].method = "caughtUp" /\ Tail(s)[i].id = l
    BY <1>4, <1>5, <1>7 DEF CatchingUp
  <2>2. PICK j : j = i + 1
    OBVIOUS
  <2>3. j \in 1..n /\ s[j] = Tail(s)[i]
    BY <1>4, <2>2
  <2> QED BY <1>1, <1>3, <2>1, <2>3 DEF CatchingUp
<1>8. ASSUME Head(calls).method = "caughtUp"
      PROVE  CatchingUp(Head(calls).id)
  <2>1. 1 \in 1..n
    BY <1>4
  <2> QED BY <1>1, <1>3, <1>4, <1>8, <2>1 DEF CatchingUp
<1> QED BY <1>1, <1>4, <1>5, <1>6, <1>7, <1>8

\* A call that does not set a query live leaves the queries as they are.
LEMMA OtherCallKeeps ==
  ASSUME IInv, UNCHANGED serverVars, calls # <<>>, calls' = Tail(calls),
         Head(calls).method # "caughtUp",
         UNCHANGED <<pending, subscribed, targetVars, publication, rows>>
  PROVE  IInv'
<1>1. \A l \in LiveIds : Installed(l)' <=> Installed(l)
  BY CallMade DEF Installed, targetVars
<1>2. subscribed' \subseteq LiveIds /\ calls' \in Seq(ListenerCall)
  BY CallMade DEF IInv, ClientTyped
<1> QED BY <1>1, <1>2, SameTargets DEF targetVars

\* A subscription that leaves takes its query out, or ends the connection.
LEMMA LeaveKeeps ==
  ASSUME IInv, UNCHANGED serverVars, NEW l \in LiveIds, Leave(l),
         subscribed # {l} => \/ UNCHANGED calls
                             \/ /\ calls # <<>> /\ calls' = Tail(calls)
                                /\ Head(calls).method # "caughtUp"
  PROVE  IInv'
<1>1. CASE EndConnection("closed")
  BY <1>1, EndKeeps
<1>2. CASE ~EndConnection("closed")
  <2>1. /\ subscribed # {l} /\ subscribed' = subscribed \ {l}
        /\ \/ l \in active /\ Deactivate(l)
           \/ l \notin active /\ UNCHANGED <<targetVars, publication>>
        /\ UNCHANGED <<pending, rows>>
    BY <1>2 DEF Leave
  <2>2. /\ \A k \in LiveIds : CatchingUp(k)' <=> CatchingUp(k)
        /\ calls' \in Seq(ListenerCall)
    <3>1. CASE UNCHANGED calls
      BY <3>1 DEF CatchingUp, IInv, ClientTyped
    <3>2. CASE calls # <<>> /\ calls' = Tail(calls) /\ Head(calls).method # "caughtUp"
      BY <3>2, CallMade
    <3> QED BY <2>1, <3>1, <3>2
  <2>3. subscribed' \subseteq LiveIds
    BY <2>1 DEF IInv, ClientTyped
  <2>4. CASE l \in active /\ Deactivate(l)
    <3>1. /\ active' = active \ {l} /\ live' = live \ {l}
          /\ sync' = [sync EXCEPT ![l] = NoSync] /\ backlog' = [backlog EXCEPT ![l] = <<>>]
          /\ publication' = [publication EXCEPT !.batches[l] = <<>>, !.resets[l] = NoReset]
          /\ UNCHANGED <<registered, epoch, nextSeq, attempt>>
      BY <2>4 DEF Deactivate
    <3>2. l \in registered
      BY <2>4 DEF IInv, ClientTyped
    <3>3. /\ registered' \in {registered, registered \ {l}}
          /\ sync' \in {sync, [sync EXCEPT ![l] = NoSync]}
          /\ UNCHANGED <<pending, epoch, nextSeq, attempt, rows>>
          /\ \A k \in LiveIds \ {l} : CatchingUp(k)' <=> CatchingUp(k)
      BY <2>1, <2>2, <3>1
    <3> QED BY <2>2, <2>3, <3>1, <3>2, <3>3, RemovalKeeps
  <2>5. CASE l \notin active /\ UNCHANGED <<targetVars, publication>>
    <3>1. \A k \in LiveIds : Installed(k)' <=> Installed(k)
      BY <2>2, <2>5 DEF Installed, targetVars
    <3> QED BY <2>1, <2>2, <2>3, <2>5, <3>1, SameTargets DEF targetVars
  <2> QED BY <2>1, <2>4, <2>5
<1> QED BY <1>1, <1>2

LEMMA CaughtUpKeeps ==
  ASSUME IInv, UNCHANGED serverVars, CaughtUp
  PROVE  IInv'
<1>1. /\ calls # <<>> /\ calls' = Tail(calls) /\ Head(calls).method = "caughtUp"
      /\ live' = live \cup {Head(calls).id}
      /\ UNCHANGED <<pending, subscribed, registered, active, epoch, nextSeq, attempt, sync,
                     backlog, publication, rows>>
  BY DEF CaughtUp, Next1
<1>2. \A l \in LiveIds : Installed(l)' <=> Installed(l)
  <2>1. ASSUME NEW l \in LiveIds, Installed(l)
        PROVE  Installed(l)'
    BY <1>1, <2>1, CallMade DEF Installed
  <2>2. ASSUME NEW l \in LiveIds, Installed(l)'
        PROVE  Installed(l)
    BY <1>1, <2>2, CallMade DEF Installed
  <2> QED BY <2>1, <2>2
<1>3. subscribed' \subseteq LiveIds /\ calls' \in Seq(ListenerCall)
  BY <1>1, CallMade DEF IInv, ClientTyped
<1> QED BY <1>1, <1>2, <1>3, SameTargets

LEMMA NotifyKeeps ==
  ASSUME IInv, UNCHANGED serverVars, Notify
  PROVE  IInv'
<1>1. CASE PublishReset
  BY <1>1, OtherCallKeeps DEF PublishReset, Next1
<1>2. CASE PublishBatch
  BY <1>2, OtherCallKeeps DEF PublishBatch, Next1
<1>3. CASE CaughtUp
  BY <1>3, CaughtUpKeeps
<1>4. CASE NotifyReset
  BY <1>4, OtherCallKeeps DEF NotifyReset, Next1, visibleVars
<1>5. CASE DecodeFailed
  <2>1. calls # <<>> /\ Head(calls).method = "decodeFailed"
    BY <1>5 DEF DecodeFailed, Next1
  <2>2. PICK l : l = Head(calls).id
    OBVIOUS
  <2>3. CASE l \in subscribed /\ Leave(l) /\ (subscribed # {l} => calls' = Tail(calls))
    <3>1. l \in LiveIds
      BY <2>3 DEF IInv, ClientTyped
    <3> QED BY <2>1, <2>3, <3>1, LeaveKeeps
  <2>4. CASE /\ calls' = Tail(calls)
             /\ UNCHANGED <<pending, subscribed, targetVars, publication, visibleVars>>
    BY <2>1, <2>4, OtherCallKeeps DEF visibleVars
  <2> QED BY <1>5, <2>2, <2>3, <2>4 DEF DecodeFailed
<1> QED BY <1>1, <1>2, <1>3, <1>4, <1>5 DEF Notify

LEMMA LocalKeeps ==
  ASSUME IInv, Local
  PROVE  IInv'
<1>1. UNCHANGED serverVars
  BY DEF Local
<1>2. CASE Notify
  BY <1>1, <1>2, NotifyKeeps
<1>3. CASE Close
  BY <1>1, <1>3, EndKeeps DEF Close
<1>4. ASSUME NEW l \in LiveIds, Unsubscribe(l)
      PROVE  IInv'
  BY <1>1, <1>4, LeaveKeeps DEF Unsubscribe
<1> QED BY <1>2, <1>3, <1>4 DEF Local

-----------------------------------------------------------------------------
(* What holds in every reachable state.                                    *)

LEMMA StepKeeps ==
  ASSUME IInv, [UnorderedNext]_unorderedVars
  PROVE  IInv'
<1>1. CASE Serve
  BY <1>1, ServiceKeeps
<1>2. CASE DeliverAny
  BY <1>2, DeliverKeeps
<1>3. CASE Local
  BY <1>3, LocalKeeps
<1>4. CASE UNCHANGED unorderedVars
  BY <1>4, ClientIdle DEF unorderedVars
<1> QED BY <1>1, <1>2, <1>3, <1>4 DEF UnorderedNext

\* The service keeps its word and the client has taken in nothing else: the
\* inductive invariant, in every reachable state.
THEOREM TakenInAlways == UnorderedSpec => []IInv
<1>1. UnorderedInit => IInv
  BY InitKeeps
<1>2. IInv /\ [UnorderedNext]_unorderedVars => IInv'
  BY StepKeeps
<1> QED BY <1>1, <1>2, PTL DEF UnorderedSpec

\* Whatever frames reach the client, in whatever order, a query never shows
\* anything but a state its result once had.
THEOREM PrefixConsistentAlways == UnorderedSpec => []PrefixConsistent
<1>1. IInv => PrefixConsistent
  <2> SUFFICES ASSUME IInv, NEW l \in LiveIds
               PROVE  IsPrefix(rows[l], hist[l])
    BY DEF PrefixConsistent
  <2>1. rows[l] \in Seq(Batch) /\ hist[l] \in Seq(Batch) /\ Shows(rows[l], hist[l])
    BY ClientTypes, HistoryTypes DEF IInv, ServerInv, TakenIn, Rows
  <2> QED BY <2>1, PrefixIs
<1> QED BY <1>1, TakenInAlways, PTL

-----------------------------------------------------------------------------
(* What a step may do to the rows.                                         *)

\* Only a whole baseline and a published batch change what is shown.
Installs(m) ==
  /\ calls = <<>> /\ UNCHANGED serverVars
  /\ \/ BaselineSyncEnd(m) /\ m.id \in active /\ InstallBaseline(m.id)
     \/ \E failed \in SUBSET (Batched \cap live) : InstallPublication(failed)

LEMMA OthersKeepRows ==
  ASSUME [UnorderedNext]_unorderedVars, rows' # rows
  PROVE  \E m \in Frames : Installs(m)
<1>1. ~UNCHANGED clientVars
  BY DEF clientVars, visibleVars
<1>2. \A how : ~EndConnection(how)
  BY DEF EndConnection
<1>3. \A l : ~Leave(l)
  BY <1>2 DEF Leave
<1>4. ~Serve /\ ~UNCHANGED unorderedVars
  BY <1>1 DEF Serve, unorderedVars
<1>5. ~Notify
  BY <1>3 DEF Notify, PublishReset, PublishBatch, CaughtUp, NotifyReset, DecodeFailed,
              visibleVars
<1>6. ~Local
  BY <1>2, <1>3, <1>5 DEF Local, Close, Unsubscribe
<1>7. PICK m \in Frames : Receive(m) /\ UNCHANGED serverVars
  BY <1>4, <1>6 DEF UnorderedNext, DeliverAny
<1>8. /\ ~Subscribed(m) /\ ~Unsubscribed(m) /\ ~Open(m) /\ ~KeyedResults(m)
      /\ ~ResetRequired(m) /\ ~Progress(m)
  BY <1>2 DEF Subscribed, Unsubscribed, Open, KeyedResults, ResetRequired, Progress,
              ProtocolFailure, visibleVars
<1>9. \A invalid \in BOOLEAN : ~NotAccepted(m, invalid)
  BY <1>1, <1>2 DEF NotAccepted, ProtocolFailure
<1>10. ~BaselineSyncStart(m) /\ ~BaselineSyncBatch(m)
  <2>1. InvalidStart(m) \in BOOLEAN /\ InvalidBatch(m) \in BOOLEAN
    BY DEF InvalidStart, InvalidBatch
  <2> QED BY <1>9, <2>1 DEF BaselineSyncStart, BaselineSyncBatch, visibleVars
<1>11. CASE BaselineSyncEnd(m)
  <2>1. InvalidEnd(m) \in BOOLEAN
    BY DEF InvalidEnd
  <2>2. InstallBaseline(m.id) /\ m.id \in active
    BY <1>9, <1>11, <2>1 DEF BaselineSyncEnd, BaselineDecodeFailed, Accepted, Ignored
  <2> QED BY <1>7, <1>11, <2>2 DEF Installs, Receive
<1>12. CASE Commit(m)
  <2>1. \E failed \in SUBSET (Batched \cap live) : InstallPublication(failed)
    BY <1>2, <1>12 DEF Commit, ProtocolFailure
  <2> QED BY <1>7, <2>1 DEF Installs, Receive
<1> QED BY <1>7, <1>8, <1>10, <1>11, <1>12 DEF Receive

\* Of two prefixes of a history, the shorter one is a prefix of the other.
LEMMA ShorterIs ==
  ASSUME NEW r \in Rows, NEW s \in Rows, NEW h \in Rows, Shows(r, h), Shows(s, h),
         Len(r) <= Len(s)
  PROVE  Shows(r, s)
<1>1. Len(r) \in Nat /\ Len(s) \in Nat
  BY DEF Rows
<1>2. \A i \in 1..Len(r) : i \in 1..Len(s)
  BY <1>1
<1> QED BY <1>2 DEF Shows

LEMMA LongerIs ==
  ASSUME NEW r \in Rows, NEW b \in Batch
  PROVE  Shows(r, Append(r, b))
<1>1. PICK n \in Nat : n = Len(r)
  BY DEF Rows
<1>2. Len(Append(r, b)) = n + 1 /\ \A i \in 1..n : Append(r, b)[i] = r[i]
  BY <1>1, AppendMore DEF Rows
<1> QED BY <1>1, <1>2 DEF Shows

\* A baseline is installed over rows it begins with.
LEMMA BaselineExtends ==
  ASSUME IInv, IInv', NEW m, BaselineSyncEnd(m), m.id \in active, InstallBaseline(m.id),
         UNCHANGED serverVars, UNCHANGED <<epoch, nextSeq>>
  PROVE  Shows(rows[m.id], rows'[m.id])
<1>1. PICK l : l = m.id
  OBVIOUS
<1>2. l \in active /\ l \in active' /\ l \in LiveIds
  BY <1>1 DEF InstallBaseline, IInv, ClientTyped
<1>3. CatchingUp(l)'
  BY <1>1, <1>2, InstallCalls DEF InstallBaseline
<1>4. hist' = hist /\ bases' = bases
  BY DEF serverVars
<1>5. Reached(l)' = Reached(l)
  BY <1>4 DEF Reached, Start
<1>6. Len(rows[l]) <= Reached(l) /\ Shows(rows[l], hist[l])
  BY <1>2 DEF IInv, TakenIn, RowsSound
<1>7. Len(rows'[l]) = Reached(l)' /\ Shows(rows'[l], hist'[l])
  <2>1. RowsSound(l)' /\ Installed(l)'
    BY <1>2, <1>3 DEF IInv, TakenIn, Installed
  <2>2. Len(rows'[l]) = Reached(l)'
    BY <2>1 DEF RowsSound
  <2>3. Shows(rows'[l], hist'[l])
    BY <1>2 DEF IInv, TakenIn
  <2> QED BY <2>2, <2>3
<1>8. rows[l] \in Rows /\ rows'[l] \in Rows /\ hist[l] \in Rows
  BY <1>2 DEF IInv, ClientTyped, ServerInv, ServerTyped
<1>9. Shows(rows[l], rows'[l])
  BY <1>4, <1>5, <1>6, <1>7, <1>8, ShorterIs
<1> QED BY <1>1, <1>9

LEMMA StepGrows ==
  ASSUME IInv, IInv', [UnorderedNext]_unorderedVars, NEW l \in LiveIds
  PROVE  IsPrefix(rows[l], rows'[l])
<1>1. rows[l] \in Rows /\ rows'[l] \in Rows /\ publication.batches[l] \in Batch
  BY DEF IInv, ClientTyped, PublicationType
<1>2. Shows(rows[l], rows[l])
  <2>1. Len(rows[l]) \in Nat
    BY <1>1 DEF Rows
  <2> QED BY <2>1 DEF Shows
<1>3. Shows(rows[l], rows'[l])
  <2>1. CASE rows' = rows
    BY <1>2, <2>1
  <2>2. CASE rows' # rows
    <3>1. PICK m \in Frames : Installs(m)
      BY <2>2, OthersKeepRows
    <3>2. CASE BaselineSyncEnd(m) /\ m.id \in active /\ InstallBaseline(m.id)
      <4>1. CASE l = m.id
        <5>1. UNCHANGED <<epoch, nextSeq>>
          BY <2>2, <3>2 DEF BaselineSyncEnd, NotAccepted, ProtocolFailure, EndConnection,
                            clientVars, targetVars
        <5> QED BY <3>1, <3>2, <4>1, <5>1, BaselineExtends DEF Installs
      <4>2. CASE l # m.id
        <5>1. rows'[l] = rows[l]
          BY <3>2, <4>2 DEF InstallBaseline, IInv, ClientTyped
        <5> QED BY <1>2, <5>1
      <4> QED BY <4>1, <4>2
    <3>3. CASE \E failed \in SUBSET (Batched \cap live) : InstallPublication(failed)
      <4>1. rows'[l] = rows[l] \/ rows'[l] = Append(rows[l], publication.batches[l])
        BY <3>3 DEF InstallPublication
      <4> QED BY <1>1, <1>2, <4>1, LongerIs
    <3> QED BY <3>1, <3>2, <3>3 DEF Installs
  <2> QED BY <2>1, <2>2
<1> QED BY <1>1, <1>3, PrefixIs DEF Rows

\* No frame, call or failure takes back a batch that was shown.
THEOREM RowsGrowAlways == UnorderedSpec => RowsGrow
<1>1. IInv /\ IInv' /\ [UnorderedNext]_unorderedVars
        => [\A l \in LiveIds : IsPrefix(rows[l], rows'[l])]_unorderedVars
  BY StepGrows
<1> QED BY <1>1, TakenInAlways, PTL DEF UnorderedSpec, RowsGrow

=============================================================================

--------------------------- MODULE RealtimeStream ---------------------------
(***************************************************************************)
(* A client and the service joined by one WebSocket: frames arrive in the  *)
(* order in which the service emits them, none is lost and none comes      *)
(* twice.  The client's frames to the service are not queued: the service  *)
(* acts on an unsubscribe whenever it comes to it, so frames for a closed  *)
(* query keep arriving for a while.                                        *)
(***************************************************************************)
EXTENDS RealtimeUnordered

CONSTANT WireCap    \* bound: frames in flight

ASSUME WireCapBound == WireCap \in Nat \ {0}

VARIABLES
  wire,     \* frames in flight, oldest first
  syncing   \* the baseline sync the service is sending for each query

vars == <<clientVars, serverVars, wire, syncing>>

NoBaseline == [attempt |-> 0, sent |-> 0, ended |-> FALSE]

Init ==
  /\ ClientInit
  /\ ServerInit
  /\ wire = <<>>
  /\ syncing = [l \in LiveIds |-> NoBaseline]

Emit(m) ==
  /\ Len(wire) < WireCap
  /\ wire' = Append(wire, m)

-----------------------------------------------------------------------------
(* The service.                                                            *)

SendAdmission(l) ==
  /\ l \in pending
  /\ Admit(l)
  /\ Emit(SubscribedFrame(l))
  /\ UNCHANGED syncing

SendDetachment(l) ==
  /\ Detach(l)
  /\ Emit(UnsubscribedFrame(l))
  /\ UNCHANGED syncing

\* A sync that has not ended may be started again.
SendStart(l) ==
  /\ l \in Attached
  /\ ~syncing[l].ended
  /\ syncing[l].attempt < MaxAttempts
  /\ syncing' = [syncing EXCEPT ![l] = [NoBaseline EXCEPT !.attempt = syncing[l].attempt + 1]]
  /\ Emit(StartFrame(l, Epoch(l), syncing[l].attempt + 1))

SendBatch(l) ==
  /\ l \in Attached
  /\ syncing[l].attempt # 0
  /\ syncing[l].sent < bases[l][Epoch(l)].at
  /\ syncing' = [syncing EXCEPT ![l].sent = @ + 1]
  /\ Emit(BatchFrame(l, Epoch(l), syncing[l].attempt, syncing[l].sent))

SendEnd(l) ==
  /\ l \in Attached
  /\ syncing[l].attempt # 0
  /\ ~syncing[l].ended
  /\ syncing[l].sent = bases[l][Epoch(l)].at
  /\ syncing' = [syncing EXCEPT ![l].ended = TRUE]
  /\ Emit(EndFrame(l, Epoch(l), syncing[l].attempt))

\* Baseline frames do not interrupt a publication.
SendBaseline(l) ==
  /\ ~Publishing
  /\ SendStart(l) \/ SendBatch(l) \/ SendEnd(l)
  /\ UNCHANGED serverVars

SendOpen ==
  /\ OpenPublication
  /\ Emit(OpenFrame(Len(log) + 1))
  /\ UNCHANGED syncing

LastBody == BodyFrame(Len(log), Len(log[Len(log)].bodies) - 1)

SendBody ==
  /\ \E targets \in SUBSET LiveIds : AddChanges(targets) \/ AddReset(targets)
  /\ Emit(LastBody')
  /\ UNCHANGED syncing

SendCommit ==
  /\ CommitPublication
  /\ Emit(CommitFrame(Len(log), TRUE))
  /\ syncing' = [l \in LiveIds |-> IF l \in log[Len(log)].resets THEN NoBaseline
                                   ELSE syncing[l]]

\* Everything published so far is on the wire in front of this frame.
SendProgress ==
  /\ ~Publishing
  /\ Emit(ProgressFrame(Len(log)))
  /\ UNCHANGED <<serverVars, syncing>>

\* The service moves between two handlers of the client: while listeners run, a
\* step of the service would commute with every one of them.
Service ==
  /\ conn = "open"
  /\ calls = <<>>
  /\ \/ \E l \in LiveIds : SendAdmission(l) \/ SendDetachment(l) \/ SendBaseline(l)
     \/ SendOpen
     \/ SendBody
     \/ SendCommit
     \/ SendProgress
  /\ UNCHANGED clientVars

-----------------------------------------------------------------------------
(* The client.                                                             *)

Deliver ==
  /\ wire # <<>>
  /\ Receive(Head(wire))
  /\ wire' = Tail(wire)
  /\ UNCHANGED <<serverVars, syncing>>

Listeners ==
  /\ Notify
  /\ UNCHANGED <<serverVars, wire, syncing>>

Application ==
  /\ Close \/ \E l \in LiveIds : Unsubscribe(l)
  /\ UNCHANGED <<serverVars, wire, syncing>>

Next == Service \/ Deliver \/ Listeners \/ Application

Spec == Init /\ [][Next]_vars

\* A socket that stays open delivers, the event loop runs, and the service
\* answers requests, completes baselines and commits what it has opened.
Fairness ==
  /\ WF_vars(Deliver)
  /\ WF_vars(Listeners)
  /\ \A l \in LiveIds :
       /\ SF_vars(SendAdmission(l) /\ conn = "open" /\ UNCHANGED clientVars)
       /\ SF_vars(SendBaseline(l) /\ conn = "open" /\ UNCHANGED clientVars)
  /\ WF_vars(SendCommit /\ conn = "open" /\ UNCHANGED clientVars)

FairSpec == Spec /\ Fairness

-----------------------------------------------------------------------------
(* Properties.                                                             *)

\* A service that keeps its promises never makes the client give up: whatever
\* the timing of resets, restarted baselines, late unsubscribes and listeners
\* that leave, no frame is taken for a protocol error.
NoProtocolError == conn # "broken"

\* The same, and the client's tables stay well formed while it takes those frames.
ClientSound == ClientTypeOK /\ NoProtocolError

Current == live \cap active

\* A query shows the part of its history that the first k publications make.
ShowsCut(l, k) ==
  /\ IsPrefix(rows[l], hist[l])
  /\ \A i \in DOMAIN hist[l] : i <= Len(rows[l]) <=> hist[l][i][1][1] <= k

\* All up-to-date queries show one cut of the database history, also while the
\* listeners of a publication are still being called: a publication becomes
\* visible in all the queries it changes or in none.
CommonCut ==
  \E k \in 0..Len(log) : \A l \in Current : ShowsCut(l, k)

\* A raw listener that applies the baseline and the changes it is given ends
\* every handler with the rows the subscription shows.
ListenersAgree ==
  calls = <<>> => \A l \in subscribed : replica[l] = rows[l]

\* awaitTxId() resolves for a transaction only when the query shows every
\* change that transaction made to it.
ReadYourWrites ==
  \A l \in subscribed : \A i \in DOMAIN hist[l] :
    hist[l][i][1][1] \in confirmed[l] => i <= Len(rows[l])

\* Fails, the README shows how.  The doc of ReconciliationTarget.resetRequired():
\* "Leave `live' while the proxy obtains a replacement baseline."
ResetLeavesLive ==
  calls = <<>> => \A l \in subscribed \cap active :
    l \in status => l \in live

\* Every query the application keeps is in the end up to date with everything
\* the service has published, however often it was reset or restarted.
EventuallyCurrent ==
  \A l \in LiveIds :
    <>[](l \in subscribed => l \in Current /\ rows[l] = hist[l])

\* The stream implements the view: the cut is the number of publications
\* whose commit the client has handled.
InFlight  == Cardinality({i \in DOMAIN wire : wire[i].type = "commit"})
Published == IF Publishing THEN Len(log) - 1 ELSE Len(log)

View == INSTANCE LiveView WITH
  published <- Published,
  cut       <- Published - InFlight,
  current   <- Current,
  shown     <- rows

ImplementsView == View!Spec

=============================================================================

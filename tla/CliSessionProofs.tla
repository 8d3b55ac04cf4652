--------------------------- MODULE CliSessionProofs ---------------------------
(***************************************************************************)
(* Proofs about the session that CLI commands share, for any number of      *)
(* commands, rotations, logins, crashes and losses.                         *)
(***************************************************************************)
EXTENDS CliSession, TLAPS

InLock == Holding \cup {"locking", "blocked", "unlinking"}

\* Who is past the lock is who the lock file names.
HoldersNamed ==
  "snatched" \notin excused =>
    \A p \in Commands : command[p].pc \in Holding => lock = p

\* Only a lock left by a crash is old, and only such a lock, or one that has
\* gone already, is judged stale.
OldIsCrashed == old => lock # Nobody /\ At(lock, "crashed")

JudgedIsCrashed ==
  \A p \in Commands :
    At(p, "unlinking") /\ command[p].judged # Nobody => At(command[p].judged, "crashed")

\* A command that waits for the lock because of a 401 has made one attempt.
FirstAttempt ==
  \A p \in Commands :
    command[p].pc \in InLock /\ command[p].after = "401" => command[p].attempt = 1

\* Tokens are of sessions that were opened, and a session that was not has rotated none.
OpenedSessions ==
  /\ store.family <= server.sessions
  /\ \A p \in Commands : command[p].token.family <= server.sessions
  /\ \A f \in Families : f > server.sessions => server.newest[f] = 0

\* Who is about to present a token, or to store one, has the newest of its session.
ExchangesNewest ==
  excused = {} =>
    \A p \in Commands :
      command[p].pc \in {"exchanging", "exchanged"} =>
        command[p].token.n = server.newest[command[p].token.family]

TokenInv == OpenedSessions /\ ExchangesNewest /\ NoReplay /\ StoreIsNewest

LockInv ==
  TypeOK /\ HoldersNamed /\ LockHeld /\ OldIsCrashed /\ JudgedIsCrashed /\ FirstAttempt

-----------------------------------------------------------------------------
Pcs == {"begin", "calling", "locking", "blocked", "unlinking", "done", "failed", "crashed"}
         \cup Holding

Process ==
  [pc : Pcs, attempt : {1, 2}, after : {"begin", "401"}, mine : Tokens, token : Tokens,
   judged : Commands \cup {Nobody}, refreshed : BOOLEAN]

Server == [newest : [Families -> 0..MaxRotations], dead : SUBSET Families, sessions : Families]

LEMMA TypeParts ==
  TypeOK <=> /\ command \in [Commands -> Process]
             /\ lock \in Commands \cup {Nobody} /\ old \in BOOLEAN /\ store \in Tokens
             /\ server \in Server /\ expired \subseteq Tokens /\ losses \in 0..MaxLosses
             /\ excused \subseteq {"snatched", "lost"}
BY DEF TypeOK, Process, Server, Pcs

LEMMA Bounds == /\ MaxRotations \in Nat /\ MaxLogins \in Nat
                /\ MaxCrashes \in Nat /\ MaxLosses \in Nat
BY CliSessionConstants

LEMMA FirstTokens == \A f \in Families : First(f) \in Tokens
BY Bounds DEF First, Tokens

LEMMA InitLock == Init => LockInv
<1> SUFFICES ASSUME Init PROVE LockInv
  OBVIOUS
<1>1. 1 \in Families /\ First(1) \in Tokens
  BY FirstTokens, Bounds DEF Families
<1>2. command \in [Commands -> Process]
  BY <1>1 DEF Init, Process, Pcs
<1>3. server \in Server
  BY <1>1, Bounds DEF Init, Server
<1>4. /\ lock \in Commands \cup {Nobody} /\ store \in Tokens
      /\ expired \subseteq Tokens /\ excused \subseteq {"snatched", "lost"}
  BY <1>1 DEF Init
<1>5. old \in BOOLEAN
  BY DEF Init
<1>6. losses \in 0..MaxLosses
  BY Bounds DEF Init
<1>7. TypeOK
  BY <1>2, <1>3, <1>4, <1>5, <1>6, TypeParts
<1> QED
  BY <1>7 DEF Init, LockInv, HoldersNamed, LockHeld, OldIsCrashed, JudgedIsCrashed,
              FirstAttempt, At, Holding, InLock

\* A step of one command gives it another record of the same type.
LEMMA StepProcess ==
  ASSUME TypeOK, FirstAttempt, NEW p \in Commands, Step(p) \/ GiveUp(p) \/ Crash(p)
  PROVE  \E r \in Process : command' = [command EXCEPT ![p] = r]
<1> DEFINE c == command[p]
<1>1. /\ c \in Process /\ store \in Tokens /\ lock \in Commands \cup {Nobody}
      /\ command \in [Commands -> Process]
  BY TypeParts
<1>2. ASSUME NEW pc \in Pcs PROVE [c EXCEPT !.pc = pc] \in Process
  BY <1>1 DEF Process
<1>3. ASSUME c.attempt = 1 PROVE Retried(c) \in Process
  <2>1. [c EXCEPT !.pc = "begin", !.attempt = 2] \in Process
    BY <1>1 DEF Process, Pcs
  <2> QED
    BY <1>3, <2>1 DEF Retried
<1>4. CASE \E pc \in Pcs : Goto(p, pc)
  BY <1>2, <1>4 DEF Goto
<1>5. CASE Begin(p)
  BY <1>1, <1>5 DEF Begin, Process, Pcs
<1>6. CASE Rejected(p)
  <2>1. [c EXCEPT !.pc = "locking", !.after = "401", !.mine = store] \in Process
    BY <1>1 DEF Process, Pcs
  <2>2. ~GivesUp(c) => c.attempt = 1
    BY <1>1 DEF GivesUp, Process
  <2>3. [c EXCEPT !.pc = "failed"] \in Process
    BY <1>2 DEF Pcs
  <2> QED
    BY <1>3, <1>6, <2>1, <2>2, <2>3 DEF Rejected
<1>7. CASE Acquire(p)
  <2>1. /\ [c EXCEPT !.pc = "adopted", !.token = store] \in Process
        /\ [c EXCEPT !.pc = "exchanging", !.token = store] \in Process
    BY <1>1 DEF Process, Pcs, Holding
  <2> QED
    BY <1>7, <2>1 DEF Acquire, Presented
<1>8. CASE Judge(p)
  <2>1. /\ [c EXCEPT !.pc = "unlinking", !.judged = lock] \in Process
        /\ [c EXCEPT !.pc = "locking"] \in Process
    BY <1>1 DEF Process, Pcs
  <2> QED
    BY <1>8, <2>1 DEF Judge
<1>9. CASE Release(p)
  <2>1. [c EXCEPT !.pc = "failed"] \in Process
    BY <1>2 DEF Pcs
  <2>2. c.after = "401" => c.attempt = 1
    BY <1>9 DEF Release, FirstAttempt, InLock, Holding
  <2>3. ASSUME NEW b \in BOOLEAN
        PROVE  [c EXCEPT !.pc = "calling", !.token = c.token, !.refreshed = b] \in Process
    BY <1>1 DEF Process, Pcs
  <2>4. Resumed(c, c.token, c.pc = "stored") \in Process
    BY <1>3, <2>2, <2>3 DEF Resumed
  <2> QED
    BY <1>9, <2>1, <2>4 DEF Release
<1>10. CASE Exchange(p)
  <2> DEFINE t == [c.token EXCEPT !.n = @ + 1]
  <2>1. c.token \in Tokens /\ c.token.n < MaxRotations
    BY <1>1, <1>10 DEF Exchange, Perishable, Process
  <2>2. t \in Tokens
    BY <2>1, Bounds DEF Tokens
  <2>3. [c EXCEPT !.pc = "exchanged", !.token = t] \in Process
    <3> HIDE DEF t
    <3> QED
      BY <1>1, <2>2 DEF Process, Pcs, Holding
  <2>4. \/ command' = [command EXCEPT ![p] = [c EXCEPT !.pc = "exchanged", !.token = t]]
        \/ Goto(p, "refused")
    BY <1>1, <1>10 DEF Exchange, Process
  <2> QED
    BY <1>4, <2>3, <2>4 DEF Pcs, Holding
<1> QED
  BY <1>4, <1>5, <1>6, <1>7, <1>8, <1>9, <1>10
     DEF Step, Accepted, Blocked, Unlink, Replay, Unreachable, Store, GiveUp, Crash, Pcs, Holding

\* No step of a command, of time or of the user disturbs the types.
LEMMA TypeNext ==
  ASSUME TypeOK, FirstAttempt, Next
  PROVE  TypeOK'
<1>1. ASSUME NEW p \in Commands, Step(p) \/ GiveUp(p) \/ Crash(p)
      PROVE  TypeOK'
  <2>1. PICK r \in Process : command' = [command EXCEPT ![p] = r]
    BY <1>1, StepProcess
  <2>2. command' \in [Commands -> Process]
    BY <2>1, TypeParts
  <2>3. lock' \in Commands \cup {Nobody} /\ old' \in BOOLEAN
    BY <1>1, TypeParts
       DEF Step, Begin, Accepted, Rejected, Acquire, Blocked, Judge, Unlink, Release, Unlock,
           Exchange, Replay, Unreachable, Store, GiveUp, Crash
  <2>4. store' \in Tokens
    BY <1>1, TypeParts
       DEF Step, Begin, Accepted, Rejected, Acquire, Blocked, Judge, Unlink, Release, Exchange,
           Replay, Unreachable, Store, Unconfirmed, GiveUp, Crash, Process
  <2>5. server' \in Server
    <3>1. CASE Exchange(p)
      <4> DEFINE f == command[p].token.family
                 N == [server.newest EXCEPT ![f] = server.newest[f] + 1]
      <4>1. f \in Families /\ server.newest[f] + 1 \in 0..MaxRotations
        BY <3>1, TypeParts, Bounds DEF Exchange, Alive, Perishable, Process, Tokens, Server
      <4>2. server' = [server EXCEPT !.newest = N]
        BY <3>1, TypeParts DEF Exchange, Server
      <4>3. N \in [Families -> 0..MaxRotations]
        BY <4>1, TypeParts DEF Server
      <4> HIDE DEF N
      <4> QED
        BY <4>2, <4>3, TypeParts DEF Server
    <3>2. CASE Replay(p)
      BY <3>2, TypeParts DEF Replay, Server, Process, Tokens
    <3>3. CASE server' = server
      BY <3>3, TypeParts
    <3> QED
      BY <1>1, <3>1, <3>2, <3>3
         DEF Step, Begin, Accepted, Rejected, Acquire, Blocked, Judge, Unlink, Release,
             Unreachable, Store, GiveUp, Crash
  <2>6. expired' \subseteq Tokens /\ excused' \subseteq {"snatched", "lost"}
    BY <1>1, TypeParts
       DEF Step, Begin, Accepted, Rejected, Acquire, Blocked, Judge, Unlink, Release, Exchange,
           Replay, Unreachable, Store, GiveUp, Crash
  <2>7. losses' \in 0..MaxLosses
    BY <1>1, TypeParts, Bounds
       DEF Step, Begin, Accepted, Rejected, Acquire, Blocked, Judge, Unlink, Release, Exchange,
           Replay, Unreachable, Store, GiveUp, Crash
  <2> QED
    BY <2>2, <2>3, <2>4, <2>5, <2>6, <2>7 DEF TypeOK, Process, Pcs, Server
<1>2. CASE Age
  BY <1>2 DEF Age, TypeOK
<1>3. CASE Expire
  <2>1. ASSUME NEW f \in Families PROVE [family |-> f, n |-> server.newest[f]] \in Tokens
    BY <2>1, TypeParts DEF Server, Tokens
  <2>2. expired' \subseteq Tokens
    BY <1>3, <2>1, TypeParts DEF Expire
  <2> QED
    BY <1>3, <2>2 DEF Expire, TypeOK
<1>4. CASE Login
  <2>1. server.sessions + 1 \in Families
    BY <1>4, TypeParts, Bounds DEF Login, Server, Families
  <2>2. server' \in Server /\ store' \in Tokens
    BY <1>4, <2>1, TypeParts, FirstTokens DEF Login, Server
  <2> QED
    BY <1>4, <2>2 DEF Login, TypeOK, Server
<1> QED
  BY <1>1, <1>2, <1>3, <1>4 DEF Next

-----------------------------------------------------------------------------
(* The lock.                                                               *)

\* A step of one command leaves the others where they are.
LEMMA OthersStay ==
  ASSUME TypeOK, FirstAttempt, NEW p \in Commands, Step(p) \/ GiveUp(p) \/ Crash(p)
  PROVE  \A q \in Commands \ {p} : command'[q] = command[q]
<1>1. PICK r \in Process : command' = [command EXCEPT ![p] = r]
  BY StepProcess
<1> QED
  BY <1>1, TypeParts

\* What the steps before and after the critical section do, ...
Outside(p) == Begin(p) \/ Accepted(p) \/ Rejected(p) \/ Blocked(p) \/ Judge(p) \/ GiveUp(p)

LEMMA OutsideMoves ==
  ASSUME TypeOK, NEW p \in Commands, Outside(p)
  PROVE  /\ command[p].pc \notin Holding \cup {"crashed"}
         /\ command'[p].pc \notin Holding \cup {"crashed"}
         /\ UNCHANGED <<lock, old, excused>>
<1>1. command \in [Commands -> Process]
  BY TypeParts
<1>2. command[p].pc \notin Holding \cup {"crashed"} /\ UNCHANGED <<lock, old, excused>>
  BY DEF Outside, Begin, Accepted, Rejected, Blocked, Judge, GiveUp, At, Holding
<1>3. command'[p].pc \notin Holding \cup {"crashed"}
  <2>1. CASE Begin(p)
    BY <1>1, <2>1 DEF Begin, Holding, Process
  <2>2. CASE Rejected(p)
    BY <1>1, <2>2 DEF Rejected, Retried, Holding, Process
  <2>3. CASE Judge(p)
    BY <1>1, <2>3 DEF Judge, Holding, Process
  <2>4. CASE Accepted(p) \/ Blocked(p) \/ GiveUp(p)
    BY <1>1, <2>4 DEF Accepted, Blocked, GiveUp, Goto, Holding, Process
  <2> QED
    BY <2>1, <2>2, <2>3, <2>4 DEF Outside
<1> QED
  BY <1>2, <1>3

\* A 401 sends a command to the lock on its first attempt only.
LEMMA OutsideAttempt ==
  ASSUME TypeOK, FirstAttempt, NEW p \in Commands, Outside(p)
  PROVE  command'[p].pc \in InLock /\ command'[p].after = "401" => command'[p].attempt = 1
<1>1. command \in [Commands -> Process]
  BY TypeParts
<1>2. CASE Begin(p)
  BY <1>1, <1>2 DEF Begin, Process
<1>3. CASE Rejected(p)
  BY <1>1, <1>3 DEF Rejected, Retried, GivesUp, Process, InLock, Holding
<1>4. CASE Blocked(p) \/ Judge(p)
  <2>1. command[p].pc \in InLock
    BY <1>4 DEF Blocked, Judge, At, InLock
  <2>2. command'[p].after = command[p].after /\ command'[p].attempt = command[p].attempt
    <3>1. CASE Blocked(p)
      BY <1>1, <3>1 DEF Blocked, Goto, Process
    <3>2. CASE Judge(p)
      BY <1>1, <3>2 DEF Judge, Goto, Process
    <3> QED
      BY <1>4, <3>1, <3>2
  <2> QED
    BY <2>1, <2>2 DEF FirstAttempt
<1>5. CASE Accepted(p) \/ GiveUp(p)
  BY <1>1, <1>5 DEF Accepted, GiveUp, Goto, Process, InLock, Holding
<1> QED
  BY <1>2, <1>3, <1>4, <1>5 DEF Outside

\* ... and those within it.
Inside(p) == Exchange(p) \/ Replay(p) \/ Unreachable(p) \/ Store(p)

LEMMA InsideMoves ==
  ASSUME TypeOK, NEW p \in Commands, Inside(p)
  PROVE  /\ command[p].pc \in Holding /\ command'[p].pc \in Holding
         /\ command'[p].after = command[p].after /\ command'[p].attempt = command[p].attempt
         /\ UNCHANGED <<lock, old>>
         /\ "snatched" \in excused' => "snatched" \in excused
<1>1. command \in [Commands -> Process]
  BY TypeParts
<1>2. /\ command[p].pc \in Holding /\ UNCHANGED <<lock, old>>
      /\ "snatched" \in excused' => "snatched" \in excused
  BY DEF Inside, Exchange, Replay, Unreachable, Store, At, Holding
<1>3. /\ command'[p].pc \in Holding
      /\ command'[p].after = command[p].after /\ command'[p].attempt = command[p].attempt
  BY <1>1 DEF Inside, Exchange, Replay, Unreachable, Store, Goto, Holding, Process
<1> QED
  BY <1>2, <1>3

LEMMA ReleaseMoves ==
  ASSUME TypeOK, FirstAttempt, NEW p \in Commands, Release(p)
  PROVE  /\ command[p].pc \in Holding /\ command'[p].pc \in {"failed", "begin", "calling"}
         /\ lock' = Nobody /\ old' = FALSE /\ excused' = excused
BY TypeParts DEF Release, Unlock, Resumed, Retried, Holding, Process

LEMMA AcquireMoves ==
  ASSUME TypeOK, NEW p \in Commands, Acquire(p)
  PROVE  /\ command[p].pc = "locking" /\ command'[p].pc \in Holding
         /\ command'[p].after = command[p].after /\ command'[p].attempt = command[p].attempt
         /\ lock = Nobody /\ lock' = p /\ old' = FALSE /\ excused' = excused
BY TypeParts DEF Acquire, At, Holding, Process

LEMMA UnlinkMoves ==
  ASSUME TypeOK, NEW p \in Commands, Unlink(p)
  PROVE  /\ command[p].pc = "unlinking" /\ command' = [command EXCEPT ![p].pc = "locking"]
         /\ command'[p].pc = "locking"
         /\ command'[p].after = command[p].after /\ command'[p].attempt = command[p].attempt
         /\ lock' = Nobody /\ old' = FALSE
         /\ excused \subseteq excused'
         /\ lock \in {Nobody, command[p].judged} \/ "snatched" \in excused'
BY TypeParts DEF Unlink, At, Goto, Process

LEMMA CrashMoves ==
  ASSUME TypeOK, NEW p \in Commands, Crash(p)
  PROVE  /\ command[p].pc # "crashed" /\ command'[p].pc = "crashed"
         /\ UNCHANGED <<lock, old>>
         /\ "snatched" \in excused' <=> "snatched" \in excused
BY TypeParts DEF Crash, Running, At, Goto, Process

\* Everything about the lock but the types: what IsLocked says of one state, every
\* step carries over to the next.
LEMMA LockNext ==
  ASSUME LockInv, Next
  PROVE  LockInv'
<1> USE DEF LockInv
<1>1. TypeOK'
  BY TypeNext
<1>2. ASSUME NEW p \in Commands, Step(p) \/ GiveUp(p) \/ Crash(p)
      PROVE  HoldersNamed' /\ LockHeld' /\ OldIsCrashed' /\ JudgedIsCrashed' /\ FirstAttempt'
  <2> DEFINE Others == \A q \in Commands \ {p} : command'[q] = command[q]
  <2>1. Others /\ Nobody \notin Commands /\ lock \in Commands \cup {Nobody}
    BY <1>2, OthersStay, CliSessionConstants, TypeParts
  <2>2. FirstAttempt'
    <3>1. CASE Outside(p)
      BY <2>1, <3>1, OutsideAttempt DEF FirstAttempt
    <3>2. ASSUME command[p].pc \in InLock, command'[p].after = command[p].after,
                 command'[p].attempt = command[p].attempt
          PROVE  FirstAttempt'
      BY <2>1, <3>2 DEF FirstAttempt
    <3>3. ASSUME command'[p].pc \notin InLock
          PROVE  FirstAttempt'
      BY <2>1, <3>3 DEF FirstAttempt
    <3>4. CASE Inside(p)
      BY <3>2, <3>4, InsideMoves DEF InLock
    <3>5. CASE Acquire(p)
      BY <3>2, <3>5, AcquireMoves DEF InLock
    <3>6. CASE Unlink(p)
      BY <3>2, <3>6, UnlinkMoves DEF InLock
    <3>7. CASE Release(p)
      BY <3>3, <3>7, ReleaseMoves DEF InLock, Holding
    <3>8. CASE Crash(p)
      BY <3>3, <3>8, CrashMoves DEF InLock, Holding
    <3> QED
      BY <1>2, <3>1, <3>4, <3>5, <3>6, <3>7, <3>8 DEF Step, Outside, Inside
  <2>3. JudgedIsCrashed'
    <3>1. CASE Judge(p)
      <4>1. command[p].pc = "blocked" /\ command[p].pc # "crashed"
        BY <3>1 DEF Judge, At
      <4>2. command'[p].pc = "unlinking" => Stale /\ command'[p].judged = lock
        BY <3>1, TypeParts DEF Judge, Process
      <4>3. SUFFICES ASSUME NEW q \in Commands, command'[q].pc = "unlinking",
                            command'[q].judged # Nobody
                     PROVE  /\ command[command'[q].judged].pc = "crashed"
                            /\ command'[q].judged \in Commands
        BY <2>1, <4>1 DEF JudgedIsCrashed, At
      <4>4. CASE q = p
        BY <2>1, <4>2, <4>3, <4>4 DEF Stale, At, OldIsCrashed
      <4>5. CASE q # p
        BY <2>1, <4>3, <4>5, TypeParts DEF JudgedIsCrashed, At, Process
      <4> QED
        BY <4>4, <4>5
    <3>2. ASSUME command'[p].pc # "unlinking", command[p].pc # "crashed"
          PROVE  JudgedIsCrashed'
      BY <2>1, <3>2, TypeParts DEF At, JudgedIsCrashed, Process
    <3>3. CASE Outside(p) /\ ~Judge(p)
      <4>1. command[p].pc # "crashed"
        BY <3>3, OutsideMoves
      <4>2. command'[p].pc # "unlinking"
        <5>1. CASE Begin(p)
          BY <5>1, TypeParts DEF Begin, Process
        <5>2. CASE Rejected(p)
          BY <5>2, TypeParts DEF Rejected, Retried, Process
        <5>3. CASE Accepted(p) \/ Blocked(p) \/ GiveUp(p)
          BY <5>3, TypeParts DEF Accepted, Blocked, GiveUp, Goto, Process
        <5> QED
          BY <3>3, <5>1, <5>2, <5>3 DEF Outside
      <4> QED
        BY <3>2, <4>1, <4>2
    <3>4. CASE Inside(p)
      BY <3>2, <3>4, InsideMoves DEF Holding
    <3>5. CASE Acquire(p)
      BY <3>2, <3>5, AcquireMoves DEF Holding
    <3>6. CASE Unlink(p)
      BY <3>2, <3>6, UnlinkMoves
    <3>7. CASE Release(p)
      BY <3>2, <3>7, ReleaseMoves DEF Holding
    <3>8. CASE Crash(p)
      BY <3>2, <3>8, CrashMoves
    <3> QED
      BY <1>2, <3>1, <3>3, <3>4, <3>5, <3>6, <3>7, <3>8 DEF Step, Outside, Inside
  <2>4. HoldersNamed' /\ LockHeld' /\ OldIsCrashed'
    <3>1. CASE Outside(p)
      BY <2>1, <3>1, OutsideMoves DEF HoldersNamed, LockHeld, OldIsCrashed, At
    <3>2. CASE Inside(p)
      <4>1. /\ command[p].pc \in Holding /\ command'[p].pc \in Holding /\ UNCHANGED <<lock, old>>
            /\ "snatched" \in excused' => "snatched" \in excused
        BY <3>2, InsideMoves
      <4>2. excused \subseteq excused'
        BY <3>2 DEF Inside, Exchange, Replay, Unreachable, Store
      <4>3. HoldersNamed'
        BY <2>1, <4>1, <4>2 DEF HoldersNamed
      <4>4. LockHeld'
        BY <2>1, <4>1, <4>2 DEF LockHeld
      <4>5. OldIsCrashed'
        BY <2>1, <4>1 DEF OldIsCrashed, At, Holding
      <4> QED
        BY <4>3, <4>4, <4>5
    <3>3. CASE Acquire(p)
      BY <2>1, <3>3, AcquireMoves DEF HoldersNamed, LockHeld, OldIsCrashed, At
    <3>4. CASE Unlink(p)
      <4>1. /\ At(p, "unlinking") /\ command'[p].pc = "locking" /\ lock' = Nobody /\ old' = FALSE
            /\ excused \subseteq excused'
            /\ lock \in {Nobody, command[p].judged} \/ "snatched" \in excused'
        BY <3>4, UnlinkMoves DEF At
      <4>2. HoldersNamed'
        <5> SUFFICES ASSUME "snatched" \notin excused', NEW q \in Commands,
                            command'[q].pc \in Holding
                     PROVE  FALSE
          BY DEF HoldersNamed
        <5>1. q # p /\ command[q].pc \in Holding
          BY <2>1, <4>1 DEF Holding
        <5>2. lock = q /\ lock = command[p].judged
          BY <4>1, <5>1, <2>1 DEF HoldersNamed
        <5> QED
          BY <2>1, <4>1, <5>1, <5>2 DEF JudgedIsCrashed, At, Holding
      <4> QED
        BY <4>1, <4>2 DEF LockHeld, OldIsCrashed
    <3>5. CASE Release(p)
      BY <2>1, <3>5, ReleaseMoves DEF HoldersNamed, LockHeld, OldIsCrashed, At, Holding
    <3>6. CASE Crash(p)
      BY <2>1, <3>6, CrashMoves DEF HoldersNamed, LockHeld, OldIsCrashed, At, Holding
    <3> QED
      BY <1>2, <3>1, <3>2, <3>3, <3>4, <3>5, <3>6 DEF Step, Outside, Inside
  <2> QED
    BY <2>2, <2>3, <2>4
<1>3. CASE Age
  BY <1>1, <1>3 DEF Age, HoldersNamed, LockHeld, OldIsCrashed, JudgedIsCrashed, FirstAttempt, At
<1>4. CASE Expire \/ Login
  BY <1>1, <1>4 DEF Expire, Login, HoldersNamed, LockHeld, OldIsCrashed, JudgedIsCrashed,
                    FirstAttempt, At
<1> QED
  BY <1>1, <1>2, <1>3, <1>4 DEF Next

-----------------------------------------------------------------------------
(* The tokens.                                                             *)

\* A command's token is the one it had, or the next of that session, or the stored one.
LEMMA TokenMoves ==
  ASSUME TypeOK, NEW p \in Commands, Step(p) \/ GiveUp(p) \/ Crash(p)
  PROVE  /\ command'[p].token.family \in {store.family, command[p].token.family}
         /\ store'.family \in {store.family, command[p].token.family}
         /\ server'.sessions = server.sessions
         /\ \A f \in Families : f # command[p].token.family => server'.newest[f] = server.newest[f]
         /\ excused \subseteq excused'
<1>1. command \in [Commands -> Process] /\ server \in Server
  BY TypeParts
<1>2. CASE Outside(p)
  <2>1. UNCHANGED <<store, server, excused>>
    BY <1>2 DEF Outside, Begin, Accepted, Rejected, Blocked, Judge, GiveUp
  <2>2. command'[p].token \in {store, command[p].token}
    <3>1. CASE Begin(p)
      BY <1>1, <3>1 DEF Begin, Process
    <3>2. CASE Rejected(p)
      BY <1>1, <3>2 DEF Rejected, Retried, Process
    <3>3. CASE Accepted(p)
      BY <1>1, <3>3 DEF Accepted, Goto, Process
    <3>4. CASE Blocked(p)
      BY <1>1, <3>4 DEF Blocked, Goto, Process
    <3>5. CASE Judge(p)
      BY <1>1, <3>5 DEF Judge, Goto, Process
    <3>6. CASE GiveUp(p)
      BY <1>1, <3>6 DEF GiveUp, Goto, Process
    <3> QED
      BY <1>2, <3>1, <3>2, <3>3, <3>4, <3>5, <3>6 DEF Outside
  <2> QED
    BY <2>1, <2>2
<1>3. CASE Acquire(p)
  BY <1>1, <1>3 DEF Acquire, Presented, Process
<1>4. CASE Unlink(p) \/ Crash(p)
  BY <1>1, <1>4 DEF Unlink, Crash, Goto, Process
<1>5. CASE Release(p)
  BY <1>1, <1>5 DEF Release, Resumed, Retried, Process
<1>6. CASE Exchange(p)
  BY <1>1, <1>6 DEF Exchange, Goto, Process, Tokens, Server
<1>7. CASE Replay(p) \/ Unreachable(p)
  BY <1>1, <1>7 DEF Replay, Unreachable, Goto, Process, Server
<1>8. CASE Store(p)
  BY <1>1, <1>8 DEF Store, Unconfirmed, Goto, Process
<1> QED
  BY <1>2, <1>3, <1>4, <1>5, <1>6, <1>7, <1>8 DEF Step, Outside

LEMMA SessionsStep ==
  ASSUME LockInv, OpenedSessions, NEW p \in Commands, Step(p) \/ GiveUp(p) \/ Crash(p)
  PROVE  OpenedSessions'
<1>1. TypeOK /\ FirstAttempt
  BY DEF LockInv
<1>2. \A q \in Commands \ {p} : command'[q] = command[q]
  BY <1>1, OthersStay
<1>3. /\ command'[p].token.family \in {store.family, command[p].token.family}
      /\ store'.family \in {store.family, command[p].token.family}
      /\ server'.sessions = server.sessions
      /\ \A f \in Families : f # command[p].token.family => server'.newest[f] = server.newest[f]
  BY <1>1, TokenMoves
<1>4. server.sessions \in Nat /\ \A f \in Families : f \in Nat
  BY <1>1, TypeParts, Bounds DEF Server, Families
<1> QED
  BY <1>2, <1>3, <1>4 DEF OpenedSessions

\* What nobody exchanges or stores, and nobody loses, leaves the newest token known.
LEMMA QuietStep ==
  ASSUME LockInv, TokenInv, NEW p \in Commands, Step(p) \/ GiveUp(p) \/ Crash(p),
         UNCHANGED <<store, server>>,
         command'[p].pc \notin {"exchanging", "exchanged"},
         command[p].pc = "exchanged" => excused' # {}
  PROVE  ExchangesNewest' /\ NoReplay' /\ StoreIsNewest'
<1>1. TypeOK /\ FirstAttempt
  BY DEF LockInv
<1>2. \A q \in Commands \ {p} : command'[q] = command[q]
  BY <1>1, OthersStay
<1>3. excused \subseteq excused'
  BY <1>1, TokenMoves
<1>4. ExchangesNewest'
  BY <1>2, <1>3 DEF TokenInv, ExchangesNewest
<1>5. NoReplay'
  BY <1>3 DEF TokenInv, NoReplay
<1>6. StoreIsNewest'
  BY <1>2, <1>3 DEF TokenInv, StoreIsNewest, At
<1> QED
  BY <1>4, <1>5, <1>6

LEMMA NewestStep ==
  ASSUME LockInv, TokenInv, NEW p \in Commands, Step(p) \/ GiveUp(p) \/ Crash(p)
  PROVE  ExchangesNewest' /\ NoReplay' /\ StoreIsNewest'
<1>1. TypeOK /\ FirstAttempt /\ HoldersNamed
  BY DEF LockInv
<1>2. \A q \in Commands \ {p} : command'[q] = command[q]
  BY <1>1, OthersStay
<1>3. command \in [Commands -> Process] /\ server \in Server /\ Nobody \notin Commands
  BY <1>1, TypeParts, CliSessionConstants
<1>4. excused = {} => \A q \in Commands : command[q].pc \in Holding => lock = q
  BY <1>1 DEF HoldersNamed
<1>5. CASE Outside(p)
  <2>1. UNCHANGED <<store, server>>
    BY <1>5 DEF Outside, Begin, Accepted, Rejected, Blocked, Judge, GiveUp
  <2> QED
    BY <1>1, <1>5, <2>1, QuietStep, OutsideMoves DEF Holding
<1>6. CASE Unlink(p)
  <2>1. UNCHANGED <<store, server>>
    BY <1>6 DEF Unlink
  <2> QED
    BY <1>1, <1>6, <2>1, QuietStep, UnlinkMoves
<1>7. CASE Release(p)
  <2>1. UNCHANGED <<store, server>> /\ command[p].pc # "exchanged"
    BY <1>7 DEF Release
  <2> QED
    BY <1>1, <1>7, <2>1, QuietStep, ReleaseMoves
<1>8. CASE Crash(p)
  <2>1. UNCHANGED <<store, server>> /\ (command[p].pc = "exchanged" => excused' # {})
    BY <1>8 DEF Crash, At
  <2> QED
    BY <1>1, <1>8, <2>1, QuietStep, CrashMoves
<1>9. CASE Unreachable(p)
  <2>1. UNCHANGED <<store, server>> /\ command[p].pc = "exchanging"
    BY <1>9 DEF Unreachable, At
  <2>2. command'[p].pc = "refused"
    BY <1>3, <1>9 DEF Unreachable, Goto, Process
  <2> QED
    BY <2>1, <2>2, QuietStep
<1>10. CASE Acquire(p)
  <2>1. /\ UNCHANGED <<store, server, excused>> /\ lock = Nobody
        /\ command'[p].pc # "exchanged"
        /\ command'[p].pc = "exchanging" => command'[p].token = store
        /\ command[p].pc = "locking"
    BY <1>3, <1>10 DEF Acquire, At, Presented, Process
  <2>2. excused = {} => \A q \in Commands : ~At(q, "exchanged")
    BY <1>3, <1>4, <2>1 DEF At, Holding
  <2>3. ExchangesNewest'
    BY <1>2, <2>1, <2>2 DEF TokenInv, ExchangesNewest, StoreIsNewest
  <2>4. StoreIsNewest'
    BY <1>2, <2>1, <2>2 DEF TokenInv, StoreIsNewest
  <2> QED
    BY <2>1, <2>3, <2>4 DEF TokenInv, NoReplay
<1>11. CASE Exchange(p)
  <2> DEFINE t == command[p].token
  <2>1. /\ UNCHANGED store /\ server'.dead = server.dead
        /\ server'.newest[t.family] = t.n + 1
        /\ \A f \in Families \ {t.family} : server'.newest[f] = server.newest[f]
    BY <1>3, <1>11 DEF Exchange, Alive, Process, Tokens, Server
  <2>2. \/ command'[p].pc = "exchanged" /\ command'[p].token.family = t.family
             /\ command'[p].token.n = t.n + 1
        \/ excused' # {}
    BY <1>3, <1>11 DEF Exchange, Process, Tokens
  <2>3. excused \subseteq excused' /\ command[p].pc = "exchanging"
    BY <1>11 DEF Exchange, At
  <2>4. excused = {} => \A q \in Commands \ {p} : command[q].pc \notin Holding
    BY <1>4, <2>3 DEF Holding
  <2>5. ExchangesNewest'
    BY <1>2, <2>1, <2>2, <2>3, <2>4 DEF ExchangesNewest, Holding
  <2>6. StoreIsNewest'
    <3>1. SUFFICES ASSUME excused' = {} PROVE StoreIsNewest'
      BY DEF StoreIsNewest
    <3>2. store.n = server.newest[store.family]
      BY <2>3, <2>4, <3>1 DEF TokenInv, StoreIsNewest, At, Holding
    <3> QED
      BY <1>1, <2>1, <2>2, <3>1, <3>2, TypeParts DEF StoreIsNewest, At, Tokens
  <2> QED
    BY <2>1, <2>3, <2>5, <2>6 DEF TokenInv, NoReplay
<1>12. CASE Replay(p)
  <2>1. excused # {}
    BY <1>12 DEF Replay, Alive, At, TokenInv, ExchangesNewest, NoReplay
  <2>2. excused' = excused
    BY <1>12 DEF Replay
  <2> QED
    BY <2>1, <2>2 DEF ExchangesNewest, NoReplay, StoreIsNewest
<1>13. CASE Store(p)
  <2>1. /\ UNCHANGED server /\ command[p].pc = "exchanged" /\ excused \subseteq excused'
        /\ store' = command[p].token \/ excused' # {}
    BY <1>13 DEF Store, At, Unconfirmed
  <2>2. command'[p].pc \notin {"exchanging", "exchanged"}
    BY <1>3, <1>13 DEF Store, Goto, Process
  <2>3. ExchangesNewest'
    BY <1>2, <2>1, <2>2 DEF TokenInv, ExchangesNewest
  <2>4. StoreIsNewest'
    BY <2>1 DEF TokenInv, ExchangesNewest, StoreIsNewest
  <2> QED
    BY <2>1, <2>3, <2>4 DEF TokenInv, NoReplay
<1> QED
  BY <1>5, <1>6, <1>7, <1>8, <1>9, <1>10, <1>11, <1>12, <1>13 DEF Step, Outside

LEMMA InitTokens == Init => TokenInv
<1> SUFFICES ASSUME Init PROVE TokenInv
  OBVIOUS
<1>1. 1 \in Families
  BY Bounds DEF Families
<1>2. OpenedSessions
  BY <1>1 DEF Init, OpenedSessions, First
<1>3. StoreIsNewest
  BY <1>1 DEF Init, StoreIsNewest, First
<1> QED
  BY <1>2, <1>3 DEF Init, TokenInv, ExchangesNewest, NoReplay

LEMMA TokenNext ==
  ASSUME LockInv, TokenInv, Next
  PROVE  TokenInv'
<1>1. ASSUME NEW p \in Commands, Step(p) \/ GiveUp(p) \/ Crash(p)
      PROVE  TokenInv'
  BY <1>1, SessionsStep, NewestStep DEF TokenInv
<1>2. CASE Age \/ Expire
  BY <1>2 DEF Age, Expire, TokenInv, OpenedSessions, ExchangesNewest, NoReplay, StoreIsNewest, At
<1>3. CASE Login
  <2>1. server.sessions \in Families /\ server \in Server /\ server.sessions + 1 \in Families
    BY <1>3, TypeParts, Bounds DEF LockInv, Login, Server, Families
  <2>2. /\ UNCHANGED <<command, excused>> /\ store'.family = server.sessions + 1 /\ store'.n = 0
        /\ server'.sessions = server.sessions + 1
        /\ server'.newest = server.newest /\ server'.dead = server.dead
    BY <1>3, <2>1 DEF Login, First, Server
  <2>3. \A p \in Commands : command[p].token.family \in Nat
    BY TypeParts, Bounds DEF LockInv, Process, Tokens, Families
  <2>4. OpenedSessions'
    BY <2>1, <2>2, <2>3, Bounds DEF TokenInv, OpenedSessions, Families
  <2>5. server.newest[server.sessions + 1] = 0
    BY <2>1, Bounds DEF TokenInv, OpenedSessions, Families
  <2> QED
    BY <2>2, <2>4, <2>5 DEF TokenInv, ExchangesNewest, NoReplay, StoreIsNewest
<1> QED
  BY <1>1, <1>2, <1>3 DEF Next

-----------------------------------------------------------------------------
LEMMA Inductive == Spec => [](LockInv /\ TokenInv)
<1>1. Init => LockInv /\ TokenInv
  BY InitLock, InitTokens
<1>2. LockInv /\ TokenInv /\ [Next]_vars => (LockInv /\ TokenInv)'
  <2> SUFFICES ASSUME LockInv, TokenInv, [Next]_vars PROVE LockInv' /\ TokenInv'
    OBVIOUS
  <2>1. CASE Next
    BY <2>1, LockNext, TokenNext
  <2>2. CASE UNCHANGED vars
    BY <2>2 DEF vars, LockInv, TypeOK, HoldersNamed, LockHeld, OldIsCrashed, JudgedIsCrashed,
                FirstAttempt, TokenInv, OpenedSessions, ExchangesNewest, NoReplay, StoreIsNewest,
                At
  <2> QED
    BY <2>1, <2>2
<1> QED
  BY <1>1, <1>2, PTL DEF Spec

\* Of any number of commands one at a time exchanges the refresh token, and no lock file
\* stays that nobody will take away, as long as nobody has unlinked a lock file other than
\* the one judged stale, which two commands that judge one lock can do (observation 7).
THEOREM OneHolderAlways == Spec => []OneHolder
<1>1. LockInv => OneHolder
  BY DEF LockInv, OneHolder, OneExchange, HoldersNamed
<1> QED
  BY <1>1, Inductive, PTL

\* No session is revoked by a refresh token presented twice, whatever commands crash, wait,
\* give up or are refused, as long as no answer of the server was lost and no lock snatched.
THEOREM NoReplayAlways == Spec => []NoReplay
<1>1. TokenInv => NoReplay
  BY DEF TokenInv
<1> QED
  BY <1>1, Inductive, PTL

\* The stored token is the newest of its session, or a command is about to store a newer
\* one, as long as no answer of the server was lost and no lock snatched.
THEOREM StoreIsNewestAlways == Spec => []StoreIsNewest
<1>1. TokenInv => StoreIsNewest
  BY DEF TokenInv
<1> QED
  BY <1>1, Inductive, PTL
=============================================================================

----------------------------- MODULE CliSession -----------------------------
(***************************************************************************)
(* Commands of the neon CLI that run at the same time and share one stored  *)
(* OAuth session: ensureAuth() with the refresh of an expired token, the    *)
(* recovery from a 401 with one retry, and the lock file that serializes    *)
(* the exchange of the one-time refresh token.                              *)
(*                                                                          *)
(* A command is a process.  What it does between two awaits, or between two *)
(* system calls on the lock file, is one step.  A token stands for an       *)
(* access token with its refresh token: the n-th pair of a session (family) *)
(* the user signed in to.  Presenting a refresh token again revokes its     *)
(* session.  Only a lock left by a crash gets old: a holder's two requests  *)
(* have timeouts of ten seconds each, a lock is stale after sixty.          *)
(***************************************************************************)
EXTENDS Naturals, FiniteSets

CONSTANTS
  Commands,      \* commands that run at the same time
  Nobody,        \* no command
  MaxRotations,  \* bound: tokens of a session that may expire or be rejected
  MaxLogins,     \* bound: logins during the run
  MaxCrashes,    \* bound: commands that are killed
  MaxLosses      \* bound: exchanges that fail, and stores that do

ASSUME CliSessionConstants ==
  /\ IsFiniteSet(Commands) /\ Nobody \notin Commands
  /\ {MaxRotations, MaxLogins, MaxCrashes, MaxLosses} \subseteq Nat

VARIABLES
  command,  \* each process
  lock,     \* who created the lock file that is there, or Nobody
  old,      \* is that file older than STALE_MS?
  store,    \* the stored token
  server,   \* the authorization server
  expired,  \* tokens whose access token has expired
  losses,   \* exchanges and stores that failed so far
  excused   \* history: what may cost the user the session

vars == <<command, lock, old, store, server, expired, losses, excused>>

Families == 1..(1 + MaxLogins)
Tokens   == [family : Families, n : 0..MaxRotations]
First(f) == [family |-> f, n |-> 0]

Init ==
  /\ command = [p \in Commands |->
                  [pc |-> "begin", attempt |-> 1, after |-> "begin", mine |-> First(1),
                   token |-> First(1), judged |-> Nobody, refreshed |-> FALSE]]
  /\ lock = Nobody /\ old = FALSE
  /\ store = First(1)
  /\ server = [newest |-> [f \in Families |-> 0], dead |-> {}, sessions |-> 1]
  /\ expired = {}
  /\ losses = 0
  /\ excused = {}

Usable(t) == t \notin expired

\* Tokens at the bound neither expire nor are rejected.
Perishable(t) == t.n < MaxRotations

At(p, pc) == command[p].pc = pc

Goto(p, pc) == command' = [command EXCEPT ![p].pc = pc]

-----------------------------------------------------------------------------
(* A command up to the exchange, and from then on.                         *)

\* ensureAuth() and handleExistingToken()
Begin(p) ==
  /\ At(p, "begin")
  /\ command' = [command EXCEPT ![p] =
       [@ EXCEPT !.pc = IF Usable(store) THEN "calling" ELSE "locking",
                 !.after = "begin", !.mine = store, !.token = store, !.refreshed = FALSE]]
  /\ UNCHANGED <<lock, old, store, server, expired, losses, excused>>

Accepted(p) ==
  /\ At(p, "calling")
  /\ Goto(p, "done")
  /\ UNCHANGED <<lock, old, store, server, expired, losses, excused>>

\* Another command has replaced the rejected token (supersededOnDisk).
Superseded(p) == store # command[p].token /\ Usable(store)

\* A token that has just been refreshed, or a second attempt, is not retried.
GivesUp(c) == c.refreshed \/ c.attempt = 2

Retried(c) == [c EXCEPT !.pc = "begin", !.attempt = @ + 1]

\* recoverFrom401(), up to the lock.
Rejected(p) ==
  /\ At(p, "calling")
  /\ Perishable(command[p].token) \/ command[p].token.family \in server.dead
  /\ command' = [command EXCEPT ![p] =
       IF GivesUp(@) THEN [@ EXCEPT !.pc = "failed"]
       ELSE IF Superseded(p) THEN Retried(@)
       ELSE [@ EXCEPT !.pc = "locking", !.after = "401", !.mine = store]]
  /\ UNCHANGED <<lock, old, store, server, expired, losses, excused>>

\* The command has a token another one obtained, or its own.
Resumed(c, t, rotated) ==
  IF c.after = "401" THEN Retried(c)
  ELSE [c EXCEPT !.pc = "calling", !.token = t, !.refreshed = rotated]

-----------------------------------------------------------------------------
(* withExclusiveLock()                                                     *)

\* Faulty variant: the token read before the wait is presented.
PresentedBeforeWait(p) == command[p].mine

\* performRefresh() presents what is stored once it holds the lock.
Presented(p) == store

\* A different token that is usable: another command has refreshed.
Adopts(p) == store # command[p].mine /\ Usable(store)

\* The lock file is created, and the stored token is read again.
Acquire(p) ==
  /\ At(p, "locking")
  /\ lock = Nobody
  /\ lock' = p /\ old' = FALSE
  /\ command' = [command EXCEPT ![p] =
       IF Adopts(p) THEN [@ EXCEPT !.pc = "adopted", !.token = store]
       ELSE [@ EXCEPT !.pc = "exchanging", !.token = Presented(p)]]
  /\ UNCHANGED <<store, server, expired, losses, excused>>

\* open() fails with EEXIST.
Blocked(p) ==
  /\ At(p, "locking")
  /\ lock # Nobody
  /\ Goto(p, "blocked")
  /\ UNCHANGED <<lock, old, store, server, expired, losses, excused>>

\* Faulty variant: a lock is stale as soon as somebody waits for it.
StaleAlways == TRUE

\* The file is old, or it has gone since open() failed.
Stale == lock = Nobody \/ old

\* isStale(): go on to unlink the file, or wait and try again.
Judge(p) ==
  /\ At(p, "blocked")
  /\ command' = [command EXCEPT ![p] =
       IF Stale THEN [@ EXCEPT !.pc = "unlinking", !.judged = lock]
       ELSE [@ EXCEPT !.pc = "locking"]]
  /\ UNCHANGED <<lock, old, store, server, expired, losses, excused>>

\* The unlink() that follows takes the file that is there by then.
Unlink(p) ==
  /\ At(p, "unlinking")
  /\ Goto(p, "locking")
  /\ lock' = Nobody /\ old' = FALSE
  /\ excused' = IF lock \in {Nobody, command[p].judged} THEN excused
                ELSE excused \cup {"snatched"}
  /\ UNCHANGED <<store, server, expired, losses>>

\* The deadline passes while another command holds the lock.
GiveUp(p) ==
  /\ At(p, "blocked")
  /\ ~Stale
  /\ Goto(p, "failed")
  /\ UNCHANGED <<lock, old, store, server, expired, losses, excused>>

\* Faulty variant: the lock is released only when all went well.
UnlockWhenDone(failed) ==
  IF failed THEN UNCHANGED <<lock, old>> ELSE lock' = Nobody /\ old' = FALSE

\* The finally block: unlink(), whose file it is now.
Unlock(failed) == lock' = Nobody /\ old' = FALSE

Release(p) ==
  /\ command[p].pc \in {"adopted", "stored", "refused"}
  /\ Unlock(command[p].pc = "refused")
  /\ command' = [command EXCEPT ![p] =
       IF @.pc = "refused" THEN [@ EXCEPT !.pc = "failed"]
       ELSE Resumed(@, @.token, @.pc = "stored")]
  /\ UNCHANGED <<store, server, expired, losses, excused>>

-----------------------------------------------------------------------------
(* The exchange, and storing what it brought.                              *)

Alive(t) == t.family \notin server.dead /\ t.n = server.newest[t.family]

\* The server issues the next token, and the answer may be lost on its way.
Exchange(p) ==
  LET t == command[p].token
  IN  /\ At(p, "exchanging")
      /\ Alive(t) /\ Perishable(t)
      /\ server' = [server EXCEPT !.newest[t.family] = @ + 1]
      /\ \/ /\ command' = [command EXCEPT ![p].pc = "exchanged", ![p].token.n = @ + 1]
            /\ UNCHANGED <<losses, excused>>
         \/ /\ losses < MaxLosses
            /\ losses' = losses + 1
            /\ Goto(p, "refused")
            /\ excused' = excused \cup {"lost"}
      /\ UNCHANGED <<lock, old, store, expired>>

\* A token that was presented before, or whose session has ended.
Replay(p) ==
  LET t == command[p].token
  IN  /\ At(p, "exchanging")
      /\ ~Alive(t)
      /\ server' = [server EXCEPT !.dead = @ \cup {t.family}]
      /\ Goto(p, "refused")
      /\ UNCHANGED <<lock, old, store, expired, losses, excused>>

\* The request never arrives.
Unreachable(p) ==
  /\ At(p, "exchanging")
  /\ losses < MaxLosses
  /\ losses' = losses + 1
  /\ Goto(p, "refused")
  /\ UNCHANGED <<lock, old, store, server, expired, excused>>

\* Faulty variant: what cannot be read back is replaced by what was there.
UnconfirmedRestored(p) == UNCHANGED store

\* A keyring item that cannot be read back stays: restorePrevious is FALSE.
Unconfirmed(p) == store' = command[p].token

\* writeOAuthCredentials(): done, unconfirmed or refused.
Store(p) ==
  /\ At(p, "exchanged")
  /\ \/ /\ store' = command[p].token
        /\ Goto(p, "stored")
        /\ UNCHANGED <<losses, excused>>
     \/ /\ losses < MaxLosses
        /\ losses' = losses + 1
        /\ Unconfirmed(p)
        /\ Goto(p, "refused")
        /\ UNCHANGED excused
     \/ /\ losses < MaxLosses
        /\ losses' = losses + 1
        /\ Goto(p, "refused")
        /\ excused' = excused \cup {"lost"}
        /\ UNCHANGED store
  /\ UNCHANGED <<lock, old, server, expired>>

-----------------------------------------------------------------------------
(* The environment.                                                        *)

Running(p) == command[p].pc \notin {"done", "failed", "crashed"}

Holding == {"adopted", "exchanging", "exchanged", "stored", "refused"}

Crash(p) ==
  /\ Running(p)
  /\ Cardinality({q \in Commands : At(q, "crashed")}) < MaxCrashes
  /\ Goto(p, "crashed")
  /\ excused' = IF At(p, "exchanged") THEN excused \cup {"lost"} ELSE excused
  /\ UNCHANGED <<lock, old, store, server, expired, losses>>

\* STALE_MS pass for the lock of a crashed command.
Age ==
  /\ lock # Nobody /\ ~old
  /\ At(lock, "crashed")
  /\ old' = TRUE
  /\ UNCHANGED <<command, lock, store, server, expired, losses, excused>>

Expire ==
  /\ \E f \in Families :
       LET t == [family |-> f, n |-> server.newest[f]]
       IN  /\ f <= server.sessions /\ Perishable(t) /\ t \notin expired
           /\ expired' = expired \cup {t}
  /\ UNCHANGED <<command, lock, old, store, server, losses, excused>>

\* neon login: a new session, stored without the refresh lock.
Login ==
  /\ server.sessions <= MaxLogins
  /\ server' = [server EXCEPT !.sessions = @ + 1]
  /\ store' = First(server.sessions + 1)
  /\ UNCHANGED <<command, lock, old, expired, losses, excused>>

Step(p) ==
  \/ Begin(p) \/ Accepted(p) \/ Rejected(p)
  \/ Acquire(p) \/ Blocked(p) \/ Judge(p) \/ Unlink(p) \/ Release(p)
  \/ Exchange(p) \/ Replay(p) \/ Unreachable(p) \/ Store(p)

Next ==
  \/ \E p \in Commands : Step(p) \/ GiveUp(p) \/ Crash(p)
  \/ Age \/ Expire \/ Login

Spec == Init /\ [][Next]_vars

\* Commands that are not killed go on, and time passes; nobody has to give up.
FairSpec == Spec /\ WF_vars(Age) /\ \A p \in Commands : WF_vars(Step(p))

-----------------------------------------------------------------------------
(* Properties.                                                             *)

\* Every variable keeps its type; a command makes two attempts at most.
TypeOK ==
  /\ command \in [Commands ->
       [pc : {"begin", "calling", "locking", "blocked", "unlinking", "done", "failed", "crashed"}
               \cup Holding,
        attempt : {1, 2}, after : {"begin", "401"}, mine : Tokens, token : Tokens,
        judged : Commands \cup {Nobody}, refreshed : BOOLEAN]]
  /\ lock \in Commands \cup {Nobody}
  /\ old \in BOOLEAN
  /\ store \in Tokens
  /\ server \in [newest : [Families -> 0..MaxRotations], dead : SUBSET Families,
                 sessions : Families]
  /\ expired \subseteq Tokens
  /\ losses \in 0..MaxLosses
  /\ excused \subseteq {"snatched", "lost"}

\* Exchanges are serialized: two commands are past the lock only if a third has
\* unlinked a lock file other than the one it found stale (withExclusiveLock).
OneExchange ==
  "snatched" \notin excused =>
    \A p, q \in Commands :
      command[p].pc \in Holding /\ command[q].pc \in Holding => p = q

\* A lock file that is there belongs to a command that is past the lock, or to
\* one that was killed: no way out of the critical section leaves it behind.
LockHeld ==
  "snatched" \notin excused /\ lock # Nobody =>
    command[lock].pc \in Holding \cup {"crashed"}

\* The lock does what it is for, in well-typed states: one exchange at a time, and no
\* lock file that nobody will take away, until somebody has unlinked a lock file other
\* than the one that was judged stale.
OneHolder == TypeOK /\ OneExchange /\ LockHeld

\* No session is revoked because its refresh token was presented twice, unless
\* an answer of the server was lost or the lock was snatched (performRefresh).
NoReplay == server.dead # {} => excused # {}

\* What is stored is the newest token of its session, except while a command that has
\* obtained a newer one is about to store it, and unless an answer of the server was lost
\* or the lock was snatched.
StoreIsNewest ==
  \/ excused # {}
  \/ store.n = server.newest[store.family]
  \/ \E p \in Commands : At(p, "exchanged") /\ command[p].token.family = store.family

\* Every command that is not killed ends, without having to give up: a lock left
\* by a crash is taken away, and no other one stays.
CommandsEnd == \A p \in Commands : Running(p) ~> ~Running(p)

\* Fails, the README shows how: withExclusiveLock() alone, without the excuse.
AlwaysOneExchange ==
  \A p, q \in Commands :
    command[p].pc \in Holding /\ command[q].pc \in Holding => p = q

\* Fails too: a login is not undone by a refresh that was on its way.
LoginKept == [][store'.family >= store.family]_vars
=============================================================================

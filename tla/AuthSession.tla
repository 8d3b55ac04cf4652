----------------------------- MODULE AuthSession -----------------------------
(***************************************************************************)
(* The session of one browser tab in the auth client: getSession() with the *)
(* session cache and the requests in flight that callers share, signIn(),   *)
(* signOut() and updateUser(), and what other tabs broadcast.               *)
(*                                                                          *)
(* A session is a number, 0 for nobody.  Epochs are the sign-outs requested *)
(* in this tab: an answer of the server remembers in which epoch its request *)
(* was sent, an entry of the cache in which it was set, and whether it was  *)
(* out of date by then.                                                     *)
(* The code between two awaits is one step.  A caller calls again and again; *)
(* the request of one that found nothing to share bears its name.           *)
(***************************************************************************)
EXTENDS Naturals, FiniteSets

CONSTANTS
  Callers,      \* callers of getSession()
  None,         \* no caller, no entry
  MaxSessions,  \* bound: sessions that are ever opened
  MaxSignOuts,  \* bound: sign-outs requested in this tab
  MaxOthers     \* bound: what other tabs do

ASSUME AuthSessionConstants ==
  /\ IsFiniteSet(Callers)
  /\ None \notin Callers /\ None \notin Nat
  /\ None \notin [session : Nat, epoch : Nat, late : BOOLEAN]
  /\ MaxSessions \in Nat \ {0}
  /\ MaxSignOuts \in Nat /\ MaxOthers \in Nat

VARIABLES
  server,       \* the session the server has for the browser's cookie
  opened,       \* sessions opened so far
  untold,       \* history: those among them this tab was not told of
  cache,        \* TokenCache: an entry, or None
  invalidated,  \* SessionCacheManager.invalidated
  inFlight,     \* the request that callers of getSession() share, or None
  requests,     \* the requests of getSession(), by the caller that made them
  calls,        \* the calls of getSession(), by caller
  signIn,       \* the session in an answer to signIn() on its way, or None
  update,       \* the session in an answer to updateUser() on its way, or None
  signOut,      \* where the sign-out is
  epoch,        \* sign-outs requested so far
  mail,         \* messages of other tabs on their way
  others        \* what other tabs did so far

serverVars  == <<server, opened, untold>>
cacheVars   == <<cache, invalidated>>
getVars     == <<inFlight, requests, calls>>
signOutVars == <<signOut, epoch>>
tabVars     == <<mail, others>>

vars == <<serverVars, cacheVars, getVars, signIn, update, signOutVars, tabVars>>

Sessions == 0..MaxSessions
Epochs   == 0..MaxSignOuts
Answers  == [session : Sessions, epoch : Epochs]
Entries  == [session : Sessions \ {0}, epoch : Epochs, late : BOOLEAN]
NoAnswer == [session |-> 0, epoch |-> 0]
NoRequest == [state |-> "none", answer |-> NoAnswer]
NoCall   == [state |-> "none", epoch |-> 0, waits |-> None, answer |-> NoAnswer]
Events   == {"SIGN_IN", "SIGN_OUT", "USER_UPDATE"}

Init ==
  /\ server = 1 /\ opened = 1 /\ untold = {}
  /\ cache = None /\ invalidated = FALSE
  /\ inFlight = None
  /\ requests = [c \in Callers |-> NoRequest]
  /\ calls = [c \in Callers |-> NoCall]
  /\ signIn = None /\ update = None
  /\ signOut = "idle" /\ epoch = 0
  /\ mail = {} /\ others = 0

-----------------------------------------------------------------------------
(* SessionCacheManager and InFlightRequestManager.                         *)

\* getCachedSession()
Cached == IF invalidated THEN None ELSE cache

Entry(s) == [session |-> s, epoch |-> epoch, late |-> s # server]

\* setCachedSession(), for the data of a response that holds a session.
SetCached(s) == cache' = IF s = 0 \/ invalidated THEN cache ELSE Entry(s)

\* Faulty variant: the cache is open again, with what it held.
ReopenCache == invalidated' = FALSE /\ UNCHANGED cache

\* clearSessionCache()
ClearCache == invalidated' = FALSE /\ cache' = None

\* Faulty variant: callers go on sharing the request from before the sign-out.
KeepInFlight == UNCHANGED inFlight

\* clearAll()
ClearInFlight == inFlight' = None

\* deduplicate() remembers the request until it has been answered.
Remember(c) == inFlight' = c

-----------------------------------------------------------------------------
(* getSession()                                                            *)

\* beforeFetch() looks into the cache; either result is awaited.
Ask(c) ==
  /\ calls[c].state = "none"
  /\ calls' = [calls EXCEPT ![c] =
       IF Cached = None
         THEN [NoCall EXCEPT !.state = "missed", !.epoch = epoch]
         ELSE [NoCall EXCEPT !.state = "received", !.epoch = epoch, 
                               !.answer = [session |-> Cached.session, epoch |-> Cached.epoch]]]
  /\ UNCHANGED <<serverVars, cacheVars, inFlight, requests, signIn, update, signOutVars, tabVars>>

Share(c) ==
  /\ calls[c].state = "missed" /\ inFlight # None
  /\ calls' = [calls EXCEPT ![c].state = "waiting", ![c].waits = inFlight]
  /\ UNCHANGED <<serverVars, cacheVars, inFlight, requests, signIn, update, signOutVars, tabVars>>

Send(c, state) ==
  requests' = [requests EXCEPT ![c] = [state |-> state, answer |-> [NoAnswer EXCEPT !.epoch = epoch]]]

Fetch(c) ==
  /\ calls[c].state = "missed" /\ inFlight = None
  /\ calls' = [calls EXCEPT ![c].state = "waiting", ![c].waits = c]
  /\ Send(c, "sent")
  /\ Remember(c)
  /\ UNCHANGED <<serverVars, cacheVars, signIn, update, signOutVars, tabVars>>

\* X-Force-Fetch: neither cache nor sharing, but the answer is cached.
ForceFetch(c) ==
  /\ calls[c].state = "none"
  /\ calls' = [calls EXCEPT ![c] =
                [NoCall EXCEPT !.state = "waiting", !.epoch = epoch, !.waits = c]]
  /\ Send(c, "forced")
  /\ UNCHANGED <<serverVars, cacheVars, inFlight, signIn, update, signOutVars, tabVars>>

\* The server looks the cookie up.
Serve(c) ==
  /\ requests[c].state \in {"sent", "forced"}
  /\ requests' = [requests EXCEPT ![c].state = IF @ = "sent" THEN "served" ELSE "forced_served",
                                  ![c].answer.session = server]
  /\ UNCHANGED <<serverVars, cacheVars, inFlight, calls, signIn, update, signOutVars, tabVars>>

Waiting(c) == {d \in Callers : calls[d].state = "waiting" /\ calls[d].waits = c}

\* Every caller that waits gets its own copy of the response.
Receive(c) ==
  calls' = [d \in Callers |->
    IF d \in Waiting(c)
      THEN [calls[d] EXCEPT !.state = "received", !.waits = None, !.answer = requests[c].answer]
      ELSE calls[d]]

\* Every one of them throws.
Throw(c) == calls' = [d \in Callers |-> IF d \in Waiting(c) THEN NoCall ELSE calls[d]]

\* The key is deleted whichever request it stands for by then.
Done(c) ==
  /\ inFlight' = IF requests[c].state \in {"sent", "served"} THEN None ELSE inFlight
  /\ requests' = [requests EXCEPT ![c] = NoRequest]

Answer(c) ==
  /\ requests[c].state \in {"served", "forced_served"}
  /\ Done(c)
  /\ Receive(c)
  /\ UNCHANGED <<serverVars, cacheVars, signIn, update, signOutVars, tabVars>>

Fail(c) ==
  /\ requests[c].state # "none"
  /\ Done(c)
  /\ Throw(c)
  /\ UNCHANGED <<serverVars, cacheVars, signIn, update, signOutVars, tabVars>>

\* The caller has read the body and its hook caches the session, also one that came from
\* the cache; the call is over.
Hook(c) ==
  /\ calls[c].state = "received"
  /\ calls' = [calls EXCEPT ![c] = NoCall]
  /\ SetCached(calls[c].answer.session)
  /\ UNCHANGED <<serverVars, invalidated, inFlight, requests, signIn, update,
                 signOutVars, tabVars>>

GetSession(c) ==
  \/ Ask(c) \/ Share(c) \/ Fetch(c) \/ ForceFetch(c)
  \/ Serve(c) \/ Answer(c) \/ Fail(c) \/ Hook(c)

-----------------------------------------------------------------------------
(* signIn(), updateUser() and signOut().                                   *)

Open ==
  /\ opened < MaxSessions
  /\ opened' = opened + 1 /\ server' = opened'
  /\ untold' = untold \cup {opened'}

\* The server opens a session and answers with it.
SignIn ==
  /\ signIn = None
  /\ Open
  /\ signIn' = opened'
  /\ UNCHANGED <<cacheVars, getVars, update, signOutVars, tabVars>>

\* The answer arrives, or it is lost.
SignedIn ==
  /\ signIn # None /\ signIn' = None
  /\ \/ SetCached(signIn) /\ untold' = untold \ {signIn}
     \/ UNCHANGED <<cache, untold>>
  /\ UNCHANGED <<server, opened, invalidated, getVars, update, signOutVars, tabVars>>

\* The server changes the user of its session.
UpdateUser ==
  /\ update = None /\ server # 0
  /\ update' = server
  /\ UNCHANGED <<serverVars, cacheVars, getVars, signIn, signOutVars, tabVars>>

\* The answer arrives, with the session or without, or it is lost.
UserUpdated ==
  /\ update # None /\ update' = None
  /\ \/ SetCached(update) /\ UNCHANGED invalidated
     \/ ClearCache
     \/ UNCHANGED cacheVars
  /\ UNCHANGED <<serverVars, getVars, signIn, signOutVars, tabVars>>

\* onRequest of signOut()
SignOut ==
  /\ signOut \in {"idle", "failed"}
  /\ epoch < MaxSignOuts
  /\ signOut' = "sent" /\ epoch' = epoch + 1
  /\ invalidated' = TRUE
  /\ ClearInFlight
  /\ UNCHANGED <<serverVars, cache, requests, calls, signIn, update, tabVars>>

\* The server ends the session, or the request fails on either way.
ServeSignOut ==
  /\ signOut = "sent"
  /\ \/ server' = 0 /\ signOut' = "served"
     \/ server' \in {server, 0} /\ signOut' = "failed"
  /\ UNCHANGED <<opened, untold, cacheVars, getVars, signIn, update, epoch, tabVars>>

SignedOut ==
  /\ signOut = "served" /\ signOut' = "idle"
  /\ ClearCache
  /\ UNCHANGED <<serverVars, getVars, signIn, update, epoch, tabVars>>

\* The entry's time is over.
Expire ==
  /\ cache # None /\ cache' = None
  /\ UNCHANGED <<serverVars, invalidated, getVars, signIn, update, signOutVars, tabVars>>

-----------------------------------------------------------------------------
(* Other tabs, which run the same code.                                    *)

\* emitAuthEvent(): the trigger of Better Auth, if the event has one, and a name of its own.
Posts(event) ==
  CASE event = "SIGN_IN"     -> {"SIGNED_IN"}
    [] event = "SIGN_OUT"    -> {"signout", "SIGNED_OUT"}
    [] event = "USER_UPDATE" -> {"updateUser", "USER_UPDATED"}

\* Another tab does something, and posts it once it has been answered; what has not come
\* yet may be what it has not posted.
OtherTab(event) ==
  /\ others < MaxOthers /\ others' = others + 1
  /\ mail' = mail \cup {<<event, others'>>}
  /\ \/ event = "SIGN_IN" /\ Open
     \/ event = "SIGN_OUT" /\ server' = 0 /\ UNCHANGED <<opened, untold>>
     \/ event = "USER_UPDATE" /\ server # 0 /\ UNCHANGED serverVars
  /\ UNCHANGED <<cacheVars, getVars, signIn, update, signOutVars>>

\* The listener clears the cache for the triggers of Better Auth only.
Clears(event) == Posts(event) \cap {"signout", "updateUser", "getSession"} # {}

\* What was posted for an event of another tab comes, in any order with other events.
Broadcast(m) ==
  /\ mail' = mail \ {m}
  /\ IF Clears(m[1]) THEN ClearCache ELSE UNCHANGED cacheVars
  /\ UNCHANGED <<serverVars, getVars, signIn, update, signOutVars, others>>

Next ==
  \/ \E c \in Callers : GetSession(c)
  \/ SignIn \/ SignedIn \/ UpdateUser \/ UserUpdated
  \/ SignOut \/ ServeSignOut \/ SignedOut \/ Expire
  \/ \E event \in Events : OtherTab(event)
  \/ \E m \in mail : Broadcast(m)

Spec == Init /\ [][Next]_vars

-----------------------------------------------------------------------------
(* Properties.                                                             *)

\* Every variable keeps its type; the cache never holds a session of nobody.
TypeOK ==
  /\ server \in Sessions /\ opened \in Sessions /\ untold \subseteq Sessions
  /\ cache \in Entries \cup {None}
  /\ invalidated \in BOOLEAN
  /\ inFlight \in Callers \cup {None}
  /\ requests \in [Callers -> [state : {"none", "sent", "served", "forced", "forced_served"},
                               answer : Answers]]
  /\ calls \in [Callers -> [state : {"none", "missed", "waiting", "received"}, epoch : Epochs,
                            waits : Callers \cup {None}, answer : Answers]]
  /\ signIn \in Sessions \cup {None} /\ update \in Sessions \cup {None}
  /\ signOut \in {"idle", "sent", "served", "failed"}
  /\ epoch \in Epochs
  /\ mail \subseteq Events \X (1..MaxOthers) /\ others \in 0..MaxOthers

\* A call made after a sign-out was requested gets the answer to a request sent after it
\* too, its own or a shared one, or an entry of the cache that was set after it.  (Such an
\* entry may hold an answer from before, which comes once the invalidation was lifted: by
\* the confirmed sign-out, or, while that is on its way or has failed, by an answer to
\* updateUser() without a session or another tab's message.)
AnsweredAfterSignOut ==
  \A c \in Callers : calls[c].state = "received" => calls[c].answer.epoch >= calls[c].epoch

\* What the cache may answer is the session the server has, whatever sign-ins,
\* updates, sign-outs and failures came between, unless
\*  - the entry was out of date when it was set, by an answer that was overtaken;
\*  - this tab was not told of the server's session: another tab opened it, or the
\*    answer to this tab's signIn() is on its way or was lost;
\*  - the server has none, by a sign-out of this tab that is not confirmed or failed,
\*    or by one of another tab whose message has not come.
CacheIsCurrent ==
  /\ TypeOK
  /\ \/ Cached = None \/ Cached.late
     \/ Cached.session = server
     \/ server \in untold
     \/ server = 0 /\ (signOut \in {"served", "failed"} \/ \E m \in mail : m[1] = "SIGN_OUT")

\* Fails, the README shows how: no answer that was overtaken is cached.
NotOvertaken == Cached # None => ~Cached.late

\* Fails, the README shows how: once nothing is on its way, an entry that was not
\* overtaken holds the server's session.
CurrentWhenQuiet ==
  (mail = {} /\ signIn = None /\ signOut = "idle") =>
    Cached = None \/ Cached.late \/ Cached.session = server
=============================================================================

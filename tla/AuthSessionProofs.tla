-------------------------- MODULE AuthSessionProofs --------------------------
(***************************************************************************)
(* Proofs about the session cache of the auth client, for any number of     *)
(* callers, sessions, sign-outs and acts of other tabs.                     *)
(***************************************************************************)
EXTENDS AuthSession, TLAPS

Requests ==
  [state : {"none", "sent", "served", "forced", "forced_served"}, answer : Answers]

GetSessionCalls ==
  [state : {"none", "missed", "waiting", "received"}, epoch : Epochs,
   waits : Callers \cup {None}, answer : Answers]

\* TypeOK, by the names of its sets.
TypeInv ==
  /\ server \in Sessions /\ opened \in Sessions /\ untold \subseteq Sessions
  /\ cache \in Entries \cup {None}
  /\ invalidated \in BOOLEAN /\ inFlight \in Callers \cup {None}
  /\ requests \in [Callers -> Requests] /\ calls \in [Callers -> GetSessionCalls]
  /\ signIn \in Sessions \cup {None} /\ update \in Sessions \cup {None}
  /\ signOut \in {"idle", "sent", "served", "failed"}
  /\ epoch \in Epochs
  /\ mail \subseteq Events \X (1..MaxOthers) /\ others \in 0..MaxOthers

\* What an open cache holds was set after the last sign-out was requested, ...
CacheOfThisEpoch == Cached = None \/ Cached.epoch = epoch

\* ... and the request that callers share is under way and was sent after it, ...
SharedOfThisEpoch ==
  inFlight # None => /\ requests[inFlight].state \in {"sent", "served"}
                     /\ requests[inFlight].answer.epoch = epoch

\* ... so that nobody waits for an answer older than the call.
NobodyWaitsForOlder ==
  \A c \in Callers : calls[c].state = "waiting" =>
    /\ calls[c].waits \in Callers
    /\ requests[calls[c].waits].answer.epoch >= calls[c].epoch

\* Whoever made a request waits for it, so it is not replaced by another of theirs.
OwnRequestAwaited ==
  \A c \in Callers : requests[c].state # "none" => calls[c].state = "waiting" /\ calls[c].waits = c

NobodyAhead == \A c \in Callers : calls[c].epoch <= epoch

EpochInv ==
  /\ TypeInv
  /\ CacheOfThisEpoch /\ SharedOfThisEpoch /\ NobodyWaitsForOlder
  /\ OwnRequestAwaited /\ NobodyAhead
  /\ AnsweredAfterSignOut

LEMMA TypeParts == TypeOK <=> TypeInv
BY DEF TypeOK, TypeInv, Requests, GetSessionCalls

LEMMA Bounds ==
  /\ MaxSessions \in Nat \ {0} /\ MaxSignOuts \in Nat /\ MaxOthers \in Nat
  /\ None \notin Callers \cup Entries \cup Sessions
  /\ 0 \in Sessions /\ 1 \in Sessions /\ 0 \in Epochs
  /\ NoAnswer \in Answers /\ NoRequest \in Requests /\ NoCall \in GetSessionCalls
  /\ Sessions \subseteq Nat /\ Epochs \subseteq Nat
<1>1. Sessions \subseteq Nat /\ Epochs \subseteq Nat
  BY AuthSessionConstants DEF Sessions, Epochs
<1>2. None \notin Callers \cup Entries \cup Sessions
  BY <1>1, AuthSessionConstants DEF Entries
<1>3. 0 \in Sessions /\ 1 \in Sessions /\ 0 \in Epochs /\ NoAnswer \in Answers
  BY AuthSessionConstants DEF Sessions, Epochs, NoAnswer, Answers
<1> QED
  BY <1>1, <1>2, <1>3, AuthSessionConstants
     DEF NoRequest, Requests, NoCall, GetSessionCalls

LEMMA InitInv == Init => EpochInv
<1> SUFFICES ASSUME Init PROVE EpochInv
  OBVIOUS
<1>1. requests \in [Callers -> Requests] /\ calls \in [Callers -> GetSessionCalls]
  BY Bounds DEF Init
<1>2. invalidated \in BOOLEAN
  BY DEF Init
<1>3. others \in 0..MaxOthers
  BY Bounds DEF Init
<1>4. TypeInv
  BY <1>1, <1>2, <1>3, Bounds DEF Init, TypeInv
<1> QED
  BY <1>4, Bounds DEF Init, EpochInv, CacheOfThisEpoch, Cached, SharedOfThisEpoch, NoRequest,
                      NobodyWaitsForOlder, OwnRequestAwaited, NobodyAhead,
                      AnsweredAfterSignOut, NoCall

-----------------------------------------------------------------------------
(* The calls of getSession(): what each step makes of each call and each    *)
(* request.                                                                 *)

\* Cached, as the answer to a call.
Copy == [session |-> Cached.session, epoch |-> Cached.epoch]

LEMMA CopyType ==
  ASSUME TypeInv, Cached # None
  PROVE  Cached \in Entries /\ Copy \in Answers /\ Copy.epoch = Cached.epoch
BY DEF TypeInv, Cached, Copy, Entries, Answers

LEMMA SetCachedType ==
  ASSUME TypeInv, NEW s \in Sessions, SetCached(s)
  PROVE  cache' \in Entries \cup {None}
BY DEF TypeInv, SetCached, Entry, Entries

LEMMA AskedCall ==
  ASSUME TypeInv, NEW c \in Callers, Ask(c)
  PROVE  /\ calls' \in [Callers -> GetSessionCalls]
         /\ \A d \in Callers : d # c => calls'[d] = calls[d]
         /\ calls'[c].epoch = epoch /\ calls[c].state = "none"
         /\ \/ calls'[c].state = "missed"
            \/ calls'[c].state = "received" /\ Cached # None /\ calls'[c].answer = Copy
<1> DEFINE m == [NoCall EXCEPT !.state = "missed", !.epoch = epoch]
           r == [NoCall EXCEPT !.state = "received", !.epoch = epoch, !.answer = Copy]
<1>1. /\ m \in GetSessionCalls /\ m.state = "missed" /\ m.epoch = epoch
  BY Bounds DEF TypeInv, NoCall, GetSessionCalls
<1>2. Cached # None => r \in GetSessionCalls
  BY Bounds, CopyType DEF TypeInv, NoCall, GetSessionCalls
<1>3. r.state = "received" /\ r.epoch = epoch /\ r.answer = Copy
  BY DEF NoCall
<1>4. calls' = [calls EXCEPT ![c] = IF Cached = None THEN m ELSE r]
  BY DEF Ask, Copy
<1> HIDE DEF m, r
<1> QED
  BY <1>1, <1>2, <1>3, <1>4 DEF TypeInv, Ask

LEMMA WaitingCall ==
  ASSUME TypeInv, NEW c \in Callers, Share(c) \/ Fetch(c) \/ ForceFetch(c)
  PROVE  /\ calls' \in [Callers -> GetSessionCalls]
         /\ \A d \in Callers : d # c => calls'[d] = calls[d]
         /\ calls'[c].state = "waiting" /\ calls[c].state # "waiting"
         /\ calls'[c].epoch \in {calls[c].epoch, epoch}
         /\ calls'[c].waits = IF Share(c) THEN inFlight ELSE c
<1> DEFINE w(x) == [calls[c] EXCEPT !.state = "waiting", !.waits = x]
           n    == [NoCall EXCEPT !.state = "waiting", !.epoch = epoch, !.waits = c]
<1>1. calls[c] \in GetSessionCalls /\ calls \in [Callers -> GetSessionCalls]
  BY DEF TypeInv
<1>2. ASSUME NEW x \in Callers \cup {None}
      PROVE  /\ w(x) \in GetSessionCalls /\ w(x).state = "waiting"
             /\ w(x).epoch = calls[c].epoch /\ w(x).waits = x
  BY <1>1, <1>2 DEF GetSessionCalls
<1>3. n \in GetSessionCalls /\ n.state = "waiting" /\ n.epoch = epoch /\ n.waits = c
  BY Bounds DEF TypeInv, NoCall, GetSessionCalls
<1>4. Share(c) => calls' = [calls EXCEPT ![c] = w(inFlight)] /\ inFlight \in Callers
                  /\ calls[c].state = "missed"
  BY <1>1 DEF Share, TypeInv, GetSessionCalls
<1>5. Fetch(c) => calls' = [calls EXCEPT ![c] = w(c)] /\ inFlight = None
                  /\ calls[c].state = "missed"
  BY <1>1 DEF Fetch, GetSessionCalls
<1>6. ForceFetch(c) => calls' = [calls EXCEPT ![c] = n] /\ calls[c].state = "none"
  BY DEF ForceFetch
<1>7. Share(c) => inFlight # None
  BY DEF Share
<1>8. w(c).waits = c /\ (Share(c) => w(inFlight).waits = inFlight)
  BY <1>2, <1>4
<1> HIDE DEF w, n
<1>9. CASE Share(c)
  BY <1>1, <1>2, <1>4, <1>9
<1>10. CASE Fetch(c)
  BY <1>1, <1>2, <1>5, <1>7, <1>10
<1>11. CASE ForceFetch(c) /\ ~Share(c)
  BY <1>1, <1>3, <1>6, <1>11
<1> QED
  BY <1>9, <1>10, <1>11

LEMMA SentRequest ==
  ASSUME TypeInv, NEW c \in Callers, Fetch(c) \/ ForceFetch(c)
  PROVE  /\ requests' \in [Callers -> Requests]
         /\ \A d \in Callers : d # c => requests'[d] = requests[d]
         /\ requests'[c].state = IF Fetch(c) THEN "sent" ELSE "forced"
         /\ requests'[c].answer.epoch = epoch
<1> DEFINE r(st) == [state |-> st, answer |-> [NoAnswer EXCEPT !.epoch = epoch]]
<1>1. [NoAnswer EXCEPT !.epoch = epoch] \in Answers /\ [NoAnswer EXCEPT !.epoch = epoch].epoch = epoch
  BY Bounds DEF TypeInv, NoAnswer, Answers
<1>2. /\ r("sent") \in Requests /\ r("sent").state = "sent" /\ r("sent").answer.epoch = epoch
      /\ r("forced") \in Requests /\ r("forced").state = "forced" /\ r("forced").answer.epoch = epoch
  BY <1>1 DEF Requests
<1>3. /\ Fetch(c) => requests' = [requests EXCEPT ![c] = r("sent")] /\ calls[c].state = "missed"
      /\ ForceFetch(c) => requests' = [requests EXCEPT ![c] = r("forced")] /\ calls[c].state = "none"
  BY DEF Fetch, ForceFetch, Send
<1> HIDE DEF r
<1> QED
  BY <1>2, <1>3 DEF TypeInv

LEMMA ServedRequest ==
  ASSUME TypeInv, NEW c \in Callers, Serve(c)
  PROVE  /\ requests' \in [Callers -> Requests]
         /\ \A d \in Callers : d # c => requests'[d] = requests[d]
         /\ requests[c].state # "none"
         /\ requests'[c].state = IF requests[c].state = "sent" THEN "served" ELSE "forced_served"
         /\ requests'[c].answer.epoch = requests[c].answer.epoch
<1> DEFINE st == IF requests[c].state = "sent" THEN "served" ELSE "forced_served"
           r  == [requests[c] EXCEPT !.state = st, !.answer.session = server]
<1>1. requests[c] \in Requests /\ requests[c].answer \in Answers
  BY DEF TypeInv, Requests
<1>2. r \in Requests /\ r.state = st /\ r.answer.epoch = requests[c].answer.epoch
  BY <1>1 DEF TypeInv, Requests, Answers
<1>3. requests' = [requests EXCEPT ![c] = r] /\ requests[c].state # "none"
  BY <1>1 DEF Serve, TypeInv, Requests
<1> HIDE DEF r, st
<1>4. /\ requests' \in [Callers -> Requests] /\ requests'[c] = r
      /\ \A d \in Callers : d # c => requests'[d] = requests[d]
  BY <1>2, <1>3 DEF TypeInv
<1> QED
  BY <1>2, <1>3, <1>4 DEF st

LEMMA EndedRequest ==
  ASSUME TypeInv, NEW c \in Callers, Answer(c) \/ Fail(c)
  PROVE  /\ requests' = [requests EXCEPT ![c] = NoRequest]
         /\ requests' \in [Callers -> Requests]
         /\ calls' \in [Callers -> GetSessionCalls]
         /\ requests[c].state # "none"
         /\ inFlight' = IF requests[c].state \in {"sent", "served"} THEN None ELSE inFlight
         /\ \A d \in Callers :
              IF d \in Waiting(c)
                THEN /\ calls'[d].epoch = calls[d].epoch \/ calls'[d] = NoCall
                     /\ \/ calls'[d].state = "received" /\ calls'[d].answer = requests[c].answer
                        \/ calls'[d] = NoCall
                ELSE calls'[d] = calls[d]
<1>1. calls \in [Callers -> GetSessionCalls] /\ requests \in [Callers -> Requests]
  BY DEF TypeInv
<1>2. requests[c].answer \in Answers
  BY <1>1 DEF Requests
<1>3. Done(c) /\ (Receive(c) \/ Throw(c)) /\ requests[c].state # "none"
  BY DEF Answer, Fail
<1>4. /\ requests' = [requests EXCEPT ![c] = NoRequest]
      /\ requests' \in [Callers -> Requests]
  BY <1>1, <1>3, Bounds DEF Done
<1> DEFINE r(d) == [calls[d] EXCEPT !.state = "received", !.waits = None,
                                    !.answer = requests[c].answer]
<1>5. \A d \in Callers : /\ r(d) \in GetSessionCalls /\ r(d).state = "received"
                         /\ r(d).epoch = calls[d].epoch /\ r(d).answer = requests[c].answer
  BY <1>1, <1>2 DEF GetSessionCalls
<1>6. CASE Receive(c)
  <2>1. calls' = [d \in Callers |-> IF d \in Waiting(c) THEN r(d) ELSE calls[d]]
    BY <1>6 DEF Receive
  <2> HIDE DEF r
  <2> QED
    BY <1>1, <1>3, <1>4, <1>5, <2>1 DEF Done
<1>7. CASE Throw(c)
  BY <1>1, <1>3, <1>4, <1>7, Bounds DEF Done, Throw
<1> QED
  BY <1>3, <1>6, <1>7

LEMMA HookedCall ==
  ASSUME TypeInv, NEW c \in Callers, Hook(c)
  PROVE  /\ calls' = [calls EXCEPT ![c] = NoCall]
         /\ calls' \in [Callers -> GetSessionCalls]
         /\ calls[c].state = "received"
         /\ calls[c].answer.session \in Sessions
         /\ SetCached(calls[c].answer.session)
BY Bounds DEF Hook, TypeInv, GetSessionCalls, Answers

LEMMA GetSessionType ==
  ASSUME TypeInv, NEW c \in Callers, GetSession(c)
  PROVE  TypeInv'
<1>1. CASE Ask(c)
  BY <1>1, AskedCall DEF Ask, TypeInv, serverVars, cacheVars, signOutVars, tabVars
<1>2. CASE Share(c)
  BY <1>2, WaitingCall DEF Share, TypeInv, serverVars, cacheVars, signOutVars, tabVars
<1>3. CASE Fetch(c)
  BY <1>3, WaitingCall, SentRequest
     DEF Fetch, Remember, TypeInv, serverVars, cacheVars, signOutVars, tabVars
<1>4. CASE ForceFetch(c)
  BY <1>4, WaitingCall, SentRequest
     DEF ForceFetch, TypeInv, serverVars, cacheVars, signOutVars, tabVars
<1>5. CASE Serve(c)
  BY <1>5, ServedRequest DEF Serve, TypeInv, serverVars, cacheVars, signOutVars, tabVars
<1>6. CASE Answer(c) \/ Fail(c)
  <2>1. UNCHANGED <<serverVars, cacheVars, signIn, update, signOutVars, tabVars>>
    BY <1>6 DEF Answer, Fail
  <2>2. inFlight' \in Callers \cup {None}
    BY <1>6, EndedRequest DEF TypeInv
  <2> QED
    BY <1>6, <2>1, <2>2, EndedRequest DEF TypeInv, serverVars, cacheVars, signOutVars, tabVars
<1>7. CASE Hook(c)
  BY <1>7, HookedCall, SetCachedType DEF Hook, TypeInv, serverVars, signOutVars, tabVars
<1> QED
  BY <1>1, <1>2, <1>3, <1>4, <1>5, <1>6, <1>7 DEF GetSession

-----------------------------------------------------------------------------
(* What is not getSession().                                               *)

LEMMA TypeNext ==
  ASSUME TypeInv, Next
  PROVE  TypeInv'
<1> USE DEF serverVars, cacheVars, getVars, signOutVars, tabVars
<1>1. CASE \E c \in Callers : GetSession(c)
  BY <1>1, GetSessionType
<1>2. ASSUME Open PROVE opened' \in Sessions /\ server' \in Sessions /\ untold' \subseteq Sessions
  BY <1>2, Bounds DEF TypeInv, Open, Sessions
<1>3. CASE SignIn
  BY <1>2, <1>3 DEF TypeInv, SignIn
<1>4. CASE SignedIn
  BY <1>4, SetCachedType DEF TypeInv, SignedIn
<1>5. CASE UpdateUser
  BY <1>5 DEF TypeInv, UpdateUser
<1>6. CASE UserUpdated
  <2>1. cache' \in Entries \cup {None} /\ invalidated' \in BOOLEAN
    BY <1>6, SetCachedType DEF TypeInv, UserUpdated, ClearCache
  <2> QED
    BY <1>6, <2>1 DEF TypeInv, UserUpdated
<1>7. CASE SignOut
  <2>1. epoch' \in Epochs
    BY <1>7, Bounds DEF TypeInv, SignOut, Epochs
  <2> QED
    BY <1>7, <2>1 DEF TypeInv, SignOut, ClearInFlight
<1>8. CASE ServeSignOut
  BY <1>8, Bounds DEF TypeInv, ServeSignOut
<1>9. CASE SignedOut \/ Expire
  BY <1>9 DEF TypeInv, SignedOut, Expire, ClearCache
<1>10. ASSUME NEW event \in Events, OtherTab(event) PROVE TypeInv'
  <2>1. others' \in 1..MaxOthers /\ others' \in 0..MaxOthers
    BY <1>10, Bounds DEF TypeInv, OtherTab
  <2>2. mail' \subseteq Events \X (1..MaxOthers)
    BY <1>10, <2>1 DEF TypeInv, OtherTab
  <2>3. server' \in Sessions /\ opened' \in Sessions /\ untold' \subseteq Sessions
    BY <1>2, <1>10, Bounds DEF TypeInv, OtherTab
  <2> QED
    BY <1>10, <2>1, <2>2, <2>3 DEF TypeInv, OtherTab
<1>11. ASSUME NEW m \in mail, Broadcast(m) PROVE TypeInv'
  BY <1>11 DEF TypeInv, Broadcast, ClearCache
<1> QED
  BY <1>1, <1>3, <1>4, <1>5, <1>6, <1>7, <1>8, <1>9, <1>10, <1>11 DEF Next

-----------------------------------------------------------------------------
(* Sign-outs.                                                              *)

\* What is set now is of this epoch, and of the server's session unless it is late.
LEMMA SetCachedNow ==
  ASSUME TypeInv, NEW s \in Sessions, SetCached(s), UNCHANGED <<invalidated, epoch>>
  PROVE  \/ (s = 0 \/ Cached = None) /\ Cached' = Cached
         \/ /\ Cached'.epoch = epoch /\ Cached'.session = s
            /\ Cached'.late \/ Cached'.session = server
<1>1. /\ Entry(s).epoch = epoch /\ Entry(s).session = s
      /\ Entry(s).late \/ Entry(s).session = server
  BY DEF Entry
<1> QED
  BY <1>1 DEF SetCached, Cached

\* The steps of getSession() that do not set the cache.
LEMMA GetSessionElse ==
  ASSUME NEW c \in Callers, GetSession(c), ~Hook(c)
  PROVE  UNCHANGED <<serverVars, cacheVars, signIn, update, signOutVars, tabVars>>
BY DEF GetSession, Ask, Share, Fetch, ForceFetch, Serve, Answer, Fail

LEMMA HookElse ==
  ASSUME NEW c \in Callers, Hook(c)
  PROVE  UNCHANGED <<serverVars, invalidated, inFlight, requests, signIn, update, signOutVars,
                     tabVars>>
BY DEF Hook

LEMMA GetSessionCache ==
  ASSUME TypeInv, CacheOfThisEpoch, NEW c \in Callers, GetSession(c)
  PROVE  CacheOfThisEpoch' /\ UNCHANGED <<epoch, invalidated>>
<1>1. CASE Hook(c)
  <2>1. UNCHANGED <<epoch, invalidated>>
    BY <1>1, HookElse DEF signOutVars
  <2> QED
    BY <1>1, <2>1, HookedCall, SetCachedNow DEF CacheOfThisEpoch
<1>2. CASE ~Hook(c)
  BY <1>2, GetSessionElse DEF cacheVars, signOutVars, CacheOfThisEpoch, Cached
<1> QED
  BY <1>1, <1>2

\* Steps of getSession() keep what there is about sign-outs.
LEMMA GetSessionEpoch ==
  ASSUME EpochInv, NEW c \in Callers, GetSession(c)
  PROVE  EpochInv'
<1>1. TypeInv /\ TypeInv'
  BY GetSessionType DEF EpochInv
<1>2. CacheOfThisEpoch /\ CacheOfThisEpoch' /\ UNCHANGED epoch /\ epoch \in Nat
  BY <1>1, GetSessionCache, Bounds DEF EpochInv, TypeInv
<1>3. \A d \in Callers : /\ calls[d].epoch \in Nat /\ calls[d].answer.epoch \in Nat
                         /\ requests[d].answer.epoch \in Nat
  BY <1>1, Bounds DEF TypeInv, GetSessionCalls, Requests, Answers
<1>4. NoCall.state = "none" /\ NoCall.epoch = 0 /\ NoRequest.state = "none"
  BY DEF NoCall, NoRequest
<1> DEFINE Rest == SharedOfThisEpoch /\ NobodyWaitsForOlder /\ OwnRequestAwaited /\ NobodyAhead
                   /\ AnsweredAfterSignOut
<1> USE DEF SharedOfThisEpoch, NobodyWaitsForOlder, OwnRequestAwaited, NobodyAhead,
            AnsweredAfterSignOut
<1>5. Rest
  BY DEF EpochInv
<1>6. ASSUME Ask(c) PROVE Rest'
  <2>1. UNCHANGED <<inFlight, requests>>
    BY <1>6 DEF Ask
  <2>2. calls[c].state = "none" /\ calls'[c].epoch = epoch
        /\ \A d \in Callers : d # c => calls'[d] = calls[d]
    BY <1>1, <1>6, AskedCall
  <2>3. calls'[c].state = "missed"
        \/ (calls'[c].state = "received" /\ calls'[c].answer.epoch = epoch)
    BY <1>1, <1>2, <1>6, AskedCall, CopyType DEF CacheOfThisEpoch
  <2> QED
    BY <1>2, <1>5, <2>1, <2>2, <2>3
<1>7. ASSUME Share(c) PROVE Rest'
  <2>1. UNCHANGED <<inFlight, requests>> /\ inFlight \in Callers
    BY <1>1, <1>7 DEF Share, TypeInv
  <2>2. /\ calls'[c].state = "waiting" /\ calls[c].state # "waiting"
        /\ calls'[c].epoch \in {calls[c].epoch, epoch} /\ calls'[c].waits = inFlight
        /\ \A d \in Callers : d # c => calls'[d] = calls[d]
    BY <1>1, <1>7, WaitingCall
  <2>3. requests[inFlight].answer.epoch = epoch /\ calls'[c].epoch <= epoch
    BY <1>2, <1>5, <2>1, <2>2, Bounds
  <2> QED
    BY <1>2, <1>5, <2>1, <2>2, <2>3
<1>8. ASSUME Fetch(c) \/ ForceFetch(c) PROVE Rest'
  <2>1. /\ Fetch(c) => inFlight' = c
        /\ ~Fetch(c) => inFlight' = inFlight
    BY <1>8 DEF Fetch, ForceFetch, Remember
  <2>2. /\ calls'[c].state = "waiting" /\ calls[c].state # "waiting"
        /\ calls'[c].epoch \in {calls[c].epoch, epoch} /\ calls'[c].waits = c
        /\ \A d \in Callers : d # c => calls'[d] = calls[d]
    <3>1. Share(c) => inFlight # None /\ calls[c].state = "missed"
      BY DEF Share
    <3>2. Fetch(c) => inFlight = None
      BY DEF Fetch
    <3>3. ForceFetch(c) => calls[c].state = "none"
      BY DEF ForceFetch
    <3> QED
      BY <1>1, <1>8, <3>1, <3>2, <3>3, WaitingCall
  <2>3. /\ \A d \in Callers : d # c => requests'[d] = requests[d]
        /\ requests'[c].state = IF Fetch(c) THEN "sent" ELSE "forced"
        /\ requests'[c].answer.epoch = epoch
    BY <1>1, <1>8, SentRequest
  <2>4. requests[c].state = "none" /\ inFlight # c
    BY <1>5, <2>2, Bounds
  <2>5. SharedOfThisEpoch' /\ OwnRequestAwaited'
    BY <1>1, <1>2, <1>5, <2>1, <2>2, <2>3, <2>4 DEF TypeInv
  <2>6. NobodyAhead'
    BY <1>2, <1>5, <2>2
  <2>7. NobodyWaitsForOlder'
    <3> SUFFICES ASSUME NEW d \in Callers, calls'[d].state = "waiting"
                 PROVE  /\ calls'[d].waits \in Callers
                        /\ requests'[calls'[d].waits].answer.epoch >= calls'[d].epoch
      OBVIOUS
    <3>1. CASE d = c
      <4>1. calls'[c].epoch <= epoch /\ calls'[c].epoch \in Nat
        BY <1>2, <1>3, <1>5, <2>2
      <4> QED
        BY <1>2, <2>2, <2>3, <3>1, <4>1
    <3>2. CASE d # c
      <4>1. calls'[d] = calls[d] /\ calls[d].epoch <= epoch
        BY <1>5, <2>2, <3>2
      <4> QED
        BY <1>2, <1>3, <1>5, <2>3, <4>1
    <3> QED
      BY <3>1, <3>2
  <2>8. AnsweredAfterSignOut'
    BY <1>5, <2>2
  <2> QED
    BY <1>2, <2>5, <2>6, <2>7, <2>8
<1>9. ASSUME Serve(c) PROVE Rest'
  <2>1. UNCHANGED <<inFlight, calls>>
    BY <1>9 DEF Serve
  <2>2. /\ \A d \in Callers : d # c => requests'[d] = requests[d]
        /\ requests[c].state # "none"
        /\ requests'[c].state = IF requests[c].state = "sent" THEN "served" ELSE "forced_served"
        /\ requests'[c].answer.epoch = requests[c].answer.epoch
        /\ requests[c].state \in {"sent", "forced"}
    BY <1>1, <1>9, ServedRequest DEF Serve
  <2>3. SharedOfThisEpoch'
    BY <1>1, <1>2, <1>5, <2>1, <2>2 DEF TypeInv
  <2>4. NobodyWaitsForOlder'
    BY <1>5, <2>1, <2>2
  <2>5. OwnRequestAwaited' /\ NobodyAhead' /\ AnsweredAfterSignOut'
    BY <1>2, <1>5, <2>1, <2>2
  <2> QED
    BY <2>3, <2>4, <2>5
<1>10. ASSUME Answer(c) \/ Fail(c) PROVE Rest'
  <2>1. /\ requests'[c] = NoRequest /\ requests[c].state # "none"
        /\ \A d \in Callers : d # c => requests'[d] = requests[d]
        /\ inFlight' = IF requests[c].state \in {"sent", "served"} THEN None ELSE inFlight
    BY <1>1, <1>10, EndedRequest DEF TypeInv
  <2>2. \A d \in Callers : calls[d].state = "waiting" /\ calls[d].waits = c =>
          \/ calls'[d] = NoCall
          \/ /\ calls'[d].state = "received" /\ calls'[d].epoch = calls[d].epoch
             /\ calls'[d].answer = requests[c].answer
    BY <1>1, <1>10, <1>4, EndedRequest DEF Waiting
  <2>3. \A d \in Callers : ~(calls[d].state = "waiting" /\ calls[d].waits = c) => calls'[d] = calls[d]
    BY <1>1, <1>10, EndedRequest DEF Waiting
  <2>4. SharedOfThisEpoch'
    BY <1>1, <1>2, <1>5, <2>1 DEF TypeInv
  <2>5. NobodyWaitsForOlder'
    BY <1>4, <1>5, <2>1, <2>2, <2>3
  <2>6. OwnRequestAwaited'
    BY <1>4, <1>5, <2>1, <2>2, <2>3
  <2>7. NobodyAhead'
    BY <1>2, <1>4, <1>5, <2>2, <2>3
  <2>8. AnsweredAfterSignOut'
    BY <1>4, <1>5, <2>2, <2>3
  <2> QED
    BY <2>4, <2>5, <2>6, <2>7, <2>8
<1>11. ASSUME Hook(c) PROVE Rest'
  <2>1. UNCHANGED <<inFlight, requests>>
    BY <1>11, HookElse
  <2>2. calls'[c] = NoCall /\ calls[c].state = "received"
        /\ \A d \in Callers : d # c => calls'[d] = calls[d]
    BY <1>1, <1>11, HookedCall DEF TypeInv
  <2> QED
    BY <1>2, <1>4, <1>5, <2>1, <2>2
<1>12. Rest'
  BY <1>6, <1>7, <1>8, <1>9, <1>10, <1>11 DEF GetSession
<1> QED
  BY <1>1, <1>2, <1>12 DEF EpochInv

LEMMA EpochNext ==
  ASSUME EpochInv, Next
  PROVE  EpochInv'
<1> USE DEF serverVars, cacheVars, getVars, signOutVars, tabVars
<1>1. TypeInv /\ TypeInv' /\ CacheOfThisEpoch
  BY TypeNext DEF EpochInv
<1>2. CASE \E c \in Callers : GetSession(c)
  BY <1>2, GetSessionEpoch
<1>3. ASSUME UNCHANGED <<getVars, epoch>>, CacheOfThisEpoch' PROVE EpochInv'
  BY <1>1, <1>3 DEF EpochInv, SharedOfThisEpoch, NobodyWaitsForOlder, OwnRequestAwaited,
                    NobodyAhead, AnsweredAfterSignOut
<1>4. ASSUME UNCHANGED <<getVars, epoch, cacheVars>> PROVE EpochInv'
  BY <1>1, <1>3, <1>4 DEF CacheOfThisEpoch, Cached
<1>5. ASSUME UNCHANGED <<getVars, epoch>>, ClearCache PROVE EpochInv'
  BY <1>3, <1>5 DEF ClearCache, CacheOfThisEpoch, Cached
<1>6. ASSUME UNCHANGED <<getVars, epoch, invalidated>>, NEW s \in Sessions, SetCached(s)
      PROVE  EpochInv'
  BY <1>1, <1>3, <1>6, SetCachedNow DEF CacheOfThisEpoch
<1>7. CASE SignIn \/ UpdateUser \/ ServeSignOut
  BY <1>4, <1>7 DEF SignIn, UpdateUser, ServeSignOut
<1>8. CASE SignedIn
  BY <1>1, <1>4, <1>6, <1>8 DEF SignedIn, TypeInv
<1>9. CASE UserUpdated
  BY <1>1, <1>4, <1>5, <1>6, <1>9 DEF UserUpdated, TypeInv
<1>10. CASE SignOut
  <2>1. epoch' = epoch + 1 /\ epoch \in Nat /\ inFlight' = None /\ Cached' = None
    BY <1>1, <1>10, Bounds DEF SignOut, ClearInFlight, Cached, TypeInv
  <2>2. UNCHANGED <<calls, requests>>
    BY <1>10 DEF SignOut
  <2>3. NobodyAhead'
    <3>1. \A c \in Callers : calls[c].epoch \in Nat
      BY <1>1, Bounds DEF TypeInv, GetSessionCalls
    <3> QED
      BY <2>1, <2>2, <3>1 DEF EpochInv, NobodyAhead
  <2> QED
    BY <1>1, <2>1, <2>2, <2>3
       DEF EpochInv, CacheOfThisEpoch, SharedOfThisEpoch, NobodyWaitsForOlder,
           OwnRequestAwaited, AnsweredAfterSignOut
<1>11. CASE SignedOut
  BY <1>5, <1>11 DEF SignedOut
<1>12. CASE Expire
  BY <1>3, <1>12 DEF Expire, CacheOfThisEpoch, Cached
<1>13. ASSUME NEW event \in Events, OtherTab(event) PROVE EpochInv'
  BY <1>4, <1>13 DEF OtherTab
<1>14. ASSUME NEW m \in mail, Broadcast(m) PROVE EpochInv'
  BY <1>4, <1>5, <1>14 DEF Broadcast
<1> QED
  BY <1>2, <1>7, <1>8, <1>9, <1>10, <1>11, <1>12, <1>13, <1>14 DEF Next

\* Whoever asks after a sign-out was requested gets the answer to a request sent after it
\* too, or an entry of the cache set after it, in any number of calls that share, bypass
\* and fill the cache.
THEOREM AnsweredAfterSignOutAlways == Spec => []AnsweredAfterSignOut
<1>1. EpochInv /\ [Next]_vars => EpochInv'
  <2> SUFFICES ASSUME EpochInv, [Next]_vars PROVE EpochInv'
    OBVIOUS
  <2>1. CASE UNCHANGED vars
    BY <2>1 DEF vars, serverVars, cacheVars, getVars, signOutVars, tabVars, EpochInv, TypeInv,
                CacheOfThisEpoch, Cached, SharedOfThisEpoch, NobodyWaitsForOlder,
                OwnRequestAwaited, NobodyAhead, AnsweredAfterSignOut
  <2> QED
    BY <2>1, EpochNext
<1>2. EpochInv => AnsweredAfterSignOut
  BY DEF EpochInv
<1> QED
  BY <1>1, <1>2, InitInv, PTL DEF Spec

-----------------------------------------------------------------------------
(* What the cache may answer.                                              *)

\* An entry may be old as long as this tab was not told of what replaced it; it hears of
\* its own session with the answer to signIn(), never an empty one.
CurrentInv ==
  /\ TypeInv
  /\ signIn # None => signIn # 0
  /\ CacheIsCurrent

LEMMA CurrentNext ==
  ASSUME CurrentInv, Next
  PROVE  CurrentInv'
<1> USE DEF serverVars, cacheVars, getVars, signOutVars, tabVars
<1> DEFINE Told    == \E m \in mail : m[1] = "SIGN_OUT"
           Current == \/ Cached = None \/ Cached.late
                      \/ Cached.session = server
                      \/ server \in untold
                      \/ server = 0 /\ (signOut \in {"served", "failed"} \/ Told)
           Open0   == signIn # None => signIn # 0
<1>1. TypeInv /\ Current /\ Open0
  BY DEF CurrentInv, CacheIsCurrent
<1>2. TypeInv'
  BY <1>1, TypeNext
<1>3. ASSUME Current', Open0' PROVE CurrentInv'
  BY <1>1, <1>2, <1>3, TypeParts DEF CurrentInv, CacheIsCurrent, TypeInv, TypeOK, Requests, GetSessionCalls
<1> HIDE DEF Current, Told, Open0
<1>4. ASSUME Cached' = None PROVE Current'
  BY <1>4 DEF Current
<1>5. ASSUME Cached' = Cached, UNCHANGED <<server, untold, signOut, mail>> PROVE Current'
  BY <1>1, <1>5 DEF Current, Told
<1>6. ASSUME NEW s \in Sessions, SetCached(s),
             UNCHANGED <<invalidated, epoch, server, untold, signOut, mail>>
      PROVE  Current'
  BY <1>1, <1>5, <1>6, SetCachedNow DEF Current
<1>7. ASSUME ClearCache PROVE Cached' = None
  BY <1>7 DEF ClearCache, Cached
<1>8. ASSUME UNCHANGED cacheVars PROVE Cached' = Cached
  BY <1>8 DEF Cached
<1>9. ASSUME UNCHANGED signIn \/ signIn' = None PROVE Open0'
  BY <1>1, <1>9 DEF Open0
<1>10. ASSUME NEW c \in Callers, GetSession(c) PROVE CurrentInv'
  <2>1. CASE Hook(c)
    BY <1>1, <1>3, <1>6, <1>9, <2>1, HookElse, HookedCall
  <2>2. CASE ~Hook(c)
    BY <1>3, <1>5, <1>8, <1>9, <1>10, <2>2, GetSessionElse
  <2> QED
    BY <2>1, <2>2
<1>11. ASSUME Open PROVE server' \in untold' /\ opened' # 0 /\ Current'
  <2>1. server' \in untold' /\ opened' # 0
    BY <1>1, <1>11, Bounds DEF Open, TypeInv
  <2> QED
    BY <2>1 DEF Current
<1>12. CASE SignIn
  <2>1. signIn' # 0 /\ Current'
    BY <1>11, <1>12 DEF SignIn
  <2> QED
    BY <1>3, <2>1 DEF Open0
<1>13. CASE SignedIn
  <2>1. CASE UNCHANGED <<cache, untold>>
    BY <1>3, <1>5, <1>8, <1>9, <1>13, <2>1 DEF SignedIn
  <2>2. CASE SetCached(signIn)
    <3>1. signIn \in Sessions /\ signIn # 0
      BY <1>1, <1>13 DEF SignedIn, TypeInv, Open0
    <3>2. UNCHANGED <<invalidated, epoch, server>>
      BY <1>13 DEF SignedIn
    <3>3. Cached' = None \/ Cached'.late \/ Cached'.session = server'
      BY <1>1, <2>2, <3>1, <3>2, SetCachedNow
    <3> QED
      BY <1>3, <1>9, <1>13, <3>3 DEF SignedIn, Current
  <2> QED
    BY <1>13, <2>1, <2>2 DEF SignedIn
<1>14. CASE UpdateUser
  BY <1>3, <1>5, <1>8, <1>9, <1>14 DEF UpdateUser
<1>15. CASE UserUpdated
  <2>1. update \in Sessions /\ UNCHANGED <<serverVars, signIn, signOutVars, tabVars>>
    BY <1>1, <1>15 DEF UserUpdated, TypeInv
  <2>2. CASE SetCached(update) /\ UNCHANGED invalidated
    BY <1>3, <1>6, <1>9, <2>1, <2>2
  <2>3. CASE ClearCache
    BY <1>3, <1>4, <1>7, <1>9, <2>1, <2>3
  <2>4. CASE UNCHANGED cacheVars
    BY <1>3, <1>5, <1>8, <1>9, <2>1, <2>4
  <2> QED
    BY <1>15, <2>2, <2>3, <2>4 DEF UserUpdated
<1>16. CASE SignOut
  <2>1. Cached' = None
    BY <1>16 DEF SignOut, Cached
  <2> QED
    BY <1>3, <1>4, <1>9, <1>16, <2>1 DEF SignOut
<1>17. CASE ServeSignOut
  <2>1. Cached' = Cached /\ UNCHANGED <<untold, mail, signIn>>
    BY <1>8, <1>17 DEF ServeSignOut
  <2>2. signOut = "sent" /\ signOut' \in {"served", "failed"} /\ server' \in {server, 0}
    BY <1>17 DEF ServeSignOut
  <2>3. Current'
    BY <1>1, <2>1, <2>2 DEF Current, Told
  <2> QED
    BY <1>3, <1>9, <2>1, <2>3
<1>18. CASE SignedOut
  BY <1>3, <1>4, <1>7, <1>9, <1>18 DEF SignedOut
<1>19. CASE Expire
  <2>1. Cached' = None
    BY <1>19 DEF Expire, Cached
  <2> QED
    BY <1>3, <1>4, <1>9, <1>19, <2>1 DEF Expire
<1>20. ASSUME NEW event \in Events, OtherTab(event) PROVE CurrentInv'
  <2>1. Cached' = Cached /\ UNCHANGED <<signIn, signOut>>
        /\ mail' = mail \cup {<<event, others'>>}
    BY <1>8, <1>20 DEF OtherTab
  <2>2. CASE Open
    BY <1>3, <1>9, <1>11, <2>1, <2>2
  <2>3. CASE event = "SIGN_OUT" /\ server' = 0
    <3>1. Told'
      <4>1. <<event, others'>> \in mail' /\ <<event, others'>>[1] = event
        BY <2>1
      <4> QED
        BY <2>3, <4>1 DEF Told
    <3> QED
      BY <1>3, <1>9, <2>1, <2>3, <3>1 DEF Current
  <2>4. CASE UNCHANGED serverVars
    <3>1. Told => Told'
      BY <2>1 DEF Told
    <3>2. Current'
      BY <1>1, <2>1, <2>4, <3>1 DEF Current
    <3> QED
      BY <1>3, <1>9, <2>1, <3>2
  <2> QED
    BY <1>20, <2>2, <2>3, <2>4 DEF OtherTab
<1>21. ASSUME NEW m \in mail, Broadcast(m) PROVE CurrentInv'
  <2>1. mail' = mail \ {m} /\ UNCHANGED <<serverVars, signIn, signOutVars>>
    BY <1>21 DEF Broadcast
  <2>2. CASE Clears(m[1])
    BY <1>3, <1>4, <1>7, <1>9, <1>21, <2>1, <2>2 DEF Broadcast
  <2>3. CASE ~Clears(m[1])
    <3>1. m[1] # "SIGN_OUT"
      BY <2>3 DEF Clears, Posts
    <3>2. Told => Told'
      BY <2>1, <3>1 DEF Told
    <3>3. Cached' = Cached
      BY <1>8, <1>21, <2>3 DEF Broadcast
    <3>4. Current'
      BY <1>1, <2>1, <3>2, <3>3 DEF Current
    <3> QED
      BY <1>3, <1>9, <2>1, <3>4
  <2> QED
    BY <2>2, <2>3
<1> QED
  BY <1>10, <1>12, <1>13, <1>14, <1>15, <1>16, <1>17, <1>18, <1>19, <1>20, <1>21 DEF Next

\* What the cache may answer is the server's session, for any number of sessions and of acts
\* of other tabs, unless the entry was overtaken, this tab was not told of the session the
\* server has, or a sign-out that ended it is not confirmed, has failed or was another
\* tab's whose message has not come.
THEOREM CacheIsCurrentAlways == Spec => []CacheIsCurrent
<1>1. Init => CurrentInv
  <2>1. Init => TypeInv
    BY InitInv DEF EpochInv
  <2> QED
    BY <2>1, TypeParts DEF Init, CurrentInv, CacheIsCurrent, Cached
<1>2. CurrentInv /\ [Next]_vars => CurrentInv'
  <2> SUFFICES ASSUME CurrentInv, [Next]_vars PROVE CurrentInv'
    OBVIOUS
  <2>1. CASE UNCHANGED vars
    BY <2>1 DEF vars, serverVars, cacheVars, getVars, signOutVars, tabVars, CurrentInv, TypeInv,
                CacheIsCurrent, TypeOK, Cached
  <2> QED
    BY <2>1, CurrentNext
<1>3. CurrentInv => CacheIsCurrent
  BY DEF CurrentInv
<1> QED
  BY <1>1, <1>2, <1>3, PTL DEF Spec
=============================================================================

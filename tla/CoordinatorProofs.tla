-------------------------- MODULE CoordinatorProofs --------------------------
(***************************************************************************)
(* Proofs about the connection coordinator, for any number of subscriptions *)
(* and capabilities, any number of faults, listeners that call back or not, *)
(* and sockets that close in one step or two.                               *)
(*                                                                          *)
(* An operator of Coordinator takes the client to the client, so the parts  *)
(* of the invariant are predicates of a client c (and of what the service   *)
(* has granted, g), and there is a lemma for each operator.                 *)
(***************************************************************************)
EXTENDS Coordinator, SequenceTheorems, TLAPS

-----------------------------------------------------------------------------
(* Types.                                                                  *)

States == {"new", "active", "awaiting_query", "failed", "closed"}

Works ==
  {"connecting", "unavailable", "failed", "live", "rows", "baseline", "replace",
   "resubscribe", "renew", "idle", "sending", "detached", "terminating"}

Items == [do : Works, sub : SUBSET Subs, cap : 0..MaxCapability]

Requests == {"subscribe", "renew", "unsubscribe"}

Replies ==
  {"subscribed", "rejected_overloaded", "rejected_expired", "rejected_denied",
   "renewed", "unsubscribed", "error_overloaded", "error_expired", "error_denied",
   "baseline"}

Errors == {"error_overloaded", "error_expired", "error_denied"}

Messages(types) ==
  [type : types, id : Nat, sub : Subs \cup {0}, cap : 0..MaxCapability]

Links == [up : Seq(Messages(Requests)), down : Seq(Messages(Replies)), served : SUBSET Nat]

Tables == SUBSET (Nat \X Subs)

Clients ==
  [sub : [Subs -> SubType], managed : SUBSET Subs, active : SUBSET Subs,
   pendingRequests : Tables, liveSubscriptions : Tables, detaching : SUBSET Nat,
   targets : SUBSET Nat, delivering : SUBSET Nat, requestId : Nat, since : Nat,
   socket : {"none", "open", "closing"}, ready : BOOLEAN, disposed : BOOLEAN,
   terminal : {"no", "protocol", "fatal", "exhausted"}, reconnectTimer : BOOLEAN,
   episode : BOOLEAN, deadline : BOOLEAN, stability : BOOLEAN, link : Links,
   stack : Seq(Items), listening : BOOLEAN]

\* A subscription that was never subscribed, and one that has ended.
Ended(m) == m.state \in {"closed", "failed"}

-----------------------------------------------------------------------------
(* The routing tables.                                                     *)

Pending(c, r, s) == <<r, s>> \in c.pendingRequests
Live(c, l, s)    == <<l, s>> \in c.liveSubscriptions

\* A pending request belongs to an active subscription that has no other, or to one
\* that has ended since; a live query to an active subscription.
TablesSound(c) ==
  /\ \A r \in Nat, s \in Subs : Pending(c, r, s) =>
       /\ r > 0 /\ r <= c.requestId
       /\ \/ Ended(c.sub[s])
          \/ /\ c.sub[s].state = "active"
             /\ c.sub[s].request = r /\ c.sub[s].liveId = 0
       /\ r \notin c.detaching
       /\ \A t \in Subs : c.sub[t].liveId # r /\ ~Live(c, r, t)
       /\ \A t \in Subs : Pending(c, r, t) => s = t
  /\ \A l \in Nat, s \in Subs : Live(c, l, s) =>
       /\ l > 0 /\ l <= c.requestId
       /\ c.sub[s].state = "active" /\ c.sub[s].liveId = l
       /\ s \in c.active
       /\ l \notin c.detaching

\* Live ids are used once; a table or a frame names no id that was never given out.
IdsFresh(c) ==
  /\ \A s \in Subs : c.sub[s].liveId <= c.requestId
  /\ \A s, t \in Subs : c.sub[s].liveId = c.sub[t].liveId /\ c.sub[s].liveId # 0 => s = t
  /\ \A l \in c.targets \cup c.detaching \cup c.link.served : l <= c.requestId
  /\ \A i \in DOMAIN c.link.up : c.link.up[i].id <= c.requestId
  /\ \A i \in DOMAIN c.link.down : c.link.down[i].id <= c.requestId

DeliveringIsLive(c) ==
  /\ \A l \in Nat : l \in c.delivering <=> \E s \in Subs : Live(c, l, s)
  /\ c.delivering \subseteq c.targets

-----------------------------------------------------------------------------
(* The stack of unfinished work.                                           *)

\* A subscription that no table names, and that names no request or live query.
Unwired(c, s) ==
  /\ c.sub[s].request = 0 /\ c.sub[s].liveId = 0
  /\ \A r \in Nat : ~Pending(c, r, s) /\ ~Live(c, r, s)

\* What an item of unfinished work relies on.
ItemSound(c, w) ==
  /\ \A s \in w.sub : c.sub[s].state # "new"
  /\ w.do \notin {"sending", "detached", "terminating"} => \E s \in Subs : w.sub = {s}
  \* The loop of disconnected() finds empty tables.
  /\ w.do = "detached" =>
       ~c.ready /\ \A r \in Nat, s \in Subs : ~Pending(c, r, s) /\ ~Live(c, r, s)
  \* A subscription about to await a query is on no wire.
  /\ w.do = "replace" =>
       \A s \in w.sub : Unwired(c, s) /\ c.sub[s].state # "awaiting_query"
  \* A renewal that waits for listeners is known to nobody yet.
  /\ w.do = "renew" =>
       /\ w.cap > 1
       /\ \A s \in w.sub :
            /\ c.sub[s].answers[w.cap] = "none" /\ c.sub[s].prior[w.cap] # "none"
            /\ \A k \in Capabilities : 1 < k /\ k < w.cap => c.sub[s].answers[k] # "none"
  \* What is about to be shown as live still is, or it has been closed.
  /\ w.do = "live" =>
       \A s \in w.sub : c.sub[s].status = "closed" \/ Live(c, c.sub[s].liveId, s)

\* What two items rely on: a query is replaced last and nothing sends it before, nor
\* does the loop that follows readiness, which is last itself; a renewal waits once; and
\* nobody is shown as live when all subscriptions end.
PairSound(c, st) ==
  \A i, j \in DOMAIN st :
    /\ st[i].do \in {"replace", "sending"} => i = Len(st)
    /\ st[i].do = "replace" /\ st[j].do = "resubscribe" => st[i].sub # st[j].sub
    /\ st[i].do = "renew" /\ st[j] = st[i] => i = j
    /\ st[i].do = "live" /\ st[j].do = "terminating" =>
         \A s \in st[i].sub : c.sub[s].status = "closed"

StackSound(c) ==
  /\ \A i \in DOMAIN c.stack : ItemSound(c, c.stack[i])
  /\ PairSound(c, c.stack)

\* A listener is about to hear that the subscription is not live.
Corrects(c, w, s) ==
  \/ w.do \in {"connecting", "unavailable", "failed", "terminating"} /\ s \in w.sub
  \/ w.do = "detached" /\ s \in c.active /\ s \notin w.sub

Corrected(c, s) == \E i \in DOMAIN c.stack : Corrects(c, c.stack[i], s)

Replacing(c, s) == \E i \in DOMAIN c.stack : c.stack[i].do = "replace" /\ s \in c.stack[i].sub

\* A subscription that is shown as live is live, or is about to be corrected; one that
\* is active takes part in the wire lifecycle, or is about to await a query.
Consistent(c, s) ==
  /\ c.sub[s].status = "live" => Live(c, c.sub[s].liveId, s) \/ Corrected(c, s)
  /\ c.sub[s].state = "active" => s \in c.active \/ c.disposed \/ Replacing(c, s)

-----------------------------------------------------------------------------
(* Subscriptions and renewals.                                             *)

Unanswered(m) == {m.renewing} \cup ToSet(m.queued)

\* The renewals of a subscription that have no answer are the one in flight and those
\* queued, each once, none newer than the newest capability it was told of.
RenewalsSound(m) ==
  /\ m.renewing <= m.query
  /\ \A i \in DOMAIN m.queued : m.queued[i] <= m.query /\ m.queued[i] # m.renewing
  /\ \A i, j \in DOMAIN m.queued : m.queued[i] = m.queued[j] => i = j
  /\ \A k \in Capabilities :
       /\ m.answers[k] = "pending" <=> k \in Unanswered(m)
       /\ m.answers[k] = "none" /\ k > 1 => m.query < k

SubSound(m) ==
  /\ m.state = "new" => m = NewSub
  /\ m.state # "new" => m.query > 0
  /\ RenewalsSound(m)
  /\ \A k \in Capabilities : m.answers[k] = "pending" => m.state = "active"

SubsSound(c) ==
  /\ \A s \in Subs : SubSound(c.sub[s])
  /\ \A s \in Subs, k \in Capabilities : c.sub[s].answers[k] = "pending" => s \in c.managed
  /\ \A s \in Subs : c.sub[s].state # "new" /\ c.sub[s].status # "closed" => s \in c.managed
  /\ \A s \in c.managed \cup c.active : c.sub[s].state # "new"
  /\ c.disposed => c.managed = {} /\ c.socket = "none"

Truthful(c, g) ==
  \A s \in Subs, k \in Capabilities :
    c.sub[s].answers[k] = "resolved" => \E j \in k..MaxCapability : <<s, j>> \in g

-----------------------------------------------------------------------------
(* The wire.                                                               *)

Up(c, i, type)   == i \in DOMAIN c.link.up /\ c.link.up[i].type = type
Down(c, i, type) == i \in DOMAIN c.link.down /\ c.link.down[i].type = type

\* A frame that asks for a query, or says that it is admitted, is about the pending
\* request it names.
About(c, f) ==
  \A s \in Subs : Pending(c, f.id, s) =>
    f.sub = s /\ (~Ended(c.sub[s]) => f.cap = c.sub[s].requested)

\* A frame of a renewal is about the renewal in flight of the live query it names.
Renews(c, f) ==
  \A s \in Subs :
    /\ ~Pending(c, f.id, s)
    /\ Live(c, f.id, s) => f.sub = s /\ f.cap = c.sub[s].renewing

WireSound(c, g) ==
  /\ c.socket # "open" => c.link = NoLink
  /\ \A i \in DOMAIN c.link.up : c.link.up[i].type \in {"subscribe", "renew"} =>
       c.link.up[i].sub \in Subs /\ c.link.up[i].cap > 0
  /\ \A i \in DOMAIN c.link.down : c.link.down[i].type \in {"subscribed", "renewed"} =>
       <<c.link.down[i].sub, c.link.down[i].cap>> \in g
  /\ \A i \in DOMAIN c.link.up : Up(c, i, "subscribe") => About(c, c.link.up[i])
  /\ \A i \in DOMAIN c.link.down : Down(c, i, "subscribed") => About(c, c.link.down[i])
  /\ \A i \in DOMAIN c.link.up : Up(c, i, "renew") => Renews(c, c.link.up[i])
  /\ \A i \in DOMAIN c.link.down : Down(c, i, "renewed") => Renews(c, c.link.down[i])

\* A live query has one renewal on the wire at most.
OneRenewal(c) ==
  \A l \in Nat, s \in Subs : Live(c, l, s) =>
    /\ \A i, j \in DOMAIN c.link.up :
         /\ Up(c, i, "renew") /\ c.link.up[i].id = l
         /\ Up(c, j, "renew") /\ c.link.up[j].id = l
         => i = j
    /\ \A i, j \in DOMAIN c.link.down :
         /\ Down(c, i, "renewed") /\ c.link.down[i].id = l
         /\ Down(c, j, "renewed") /\ c.link.down[j].id = l
         => i = j
    /\ \A i \in DOMAIN c.link.up, j \in DOMAIN c.link.down :
         ~ /\ Up(c, i, "renew") /\ c.link.up[i].id = l
           /\ Down(c, j, "renewed") /\ c.link.down[j].id = l

\* An id is asked for once, and the service ends a query once.
ServedIds(c) ==
  /\ \A i \in DOMAIN c.link.up : Up(c, i, "subscribe") =>
       /\ c.link.up[i].id \notin c.link.served
       /\ \A j \in DOMAIN c.link.up :
            Up(c, j, "subscribe") /\ c.link.up[i].id = c.link.up[j].id => i = j
       /\ \A j \in DOMAIN c.link.down :
            c.link.down[j].type \in Errors => c.link.down[j].id # c.link.up[i].id
  /\ \A i \in DOMAIN c.link.down :
       c.link.down[i].type \in Errors => c.link.down[i].id \notin c.link.served

\* The service serves a live query, or one it has been asked to end, or whose admission
\* is on its way.
Accounted(c, l) ==
  \/ \E s \in Subs : Live(c, l, s)
  \/ \E i \in DOMAIN c.link.up : Up(c, i, "unsubscribe") /\ c.link.up[i].id = l
  \/ \E i \in DOMAIN c.link.down : Down(c, i, "subscribed") /\ c.link.down[i].id = l

Terminating(c) == \E i \in DOMAIN c.stack : c.stack[i].do = "terminating"

\* All but what a listener or the service is about to be told.
Core(c, g) ==
  /\ c \in Clients
  /\ TablesSound(c) /\ IdsFresh(c) /\ DeliveringIsLive(c)
  /\ StackSound(c) /\ SubsSound(c) /\ Truthful(c, g)
  /\ WireSound(c, g) /\ OneRenewal(c) /\ ServedIds(c)

\* A client that has given up closes its socket.  In the middle of a step, subscriptions
\* in X and live ids in Y are still to be dealt with.
Sound(c, g, X, Y) ==
  /\ Core(c, g)
  /\ \A s \in Subs \ X : Consistent(c, s)
  /\ \/ Terminating(c)
     \/ /\ c.terminal # "no" => c.socket = "none"
        /\ \A l \in c.link.served \ Y : Accounted(c, l)

Nobody == {}

Inv(c, g) == Sound(c, g, Nobody, Nobody)

Granted(g) == g \subseteq Subs \X Capabilities

IInv == Inv(client, granted) /\ Granted(granted) /\ faults \in 0..MaxFaults
-----------------------------------------------------------------------------
(* Constants and sequences.                                                *)

LEMMA Bounds ==
  /\ MaxCapability \in Nat /\ MaxCapability > 0 /\ MaxFaults \in Nat
  /\ Capabilities \subseteq Nat /\ 1 \in Capabilities /\ 0 \notin Capabilities
  /\ \A k \in Capabilities : k > 0 /\ k <= MaxCapability /\ k \in 0..MaxCapability
  /\ \A k \in 0..MaxCapability : k \in Nat /\ (k > 0 => k \in Capabilities)
  /\ HalfClosed \in BOOLEAN /\ Reentrant \in BOOLEAN /\ Bounded \in BOOLEAN
BY CoordinatorConstants DEF Capabilities

LEMMA ToSetMember ==
  ASSUME NEW S, NEW q \in Seq(S)
  PROVE  /\ \A x : x \in ToSet(q) <=> \E i \in DOMAIN q : q[i] = x
         /\ ToSet(q) \subseteq S
BY ElementOfSeq, LenProperties DEF ToSet

\* A sequence put in front of another.
LEMMA ConcatIndex ==
  ASSUME NEW S, NEW p \in Seq(S), NEW q \in Seq(S)
  PROVE  /\ p \o q \in Seq(S) /\ Len(p \o q) = Len(p) + Len(q)
         /\ Len(p) \in Nat /\ Len(q) \in Nat /\ DOMAIN p = 1..Len(p) /\ DOMAIN q = 1..Len(q)
         /\ DOMAIN (p \o q) = 1..(Len(p) + Len(q))
         /\ \A i \in DOMAIN (p \o q) :
              \/ i \in DOMAIN p /\ (p \o q)[i] = p[i]
              \/ i > Len(p) /\ i - Len(p) \in DOMAIN q /\ (p \o q)[i] = q[i - Len(p)]
         /\ \A i \in DOMAIN q : i + Len(p) \in DOMAIN (p \o q) /\ (p \o q)[i + Len(p)] = q[i]
         /\ \A i \in DOMAIN p : i \in DOMAIN (p \o q) /\ (p \o q)[i] = p[i]
<1>1. Len(p) \in Nat /\ Len(q) \in Nat /\ DOMAIN p = 1..Len(p) /\ DOMAIN q = 1..Len(q)
  BY LenProperties
<1>2. /\ p \o q \in Seq(S) /\ Len(p \o q) = Len(p) + Len(q)
      /\ \A i \in 1..Len(p) + Len(q) :
           (p \o q)[i] = IF i <= Len(p) THEN p[i] ELSE q[i - Len(p)]
  BY ConcatProperties
<1>3. DOMAIN (p \o q) = 1..(Len(p) + Len(q))
  BY <1>2, LenProperties
<1> QED
  BY <1>1, <1>2, <1>3

LEMMA TailIndex ==
  ASSUME NEW S, NEW q \in Seq(S), q # <<>>
  PROVE  /\ Head(q) \in S /\ Tail(q) \in Seq(S) /\ Len(Tail(q)) = Len(q) - 1
         /\ Len(q) \in Nat /\ DOMAIN q = 1..Len(q) /\ 1 \in DOMAIN q /\ q[1] = Head(q)
         /\ DOMAIN Tail(q) = 1..(Len(q) - 1)
         /\ \A i \in DOMAIN Tail(q) : i + 1 \in DOMAIN q /\ Tail(q)[i] = q[i + 1]
         /\ \A i \in DOMAIN q : i = 1 \/ (i - 1 \in DOMAIN Tail(q) /\ Tail(q)[i - 1] = q[i])
<1>1. /\ Head(q) \in S /\ Tail(q) \in Seq(S) /\ Len(Tail(q)) = Len(q) - 1
      /\ \A i \in 1..Len(Tail(q)) : Tail(q)[i] = q[i + 1]
      /\ Head(q) = q[1]
  BY HeadTailProperties
<1>2. Len(q) \in Nat /\ DOMAIN q = 1..Len(q) /\ Len(q) # 0
  BY LenProperties, EmptySeq
<1>3. DOMAIN Tail(q) = 1..(Len(q) - 1)
  BY <1>1, <1>2, LenProperties
<1> QED
  BY <1>1, <1>2, <1>3

LEMMA AppendIndex ==
  ASSUME NEW S, NEW q \in Seq(S), NEW x \in S
  PROVE  /\ Append(q, x) \in Seq(S) /\ Len(Append(q, x)) = Len(q) + 1
         /\ Len(q) \in Nat /\ DOMAIN q = 1..Len(q)
         /\ DOMAIN Append(q, x) = 1..(Len(q) + 1)
         /\ Len(q) + 1 \in DOMAIN Append(q, x) /\ Append(q, x)[Len(q) + 1] = x
         /\ Len(q) + 1 \notin DOMAIN q
         /\ \A i \in DOMAIN q : i \in DOMAIN Append(q, x) /\ Append(q, x)[i] = q[i]
         /\ \A i \in DOMAIN Append(q, x) : i \in DOMAIN q \/ i = Len(q) + 1
<1>1. /\ Append(q, x) \in Seq(S) /\ Len(Append(q, x)) = Len(q) + 1
      /\ \A i \in 1..Len(q) : Append(q, x)[i] = q[i]
      /\ Append(q, x)[Len(q) + 1] = x
  BY AppendProperties
<1>2. Len(q) \in Nat /\ DOMAIN q = 1..Len(q) /\ DOMAIN Append(q, x) = 1..(Len(q) + 1)
  BY <1>1, LenProperties
<1> QED
  BY <1>1, <1>2

-----------------------------------------------------------------------------
(* One subscription.                                                       *)

Empty == <<>>

LEMMA EmptyFacts ==
  /\ Empty \in Seq(Capabilities) /\ DOMAIN Empty = {} /\ ToSet(Empty) = {}
  /\ \A q \in Seq(Capabilities) : (\A i \in DOMAIN q : FALSE) => q = Empty
<1>1. Empty \in Seq(Capabilities) /\ DOMAIN Empty = {}
  BY EmptySeq DEF Empty
<1>2. ToSet(Empty) = {}
  BY <1>1, ToSetMember
<1>3. ASSUME NEW q \in Seq(Capabilities), \A i \in DOMAIN q : FALSE
      PROVE  q = Empty
  <2>1. Len(q) \in Nat /\ DOMAIN q = 1..Len(q)
    BY LenProperties
  <2>2. Len(q) = 0
    <3> SUFFICES ASSUME Len(q) # 0
                 PROVE  FALSE
      OBVIOUS
    <3>1. 1 \in DOMAIN q
      BY <2>1
    <3> QED
      BY <1>3, <3>1
  <2> QED
    BY <2>2, EmptySeq DEF Empty
<1> QED
  BY <1>1, <1>2, <1>3

LEMMA SubFields ==
  ASSUME NEW m \in SubType
  PROVE  /\ m.state \in States /\ m.status \in Statuses
         /\ m.query \in 0..MaxCapability /\ m.requested \in 0..MaxCapability
         /\ m.accepted \in 0..MaxCapability /\ m.renewing \in 0..MaxCapability
         /\ m.request \in Nat /\ m.liveId \in Nat /\ m.queued \in Seq(Capabilities)
         /\ \A k \in Capabilities : m.answers[k] \in {"none", "pending", "resolved", "rejected"}
         /\ \A k \in Capabilities : m.prior[k] \in {"none", "stale", "error"}
BY DEF SubType, States

LEMMA NewSubSound == NewSub \in SubType /\ SubSound(NewSub)
<1>1. <<>> \in Seq(Capabilities) /\ DOMAIN <<>> = {}
  BY EmptySeq
<1>2. NewSub \in SubType
  BY <1>1, Bounds DEF NewSub, SubType, Statuses
<1>3. ToSet(<<>>) = {}
  BY <1>1, ToSetMember
<1> QED
  BY <1>1, <1>2, <1>3, Bounds DEF NewSub, SubSound, RenewalsSound, Unanswered

\* All but the answers and what waits for one.
SameBut(m, n) ==
  /\ n.state = m.state /\ n.status = m.status /\ n.query = m.query
  /\ n.prior = m.prior

SameWireIds(m, n) ==
  /\ n.request = m.request /\ n.requested = m.requested /\ n.accepted = m.accepted
  /\ n.liveId = m.liveId /\ n.recovery = m.recovery

LEMMA SettleEffect ==
  ASSUME NEW m \in SubType, NEW caps, NEW how \in {"rejected", "resolved"}
  PROVE  LET n == Settle(m, caps, how)
         IN  /\ n \in SubType /\ SameBut(m, n) /\ SameWireIds(m, n)
             /\ n.renewing = m.renewing /\ n.queued = m.queued
             /\ \A k \in Capabilities : n.answers[k] = IF k \in caps THEN how ELSE m.answers[k]
BY DEF Settle, SubType, SameBut, SameWireIds

Requeue(m, k, q) == [m EXCEPT !.renewing = k, !.queued = q]

LEMMA RequeueEffect ==
  ASSUME NEW m \in SubType, NEW q \in Seq(Capabilities), NEW k \in 0..MaxCapability
  PROVE  LET n == Requeue(m, k, q)
         IN  /\ n \in SubType /\ SameBut(m, n) /\ SameWireIds(m, n)
             /\ n.renewing = k /\ n.queued = q /\ n.answers = m.answers
<1>1. Requeue(m, k, q) \in SubType
  BY DEF SubType, Requeue
<1> QED
  BY <1>1 DEF SubType, SameBut, SameWireIds, Requeue

LEMMA RejectQueuedEffect ==
  ASSUME NEW m \in SubType
  PROVE  LET n == RejectQueued(m)
         IN  /\ n \in SubType /\ SameBut(m, n) /\ SameWireIds(m, n)
             /\ n.renewing = m.renewing /\ n.queued = Empty
             /\ \A k \in Capabilities :
                  n.answers[k] = IF k \in ToSet(m.queued) THEN "rejected" ELSE m.answers[k]
<1> DEFINE n == Settle(m, ToSet(m.queued), "rejected")
<1>1. /\ n \in SubType /\ SameBut(m, n) /\ SameWireIds(m, n)
      /\ n.renewing = m.renewing /\ n.queued = m.queued
      /\ \A k \in Capabilities :
           n.answers[k] = IF k \in ToSet(m.queued) THEN "rejected" ELSE m.answers[k]
  BY SettleEffect
<1>2. Empty \in Seq(Capabilities)
  BY EmptyFacts
<1>3. RejectQueued(m) = [n EXCEPT !.queued = Empty]
  BY DEF RejectQueued, Empty
<1> HIDE DEF n
<1>4. n.renewing \in 0..MaxCapability
  BY <1>1, SubFields
<1>a. [n EXCEPT !.queued = Empty] = Requeue(n, n.renewing, Empty)
  BY <1>1 DEF SubType, Requeue
<1> DEFINE x == RejectQueued(m)
<1>5. /\ x \in SubType /\ SameBut(n, x) /\ SameWireIds(n, x)
      /\ x.renewing = n.renewing /\ x.queued = Empty /\ x.answers = n.answers
  BY <1>1, <1>2, <1>3, <1>4, <1>a, RequeueEffect
<1> HIDE DEF x
<1>6. /\ SameBut(m, x) /\ SameWireIds(m, x)
  BY <1>1, <1>5 DEF SameBut, SameWireIds
<1> QED
  BY <1>1, <1>5, <1>6 DEF x

LEMMA RejectRenewalsEffect ==
  ASSUME NEW m \in SubType
  PROVE  LET n == RejectRenewals(m)
         IN  /\ n \in SubType /\ SameBut(m, n) /\ SameWireIds(m, n)
             /\ n.renewing = 0 /\ n.queued = Empty
             /\ \A k \in Capabilities :
                  n.answers[k] = IF k \in Unanswered(m) THEN "rejected" ELSE m.answers[k]
<1> DEFINE a == Settle(m, {m.renewing}, "rejected")
           n == [a EXCEPT !.renewing = 0]
<1>a. /\ a \in SubType /\ SameBut(m, a) /\ SameWireIds(m, a) /\ a.queued = m.queued
      /\ \A k \in Capabilities :
           a.answers[k] = IF k = m.renewing THEN "rejected" ELSE m.answers[k]
  BY SettleEffect
<1> HIDE DEF a
<1>b. n = Requeue(a, 0, a.queued) /\ a.queued \in Seq(Capabilities)
  BY <1>a DEF SubType, Requeue
<1> HIDE DEF n
<1>c. /\ n \in SubType /\ SameBut(a, n) /\ SameWireIds(a, n)
      /\ n.renewing = 0 /\ n.queued = a.queued /\ n.answers = a.answers
  BY <1>a, <1>b, RequeueEffect, Bounds
<1>1. /\ n \in SubType /\ SameBut(m, n) /\ SameWireIds(m, n)
      /\ n.renewing = 0 /\ n.queued = m.queued
      /\ \A k \in Capabilities :
           n.answers[k] = IF k = m.renewing THEN "rejected" ELSE m.answers[k]
  BY <1>a, <1>c DEF SameBut, SameWireIds
<1>2. RejectRenewals(m) = RejectQueued(n)
  BY DEF RejectRenewals, n, a
<1>3. LET x == RejectQueued(n)
      IN  /\ x \in SubType /\ SameBut(n, x) /\ SameWireIds(n, x)
          /\ x.renewing = n.renewing /\ x.queued = Empty
          /\ \A k \in Capabilities :
               x.answers[k] = IF k \in ToSet(n.queued) THEN "rejected" ELSE n.answers[k]
  BY <1>1, RejectQueuedEffect
<1> QED
  BY <1>1, <1>2, <1>3 DEF SameBut, SameWireIds, Unanswered

LEMMA ResolveRenewalsEffect ==
  ASSUME NEW m \in SubType
  PROVE  LET n == ResolveRenewals(m)
         IN  /\ n \in SubType /\ SameBut(m, n) /\ SameWireIds(m, n)
             /\ n.renewing = 0 /\ n.queued = Empty
             /\ \A k \in Capabilities :
                  n.answers[k] = IF k \in Unanswered(m) THEN "resolved" ELSE m.answers[k]
<1> DEFINE n == Settle(m, Unanswered(m), "resolved")
<1>1. /\ n \in SubType /\ SameBut(m, n) /\ SameWireIds(m, n)
      /\ \A k \in Capabilities :
           n.answers[k] = IF k \in Unanswered(m) THEN "resolved" ELSE m.answers[k]
  BY SettleEffect
<1>2. Empty \in Seq(Capabilities)
  BY EmptyFacts
<1>3. ResolveRenewals(m) = Requeue(n, 0, Empty)
  BY DEF ResolveRenewals, Unanswered, Requeue, Empty
<1> HIDE DEF n
<1> DEFINE x == ResolveRenewals(m)
<1>4. /\ x \in SubType /\ SameBut(n, x) /\ SameWireIds(n, x)
      /\ x.renewing = 0 /\ x.queued = Empty /\ x.answers = n.answers
  BY <1>1, <1>2, <1>3, RequeueEffect, Bounds
<1> HIDE DEF x
<1>5. /\ SameBut(m, x) /\ SameWireIds(m, x)
  BY <1>1, <1>4 DEF SameBut, SameWireIds
<1> QED
  BY <1>1, <1>4, <1>5 DEF x

LEMMA ResetWireEffect ==
  ASSUME NEW m \in SubType
  PROVE  LET n == ResetWire(m)
         IN  /\ n \in SubType /\ SameBut(m, n)
             /\ n.answers = m.answers /\ n.renewing = 0
             /\ n.request = 0 /\ n.requested = 0 /\ n.accepted = 0 /\ n.liveId = 0
             /\ n.queued = IF m.renewing = 0 THEN m.queued ELSE <<m.renewing>> \o m.queued
<1> DEFINE q == IF m.renewing = 0 THEN m.queued ELSE <<m.renewing>> \o m.queued
<1>1. q \in Seq(Capabilities)
  <2>1. CASE m.renewing # 0
    <3>1. <<m.renewing>> \in Seq(Capabilities)
      BY <2>1, SubFields, Bounds
    <3> QED
      BY <2>1, <3>1, SubFields, ConcatProperties
  <2> QED
    BY <2>1, SubFields
<1>2. ResetWire(m) = [Interrupted(m) EXCEPT !.request = 0, !.requested = 0, !.accepted = 0,
                                            !.liveId = 0, !.queued = q, !.renewing = 0]
  BY DEF ResetWire, Interrupted, SubType
<1>3. Interrupted(m) \in SubType /\ SameBut(m, Interrupted(m)) /\ Interrupted(m).answers = m.answers
  BY DEF Interrupted, SubType, SameBut
<1>a. Interrupted(m).renewing = m.renewing /\ Interrupted(m).queued = m.queued
  BY DEF Interrupted, SubType
<1> HIDE DEF q
<1> DEFINE x == Requeue(Interrupted(m), 0, q)
<1>b. /\ x \in SubType /\ SameBut(Interrupted(m), x) /\ x.renewing = 0
      /\ x.queued = q /\ x.answers = m.answers
  BY <1>1, <1>3, RequeueEffect, Bounds
<1>c. ResetWire(m) = [x EXCEPT !.request = 0, !.requested = 0, !.accepted = 0, !.liveId = 0]
  BY <1>2, <1>3 DEF SubType, Requeue
<1> HIDE DEF x
<1>d. ResetWire(m) \in SubType
  BY <1>b, <1>c, Bounds DEF SubType
<1>e. /\ ResetWire(m).queued = q
      /\ ResetWire(m).answers = m.answers /\ ResetWire(m).renewing = 0
  BY <1>b, <1>c, <1>d DEF SubType
<1>f. SameBut(x, ResetWire(m))
  BY <1>b, <1>c, <1>d DEF SubType, SameBut
<1>4. SameBut(m, ResetWire(m))
  BY <1>3, <1>b, <1>f DEF SameBut
<1>5. /\ ResetWire(m).request = 0 /\ ResetWire(m).requested = 0 /\ ResetWire(m).accepted = 0
      /\ ResetWire(m).liveId = 0
  BY <1>b, <1>c DEF SubType
<1> QED
  BY <1>4, <1>5, <1>d, <1>e DEF q
LEMMA RejectedSound ==
  ASSUME NEW m \in SubType, RenewalsSound(m)
  PROVE  /\ RenewalsSound(RejectRenewals(m))
         /\ \A k \in Capabilities : RejectRenewals(m).answers[k] # "pending"
         /\ \A k \in Capabilities : RejectRenewals(m).answers[k] = "resolved" => m.answers[k] = "resolved"
         /\ \A k \in Capabilities : RejectRenewals(m).answers[k] = "none" <=> m.answers[k] = "none"
<1> DEFINE n == RejectRenewals(m)
<1>1. /\ n \in SubType /\ SameBut(m, n) /\ n.renewing = 0 /\ n.queued = Empty
      /\ \A k \in Capabilities :
           n.answers[k] = IF k \in Unanswered(m) THEN "rejected" ELSE m.answers[k]
  BY RejectRenewalsEffect
<1> HIDE DEF n
<1>2. Unanswered(n) = {0}
  BY <1>1, EmptyFacts DEF Unanswered
<1>3. n.query = m.query /\ m.query \in Nat
  BY <1>1, SubFields, Bounds DEF SameBut
<1>4. \A k \in Capabilities : n.answers[k] # "pending"
  BY <1>1 DEF RenewalsSound
<1>5. RenewalsSound(n)
  BY <1>1, <1>2, <1>3, <1>4, EmptyFacts, Bounds DEF RenewalsSound
<1>6. \A k \in Capabilities : n.answers[k] = "resolved" => m.answers[k] = "resolved"
  BY <1>1
<1>7. \A k \in Capabilities : n.answers[k] = "none" <=> m.answers[k] = "none"
  BY <1>1 DEF RenewalsSound
<1> QED
  BY <1>4, <1>5, <1>6, <1>7 DEF n

LEMMA ResolvedSound ==
  ASSUME NEW m \in SubType, RenewalsSound(m)
  PROVE  /\ RenewalsSound(ResolveRenewals(m))
         /\ \A k \in Capabilities : ResolveRenewals(m).answers[k] # "pending"
         /\ \A k \in Capabilities : ResolveRenewals(m).answers[k] = "resolved" =>
              m.answers[k] = "resolved" \/ k <= m.query
         /\ \A k \in Capabilities : ResolveRenewals(m).answers[k] = "none" <=> m.answers[k] = "none"
<1> DEFINE n == ResolveRenewals(m)
<1>1. /\ n \in SubType /\ SameBut(m, n) /\ n.renewing = 0 /\ n.queued = Empty
      /\ \A k \in Capabilities :
           n.answers[k] = IF k \in Unanswered(m) THEN "resolved" ELSE m.answers[k]
  BY ResolveRenewalsEffect
<1> HIDE DEF n
<1>2. Unanswered(n) = {0}
  BY <1>1, EmptyFacts DEF Unanswered
<1>3. n.query = m.query /\ m.query \in Nat
  BY <1>1, SubFields, Bounds DEF SameBut
<1>4. \A k \in Capabilities : n.answers[k] # "pending"
  BY <1>1 DEF RenewalsSound
<1>5. RenewalsSound(n)
  BY <1>1, <1>2, <1>3, <1>4, EmptyFacts, Bounds DEF RenewalsSound
<1>6. \A k \in Unanswered(m) : k <= m.query
  BY ToSetMember, SubFields DEF Unanswered, RenewalsSound
<1>7. \A k \in Capabilities : n.answers[k] = "none" <=> m.answers[k] = "none"
  BY <1>1 DEF RenewalsSound
<1> QED
  BY <1>1, <1>4, <1>5, <1>6, <1>7 DEF n

\* RenewalsSound speaks of four fields.
LEMMA RenewalsSame ==
  ASSUME NEW m, NEW n, RenewalsSound(m), n.renewing = m.renewing, n.queued = m.queued,
         n.query = m.query, n.answers = m.answers
  PROVE  RenewalsSound(n)
BY DEF RenewalsSound, Unanswered

LEMMA ResetSound ==
  ASSUME NEW m \in SubType, RenewalsSound(m)
  PROVE  RenewalsSound(ResetWire(m))
<1> DEFINE n == ResetWire(m)
<1> SUFFICES RenewalsSound(n)
  OBVIOUS
<1>1. /\ n \in SubType /\ SameBut(m, n) /\ n.answers = m.answers /\ n.renewing = 0
      /\ n.queued = IF m.renewing = 0 THEN m.queued ELSE <<m.renewing>> \o m.queued
  BY ResetWireEffect
<1> HIDE DEF n
<1>2. n.query = m.query /\ m.query \in Nat
  BY <1>1, SubFields, Bounds DEF SameBut
<1>3. m.queued \in Seq(Capabilities) /\ n.queued \in Seq(Capabilities)
  BY <1>1, SubFields
<1>4. CASE m.renewing = 0
  <2>1. n.queued = m.queued /\ n.renewing = m.renewing /\ n.answers = m.answers
    BY <1>4, <1>1
  <2> QED
    BY <2>1, <1>2, RenewalsSame
<1>5. CASE m.renewing # 0
  <2>1. m.renewing \in Capabilities
    BY <1>5, SubFields, Bounds
  <2> DEFINE p == <<m.renewing>>
  <2>2. p \in Seq(Capabilities) /\ Len(p) = 1 /\ p[1] = m.renewing /\ DOMAIN p = 1..1
    BY <2>1
  <2>3. n.queued = p \o m.queued
    BY <1>5, <1>1
  <2> HIDE DEF p
  <2>a. /\ Len(m.queued) \in Nat /\ DOMAIN m.queued = 1..Len(m.queued)
        /\ DOMAIN (p \o m.queued) = 1..(1 + Len(m.queued))
        /\ \A i \in DOMAIN (p \o m.queued) :
              \/ i \in DOMAIN p /\ (p \o m.queued)[i] = p[i]
              \/ i > 1 /\ i - 1 \in DOMAIN m.queued /\ (p \o m.queued)[i] = m.queued[i - 1]
        /\ \A i \in DOMAIN m.queued :
             i + 1 \in DOMAIN (p \o m.queued) /\ (p \o m.queued)[i + 1] = m.queued[i]
        /\ \A i \in DOMAIN p : i \in DOMAIN (p \o m.queued) /\ (p \o m.queued)[i] = p[i]
    BY <1>3, <2>2, ConcatIndex
  <2>4. /\ \A i \in DOMAIN n.queued :
             \/ i = 1 /\ n.queued[i] = m.renewing
             \/ i > 1 /\ i - 1 \in DOMAIN m.queued /\ n.queued[i] = m.queued[i - 1]
        /\ \A i \in DOMAIN m.queued : i + 1 \in DOMAIN n.queued /\ n.queued[i + 1] = m.queued[i]
        /\ 1 \in DOMAIN n.queued /\ n.queued[1] = m.renewing
        /\ DOMAIN n.queued \subseteq Nat /\ DOMAIN m.queued \subseteq Nat
    BY <2>a, <2>2, <2>3
  <2>5. \A k : k \in ToSet(n.queued) <=> k = m.renewing \/ k \in ToSet(m.queued)
    <3>1. \A k : k \in ToSet(n.queued) <=> \E i \in DOMAIN n.queued : n.queued[i] = k
      BY <1>3, ToSetMember
    <3>2. \A k : k \in ToSet(m.queued) <=> \E i \in DOMAIN m.queued : m.queued[i] = k
      BY <1>3, ToSetMember
    <3> QED
      BY <3>1, <3>2, <2>4
  <2>6. \A i \in DOMAIN n.queued : n.queued[i] <= n.query /\ n.queued[i] # n.renewing
    <3> TAKE i \in DOMAIN n.queued
    <3>1. n.queued[i] \in Capabilities
      BY <1>3, ElementOfSeq, LenProperties
    <3>2. n.queued[i] <= n.query
      BY <2>4, <1>2 DEF RenewalsSound
    <3> QED
      BY <3>1, <3>2, <1>1, Bounds
  <2>7. \A i, j \in DOMAIN n.queued : n.queued[i] = n.queued[j] => i = j
    <3> SUFFICES ASSUME NEW i \in DOMAIN n.queued, NEW j \in DOMAIN n.queued,
                        n.queued[i] = n.queued[j]
                 PROVE  i = j
      OBVIOUS
    <3>1. i \in Nat /\ j \in Nat
      BY <2>4
    <3>2. CASE i = 1
      BY <3>2, <2>4 DEF RenewalsSound
    <3>3. CASE j = 1
      BY <3>3, <2>4 DEF RenewalsSound
    <3>4. CASE i > 1 /\ j > 1
      <4>1. i - 1 \in DOMAIN m.queued /\ j - 1 \in DOMAIN m.queued
            /\ m.queued[i - 1] = m.queued[j - 1]
        BY <3>1, <3>4, <2>4
      <4>2. i - 1 = j - 1
        BY <4>1 DEF RenewalsSound
      <4> QED
        BY <3>1, <4>2
    <3> QED
      BY <3>1, <3>2, <3>3, <3>4, <2>4
  <2>8. \A k \in Capabilities : k \in Unanswered(n) <=> k \in Unanswered(m)
    BY <2>5, <1>1, Bounds DEF Unanswered
  <2>9. \A k \in Capabilities : n.answers[k] = m.answers[k]
    BY <1>1
  <2>10. n.renewing <= n.query
    BY <1>1, <1>2
  <2>11. \A k \in Capabilities :
           /\ n.answers[k] = "pending" <=> k \in Unanswered(n)
           /\ n.answers[k] = "none" /\ k > 1 => n.query < k
    BY <2>8, <2>9, <1>2 DEF RenewalsSound
  <2> QED
    BY <2>6, <2>7, <2>10, <2>11 DEF RenewalsSound
<1> QED
  BY <1>4, <1>5

\* The first of the queue is put on the wire.
LEMMA NextRenewalSound ==
  ASSUME NEW m \in SubType, RenewalsSound(m), m.renewing = 0, m.queued # <<>>,
         NEW n, n.renewing = Head(m.queued), n.queued = Tail(m.queued),
         n.query = m.query, n.answers = m.answers
  PROVE  RenewalsSound(n)
<1>1. m.queued \in Seq(Capabilities) /\ m.query \in Nat
  BY SubFields, Bounds
<1>2. /\ Head(m.queued) \in Capabilities /\ Tail(m.queued) \in Seq(Capabilities)
      /\ 1 \in DOMAIN m.queued /\ m.queued[1] = Head(m.queued)
      /\ \A i \in DOMAIN n.queued : i + 1 \in DOMAIN m.queued /\ n.queued[i] = m.queued[i + 1]
      /\ \A i \in DOMAIN m.queued : i = 1 \/ (i - 1 \in DOMAIN n.queued /\ n.queued[i - 1] = m.queued[i])
      /\ DOMAIN m.queued \subseteq Nat /\ DOMAIN n.queued \subseteq Nat
      /\ 0 \notin DOMAIN n.queued
  BY <1>1, TailIndex
<1>3. \A k \in Capabilities : k \in Unanswered(n) <=> k \in Unanswered(m)
  <2>1. \A k : k \in ToSet(m.queued) <=> k = Head(m.queued) \/ k \in ToSet(n.queued)
    <3>a. n.queued \in Seq(Capabilities)
      BY <1>2
    <3>1. \A k : k \in ToSet(n.queued) <=> \E i \in DOMAIN n.queued : n.queued[i] = k
      BY <3>a, ToSetMember
    <3>2. \A k : k \in ToSet(m.queued) <=> \E i \in DOMAIN m.queued : m.queued[i] = k
      BY <1>1, ToSetMember
    <3>3. ASSUME NEW k, k \in ToSet(m.queued)
          PROVE  k = Head(m.queued) \/ k \in ToSet(n.queued)
      <4>1. PICK i \in DOMAIN m.queued : m.queued[i] = k
        BY <3>2, <3>3
      <4> QED
        BY <4>1, <3>1, <1>2
    <3>4. ASSUME NEW k, k \in ToSet(n.queued)
          PROVE  k \in ToSet(m.queued)
      <4>1. PICK i \in DOMAIN n.queued : n.queued[i] = k
        BY <3>1, <3>4
      <4> QED
        BY <4>1, <3>2, <1>2
    <3>5. Head(m.queued) \in ToSet(m.queued)
      BY <3>2, <1>2
    <3> QED
      BY <3>3, <3>4, <3>5
  <2> QED
    BY <2>1, Bounds DEF Unanswered
<1>4. \A i \in DOMAIN n.queued : n.queued[i] <= n.query /\ n.queued[i] # n.renewing
  BY <1>2 DEF RenewalsSound
<1>5. \A i, j \in DOMAIN n.queued : n.queued[i] = n.queued[j] => i = j
  <2> SUFFICES ASSUME NEW i \in DOMAIN n.queued, NEW j \in DOMAIN n.queued,
                      n.queued[i] = n.queued[j]
               PROVE  i = j
    OBVIOUS
  <2>1. i \in Nat /\ j \in Nat /\ i + 1 \in DOMAIN m.queued /\ j + 1 \in DOMAIN m.queued
        /\ m.queued[i + 1] = m.queued[j + 1]
    BY <1>2
  <2>2. i + 1 = j + 1
    BY <2>1 DEF RenewalsSound
  <2> QED
    BY <2>1, <2>2
<1>6. n.renewing <= n.query
  BY <1>2 DEF RenewalsSound
<1> QED
  BY <1>3, <1>4, <1>5, <1>6 DEF RenewalsSound

\* The renewal in flight is accepted.
LEMMA AcceptedSound ==
  ASSUME NEW m \in SubType, RenewalsSound(m), m.renewing # 0,
         NEW n, n.renewing = 0, n.queued = m.queued, n.query = m.query,
         \A k \in Capabilities :
           n.answers[k] = IF k = m.renewing THEN "resolved" ELSE m.answers[k]
  PROVE  RenewalsSound(n)
<1>1. m.renewing \in Capabilities /\ m.query \in Nat /\ m.queued \in Seq(Capabilities)
  BY SubFields, Bounds
<1>2. m.renewing \notin ToSet(m.queued)
  BY <1>1, ToSetMember DEF RenewalsSound
<1>3. \A i \in DOMAIN m.queued : m.queued[i] # 0
  BY <1>1, ElementOfSeq, LenProperties, Bounds
<1>4. \A k \in Capabilities : n.answers[k] = "pending" <=> k \in Unanswered(n)
  BY <1>1, <1>2, Bounds DEF RenewalsSound, Unanswered
<1> QED
  BY <1>1, <1>3, <1>4 DEF RenewalsSound

\* renew() supersedes what is queued.
LEMMA RenewSound ==
  ASSUME NEW m \in SubType, RenewalsSound(m), NEW k \in Capabilities, k > 1,
         m.answers[k] = "none", \A j \in Capabilities : 1 < j /\ j < k => m.answers[j] # "none",
         NEW n, n.renewing = m.renewing, n.queued = <<k>>, n.query = k,
         \A j \in Capabilities :
           n.answers[j] = IF j = k THEN "pending"
                          ELSE IF j \in ToSet(m.queued) THEN "rejected" ELSE m.answers[j]
  PROVE  RenewalsSound(n)
<1>1. m.renewing \in Nat /\ m.query \in Nat /\ m.queued \in Seq(Capabilities) /\ k \in Nat
  BY SubFields, Bounds
<1>2. m.query < k /\ m.renewing < k
  BY <1>1 DEF RenewalsSound
<1>3. ToSet(n.queued) = {k} /\ DOMAIN n.queued = {1} /\ n.queued[1] = k
  <2>1. n.queued \in Seq(Capabilities) /\ DOMAIN n.queued = {1} /\ n.queued[1] = k
    <3>1. n.queued \in Seq(Capabilities)
      OBVIOUS
    <3>2. DOMAIN n.queued = 1..1 /\ n.queued[1] = k
      OBVIOUS
    <3> QED
      BY <3>1, <3>2
  <2> QED
    <3>1. \A j : j \in ToSet(n.queued) <=> \E i \in DOMAIN n.queued : n.queued[i] = j
      BY <2>1 DEF ToSet
    <3> QED
      BY <2>1, <3>1
<1>4. \A j \in Capabilities : n.answers[j] = "pending" <=> j \in Unanswered(n)
  <2> TAKE j \in Capabilities
  <2>1. j \in ToSet(m.queued) => j # m.renewing
    BY <1>1, ToSetMember DEF RenewalsSound
  <2> QED
    BY <1>3, <2>1 DEF RenewalsSound, Unanswered
<1>5. \A j \in Capabilities : n.answers[j] = "none" /\ j > 1 => n.query < j
  <2> TAKE j \in Capabilities
  <2>1. j \in Nat
    BY Bounds
  <2>2. CASE n.answers[j] = "none" /\ j > 1
    <3>1. m.answers[j] = "none" /\ j # k
      BY <2>2
    <3>2. ~(j < k)
      BY <2>2, <3>1
    <3> QED
      BY <2>1, <3>1, <3>2, <1>1
  <2> QED
    BY <2>2
<1> QED
  BY <1>1, <1>2, <1>3, <1>4, <1>5 DEF RenewalsSound

-----------------------------------------------------------------------------
(* The client as a record.                                                 *)

LEMMA ClientFields ==
  ASSUME NEW c \in Clients
  PROVE  /\ c.sub \in [Subs -> SubType] /\ \A s \in Subs : c.sub[s] \in SubType
         /\ c.managed \subseteq Subs /\ c.active \subseteq Subs
         /\ c.pendingRequests \in Tables /\ c.liveSubscriptions \in Tables
         /\ c.detaching \subseteq Nat /\ c.targets \subseteq Nat /\ c.delivering \subseteq Nat
         /\ c.requestId \in Nat /\ c.link \in Links /\ c.stack \in Seq(Items)
         /\ c.socket \in {"none", "open", "closing"}
         /\ c.ready \in BOOLEAN /\ c.disposed \in BOOLEAN
BY DEF Clients

LEMMA LinkFields ==
  ASSUME NEW l \in Links
  PROVE  /\ l.up \in Seq(Messages(Requests)) /\ l.down \in Seq(Messages(Replies))
         /\ l.served \subseteq Nat
         /\ DOMAIN l.up \subseteq Nat /\ DOMAIN l.down \subseteq Nat
         /\ \A i \in DOMAIN l.up : l.up[i] \in Messages(Requests) /\ l.up[i].id \in Nat
         /\ \A i \in DOMAIN l.down : l.down[i] \in Messages(Replies) /\ l.down[i].id \in Nat
<1>1. /\ l.up \in Seq(Messages(Requests)) /\ l.down \in Seq(Messages(Replies))
      /\ l.served \subseteq Nat
  BY DEF Links
<1>2. /\ DOMAIN l.up \subseteq Nat /\ DOMAIN l.down \subseteq Nat
      /\ \A i \in DOMAIN l.up : l.up[i] \in Messages(Requests)
      /\ \A i \in DOMAIN l.down : l.down[i] \in Messages(Replies)
  BY <1>1, LenProperties, ElementOfSeq
<1>3. \A types, f : f \in Messages(types) => f.id \in Nat
  BY DEF Messages
<1> QED
  BY <1>1, <1>2, <1>3

LEMMA StackFields ==
  ASSUME NEW c \in Clients, NEW i \in DOMAIN c.stack
  PROVE  /\ c.stack[i] \in Items /\ c.stack[i].do \in Works /\ c.stack[i].sub \subseteq Subs
         /\ c.stack[i].cap \in 0..MaxCapability /\ i \in Nat
<1>1. c.stack[i] \in Items /\ i \in Nat
  BY ClientFields, LenProperties, ElementOfSeq
<1> QED
  BY <1>1 DEF Items

SameSubs(c, d) ==
  d.sub = c.sub /\ d.managed = c.managed /\ d.active = c.active /\ d.disposed = c.disposed

SameTables(c, d) ==
  /\ d.pendingRequests = c.pendingRequests /\ d.liveSubscriptions = c.liveSubscriptions
  /\ d.detaching = c.detaching /\ d.targets = c.targets /\ d.delivering = c.delivering
  /\ d.requestId = c.requestId

SameWire(c, d) ==
  /\ d.socket = c.socket /\ d.link = c.link /\ d.ready = c.ready
  /\ d.terminal = c.terminal

\* What tables and frames say of the subscriptions.
SameRoutes(c, d) ==
  \A s \in Subs :
    /\ d.sub[s].state = c.sub[s].state /\ d.sub[s].request = c.sub[s].request
    /\ d.sub[s].liveId = c.sub[s].liveId /\ d.sub[s].requested = c.sub[s].requested
    /\ d.sub[s].renewing = c.sub[s].renewing

LEMMA RoutesTransfer ==
  ASSUME NEW c, NEW d, NEW g, SameRoutes(c, d), SameTables(c, d), d.active = c.active,
         d.link = c.link, d.socket = c.socket,
         TablesSound(c), IdsFresh(c), DeliveringIsLive(c), WireSound(c, g), OneRenewal(c),
         ServedIds(c)
  PROVE  /\ TablesSound(d) /\ IdsFresh(d) /\ DeliveringIsLive(d) /\ WireSound(d, g)
         /\ OneRenewal(d) /\ ServedIds(d)
<1>1. TablesSound(d)
  BY DEF TablesSound, SameRoutes, SameTables, Pending, Live, Ended
<1>2. IdsFresh(d)
  BY DEF IdsFresh, SameRoutes, SameTables
<1>3. DeliveringIsLive(d)
  BY DEF DeliveringIsLive, SameTables, Live
<1>4. WireSound(d, g)
  BY DEF WireSound, SameRoutes, SameTables, Up, Down, About, Renews, Pending, Live, Ended
<1>5. OneRenewal(d)
  BY DEF OneRenewal, SameTables, Up, Down, Live
<1>6. ServedIds(d)
  BY DEF ServedIds, Up, Down
<1> QED
  BY <1>1, <1>2, <1>3, <1>4, <1>5, <1>6

\* Timers and flags.
LEMMA FrameCore ==
  ASSUME NEW c, NEW g, NEW d \in Clients, Core(c, g), SameSubs(c, d), SameTables(c, d),
         d.socket = c.socket, d.link = c.link, d.ready = c.ready, d.stack = c.stack
  PROVE  Core(d, g)
<1>1. SameRoutes(c, d)
  BY DEF SameRoutes, SameSubs
<1>2. /\ TablesSound(d) /\ IdsFresh(d) /\ DeliveringIsLive(d) /\ WireSound(d, g)
      /\ OneRenewal(d) /\ ServedIds(d)
  BY <1>1, RoutesTransfer DEF Core, SameSubs
<1>3. StackSound(d)
  <2>1. StackSound(c)
    BY DEF Core
  <2>2. \A w : ItemSound(c, w) => ItemSound(d, w)
    BY DEF ItemSound, Unwired, Pending, Live, SameSubs, SameTables
  <2>3. PairSound(d, d.stack)
    BY <2>1 DEF StackSound, PairSound, SameSubs
  <2> QED
    BY <2>1, <2>2, <2>3 DEF StackSound
<1>4. SubsSound(d) /\ Truthful(d, g)
  BY DEF Core, SubsSound, Truthful, SameSubs
<1> QED
  BY <1>2, <1>3, <1>4 DEF Core

LEMMA FrameSound ==
  ASSUME NEW c, NEW g, NEW X, NEW Y, NEW d \in Clients, Sound(c, g, X, Y), SameSubs(c, d),
         SameTables(c, d), SameWire(c, d), d.stack = c.stack
  PROVE  Sound(d, g, X, Y)
<1>1. Core(d, g)
  BY FrameCore DEF Sound, SameWire
<1>2. \A s \in Subs : Consistent(c, s) => Consistent(d, s)
  BY DEF Consistent, Corrected, Corrects, Replacing, Live, SameSubs, SameTables
<1>3. \A l : Accounted(c, l) => Accounted(d, l)
  BY DEF Accounted, Live, Up, Down, SameTables, SameWire
<1>4. /\ d.link = c.link /\ d.socket = c.socket /\ d.terminal = c.terminal
      /\ (Terminating(c) => Terminating(d))
  BY DEF Terminating, SameWire
<1> QED
  BY <1>1, <1>2, <1>3, <1>4 DEF Sound

-----------------------------------------------------------------------------
(* The stack grows.                                                        *)

LEMMA PushEffect ==
  ASSUME NEW c \in Clients, NEW items \in Seq(Items)
  PROVE  LET d == Push(c, items)
         IN  /\ d \in Clients /\ SameSubs(c, d) /\ SameTables(c, d) /\ SameWire(c, d)
             /\ d.stack = items \o c.stack
<1>1. items \o c.stack \in Seq(Items)
  BY ConcatProperties DEF Clients
<1> QED
  BY <1>1 DEF Push, Clients, SameSubs, SameTables, SameWire

LEMMA PushPairs ==
  ASSUME NEW c, NEW items \in Seq(Items), NEW st \in Seq(Items), PairSound(c, st),
         \A i \in DOMAIN items :
           /\ items[i].do \notin {"replace", "live", "sending"}
           /\ items[i].do = "resubscribe" => \A j \in DOMAIN st :
                st[j].do = "replace" => st[j].sub # items[i].sub
           /\ items[i].do = "renew" =>
                /\ \A j \in DOMAIN items : items[j] = items[i] => i = j
                /\ \A j \in DOMAIN st : st[j] # items[i]
           /\ items[i].do = "terminating" => \A j \in DOMAIN st :
                st[j].do = "live" => \A s \in st[j].sub : c.sub[s].status = "closed"
  PROVE  PairSound(c, items \o st)
<1> DEFINE q == items \o st
<1>1. /\ Len(q) = Len(items) + Len(st) /\ Len(items) \in Nat /\ Len(st) \in Nat
      /\ DOMAIN items = 1..Len(items) /\ DOMAIN st = 1..Len(st)
      /\ \A i \in DOMAIN q :
              \/ i \in DOMAIN items /\ q[i] = items[i]
              \/ i > Len(items) /\ i - Len(items) \in DOMAIN st /\ q[i] = st[i - Len(items)]
      /\ DOMAIN q \subseteq Nat
  BY ConcatIndex
<1> SUFFICES PairSound(c, q)
  OBVIOUS
<1> HIDE DEF q
<1> SUFFICES ASSUME NEW i \in DOMAIN q, NEW j \in DOMAIN q
             PROVE  /\ q[i].do \in {"replace", "sending"} => i = Len(q)
                    /\ q[i].do = "replace" /\ q[j].do = "resubscribe" => q[i].sub # q[j].sub
                    /\ q[i].do = "renew" /\ q[j] = q[i] => i = j
                    /\ q[i].do = "live" /\ q[j].do = "terminating" =>
                         \A s \in q[i].sub : c.sub[s].status = "closed"
  BY DEF PairSound
<1>2. i \in Nat /\ j \in Nat
  BY <1>1
<1>3. CASE i \in DOMAIN items /\ q[i] = items[i]
  <2>1. q[i].do \notin {"replace", "live", "sending"}
    BY <1>3
  <2>2. ASSUME q[i].do = "renew", q[j] = q[i]
        PROVE  i = j
    BY <1>1, <1>3, <2>2
  <2> QED
    BY <2>1, <2>2
<1>4. CASE i > Len(items) /\ i - Len(items) \in DOMAIN st /\ q[i] = st[i - Len(items)]
  <2> DEFINE a == i - Len(items)
  <2>1. q[i].do \in {"replace", "sending"} => i = Len(q)
    <3>1. ASSUME q[i].do \in {"replace", "sending"} PROVE a = Len(st)
      BY <1>4, <3>1 DEF PairSound
    <3> QED
      BY <1>1, <1>2, <3>1
  <2>2. CASE j \in DOMAIN items /\ q[j] = items[j]
    BY <1>4, <2>1, <2>2
  <2>3. CASE j > Len(items) /\ j - Len(items) \in DOMAIN st /\ q[j] = st[j - Len(items)]
    <3> DEFINE b == j - Len(items)
    <3>1. a \in DOMAIN st /\ b \in DOMAIN st /\ q[i] = st[a] /\ q[j] = st[b]
      BY <1>4, <2>3
    <3>2. a = b => i = j
      BY <1>1, <1>2
    <3> HIDE DEF a, b
    <3> QED
      BY <2>1, <3>1, <3>2 DEF PairSound
  <2> QED
    BY <1>1, <2>2, <2>3
<1> QED
  BY <1>1, <1>3, <1>4

LEMMA PushCore ==
  ASSUME NEW c, NEW g, NEW items \in Seq(Items), Core(c, g),
         \A i \in DOMAIN items : ItemSound(c, items[i]), PairSound(c, items \o c.stack)
  PROVE  Core(Push(c, items), g)
<1> DEFINE d == Push(c, items)
<1>1. /\ d \in Clients /\ SameSubs(c, d) /\ SameTables(c, d) /\ SameWire(c, d)
      /\ d.stack = items \o c.stack
  BY PushEffect DEF Core
<1> SUFFICES Core(d, g)
  OBVIOUS
<1> HIDE DEF d
<1>2. SameRoutes(c, d)
  BY <1>1 DEF SameRoutes, SameSubs
<1>3. /\ TablesSound(d) /\ IdsFresh(d) /\ DeliveringIsLive(d) /\ WireSound(d, g)
      /\ OneRenewal(d) /\ ServedIds(d)
  BY <1>1, <1>2, RoutesTransfer DEF Core, SameSubs, SameWire
<1>4. SubsSound(d) /\ Truthful(d, g)
  BY <1>1 DEF Core, SubsSound, Truthful, SameSubs, SameWire
<1>5. \A w : ItemSound(c, w) => ItemSound(d, w)
  BY <1>1 DEF ItemSound, Unwired, Pending, Live, SameSubs, SameTables, SameWire
<1>6. PairSound(d, d.stack)
  BY <1>1 DEF PairSound, SameSubs
<1>7. \A i \in DOMAIN d.stack : ItemSound(c, d.stack[i])
  <2>1. c.stack \in Seq(Items)
    BY ClientFields DEF Core
  <2>2. \A i \in DOMAIN d.stack :
          \/ i \in DOMAIN items /\ d.stack[i] = items[i]
          \/ i - Len(items) \in DOMAIN c.stack /\ d.stack[i] = c.stack[i - Len(items)]
    BY <1>1, <2>1, ConcatIndex
  <2> QED
    BY <2>2 DEF Core, StackSound
<1> QED
  BY <1>1, <1>3, <1>4, <1>5, <1>6, <1>7 DEF Core, StackSound

LEMMA ItemType ==
  ASSUME NEW s \in Subs, NEW do \in Works
  PROVE  /\ Item(do, s) \in Items /\ Item(do, s).do = do /\ Item(do, s).sub = {s}
         /\ Item(do, s).cap = 0
BY Bounds DEF Item, Items

\* Items that nothing depends on.
Plain == {"connecting", "unavailable", "failed", "rows", "baseline", "idle"}

LEMMA PushPlain ==
  ASSUME NEW c, NEW g, NEW items \in Seq(Items), Core(c, g),
         \A i \in DOMAIN items :
           /\ items[i].do \in Plain
           /\ \A s \in items[i].sub : c.sub[s].state # "new"
           /\ \E s \in Subs : items[i].sub = {s}
  PROVE  Core(Push(c, items), g)
<1>1. \A i \in DOMAIN items : ItemSound(c, items[i])
  BY DEF ItemSound, Plain
<1>2. PairSound(c, items \o c.stack)
  <2>1. c.stack \in Seq(Items) /\ PairSound(c, c.stack)
    BY ClientFields DEF Core, StackSound
  <2> QED
    BY <2>1, PushPairs DEF Plain
<1> QED
  BY <1>1, <1>2, PushCore

-----------------------------------------------------------------------------
(* A subscription leaves the wire.                                         *)

\* What becomes of the subscription itself: it loses its ids, or has ended.
Released(m, n) ==
  /\ n \in SubType /\ RenewalsSound(n)
  /\ m.state # "new" /\ n.state \in {m.state, "failed", "closed"}
  /\ n.query = m.query /\ n.prior = m.prior
  /\ n.status = m.status \/ n.status = "closed"
  /\ n.liveId \in {0, m.liveId} /\ n.request \in {0, m.request}
  /\ \A k \in Capabilities :
       /\ n.answers[k] = "pending" => m.answers[k] = "pending" /\ n.state = "active"
       /\ n.answers[k] = "resolved" => m.answers[k] = "resolved"
       /\ n.answers[k] = "none" <=> m.answers[k] = "none"

\* What is sent when it does, if anything: an unsubscribe.
Unsubscribes(c, d) ==
  /\ d.link.down = c.link.down /\ d.link.served = c.link.served
  /\ c.socket # "open" => d.link = c.link
  /\ \A i \in DOMAIN c.link.up : i \in DOMAIN d.link.up /\ d.link.up[i] = c.link.up[i]
  /\ \A i \in DOMAIN d.link.up :
       \/ i \in DOMAIN c.link.up /\ d.link.up[i] = c.link.up[i]
       \/ d.link.up[i].type = "unsubscribe" /\ d.link.up[i].id <= c.requestId

Leaves(c, d, s) ==
  /\ \A t \in Subs : t # s => d.sub[t] = c.sub[t]
  /\ Released(c.sub[s], d.sub[s])
  /\ d.active = c.active \/ d.active = c.active \ {s}
  /\ d.managed = c.managed \/ (d.managed = c.managed \ {s} /\ Ended(d.sub[s]) /\ d.sub[s].status = "closed")
  /\ d.disposed = c.disposed
  /\ \A r \in Nat, t \in Subs :
       Pending(d, r, t) => Pending(c, r, t) /\ (t = s => Ended(d.sub[s]))
  /\ \A l \in Nat, t \in Subs : Live(d, l, t) <=> Live(c, l, t) /\ l # c.sub[s].liveId
  /\ \A l \in Nat : l \in d.delivering <=> l \in c.delivering /\ l # c.sub[s].liveId
  /\ d.delivering \subseteq d.targets /\ \A l \in d.targets : l <= d.requestId
  /\ \A l \in d.detaching : l \in c.detaching \/
       /\ l <= d.requestId
       /\ \A t \in Subs : ~Pending(d, l, t) /\ ~Live(d, l, t)
  /\ d.requestId = c.requestId /\ d.socket = c.socket /\ d.ready = c.ready
  /\ d.terminal = c.terminal
  /\ Unsubscribes(c, d)
  /\ d.stack = c.stack

LEMMA LeavesLive ==
  ASSUME NEW c \in Clients, NEW d, NEW s \in Subs, TablesSound(c), IdsFresh(c), Leaves(c, d, s)
  PROVE  \A l \in Nat, t \in Subs : Live(d, l, t) <=> Live(c, l, t) /\ t # s
<1> SUFFICES ASSUME NEW l \in Nat, NEW t \in Subs, Live(c, l, t)
             PROVE  l # c.sub[s].liveId <=> t # s
  BY DEF Leaves
<1>1. c.sub[t].liveId = l /\ l > 0
  BY DEF TablesSound
<1> QED
  BY <1>1 DEF IdsFresh

LEMMA LeavesCore ==
  ASSUME NEW c, NEW g, NEW d \in Clients, NEW s \in Subs, Core(c, g), Leaves(c, d, s),
         \A i \in DOMAIN c.stack : c.stack[i].do = "live" /\ s \in c.stack[i].sub =>
           d.sub[s].status = "closed"
  PROVE  Core(d, g)
<1> USE DEF Core
<1>1. \A t \in Subs : c.sub[t] \in SubType /\ d.sub[t] \in SubType
  BY ClientFields
<1>2. \A l \in Nat, t \in Subs : Live(d, l, t) <=> Live(c, l, t) /\ t # s
  BY LeavesLive
<1>3. \A t \in Subs : d.sub[t].liveId \in {0, c.sub[t].liveId}
  BY DEF Leaves, Released
<1>4. TablesSound(d)
  <2>1. ASSUME NEW r \in Nat, NEW t \in Subs, Pending(d, r, t)
        PROVE  /\ r > 0 /\ r <= d.requestId
               /\ \/ Ended(d.sub[t])
                  \/ /\ d.sub[t].state = "active"
                     /\ d.sub[t].request = r /\ d.sub[t].liveId = 0
               /\ r \notin d.detaching
               /\ \A u \in Subs : d.sub[u].liveId # r /\ ~Live(d, r, u)
               /\ \A u \in Subs : Pending(d, r, u) => t = u
    <3>1. Pending(c, r, t) /\ (t = s => Ended(d.sub[s]))
      BY <2>1 DEF Leaves
    <3>a. r > 0 /\ r <= d.requestId /\ r \notin c.detaching
      BY <3>1 DEF TablesSound, Leaves
    <3>b. r \notin d.detaching
      BY <2>1, <3>a DEF Leaves
    <3>c. \A u \in Subs : d.sub[u].liveId # r /\ ~Live(d, r, u)
      BY <1>2, <1>3, <3>1, <3>a DEF TablesSound
    <3>2. /\ r > 0 /\ r <= d.requestId
          /\ r \notin d.detaching
          /\ \A u \in Subs : d.sub[u].liveId # r /\ ~Live(d, r, u)
      BY <3>a, <3>b, <3>c
    <3>3. \/ Ended(d.sub[t])
          \/ /\ d.sub[t].state = "active"
             /\ d.sub[t].request = r /\ d.sub[t].liveId = 0
      BY <3>1 DEF TablesSound, Leaves
    <3>4. \A u \in Subs : Pending(d, r, u) => t = u
      BY <3>1 DEF TablesSound, Leaves
    <3> QED
      BY <3>2, <3>3, <3>4
  <2>2. ASSUME NEW l \in Nat, NEW t \in Subs, Live(d, l, t)
        PROVE  /\ l > 0 /\ l <= d.requestId
               /\ d.sub[t].state = "active" /\ d.sub[t].liveId = l
               /\ t \in d.active
               /\ l \notin d.detaching
    <3>1. Live(c, l, t) /\ t # s
      BY <1>2, <2>2
    <3>2. l # c.sub[s].liveId
      BY <2>2 DEF Leaves
    <3> QED
      BY <3>1, <3>2 DEF TablesSound, Leaves
  <2> QED
    BY <2>1, <2>2 DEF TablesSound
<1>5. IdsFresh(d)
  <2>1. \A t \in Subs : d.sub[t].liveId <= d.requestId
    BY <1>1, <1>3, ClientFields DEF IdsFresh, Leaves
  <2>2. \A t, u \in Subs : d.sub[t].liveId = d.sub[u].liveId /\ d.sub[t].liveId # 0 => t = u
    BY <1>3 DEF IdsFresh
  <2>3. \A l \in d.targets \cup d.detaching \cup d.link.served : l <= d.requestId
    BY DEF IdsFresh, Leaves, Unsubscribes
  <2>4. /\ \A i \in DOMAIN d.link.up : d.link.up[i].id <= d.requestId
        /\ \A i \in DOMAIN d.link.down : d.link.down[i].id <= d.requestId
    BY DEF IdsFresh, Leaves, Unsubscribes
  <2> QED
    BY <2>1, <2>2, <2>3, <2>4 DEF IdsFresh
<1>6. DeliveringIsLive(d)
  <2>1. \A l \in Nat : l \in d.delivering <=> \E t \in Subs : Live(d, l, t)
    BY DEF DeliveringIsLive, Leaves
  <2> QED
    BY <2>1 DEF DeliveringIsLive, Leaves
<1>7. StackSound(d)
  <2>1. ASSUME NEW i \in DOMAIN d.stack
        PROVE  ItemSound(d, d.stack[i])
    <3> DEFINE w == c.stack[i]
    <3>1. d.stack[i] = w /\ i \in DOMAIN c.stack /\ ItemSound(c, w) /\ w.sub \subseteq Subs
      BY StackFields DEF StackSound, Leaves
    <3>2. w.do = "live" /\ s \in w.sub => d.sub[s].status = "closed"
      BY <3>1
    <3> HIDE DEF w
    <3>3. \A t \in w.sub : d.sub[t].state # "new"
      BY <3>1 DEF ItemSound, Leaves, Released
    <3>4. w.do \notin {"sending", "detached", "terminating"} => \E t \in Subs : w.sub = {t}
      BY <3>1 DEF ItemSound
    <3>5. w.do = "detached" =>
            ~d.ready /\ \A r \in Nat, t \in Subs : ~Pending(d, r, t) /\ ~Live(d, r, t)
      BY <3>1 DEF ItemSound, Leaves
    <3>6. w.do = "replace" =>
            \A t \in w.sub : Unwired(d, t) /\ d.sub[t].state # "awaiting_query"
      <4> SUFFICES ASSUME w.do = "replace", NEW t \in w.sub
                   PROVE  Unwired(d, t) /\ d.sub[t].state # "awaiting_query"
        OBVIOUS
      <4>1. t \in Subs /\ Unwired(c, t) /\ c.sub[t].state # "awaiting_query"
        BY <3>1 DEF ItemSound
      <4>2. \A r \in Nat : ~Pending(d, r, t) /\ ~Live(d, r, t)
        BY <4>1 DEF Unwired, Leaves
      <4>3. d.sub[t].state # "awaiting_query" /\ d.sub[t].request = 0 /\ d.sub[t].liveId = 0
        BY <4>1 DEF Unwired, Leaves, Released
      <4> QED
        BY <4>2, <4>3 DEF Unwired
    <3>7. w.do = "renew" =>
            /\ w.cap > 1
            /\ \A t \in w.sub :
                 /\ d.sub[t].answers[w.cap] = "none" /\ d.sub[t].prior[w.cap] # "none"
                 /\ \A k \in Capabilities : 1 < k /\ k < w.cap => d.sub[t].answers[k] # "none"
      <4> SUFFICES ASSUME w.do = "renew"
                   PROVE  /\ w.cap > 1
                          /\ \A t \in w.sub :
                               /\ d.sub[t].answers[w.cap] = "none" /\ d.sub[t].prior[w.cap] # "none"
                               /\ \A k \in Capabilities : 1 < k /\ k < w.cap => d.sub[t].answers[k] # "none"
        OBVIOUS
      <4>1. w.cap > 1 /\ w.cap \in Capabilities
        BY <3>1, StackFields, Bounds DEF ItemSound, w
      <4>2. \A t \in w.sub : \A k \in Capabilities :
              (d.sub[t].answers[k] = "none" <=> c.sub[t].answers[k] = "none")
              /\ d.sub[t].prior[k] = c.sub[t].prior[k]
        BY <3>1 DEF Leaves, Released
      <4> QED
        BY <4>1, <4>2, <3>1 DEF ItemSound
    <3>8. w.do = "live" =>
            \A t \in w.sub : d.sub[t].status = "closed" \/ Live(d, d.sub[t].liveId, t)
      <4> SUFFICES ASSUME w.do = "live", NEW t \in w.sub
                   PROVE  d.sub[t].status = "closed" \/ Live(d, d.sub[t].liveId, t)
        OBVIOUS
      <4>1. t \in Subs /\ (c.sub[t].status = "closed" \/ Live(c, c.sub[t].liveId, t))
        BY <3>1 DEF ItemSound
      <4>2. CASE t = s
        BY <4>2, <3>2 DEF Leaves, Released
      <4>3. CASE t # s
        BY <4>1, <4>3, <1>1, <1>2, SubFields DEF Leaves
      <4> QED
        BY <4>2, <4>3
    <3> QED
      BY <3>1, <3>3, <3>4, <3>5, <3>6, <3>7, <3>8 DEF ItemSound
  <2>2. PairSound(d, d.stack)
    <3>1. \A t \in Subs : c.sub[t].status = "closed" => d.sub[t].status = "closed"
      BY DEF Leaves, Released
    <3>2. \A i \in DOMAIN c.stack : c.stack[i].sub \subseteq Subs
      BY StackFields
    <3>3. d.stack = c.stack /\ PairSound(c, c.stack)
      BY DEF Leaves, StackSound
    <3> QED
      BY <3>1, <3>2, <3>3 DEF PairSound
  <2> QED
    BY <2>1, <2>2 DEF StackSound
<1>8. SubsSound(d)
  <2>1. \A t \in Subs : SubSound(d.sub[t])
    <3> TAKE t \in Subs
    <3>1. CASE t # s
      BY <3>1 DEF SubsSound, Leaves
    <3>2. CASE t = s
      <4>1. d.sub[s].state # "new" /\ c.sub[s].state # "new" /\ c.sub[s].query > 0
        BY DEF SubsSound, SubSound, Leaves, Released
      <4> QED
        BY <3>2, <4>1 DEF SubSound, Leaves, Released
    <3> QED
      BY <3>1, <3>2
  <2>2. \A t \in Subs, k \in Capabilities : d.sub[t].answers[k] = "pending" => t \in d.managed
    <3> SUFFICES ASSUME NEW t \in Subs, NEW k \in Capabilities, d.sub[t].answers[k] = "pending"
                 PROVE  t \in d.managed
      OBVIOUS
    <3>1. c.sub[t].answers[k] = "pending"
      BY DEF Leaves, Released
    <3>2. t \in c.managed
      BY <3>1 DEF SubsSound
    <3>3. t = s => ~Ended(d.sub[s])
      BY DEF Leaves, Released, Ended
    <3> QED
      BY <3>2, <3>3 DEF Leaves
  <2>3. \A t \in Subs : d.sub[t].state # "new" /\ d.sub[t].status # "closed" => t \in d.managed
    BY DEF SubsSound, Leaves, Released
  <2>4. \A t \in d.managed \cup d.active : d.sub[t].state # "new"
    BY ClientFields DEF SubsSound, Leaves, Released
  <2>5. d.disposed => d.managed = {} /\ d.socket = "none"
    BY DEF SubsSound, Leaves
  <2> QED
    BY <2>1, <2>2, <2>3, <2>4, <2>5 DEF SubsSound
<1>9. Truthful(d, g)
  BY DEF Truthful, Leaves, Released
<1>10. WireSound(d, g)
  <2>1. \A t \in Subs : t # s => d.sub[t] = c.sub[t]
    BY DEF Leaves
  <2>2. \A f : f.id \in Nat /\ About(c, f) => About(d, f)
    <3> SUFFICES ASSUME NEW f, f.id \in Nat, About(c, f), NEW t \in Subs, Pending(d, f.id, t)
                 PROVE  f.sub = t /\ (~Ended(d.sub[t]) => f.cap = d.sub[t].requested)
      BY DEF About
    <3>1. Pending(c, f.id, t) /\ (t = s => Ended(d.sub[s]))
      BY DEF Leaves
    <3> QED
      BY <3>1, <2>1 DEF About
  <2>3. \A f : f.id \in Nat /\ Renews(c, f) => Renews(d, f)
    <3> SUFFICES ASSUME NEW f, f.id \in Nat, Renews(c, f), NEW t \in Subs
                 PROVE  /\ ~Pending(d, f.id, t)
                        /\ Live(d, f.id, t) => f.sub = t /\ f.cap = d.sub[t].renewing
      BY DEF Renews
    <3> QED
      BY <2>1, <1>2 DEF Renews, Leaves
  <2>4. c.link \in Links /\ d.link \in Links
    BY ClientFields
  <2>5. d.socket # "open" => d.link = NoLink
    BY DEF WireSound, Leaves, Unsubscribes
  <2>6. \A i \in DOMAIN d.link.up : d.link.up[i].type \in {"subscribe", "renew"} =>
          /\ i \in DOMAIN c.link.up /\ d.link.up[i] = c.link.up[i] /\ d.link.up[i].id \in Nat
    BY <2>4, LinkFields DEF Leaves, Unsubscribes
  <2>7. d.link.down = c.link.down /\ \A i \in DOMAIN d.link.down : d.link.down[i].id \in Nat
    BY <2>4, LinkFields DEF Leaves, Unsubscribes
  <2> HIDE DEF Core
  <2>8. WireSound(c, g)
    BY DEF Core
  <2> QED
    BY <2>2, <2>3, <2>5, <2>6, <2>7, <2>8 DEF WireSound, Up, Down
<1>11. OneRenewal(d)
  <2>1. \A i : Up(d, i, "renew") => Up(c, i, "renew") /\ d.link.up[i] = c.link.up[i] /\ i \in DOMAIN c.link.up
    BY DEF Up, Leaves, Unsubscribes
  <2>2. d.link.down = c.link.down
    BY DEF Leaves, Unsubscribes
  <2>3. \A i, type : Down(d, i, type) <=> Down(c, i, type)
    BY <2>2 DEF Down
  <2> SUFFICES ASSUME NEW l \in Nat, NEW t \in Subs, Live(d, l, t)
               PROVE  /\ \A i, j \in DOMAIN d.link.up :
                           /\ Up(d, i, "renew") /\ d.link.up[i].id = l
                           /\ Up(d, j, "renew") /\ d.link.up[j].id = l
                           => i = j
                      /\ \A i, j \in DOMAIN d.link.down :
                           /\ Down(d, i, "renewed") /\ d.link.down[i].id = l
                           /\ Down(d, j, "renewed") /\ d.link.down[j].id = l
                           => i = j
                      /\ \A i \in DOMAIN d.link.up, j \in DOMAIN d.link.down :
                           ~ /\ Up(d, i, "renew") /\ d.link.up[i].id = l
                             /\ Down(d, j, "renewed") /\ d.link.down[j].id = l
    BY DEF OneRenewal
  <2>4. Live(c, l, t)
    BY <1>2
  <2> QED
    BY <2>1, <2>2, <2>3, <2>4 DEF OneRenewal
<1>12. ServedIds(d)
  <2>1. \A i : Up(d, i, "subscribe") => Up(c, i, "subscribe") /\ d.link.up[i] = c.link.up[i] /\ i \in DOMAIN c.link.up
    BY DEF Up, Leaves, Unsubscribes
  <2>2. d.link.down = c.link.down /\ d.link.served = c.link.served
    BY DEF Leaves, Unsubscribes
  <2> QED
    BY <2>1, <2>2 DEF ServedIds
<1> QED
  BY <1>4, <1>5, <1>6, <1>7, <1>8, <1>9, <1>10, <1>11, <1>12

LEMMA LeavesSound ==
  ASSUME NEW c, NEW g, NEW X, NEW Y, NEW Z, NEW d \in Clients, NEW s \in Subs,
         Sound(c, g, X, Y), Leaves(c, d, s),
         \A i \in DOMAIN c.stack : c.stack[i].do = "live" /\ s \in c.stack[i].sub =>
           d.sub[s].status = "closed",
         Terminating(c) \/ \A l \in c.link.served \ Z :
           l \in Y \/ (l # 0 /\ l = c.sub[s].liveId) => Accounted(d, l)
  PROVE  Sound(d, g, X \cup {s}, Z)
<1>1. Core(c, g) /\ c \in Clients
  BY DEF Sound, Core
<1>2. Core(d, g)
  BY <1>1, LeavesCore
<1>3. \A l \in Nat, t \in Subs : Live(d, l, t) <=> Live(c, l, t) /\ t # s
  BY <1>1, LeavesLive DEF Core
<1>4. \A t \in Subs : c.sub[t].liveId \in Nat
  BY <1>1, ClientFields, SubFields
<1>5. \A t \in Subs \ {s} : Consistent(c, t) => Consistent(d, t)
  <2> SUFFICES ASSUME NEW t \in Subs \ {s}, Consistent(c, t)
               PROVE  Consistent(d, t)
    OBVIOUS
  <2>1. d.sub[t] = c.sub[t] /\ d.stack = c.stack /\ d.disposed = c.disposed
        /\ (t \in c.active => t \in d.active)
    BY DEF Leaves
  <2>2. Live(c, c.sub[t].liveId, t) => Live(d, c.sub[t].liveId, t)
    BY <1>3, <1>4
  <2> QED
    BY <2>1, <2>2 DEF Consistent, Corrected, Corrects, Replacing
<1>6. d.link.served = c.link.served /\ d.link.down = c.link.down /\ d.stack = c.stack
      /\ c.link.served \subseteq Nat
      /\ \A i \in DOMAIN c.link.up : i \in DOMAIN d.link.up /\ d.link.up[i] = c.link.up[i]
  BY <1>1, ClientFields, LinkFields DEF Leaves, Unsubscribes
<1>7. \A l \in c.link.served :
        Accounted(c, l) /\ (l = 0 \/ l # c.sub[s].liveId) => Accounted(d, l)
  <2> SUFFICES ASSUME NEW l \in c.link.served, Accounted(c, l), l = 0 \/ l # c.sub[s].liveId
               PROVE  Accounted(d, l)
    OBVIOUS
  <2>1. ASSUME NEW t \in Subs, Live(c, l, t)
        PROVE  Live(d, l, t)
    <3>1. l > 0
      BY <1>1, <2>1, <1>6 DEF Core, TablesSound
    <3> QED
      BY <2>1, <3>1, <1>6 DEF Leaves
  <2> QED
    BY <2>1, <1>6 DEF Accounted, Up, Down
<1>8. Terminating(c) => Terminating(d)
  BY <1>6 DEF Terminating
<1>9. \/ Terminating(d)
      \/ /\ d.terminal # "no" => d.socket = "none"
         /\ \A l \in d.link.served \ Z : Accounted(d, l)
  <2>1. d.terminal = c.terminal /\ d.socket = c.socket
    BY DEF Leaves
  <2> QED
    BY <1>6, <1>7, <1>8, <2>1 DEF Sound
<1> QED
  BY <1>2, <1>5, <1>9 DEF Sound

LEMMA PushKeeps ==
  ASSUME NEW c \in Clients, NEW items \in Seq(Items)
  PROVE  LET d == Push(c, items)
         IN  /\ \A s \in Subs :
                  Corrected(c, s) \/ (\E i \in DOMAIN items : Corrects(c, items[i], s))
                    => Corrected(d, s)
             /\ \A s \in Subs : Consistent(c, s) => Consistent(d, s)
             /\ \A s \in Subs :
                  (\E i \in DOMAIN items : items[i].do = "replace" /\ s \in items[i].sub)
                    => Replacing(d, s)
             /\ Terminating(c) \/ (\E i \in DOMAIN items : items[i].do = "terminating")
                  => Terminating(d)
             /\ \A l : Accounted(c, l) => Accounted(d, l)
<1> DEFINE d == Push(c, items)
<1>1. /\ d \in Clients /\ SameSubs(c, d) /\ SameTables(c, d) /\ SameWire(c, d)
      /\ d.stack = items \o c.stack
  BY PushEffect
<1>2. c.stack \in Seq(Items)
  BY ClientFields
<1>3. /\ \A i \in DOMAIN c.stack : i + Len(items) \in DOMAIN d.stack
                                   /\ d.stack[i + Len(items)] = c.stack[i]
      /\ \A i \in DOMAIN items : i \in DOMAIN d.stack /\ d.stack[i] = items[i]
  BY <1>1, <1>2, ConcatIndex
<1> HIDE DEF d
<1>4. \A w, s : Corrects(c, w, s) => Corrects(d, w, s)
  BY <1>1 DEF Corrects, SameSubs
<1>5. \A s \in Subs :
        Corrected(c, s) \/ (\E i \in DOMAIN items : Corrects(c, items[i], s)) => Corrected(d, s)
  BY <1>3, <1>4 DEF Corrected
<1>6. \A s \in Subs :
        Replacing(c, s)
          \/ (\E i \in DOMAIN items : items[i].do = "replace" /\ s \in items[i].sub)
        => Replacing(d, s)
  BY <1>3 DEF Replacing
<1>7. \A s \in Subs : Consistent(c, s) => Consistent(d, s)
  BY <1>1, <1>5, <1>6 DEF Consistent, Live, SameSubs, SameTables
<1>8. Terminating(c) \/ (\E i \in DOMAIN items : items[i].do = "terminating") => Terminating(d)
  BY <1>3 DEF Terminating
<1>9. \A l : Accounted(c, l) => Accounted(d, l)
  BY <1>1 DEF Accounted, Live, Up, Down, SameTables, SameWire
<1> QED
  BY <1>5, <1>6, <1>7, <1>8, <1>9 DEF d

LEMMA PushSound ==
  ASSUME NEW c, NEW g, NEW X, NEW Y, NEW items \in Seq(Items), Sound(c, g, X, Y),
         Core(Push(c, items), g),
         \A s \in X \cap Subs :
           /\ c.sub[s].status = "live" =>
                Live(c, c.sub[s].liveId, s) \/ \E i \in DOMAIN items : Corrects(c, items[i], s)
           /\ c.sub[s].state = "active" =>
                \/ s \in c.active \/ c.disposed
                \/ \E i \in DOMAIN items : items[i].do = "replace" /\ s \in items[i].sub
  PROVE  Sound(Push(c, items), g, Nobody, Y)
<1> DEFINE d == Push(c, items)
<1>0. c \in Clients
  BY DEF Sound, Core
<1>1. /\ d \in Clients /\ SameSubs(c, d) /\ SameTables(c, d) /\ SameWire(c, d)
      /\ d.stack = items \o c.stack
  BY <1>0, PushEffect
<1>2. /\ \A s \in Subs :
           Corrected(c, s) \/ (\E i \in DOMAIN items : Corrects(c, items[i], s)) => Corrected(d, s)
      /\ \A s \in Subs : Consistent(c, s) => Consistent(d, s)
      /\ \A s \in Subs :
           (\E i \in DOMAIN items : items[i].do = "replace" /\ s \in items[i].sub) => Replacing(d, s)
      /\ Terminating(c) => Terminating(d)
      /\ \A l : Accounted(c, l) => Accounted(d, l)
  BY <1>0, PushKeeps
<1> SUFFICES Sound(d, g, Nobody, Y)
  OBVIOUS
<1>3. Core(d, g)
  OBVIOUS
<1> HIDE DEF d
<1>4. \A s \in X \cap Subs : Consistent(d, s)
  BY <1>1, <1>2 DEF Consistent, Live, SameSubs, SameTables
<1>5. \A s \in Subs \ Nobody : Consistent(d, s)
  BY <1>2, <1>4 DEF Sound
<1>6. \/ Terminating(d)
      \/ /\ d.terminal # "no" => d.socket = "none"
         /\ \A l \in d.link.served \ Y : Accounted(d, l)
  BY <1>1, <1>2 DEF Sound, SameWire
<1> QED
  BY <1>3, <1>5, <1>6 DEF Sound

-----------------------------------------------------------------------------
(* Tables and assignments.                                                 *)

LEMMA OwnerFacts ==
  ASSUME NEW table \in Tables, NEW id \in Nat
  PROVE  /\ \A s : s \in Owner(table, id) <=> <<id, s>> \in table
         /\ Owner(table, id) # {} =>
              OwnerOf(table, id) \in Subs /\ <<id, OwnerOf(table, id)>> \in table
         /\ Without(table, id) \in Tables
         /\ \A r \in Nat : \A s : <<r, s>> \in Without(table, id) <=> <<r, s>> \in table /\ r # id
<1>1. \A s : s \in Owner(table, id) <=> <<id, s>> \in table
  BY DEF Owner, Tables
<1>2. Owner(table, id) # {} => OwnerOf(table, id) \in Owner(table, id)
  BY DEF OwnerOf
<1>3. \A s : <<id, s>> \in table => s \in Subs
  BY DEF Tables
<1> QED
  BY <1>1, <1>2, <1>3 DEF Without, Tables

LEMMA WithoutFacts ==
  ASSUME NEW table \in Tables, NEW id \in Nat
  PROVE  \A r \in Nat : \A s : <<r, s>> \in Without(table, id) <=> <<r, s>> \in table /\ r # id
BY OwnerFacts

LEMMA LiveWithout ==
  ASSUME NEW c \in Clients, NEW d, NEW id \in Nat,
         d.liveSubscriptions = Without(c.liveSubscriptions, id)
  PROVE  \A l \in Nat : \A t : Live(d, l, t) <=> Live(c, l, t) /\ l # id
<1>1. c.liveSubscriptions \in Tables
  BY ClientFields
<1>2. \A l \in Nat : \A t : <<l, t>> \in Without(c.liveSubscriptions, id)
               <=> <<l, t>> \in c.liveSubscriptions /\ l # id
  BY <1>1, WithoutFacts
<1> QED
  BY <1>2 DEF Live

LEMMA PendingWithout ==
  ASSUME NEW c \in Clients, NEW d, NEW id \in Nat,
         d.pendingRequests = Without(c.pendingRequests, id)
  PROVE  \A r \in Nat : \A t : Pending(d, r, t) <=> Pending(c, r, t) /\ r # id
<1>1. c.pendingRequests \in Tables
  BY ClientFields
<1>2. \A r \in Nat : \A t : <<r, t>> \in Without(c.pendingRequests, id)
               <=> <<r, t>> \in c.pendingRequests /\ r # id
  BY <1>1, WithoutFacts
<1> QED
  BY <1>2 DEF Pending

\* A subscription is changed, and takes part or not.
Assign(c, s, n, A) == [c EXCEPT !.active = A, !.sub[s] = n]

Same(c, d) == SameTables(c, d) /\ SameWire(c, d) /\ d.stack = c.stack

LEMMA AssignEffect ==
  ASSUME NEW c \in Clients, NEW s \in Subs, NEW n \in SubType, NEW A \in SUBSET Subs
  PROVE  LET d == Assign(c, s, n, A)
         IN  /\ d \in Clients /\ Same(c, d) /\ d.managed = c.managed /\ d.disposed = c.disposed
             /\ d.active = A /\ d.sub[s] = n /\ \A t \in Subs : t # s => d.sub[t] = c.sub[t]
             /\ c.sub[s] \in SubType
<1>1. Assign(c, s, n, A) \in Clients
  BY DEF Assign, Clients
<1> QED
  BY <1>1 DEF Assign, Clients, Same, SameTables, SameWire

LEMMA AssignForms ==
  ASSUME NEW c \in Clients, NEW s \in Subs, NEW n
  PROVE  [c EXCEPT !.sub[s] = n] = Assign(c, s, n, c.active)
BY DEF Assign, Clients

-----------------------------------------------------------------------------
(* The socket is told.                                                     *)

LEMMA SendEffect ==
  ASSUME NEW c \in Clients, NEW f \in Messages(Requests)
  PROVE  LET d == Send(c, f)
         IN  /\ d \in Clients /\ SameSubs(c, d) /\ SameTables(c, d)
             /\ d.socket = c.socket /\ d.ready = c.ready /\ d.stack = c.stack
             /\ d.terminal = c.terminal
             /\ d.link.down = c.link.down /\ d.link.served = c.link.served
             /\ c.socket # "open" => d.link = c.link
             /\ c.socket = "open" => d.link.up = Append(c.link.up, f)
<1>1. CASE c.socket = "open"
  <2>1. c.link \in Links /\ Append(c.link.up, f) \in Seq(Messages(Requests))
    BY ClientFields, LinkFields, AppendProperties
  <2> DEFINE l == [c.link EXCEPT !.up = Append(@, f)]
  <2>2. l \in Links /\ l.up = Append(c.link.up, f) /\ l.down = c.link.down
        /\ l.served = c.link.served
    BY <2>1 DEF Links
  <2>3. Send(c, f) = [c EXCEPT !.link = l]
    BY <1>1 DEF Send
  <2> HIDE DEF l
  <2>4. [c EXCEPT !.link = l] \in Clients /\ [c EXCEPT !.link = l].link = l
    BY <2>2 DEF Clients
  <2>5. LET d == [c EXCEPT !.link = l]
        IN  /\ SameSubs(c, d) /\ SameTables(c, d) /\ d.socket = c.socket
            /\ d.ready = c.ready /\ d.stack = c.stack /\ d.terminal = c.terminal
    BY DEF Clients, SameSubs, SameTables
  <2> QED
    BY <1>1, <2>2, <2>3, <2>4, <2>5
<1>2. CASE c.socket # "open"
  BY <1>2 DEF Send, SameSubs, SameTables
<1> QED
  BY <1>1, <1>2

LEMMA UnrouteEffect ==
  ASSUME NEW c \in Clients, NEW s \in Subs
  PROVE  LET e == Unroute(c, s)
             m == c.sub[s]
         IN  /\ e \in Clients /\ SameSubs(c, e) /\ SameWire(c, e) /\ e.stack = c.stack
             /\ e.requestId = c.requestId /\ e.detaching = c.detaching
             /\ e.pendingRequests = Without(c.pendingRequests, m.request)
             /\ e.liveSubscriptions = Without(c.liveSubscriptions, m.liveId)
             /\ e.targets = c.targets \ {m.liveId} /\ e.delivering = c.delivering \ {m.liveId}
<1> DEFINE m == c.sub[s]
           p == Without(c.pendingRequests, m.request)
           q == Without(c.liveSubscriptions, m.liveId)
<1>1. /\ c.pendingRequests \in Tables /\ c.liveSubscriptions \in Tables
      /\ m.liveId \in Nat /\ m.request \in Nat
  BY ClientFields, SubFields
<1>2. p \in Tables
  BY <1>1, OwnerFacts
<1>3. q \in Tables
  BY <1>1, OwnerFacts
<1> QED
  BY <1>2, <1>3 DEF Unroute, Clients, SameSubs, SameWire

\* The active subscriptions once s has left the wire.
Stays(c, s, A) == A \in {c.active, c.active \ {s}}

LEMMA UnrouteLeaves ==
  ASSUME NEW c, NEW g, NEW s \in Subs, Core(c, g), NEW n, Released(c.sub[s], n),
         NEW A, Stays(c, s, A)
  PROVE  LET d == Assign(Unroute(c, s), s, n, A)
         IN  d \in Clients /\ Leaves(c, d, s) /\ d.sub[s] = n /\ d.active = A
<1> DEFINE m == c.sub[s]
           e == Unroute(c, s)
           d == Assign(e, s, n, A)
<1>1. /\ c \in Clients /\ m \in SubType /\ n \in SubType /\ A \in SUBSET Subs
      /\ m.liveId \in Nat /\ m.request \in Nat
  BY ClientFields, SubFields DEF Core, Released, Stays
<1>2. /\ e \in Clients /\ SameSubs(c, e) /\ SameWire(c, e) /\ e.stack = c.stack
      /\ e.requestId = c.requestId /\ e.detaching = c.detaching
      /\ e.pendingRequests = Without(c.pendingRequests, m.request)
      /\ e.liveSubscriptions = Without(c.liveSubscriptions, m.liveId)
      /\ e.targets = c.targets \ {m.liveId} /\ e.delivering = c.delivering \ {m.liveId}
  BY <1>1, UnrouteEffect
<1> HIDE DEF e
<1>3. /\ d \in Clients /\ Same(e, d) /\ d.managed = e.managed /\ d.disposed = e.disposed
      /\ d.active = A /\ d.sub[s] = n /\ \A t \in Subs : t # s => d.sub[t] = e.sub[t]
  BY <1>1, <1>2, AssignEffect
<1> SUFFICES d \in Clients /\ Leaves(c, d, s) /\ d.sub[s] = n /\ d.active = A
  BY DEF e
<1> HIDE DEF d
<1>4. /\ \A r \in Nat, t \in Subs : Pending(d, r, t) <=> Pending(c, r, t) /\ r # m.request
      /\ \A l \in Nat, t \in Subs : Live(d, l, t) <=> Live(c, l, t) /\ l # m.liveId
  <2>1. /\ d.pendingRequests = Without(c.pendingRequests, m.request)
        /\ d.liveSubscriptions = Without(c.liveSubscriptions, m.liveId)
    BY <1>2, <1>3 DEF Same, SameTables
  <2> HIDE DEF m
  <2>2. \A r \in Nat : \A t : Pending(d, r, t) <=> Pending(c, r, t) /\ r # m.request
    BY <1>1, <2>1, PendingWithout
  <2>3. \A l \in Nat : \A t : Live(d, l, t) <=> Live(c, l, t) /\ l # m.liveId
    BY <1>1, <2>1, LiveWithout
  <2> QED
    BY <2>2, <2>3
<1>5. \A r \in Nat, t \in Subs : Pending(d, r, t) => Pending(c, r, t) /\ (t = s => Ended(n))
  <2> SUFFICES ASSUME NEW r \in Nat, Pending(d, r, s)
               PROVE  Ended(n)
    BY <1>4
  <2>1. Ended(m)
    BY <1>4 DEF Core, TablesSound
  <2> QED
    BY <2>1 DEF Ended, Released
<1>6. /\ d.sub[s] = n /\ \A t \in Subs : t # s => d.sub[t] = c.sub[t]
      /\ d.active \in {c.active, c.active \ {s}} /\ d.managed = c.managed
      /\ d.disposed = c.disposed /\ d.requestId = c.requestId
      /\ d.detaching = c.detaching /\ SameWire(c, d) /\ d.stack = c.stack
      /\ d.targets = c.targets \ {m.liveId} /\ d.delivering = c.delivering \ {m.liveId}
  BY <1>2, <1>3 DEF Same, SameTables, SameWire, SameSubs, Stays
<1>7. d.delivering \subseteq d.targets /\ \A l \in d.targets : l <= d.requestId
  BY <1>6 DEF Core, DeliveringIsLive, IdsFresh
<1>8. Unsubscribes(c, d)
  BY <1>6 DEF Unsubscribes, SameWire
<1> QED
  BY <1>3, <1>4, <1>5, <1>6, <1>7, <1>8 DEF Leaves, SameWire

LEMMA DetachEffect ==
  ASSUME NEW c \in Clients, NEW s \in Subs
  PROVE  LET d == Detach(c, s)
             l == c.sub[s].liveId
         IN  /\ d \in Clients /\ SameSubs(c, d) /\ d.socket = c.socket /\ d.ready = c.ready
             /\ d.stack = c.stack /\ d.requestId = c.requestId /\ d.terminal = c.terminal
             /\ d.pendingRequests = c.pendingRequests /\ d.targets = c.targets
             /\ l = 0 => d = c
             /\ l # 0 =>
                  /\ d.delivering = c.delivering \ {l}
                  /\ d.detaching = c.detaching \cup {l}
                  /\ d.liveSubscriptions = Without(c.liveSubscriptions, l)
                  /\ d.link.down = c.link.down /\ d.link.served = c.link.served
                  /\ c.socket # "open" => d.link = c.link
                  /\ c.socket = "open" =>
                       d.link.up = Append(c.link.up, Frame("unsubscribe", l, s, 0))
<1> DEFINE l == c.sub[s].liveId
           e == [c EXCEPT !.delivering = @ \ {l}, !.liveSubscriptions = Without(@, l),
                          !.detaching = @ \cup {l}]
           f == Frame("unsubscribe", l, s, 0)
           d == Detach(c, s)
<1>1. CASE l = 0
  BY <1>1 DEF Detach, SameSubs
<1>2. CASE l # 0
  <2>1. d = Send(e, f)
    BY <1>2 DEF Detach
  <2>2. l \in Nat /\ Without(c.liveSubscriptions, l) \in Tables
    <3>1. l \in Nat /\ c.liveSubscriptions \in Tables
      BY ClientFields, SubFields
    <3> QED
      BY <3>1, OwnerFacts
  <2>3. f \in Messages(Requests) 
    BY <2>2, Bounds DEF Messages, Requests, Frame
  <2>4. /\ e \in Clients /\ SameSubs(c, e) /\ SameWire(c, e) /\ e.stack = c.stack
        /\ e.requestId = c.requestId /\ e.pendingRequests = c.pendingRequests
        /\ e.targets = c.targets /\ e.delivering = c.delivering \ {l}
        /\ e.detaching = c.detaching \cup {l}
        /\ e.liveSubscriptions = Without(c.liveSubscriptions, l)
    BY <2>2 DEF Clients, SameSubs, SameWire
  <2> HIDE DEF e, f
  <2>5. LET x == Send(e, f)
        IN  /\ x \in Clients /\ SameSubs(e, x) /\ SameTables(e, x)
            /\ x.socket = e.socket /\ x.ready = e.ready /\ x.stack = e.stack
            /\ x.terminal = e.terminal
            /\ x.link.down = e.link.down /\ x.link.served = e.link.served
            /\ e.socket # "open" => x.link = e.link
            /\ e.socket = "open" => x.link.up = Append(e.link.up, f)
    BY <2>3, <2>4, SendEffect
  <2> QED
    BY <1>2, <2>1, <2>4, <2>5 DEF SameSubs, SameTables, SameWire, f
<1> QED
  BY <1>1, <1>2

\* Detach() takes a subscription that has ended off the wire.
LEMMA DetachLeaves ==
  ASSUME NEW c, NEW g, NEW s \in Subs, Core(c, g), NEW e \in Clients, NEW d \in Clients,
         \* from c to the state in which detach() is called,
         e.sub[s].liveId = c.sub[s].liveId, SameWire(c, e), e.stack = c.stack,
         e.pendingRequests = c.pendingRequests, e.liveSubscriptions = c.liveSubscriptions,
         e.detaching = c.detaching, e.targets = c.targets, e.requestId = c.requestId,
         e.delivering \in {c.delivering, c.delivering \ {c.sub[s].liveId}},
         \* and from there to d.
         Same(Detach(e, s), d),
         \A t \in Subs : t # s => d.sub[t] = c.sub[t],
         Released(c.sub[s], d.sub[s]), Ended(d.sub[s]), d.active = c.active \ {s},
         d.managed = c.managed \/ (d.managed = c.managed \ {s} /\ d.sub[s].status = "closed"),
         d.disposed = c.disposed
  PROVE  /\ Leaves(c, d, s)
         /\ \A l \in c.link.served : l # 0 /\ l = c.sub[s].liveId => Accounted(d, l)
<1> DEFINE m == c.sub[s]
           x == Detach(e, s)
<1>1. c \in Clients /\ m \in SubType /\ m.liveId \in Nat
  BY ClientFields, SubFields DEF Core
<1>2. /\ x \in Clients /\ SameSubs(e, x) /\ x.socket = e.socket /\ x.ready = e.ready
      /\ x.stack = e.stack /\ x.requestId = e.requestId /\ x.terminal = e.terminal
      /\ x.pendingRequests = e.pendingRequests /\ x.targets = e.targets
      /\ m.liveId = 0 => x = e
      /\ m.liveId # 0 =>
           /\ x.delivering = e.delivering \ {m.liveId}
           /\ x.detaching = e.detaching \cup {m.liveId}
           /\ x.liveSubscriptions = Without(e.liveSubscriptions, m.liveId)
           /\ x.link.down = e.link.down /\ x.link.served = e.link.served
           /\ e.socket # "open" => x.link = e.link
           /\ e.socket = "open" =>
                x.link.up = Append(e.link.up, Frame("unsubscribe", m.liveId, s, 0))
  BY DetachEffect
<1> HIDE DEF x
<1>3. Same(x, d)
  BY DEF x
<1>4. /\ TablesSound(c) /\ IdsFresh(c) /\ DeliveringIsLive(c)
      /\ c.socket # "open" => c.link = NoLink
  BY DEF Core, WireSound
<1>5. \A l \in Nat, t \in Subs : Live(c, l, t) => l # 0
  BY <1>4 DEF TablesSound
<1>6. \A l \in Nat, t \in Subs : Live(d, l, t) <=> Live(c, l, t) /\ l # m.liveId
  <2>1. CASE m.liveId = 0
    <3>1. d.liveSubscriptions = c.liveSubscriptions
      BY <1>2, <1>3, <2>1 DEF Same, SameTables
    <3> QED
      BY <1>5, <2>1, <3>1 DEF Live
  <2>2. CASE m.liveId # 0
    <3>1. d.liveSubscriptions = Without(c.liveSubscriptions, m.liveId)
      BY <1>2, <1>3, <2>2 DEF Same, SameTables
    <3> QED
      BY <1>1, <3>1, LiveWithout
  <2> QED
    BY <2>1, <2>2
<1>7. \A r, t : Pending(d, r, t) <=> Pending(c, r, t)
  BY <1>2, <1>3 DEF Pending, Same, SameTables
<1>8. \A l \in Nat : l \in d.delivering <=> l \in c.delivering /\ l # m.liveId
  <2>1. 0 \notin c.delivering
    BY <1>4, <1>5 DEF DeliveringIsLive
  <2> QED
    BY <1>2, <1>3, <2>1 DEF Same, SameTables
<1>9. d.delivering \subseteq d.targets /\ \A l \in d.targets : l <= d.requestId
  <2>1. d.delivering \subseteq c.delivering /\ d.targets = c.targets /\ d.requestId = c.requestId
    BY <1>2, <1>3 DEF Same, SameTables
  <2>2. m.liveId \notin d.delivering
    BY <1>1, <1>8
  <2> QED
    BY <1>4, <2>1 DEF DeliveringIsLive, IdsFresh
<1>10. \A l \in d.detaching : l \in c.detaching \/
         /\ l <= d.requestId
         /\ \A t \in Subs : ~Pending(d, l, t) /\ ~Live(d, l, t)
  <2>1. d.detaching \subseteq c.detaching \cup {m.liveId} /\ d.requestId = c.requestId
    BY <1>2, <1>3 DEF Same, SameTables
  <2>2. m.liveId <= c.requestId
    BY <1>4 DEF IdsFresh
  <2>3. \A t \in Subs : ~Pending(d, m.liveId, t) /\ ~Live(d, m.liveId, t)
    BY <1>1, <1>4, <1>6, <1>7 DEF TablesSound
  <2> QED
    BY <2>1, <2>2, <2>3
<1>11. Unsubscribes(c, d) /\ \A l \in c.link.served : l # 0 /\ l = m.liveId => Accounted(d, l)
  <2>1. c.link \in Links /\ c.link.up \in Seq(Messages(Requests))
    BY <1>1, ClientFields, LinkFields
  <2>2. d.link = x.link /\ e.link = c.link /\ e.socket = c.socket
    BY <1>3 DEF Same, SameWire
  <2>3. CASE m.liveId = 0
    <3>1. d.link = c.link
      BY <1>2, <2>2, <2>3
    <3> QED
      BY <2>3, <3>1 DEF Unsubscribes
  <2>4. CASE m.liveId # 0 /\ c.socket # "open"
    <3>1. d.link = c.link /\ c.link.served = {}
      BY <1>2, <1>4, <2>2, <2>4 DEF NoLink
    <3> QED
      BY <3>1 DEF Unsubscribes
  <2>5. CASE m.liveId # 0 /\ c.socket = "open"
    <3> DEFINE f == Frame("unsubscribe", m.liveId, s, 0)
    <3>1. f \in Messages(Requests) /\ f.type = "unsubscribe" /\ f.id = m.liveId
      BY <1>1, Bounds DEF Messages, Requests, Frame
    <3>2. d.link.up = Append(c.link.up, f) /\ d.link.down = c.link.down
          /\ d.link.served = c.link.served
      BY <1>2, <2>2, <2>5
    <3> HIDE DEF f
    <3>3. /\ Len(c.link.up) + 1 \in DOMAIN d.link.up /\ d.link.up[Len(c.link.up) + 1] = f
          /\ \A i \in DOMAIN c.link.up : i \in DOMAIN d.link.up /\ d.link.up[i] = c.link.up[i]
          /\ \A i \in DOMAIN d.link.up : i \in DOMAIN c.link.up \/ i = Len(c.link.up) + 1
      BY <2>1, <3>1, <3>2, AppendIndex
    <3>4. f.id <= c.requestId
      BY <1>4, <3>1 DEF IdsFresh
    <3> QED
      BY <2>5, <3>1, <3>2, <3>3, <3>4 DEF Unsubscribes, Accounted, Up
  <2> QED
    BY <2>3, <2>4, <2>5
<1>12. /\ d.requestId = c.requestId /\ d.socket = c.socket /\ d.ready = c.ready
       /\ d.stack = c.stack /\ d.terminal = c.terminal
  BY <1>2, <1>3 DEF Same, SameTables, SameWire
<1> QED
  BY <1>6, <1>7, <1>8, <1>9, <1>10, <1>11, <1>12 DEF Leaves

-----------------------------------------------------------------------------
(* How a subscription is released.                                         *)

LEMMA ReleasedFailed ==
  ASSUME NEW m \in SubType, SubSound(m), m.state # "new"
  PROVE  LET n == RejectRenewals(ResetWire([m EXCEPT !.recovery = "idle", !.state = "failed"]))
         IN  Released(m, n) /\ n.state = "failed" /\ n.liveId = 0 /\ n.request = 0
<1> DEFINE a == [m EXCEPT !.recovery = "idle", !.state = "failed"]
           b == ResetWire(a)
           n == RejectRenewals(b)
<1>1. /\ a \in SubType /\ a.state = "failed" /\ a.query = m.query /\ a.status = m.status
      /\ a.prior = m.prior /\ a.answers = m.answers /\ a.renewing = m.renewing
      /\ a.queued = m.queued
  BY DEF SubType
<1>2. RenewalsSound(a)
  BY <1>1, RenewalsSame DEF SubSound
<1> HIDE DEF a
<1>3. /\ b \in SubType /\ SameBut(a, b) /\ b.answers = a.answers
      /\ b.request = 0 /\ b.liveId = 0 /\ RenewalsSound(b)
  BY <1>1, <1>2, ResetWireEffect, ResetSound
<1> HIDE DEF b
<1>4. n \in SubType /\ SameBut(b, n) /\ SameWireIds(b, n)
  BY <1>3, RejectRenewalsEffect
<1>5. /\ RenewalsSound(n)
      /\ \A k \in Capabilities : n.answers[k] # "pending"
      /\ \A k \in Capabilities : n.answers[k] = "resolved" => b.answers[k] = "resolved"
      /\ \A k \in Capabilities : n.answers[k] = "none" <=> b.answers[k] = "none"
  BY <1>3, RejectedSound
<1> HIDE DEF n
<1>6. Released(m, n) /\ n.state = "failed" /\ n.liveId = 0 /\ n.request = 0
  BY <1>1, <1>3, <1>4, <1>5 DEF Released, SameBut, SameWireIds
<1> QED
  BY <1>6 DEF n, b, a

LEMMA ReleasedReset ==
  ASSUME NEW m \in SubType, SubSound(m), m.state # "new",
         NEW a \in SubType, SameBut(m, a), a.answers = m.answers, a.renewing = m.renewing,
         a.queued = m.queued
  PROVE  LET n == ResetWire(a)
         IN  /\ Released(m, n) /\ n.state = m.state /\ n.status = m.status
             /\ n.liveId = 0 /\ n.request = 0
<1> DEFINE n == ResetWire(a)
<1>1. RenewalsSound(a)
  BY RenewalsSame DEF SubSound, SameBut
<1>2. /\ n \in SubType /\ SameBut(a, n) /\ n.answers = a.answers
      /\ n.request = 0 /\ n.liveId = 0 /\ RenewalsSound(n)
  BY <1>1, ResetWireEffect, ResetSound
<1> HIDE DEF n
<1>3. Released(m, n) /\ n.state = m.state /\ n.status = m.status
  BY <1>2 DEF Released, SameBut, SubSound
<1> QED
  BY <1>2, <1>3 DEF n

LEMMA ReleasedClosed ==
  ASSUME NEW m \in SubType, SubSound(m), m.state # "new"
  PROVE  LET n == RejectRenewals([m EXCEPT !.recovery = "idle", !.state = "closed",
                                           !.status = "closed"])
         IN  /\ Released(m, n) /\ n.state = "closed" /\ n.status = "closed"
             /\ n.liveId = m.liveId
<1> DEFINE a == [m EXCEPT !.recovery = "idle", !.state = "closed", !.status = "closed"]
           n == RejectRenewals(a)
<1>1. /\ a \in SubType /\ a.state = "closed" /\ a.query = m.query /\ a.status = "closed"
      /\ a.prior = m.prior /\ a.answers = m.answers /\ a.renewing = m.renewing
      /\ a.queued = m.queued /\ a.request = m.request /\ a.liveId = m.liveId
  BY DEF SubType, Statuses
<1>2. RenewalsSound(a)
  BY <1>1, RenewalsSame DEF SubSound
<1> HIDE DEF a
<1>3. n \in SubType /\ SameBut(a, n) /\ SameWireIds(a, n)
  BY <1>1, RejectRenewalsEffect
<1>4. /\ RenewalsSound(n)
      /\ \A k \in Capabilities : n.answers[k] # "pending"
      /\ \A k \in Capabilities : n.answers[k] = "resolved" => a.answers[k] = "resolved"
      /\ \A k \in Capabilities : n.answers[k] = "none" <=> a.answers[k] = "none"
  BY <1>1, <1>2, RejectedSound
<1> HIDE DEF n
<1>5. /\ Released(m, n) /\ n.state = "closed" /\ n.status = "closed" /\ n.liveId = m.liveId
  BY <1>1, <1>3, <1>4 DEF Released, SameBut, SameWireIds
<1> QED
  BY <1>5 DEF n, a

-----------------------------------------------------------------------------
(* Short sequences of items.                                               *)

One(w)    == <<w>>
Two(w, v) == <<w, v>>

LEMMA ShortSequences ==
  /\ \A w \in Items : One(w) \in Seq(Items) /\ DOMAIN One(w) = {1} /\ One(w)[1] = w
                      /\ Len(One(w)) = 1
  /\ \A w, v \in Items : /\ Two(w, v) \in Seq(Items) /\ DOMAIN Two(w, v) = {1, 2}
                         /\ Two(w, v)[1] = w /\ Two(w, v)[2] = v /\ Len(Two(w, v)) = 2
<1>1. ASSUME NEW w \in Items
      PROVE  One(w) \in Seq(Items) /\ DOMAIN One(w) = {1} /\ One(w)[1] = w /\ Len(One(w)) = 1
  <2>1. DOMAIN <<w>> = 1..1
    OBVIOUS
  <2>2. 1..1 = {1}
    OBVIOUS
  <2>3. <<w>> \in Seq(Items) /\ <<w>>[1] = w /\ Len(<<w>>) = 1
    OBVIOUS
  <2> QED
    BY <2>1, <2>2, <2>3 DEF One
<1>2. ASSUME NEW w \in Items, NEW v \in Items
      PROVE  /\ Two(w, v) \in Seq(Items) /\ DOMAIN Two(w, v) = {1, 2}
             /\ Two(w, v)[1] = w /\ Two(w, v)[2] = v /\ Len(Two(w, v)) = 2
  <2>1. DOMAIN <<w, v>> = 1..2
    OBVIOUS
  <2>2. 1..2 = {1, 2}
    OBVIOUS
  <2>3. <<w, v>> \in Seq(Items) /\ <<w, v>>[1] = w /\ <<w, v>>[2] = v /\ Len(<<w, v>>) = 2
    OBVIOUS
  <2> QED
    BY <2>1, <2>2, <2>3 DEF Two
<1> QED
  BY <1>1, <1>2

\* A listener hears that the subscription is not live.
LEMMA PushCorrecting ==
  ASSUME NEW c, NEW g, NEW X, NEW Y, NEW s \in Subs, X \in {Nobody, {s}},
         Sound(c, g, X, Y), c.sub[s].state # "new",
         c.sub[s].state = "active" => s \in c.active \/ c.disposed,
         NEW items \in Seq(Items), 1 \in DOMAIN items,
         items[1].do \in {"connecting", "unavailable", "failed"},
         \A i \in DOMAIN items : items[i].do \in Plain /\ items[i].sub = {s}
  PROVE  Sound(Push(c, items), g, Nobody, Y)
<1>1. Core(c, g)
  BY DEF Sound
<1>2. Core(Push(c, items), g)
  BY <1>1, PushPlain
<1>3. \A t \in X \cap Subs : t = s
  BY DEF Nobody
<1>4. Corrects(c, items[1], s)
  BY DEF Corrects
<1> QED
  BY <1>2, <1>3, <1>4, PushSound

LEMMA TerminateSubscriptionSound ==
  ASSUME NEW c, NEW g, NEW X, NEW Y, NEW s \in Subs, X \in {Nobody, {s}},
         Sound(c, g, X, Y), c.sub[s].state # "new",
         \A i \in DOMAIN c.stack : c.stack[i].do = "live" /\ s \in c.stack[i].sub =>
           c.sub[s].status = "closed",
         Terminating(c) \/ c.sub[s].liveId = 0 \/ c.sub[s].liveId \notin c.link.served
  PROVE  Sound(TerminateSubscription(c, s), g, Nobody, Y)
<1> DEFINE e == Unroute(c, s)
           A == c.active \ {s}
           n == RejectRenewals(ResetWire([c.sub[s] EXCEPT !.recovery = "idle", !.state = "failed"]))
           d == Assign(e, s, n, A)
           items == One(Item("failed", s))
<1>1. Core(c, g) /\ c \in Clients /\ c.sub[s] \in SubType /\ SubSound(c.sub[s])
  BY ClientFields DEF Sound, Core, SubsSound
<1>2. Released(c.sub[s], n) /\ n.state = "failed" /\ n.liveId = 0 /\ n.request = 0
  BY <1>1, ReleasedFailed
<1>3. e.sub = c.sub /\ e.active = c.active
  BY <1>1 DEF Unroute, Clients
<1>4. TerminateSubscription(c, s) = Push(d, items)
  BY <1>3 DEF TerminateSubscription, Assign, One
<1> HIDE DEF n, e
<1>5. d \in Clients /\ Leaves(c, d, s) /\ d.sub[s] = n
  <2>1. Stays(c, s, A)
    BY DEF Stays
  <2> HIDE DEF A
  <2> QED
    BY <1>1, <1>2, <2>1, UnrouteLeaves DEF e
<1> HIDE DEF d
<1>7. Sound(d, g, X \cup {s}, Y)
  <2>1. \A i \in DOMAIN c.stack : c.stack[i].do = "live" /\ s \in c.stack[i].sub =>
          d.sub[s].status = "closed"
    BY <1>5 DEF Leaves, Released
  <2>2. Terminating(c) \/ \A l \in c.link.served \ Y :
          l \in Y \/ (l # 0 /\ l = c.sub[s].liveId) => Accounted(d, l)
    OBVIOUS
  <2> QED
    BY <1>5, <2>1, <2>2, LeavesSound
<1>8. Sound(d, g, {s}, Y)
  <2>1. X \cup {s} = {s}
    BY DEF Nobody
  <2> QED
    BY <1>7, <2>1
<1>9. /\ items \in Seq(Items) /\ 1 \in DOMAIN items
      /\ items[1].do \in {"connecting", "unavailable", "failed"}
      /\ \A i \in DOMAIN items : items[i].do \in Plain /\ items[i].sub = {s}
  <2>1. Item("failed", s) \in Items /\ Item("failed", s).do = "failed"
        /\ Item("failed", s).sub = {s}
    BY ItemType DEF Works
  <2>2. items \in Seq(Items) /\ DOMAIN items = {1} /\ items[1] = Item("failed", s)
    BY <2>1, ShortSequences
  <2> HIDE DEF items
  <2> QED
    BY <2>1, <2>2 DEF Plain
<1> HIDE DEF items
<1>10. d.sub[s].state = "failed"
  BY <1>2, <1>5
<1> DEFINE W == {s}
<1>11. W \in {Nobody, {s}} /\ Sound(d, g, W, Y)
  BY <1>8
<1> HIDE DEF W
<1>12. Sound(Push(d, items), g, Nobody, Y)
  BY <1>9, <1>10, <1>11, PushCorrecting
<1> QED
  BY <1>4, <1>12

LEMMA TwoCorrecting ==
  ASSUME NEW s \in Subs, NEW do \in {"connecting", "unavailable", "failed"}, NEW next \in Plain
  PROVE  LET items == Two(Item(do, s), Item(next, s))
         IN  /\ items \in Seq(Items) /\ 1 \in DOMAIN items
             /\ items[1].do \in {"connecting", "unavailable", "failed"}
             /\ \A i \in DOMAIN items : items[i].do \in Plain /\ items[i].sub = {s}
<1> DEFINE items == Two(Item(do, s), Item(next, s))
<1>1. /\ Item(do, s) \in Items /\ Item(do, s).do = do /\ Item(do, s).sub = {s}
      /\ Item(next, s) \in Items /\ Item(next, s).do = next /\ Item(next, s).sub = {s}
  BY ItemType DEF Works, Plain
<1>2. items \in Seq(Items) /\ DOMAIN items = {1, 2} /\ items[1] = Item(do, s)
      /\ items[2] = Item(next, s)
  BY <1>1, ShortSequences
<1> HIDE DEF items
<1>3. /\ items \in Seq(Items) /\ 1 \in DOMAIN items
      /\ items[1].do \in {"connecting", "unavailable", "failed"}
      /\ \A i \in DOMAIN items : items[i].do \in Plain /\ items[i].sub = {s}
  BY <1>1, <1>2 DEF Plain
<1> QED
  BY <1>3 DEF items

LEMMA OneCorrecting ==
  ASSUME NEW s \in Subs, NEW do \in {"connecting", "unavailable", "failed"}
  PROVE  LET items == One(Item(do, s))
         IN  /\ items \in Seq(Items) /\ 1 \in DOMAIN items
             /\ items[1].do \in {"connecting", "unavailable", "failed"}
             /\ \A i \in DOMAIN items : items[i].do \in Plain /\ items[i].sub = {s}
<1> DEFINE items == One(Item(do, s))
<1>1. Item(do, s) \in Items /\ Item(do, s).do = do /\ Item(do, s).sub = {s}
  BY ItemType DEF Works
<1>2. items \in Seq(Items) /\ DOMAIN items = {1} /\ items[1] = Item(do, s)
  BY <1>1, ShortSequences
<1> HIDE DEF items
<1>3. /\ items \in Seq(Items) /\ 1 \in DOMAIN items
      /\ items[1].do \in {"connecting", "unavailable", "failed"}
      /\ \A i \in DOMAIN items : items[i].do \in Plain /\ items[i].sub = {s}
  BY <1>1, <1>2 DEF Plain
<1> QED
  BY <1>3 DEF items

LEMMA OneSubscription ==
  ASSUME NEW s \in Subs
  PROVE  Nobody \cup {s} = {s}
BY DEF Nobody

LEMMA FailLocalSound ==
  ASSUME NEW c, NEW g, NEW Y, NEW s \in Subs, Sound(c, g, Nobody, Y),
         c.sub[s].state # "new", ~Ended(c.sub[s]),
         \A i \in DOMAIN c.stack : c.stack[i].do = "live" /\ s \in c.stack[i].sub =>
           c.sub[s].status = "closed",
         \A l \in c.link.served : l \in Y => Accounted(c, l) /\ l # c.sub[s].liveId,
         NEW e \in Clients, SameSubs(c, e), SameWire(c, e), e.stack = c.stack,
         e.pendingRequests = c.pendingRequests, e.liveSubscriptions = c.liveSubscriptions,
         e.detaching = c.detaching, e.targets = c.targets, e.requestId = c.requestId,
         e.delivering \in {c.delivering, c.delivering \ {c.sub[s].liveId}}
  PROVE  Sound(FailLocal(e, s), g, Nobody, Y)
<1> DEFINE a == [e EXCEPT !.active = @ \ {s}]
           x == Detach(a, s)
           n == RejectRenewals(ResetWire([c.sub[s] EXCEPT !.recovery = "idle", !.state = "failed"]))
           d == Assign(x, s, n, x.active)
           items == Two(Item("failed", s), Item("idle", s))
<1>1. Core(c, g) /\ c \in Clients /\ c.sub[s] \in SubType /\ SubSound(c.sub[s])
  BY ClientFields DEF Sound, Core, SubsSound
<1>2. Released(c.sub[s], n) /\ n.state = "failed" /\ n.liveId = 0 /\ n.request = 0
  BY <1>1, ReleasedFailed
<1>3. /\ a \in Clients /\ a.sub = c.sub /\ a.active = c.active \ {s} /\ a.managed = c.managed
      /\ a.disposed = c.disposed /\ SameTables(e, a) /\ SameWire(e, a) /\ a.stack = e.stack
  BY DEF Clients, SameTables, SameWire, SameSubs
<1> HIDE DEF a
<1>4. /\ x \in Clients /\ SameSubs(a, x)
  BY <1>3, DetachEffect
<1> HIDE DEF x
<1>5. n \in SubType /\ x.active \in SUBSET Subs
  BY <1>2, <1>4, ClientFields DEF Released
<1> HIDE DEF n
<1>6. /\ d \in Clients /\ Same(x, d) /\ d.managed = x.managed /\ d.disposed = x.disposed
      /\ d.active = x.active /\ d.sub[s] = n /\ \A t \in Subs : t # s => d.sub[t] = x.sub[t]
  BY <1>4, <1>5, AssignEffect
<1>7. FailLocal(e, s) = Push(d, items)
  <2>1. e.sub[s].state \notin {"failed", "closed"}
    BY DEF Ended, SameSubs
  <2>2. x.sub[s] = c.sub[s]
    BY <1>3, <1>4 DEF SameSubs
  <2>3. [x EXCEPT !.sub[s] = n] = d
    BY <1>4 DEF Assign, Clients
  <2>4. FailLocal(e, s) = Push([x EXCEPT !.sub[s] = n], items)
    BY <2>1, <2>2 DEF FailLocal, x, a, n, Two
  <2> QED
    BY <2>3, <2>4
<1> HIDE DEF d
<1>8. /\ a.sub[s].liveId = c.sub[s].liveId /\ SameWire(c, a) /\ a.stack = c.stack
      /\ a.pendingRequests = c.pendingRequests /\ a.liveSubscriptions = c.liveSubscriptions
      /\ a.detaching = c.detaching /\ a.targets = c.targets /\ a.requestId = c.requestId
      /\ a.delivering \in {c.delivering, c.delivering \ {c.sub[s].liveId}}
  BY <1>3 DEF SameWire, SameTables
<1>9. /\ \A t \in Subs : t # s => d.sub[t] = c.sub[t]
      /\ Released(c.sub[s], d.sub[s]) /\ Ended(d.sub[s]) /\ d.active = c.active \ {s}
      /\ d.managed = c.managed /\ d.disposed = c.disposed
  BY <1>2, <1>3, <1>4, <1>6 DEF SameSubs, Ended
<1>10. Same(Detach(a, s), d)
  BY <1>6 DEF x
<1>11. /\ Leaves(c, d, s)
       /\ \A l \in c.link.served : l # 0 /\ l = c.sub[s].liveId => Accounted(d, l)
  BY <1>1, <1>3, <1>6, <1>8, <1>9, <1>10, DetachLeaves
<1>12. Sound(d, g, {s}, Y)
  <2>1. \A i \in DOMAIN c.stack : c.stack[i].do = "live" /\ s \in c.stack[i].sub =>
          d.sub[s].status = "closed"
    BY <1>9 DEF Released
  <2>2. Terminating(c) \/ \A l \in c.link.served \ Y :
          l \in Y \/ (l # 0 /\ l = c.sub[s].liveId) => Accounted(d, l)
    BY <1>11
  <2>3. Sound(d, g, Nobody \cup {s}, Y)
    BY <1>6, <1>11, <2>1, <2>2, LeavesSound
  <2> QED
    BY <2>3, OneSubscription
<1>13. /\ items \in Seq(Items) /\ 1 \in DOMAIN items
       /\ items[1].do \in {"connecting", "unavailable", "failed"}
       /\ \A i \in DOMAIN items : items[i].do \in Plain /\ items[i].sub = {s}
  BY TwoCorrecting DEF Plain
<1> HIDE DEF items
<1> DEFINE W == {s}
<1>14. W \in {Nobody, {s}} /\ Sound(d, g, W, Y)
  BY <1>12
<1> HIDE DEF W
<1>15. d.sub[s].state = "failed"
  BY <1>2, <1>6
<1>16. Sound(Push(d, items), g, Nobody, Y)
  BY <1>13, <1>14, <1>15, PushCorrecting
<1> QED
  BY <1>7, <1>16

LEMMA RetrySound ==
  ASSUME NEW c, NEW g, NEW X, NEW Y, NEW s \in Subs, NEW exhausted \in BOOLEAN,
         X \in {Nobody, {s}}, Sound(c, g, X, Y), c.sub[s].state # "new",
         c.sub[s].state = "active" => s \in c.active \/ c.disposed,
         \A i \in DOMAIN c.stack : c.stack[i].do = "live" /\ s \in c.stack[i].sub =>
           c.sub[s].status = "closed",
         Terminating(c) \/ c.sub[s].liveId = 0 \/ c.sub[s].liveId \notin c.link.served
  PROVE  Sound(Retry(c, s, exhausted), g, Nobody, Y)
<1>a. CASE exhausted
  BY <1>a, TerminateSubscriptionSound DEF Retry
<1>b. CASE ~exhausted
  <2> DEFINE e == Unroute(c, s)
             m == [c.sub[s] EXCEPT !.recovery = "waiting"]
             n == ResetWire(m)
             A == c.active
             d == Assign(e, s, n, A)
             items == One(Item("connecting", s))
  <2>1. Core(c, g) /\ c \in Clients /\ c.sub[s] \in SubType /\ SubSound(c.sub[s])
    BY ClientFields DEF Sound, Core, SubsSound
  <2>c. m \in SubType /\ SameBut(c.sub[s], m) /\ m.answers = c.sub[s].answers
        /\ m.renewing = c.sub[s].renewing /\ m.queued = c.sub[s].queued
    BY <2>1 DEF SubType, SameBut
  <2>3. e.sub = c.sub /\ e.active = c.active /\ e \in Clients
    BY <2>1, UnrouteEffect DEF SameSubs
  <2>4. Retry(c, s, exhausted) = Push(d, items)
    <3>1. [e EXCEPT !.sub[s] = n] = d
      BY <2>3 DEF Assign, Clients
    <3>2. Retry(c, s, exhausted) = Push([e EXCEPT !.sub[s] = n], items)
      BY <1>b, <2>3 DEF Retry, One
    <3> QED
      BY <3>1, <3>2
  <2> HIDE DEF m
  <2>2. Released(c.sub[s], n) /\ n.state = c.sub[s].state
    BY <2>1, <2>c, ReleasedReset
  <2> HIDE DEF n, e
  <2>5. d \in Clients /\ Leaves(c, d, s) /\ d.sub[s] = n /\ d.active = A
    <3>1. Stays(c, s, A)
      BY DEF Stays
    <3> HIDE DEF A
    <3> QED
      BY <2>1, <2>2, <3>1, UnrouteLeaves DEF e
  <2> HIDE DEF d
  <2>7. Sound(d, g, X \cup {s}, Y)
    <3>1. \A i \in DOMAIN c.stack : c.stack[i].do = "live" /\ s \in c.stack[i].sub =>
            d.sub[s].status = "closed"
      BY <2>5 DEF Leaves, Released
    <3>2. Terminating(c) \/ \A l \in c.link.served \ Y :
            l \in Y \/ (l # 0 /\ l = c.sub[s].liveId) => Accounted(d, l)
      OBVIOUS
    <3> QED
      BY <2>5, <3>1, <3>2, LeavesSound
  <2> DEFINE W == {s}
  <2>8. W \in {Nobody, {s}} /\ Sound(d, g, W, Y)
    <3>1. X \cup {s} = {s}
      BY DEF Nobody
    <3> QED
      BY <2>7, <3>1
  <2> HIDE DEF W
  <2>9. /\ items \in Seq(Items) /\ 1 \in DOMAIN items
        /\ items[1].do \in {"connecting", "unavailable", "failed"}
        /\ \A i \in DOMAIN items : items[i].do \in Plain /\ items[i].sub = {s}
    BY OneCorrecting
  <2> HIDE DEF items
  <2>10. d.sub[s].state # "new" /\ (d.sub[s].state = "active" => s \in d.active \/ d.disposed)
    BY <2>2, <2>5 DEF Leaves
  <2>12. Sound(Push(d, items), g, Nobody, Y)
    BY <2>8, <2>9, <2>10, PushCorrecting
  <2> QED
    BY <2>4, <2>12
<1> QED
  BY <1>a, <1>b

-----------------------------------------------------------------------------
(* The connection is lost, or given up.                                    *)

Lost(c) ==
  [[c EXCEPT !.socket = "none", !.link = NoLink]
     EXCEPT !.ready = FALSE, !.stability = FALSE, !.pendingRequests = {},
            !.liveSubscriptions = {}, !.detaching = {}, !.targets = {}, !.delivering = {}]

Everyone == [do |-> "detached", sub |-> {}, cap |-> 0]

LEMMA NoLinkFacts ==
  NoLink \in Links /\ DOMAIN NoLink.up = {} /\ DOMAIN NoLink.down = {} /\ NoLink.served = {}
<1>1. /\ <<>> \in Seq(Messages(Requests)) /\ <<>> \in Seq(Messages(Replies))
      /\ DOMAIN <<>> = {}
  BY EmptySeq
<1> QED
  BY <1>1 DEF NoLink, Links

LEMMA LostEffect ==
  ASSUME NEW c \in Clients
  PROVE  LET d == Lost(c)
         IN  /\ d \in Clients /\ SameSubs(c, d) /\ d.stack = c.stack /\ d.terminal = c.terminal
             /\ d.requestId = c.requestId /\ d.socket = "none" /\ d.link = NoLink /\ ~d.ready
             /\ d.pendingRequests = {} /\ d.liveSubscriptions = {} /\ d.detaching = {}
             /\ d.targets = {} /\ d.delivering = {}
<1>1. Lost(c) \in Clients
  BY NoLinkFacts DEF Lost, Clients, Tables
<1>2. SameSubs(c, Lost(c)) /\ Lost(c).stack = c.stack
  BY DEF Lost, Clients, SameSubs
<1> QED
  BY <1>1, <1>2 DEF Lost, Clients

LEMMA CloseSocketForm ==
  ASSUME NEW c, c.socket # "none"
  PROVE  CloseSocket(c) = Push(Lost(c), One(Everyone))
BY DEF CloseSocket, Disconnected, Lost, One, Everyone

\* Items that show a subscription as live are about one that has been closed.
LiveClosed(c, s) ==
  \A i \in DOMAIN c.stack : c.stack[i].do = "live" /\ s \in c.stack[i].sub =>
    c.sub[s].status = "closed"

LEMMA LostCore ==
  ASSUME NEW c, NEW g, Core(c, g), \A s \in Subs : LiveClosed(c, s)
  PROVE  Core(Lost(c), g)
<1> DEFINE d == Lost(c)
<1>1. /\ d \in Clients /\ SameSubs(c, d) /\ d.stack = c.stack
      /\ d.requestId = c.requestId /\ d.socket = "none" /\ d.link = NoLink /\ ~d.ready
      /\ d.pendingRequests = {} /\ d.liveSubscriptions = {} /\ d.detaching = {}
      /\ d.targets = {} /\ d.delivering = {}
  BY LostEffect DEF Core
<1> SUFFICES Core(d, g)
  OBVIOUS
<1> HIDE DEF d
<1>2. \A r, s : ~Pending(d, r, s) /\ ~Live(d, r, s)
  BY <1>1 DEF Pending, Live
<1>3. TablesSound(d)
  BY <1>2 DEF TablesSound
<1>4. IdsFresh(d)
  BY <1>1, NoLinkFacts DEF Core, IdsFresh, SameSubs
<1>5. DeliveringIsLive(d)
  BY <1>1, <1>2 DEF DeliveringIsLive
<1>6. StackSound(d)
  <2>1. ASSUME NEW i \in DOMAIN c.stack
        PROVE  ItemSound(d, c.stack[i])
    <3>1. ItemSound(c, c.stack[i]) /\ c.stack[i].sub \subseteq Subs
      BY StackFields DEF Core, StackSound
    <3>2. c.stack[i].do = "live" => \A s \in c.stack[i].sub : c.sub[s].status = "closed"
      BY <3>1 DEF LiveClosed
    <3> QED
      BY <1>1, <1>2, <3>1, <3>2 DEF ItemSound, Unwired, SameSubs
  <2>2. PairSound(d, d.stack)
    BY <1>1 DEF Core, StackSound, PairSound, SameSubs
  <2> QED
    BY <1>1, <2>1, <2>2 DEF StackSound
<1>7. SubsSound(d) /\ Truthful(d, g)
  BY <1>1 DEF Core, SubsSound, Truthful, SameSubs
<1>8. WireSound(d, g)
  BY <1>1, NoLinkFacts DEF WireSound
<1>9. OneRenewal(d)
  BY <1>2 DEF OneRenewal
<1>10. ServedIds(d)
  BY <1>1, NoLinkFacts DEF ServedIds
<1> QED
  BY <1>1, <1>3, <1>4, <1>5, <1>6, <1>7, <1>8, <1>9, <1>10 DEF Core

LEMMA CloseSocketSound ==
  ASSUME NEW c, NEW g, Core(c, g), \A s \in Subs : Consistent(c, s),
         \A s \in Subs : LiveClosed(c, s)
  PROVE  Sound(CloseSocket(c), g, Nobody, Nobody)
<1>1. CASE c.socket = "none"
  <2>1. CloseSocket(c) = c
    BY <1>1 DEF CloseSocket
  <2>2. c.link.served = {}
    BY <1>1, NoLinkFacts DEF Core, WireSound
  <2> QED
    BY <1>1, <2>1, <2>2 DEF Sound, Nobody
<1>2. CASE c.socket # "none"
  <2> DEFINE d == Lost(c)
             items == One(Everyone)
  <2>1. CloseSocket(c) = Push(d, items)
    BY <1>2, CloseSocketForm
  <2>2. /\ d \in Clients /\ SameSubs(c, d) /\ d.stack = c.stack
        /\ d.socket = "none" /\ d.link = NoLink /\ ~d.ready
        /\ d.pendingRequests = {} /\ d.liveSubscriptions = {}
    BY LostEffect DEF Core
  <2>3. Core(d, g)
    BY LostCore
  <2> HIDE DEF d
  <2>4. Everyone \in Items /\ Everyone.do = "detached" /\ Everyone.sub = {}
    BY Bounds DEF Everyone, Items, Works
  <2>5. items \in Seq(Items) /\ DOMAIN items = {1} /\ items[1] = Everyone
    BY <2>4, ShortSequences
  <2> HIDE DEF items
  <2>6. \A i \in DOMAIN items : ItemSound(d, items[i])
    BY <2>2, <2>4, <2>5 DEF ItemSound, Pending, Live
  <2>7. PairSound(d, items \o d.stack)
    <3>1. d.stack \in Seq(Items) /\ PairSound(d, d.stack)
      BY <2>3, ClientFields DEF Core, StackSound
    <3> QED
      BY <2>4, <2>5, <3>1, PushPairs
  <2>8. Core(Push(d, items), g)
    BY <2>3, <2>5, <2>6, <2>7, PushCore
  <2>9. \A s \in Subs : Consistent(d, s) \/ s \in c.active
    <3> SUFFICES ASSUME NEW s \in Subs, s \notin c.active
                 PROVE  Consistent(d, s)
      OBVIOUS
    <3>1. c.sub[s].liveId \in Nat
      BY ClientFields, SubFields DEF Core
    <3>2. ~Live(c, c.sub[s].liveId, s)
      BY <3>1 DEF Core, TablesSound
    <3>3. Consistent(c, s)
      OBVIOUS
    <3> QED
      BY <2>2, <3>2, <3>3 DEF Consistent, Corrected, Corrects, Replacing, SameSubs
  <2>10. Sound(d, g, c.active, Nobody)
    BY <2>2, <2>3, <2>9, NoLinkFacts DEF Sound, Nobody
  <2>11. \A s \in c.active : Corrects(d, items[1], s) /\ s \in d.active
    BY <2>2, <2>4, <2>5 DEF Corrects, SameSubs
  <2>12. 1 \in DOMAIN items
    BY <2>5
  <2>13. Sound(Push(d, items), g, Nobody, Nobody)
    BY <2>5, <2>8, <2>10, <2>11, <2>12, PushSound
  <2> QED
    BY <2>1, <2>13
<1> QED
  BY <1>1, <1>2

LEMMA CancelEffect ==
  ASSUME NEW c \in Clients
  PROVE  LET d == CancelReconnectEpisode(c)
         IN  d \in Clients /\ Same(c, d) /\ SameSubs(c, d)
BY DEF CancelReconnectEpisode, Clients, Same, SameSubs, SameTables, SameWire

LEMMA CloseIfIdleSound ==
  ASSUME NEW c, NEW g, NEW Y, Sound(c, g, Nobody, Nobody)
  PROVE  Sound(CloseIfIdle(c), g, Nobody, Nobody)
<1>1. CASE c.active # {}
  BY <1>1 DEF CloseIfIdle
<1>2. CASE c.active = {}
  <2> DEFINE d == CancelReconnectEpisode(c)
  <2>1. d \in Clients /\ Same(c, d) /\ SameSubs(c, d)
    BY CancelEffect DEF Sound, Core
  <2>2. CloseIfIdle(c) = CloseSocket(d)
    BY <1>2 DEF CloseIfIdle
  <2> HIDE DEF d
  <2>3. Sound(d, g, Nobody, Nobody)
    BY <2>1, FrameSound DEF Same
  <2>4. \A s \in Subs : LiveClosed(d, s)
    <3> SUFFICES ASSUME NEW s \in Subs, NEW i \in DOMAIN d.stack, d.stack[i].do = "live",
                        s \in d.stack[i].sub
                 PROVE  d.sub[s].status = "closed"
      BY DEF LiveClosed
    <3>1. d.sub[s].liveId \in Nat
      BY <2>1, ClientFields, SubFields
    <3>2. ~Live(d, d.sub[s].liveId, s)
      BY <1>2, <2>1, <2>3, <3>1 DEF Sound, Core, TablesSound, SameSubs
    <3> QED
      BY <2>3, <3>2 DEF Sound, Core, StackSound, ItemSound
  <2> QED
    BY <2>2, <2>3, <2>4, CloseSocketSound DEF Sound, Nobody
<1> QED
  BY <1>1, <1>2

LEMMA TerminateSound ==
  ASSUME NEW c, NEW g, NEW Y, Sound(c, g, Nobody, Y), NEW why \in {"protocol", "fatal", "exhausted"},
         \A s \in Subs : LiveClosed(c, s)
  PROVE  /\ c.terminal = "no" => Sound(Terminate(c, why), g, Nobody, Nobody)
         /\ c.terminal # "no" => Terminate(c, why) = c
<1>1. CASE c.terminal # "no"
  BY <1>1 DEF Terminate
<1>2. CASE c.terminal = "no"
  <2> DEFINE e == [c EXCEPT !.terminal = why]
             d == CancelReconnectEpisode(e)
             w == [do |-> "terminating", cap |-> 0,
                   sub |-> {s \in d.managed : d.sub[s].state \in {"active", "awaiting_query"}}]
             items == One(w)
  <2>1. Core(c, g) /\ c \in Clients
    BY DEF Sound, Core
  <2>2. /\ e \in Clients /\ SameTables(c, e) /\ SameSubs(c, e) /\ e.socket = c.socket
        /\ e.link = c.link /\ e.ready = c.ready /\ e.stack = c.stack
    BY <2>1 DEF Clients, SameTables, SameSubs
  <2> HIDE DEF e
  <2>3. d \in Clients /\ Same(e, d) /\ SameSubs(e, d)
    BY <2>2, CancelEffect
  <2>4. Terminate(c, why) = Push(d, items)
    <3>1. d.managed = c.managed /\ d.sub = c.sub
      BY <2>2, <2>3 DEF SameSubs
    <3> QED
      BY <1>2, <3>1 DEF Terminate, One, e
  <2> HIDE DEF d
  <2>5. /\ SameTables(c, d) /\ SameSubs(c, d) /\ d.socket = c.socket /\ d.link = c.link
        /\ d.ready = c.ready /\ d.stack = c.stack
    BY <2>2, <2>3 DEF Same, SameTables, SameSubs, SameWire
  <2>6. Core(d, g)
    BY <2>1, <2>3, <2>5, FrameCore
  <2>7. \A s \in Subs : Consistent(d, s)
    <3>1. \A s \in Subs : Consistent(c, s)
      BY DEF Sound, Nobody
    <3> QED
      BY <2>5, <3>1 DEF Consistent, Corrected, Corrects, Replacing, Live, SameSubs, SameTables
  <2>8. w \in Items /\ w.do = "terminating" /\ \A s \in w.sub : d.sub[s].state # "new"
    BY <2>3, ClientFields, Bounds DEF Items, Works
  <2> HIDE DEF w
  <2>9. items \in Seq(Items) /\ DOMAIN items = {1} /\ items[1] = w
    BY <2>8, ShortSequences
  <2> HIDE DEF items
  <2>10. \A i \in DOMAIN items : ItemSound(d, items[i])
    BY <2>8, <2>9 DEF ItemSound
  <2>11. PairSound(d, items \o d.stack)
    <3>1. d.stack \in Seq(Items) /\ PairSound(d, d.stack)
      BY <2>6, ClientFields DEF Core, StackSound
    <3>2. \A j \in DOMAIN d.stack : d.stack[j].do = "live" =>
            \A s \in d.stack[j].sub : d.sub[s].status = "closed"
      <4>1. \A j \in DOMAIN c.stack : c.stack[j].sub \subseteq Subs
        BY <2>1, StackFields
      <4> QED
        BY <2>5, <4>1 DEF LiveClosed, SameSubs
    <3> QED
      BY <2>8, <2>9, <3>1, <3>2, PushPairs
  <2>12. Core(Push(d, items), g)
    BY <2>6, <2>9, <2>10, <2>11, PushCore
  <2>13. /\ \A s \in Subs : Consistent(Push(d, items), s)
         /\ Terminating(Push(d, items))
    <3>1. 1 \in DOMAIN items /\ items[1].do = "terminating"
      BY <2>8, <2>9
    <3> QED
      BY <2>3, <2>7, <2>9, <3>1, PushKeeps
  <2>14. Sound(Push(d, items), g, Nobody, Nobody)
    BY <2>12, <2>13 DEF Sound
  <2> QED
    BY <1>2, <2>4, <2>14
<1> QED
  BY <1>1, <1>2

-----------------------------------------------------------------------------
(* Connecting and sending.                                                 *)

LEMMA ConnectSound ==
  ASSUME NEW c, NEW g, NEW X, NEW Y, Sound(c, g, X, Y)
  PROVE  /\ Sound(Connect(c), g, X, Y) /\ SameSubs(c, Connect(c))
         /\ SameTables(c, Connect(c)) /\ Connect(c).stack = c.stack
<1> DEFINE d == Connect(c)
<1>1. CASE c.disposed \/ c.terminal # "no" \/ c.socket = "open"
  BY <1>1 DEF Connect, SameSubs, SameTables
<1>2. CASE ~(c.disposed \/ c.terminal # "no" \/ c.socket = "open")
  <2>0. Core(c, g) /\ c \in Clients
    BY DEF Sound, Core
  <2>1. /\ d \in Clients /\ SameSubs(c, d) /\ SameTables(c, d) /\ d.stack = c.stack
        /\ d.socket = "open" /\ d.link = NoLink /\ ~d.ready /\ d.terminal = "no"
        /\ ~d.disposed
    BY <1>2, <2>0, NoLinkFacts DEF Connect, Clients, SameSubs, SameTables
  <2> HIDE DEF d
  <2>2. TablesSound(d)
    BY <2>0, <2>1 DEF Core, TablesSound, SameTables, SameSubs, Pending, Live
  <2>3. IdsFresh(d)
    BY <2>0, <2>1, NoLinkFacts DEF Core, IdsFresh, SameTables, SameSubs
  <2>4. DeliveringIsLive(d)
    BY <2>0, <2>1 DEF Core, DeliveringIsLive, SameTables, Live
  <2>5. StackSound(d)
    <3>1. \A w : ItemSound(c, w) => ItemSound(d, w)
      BY <2>1 DEF ItemSound, Unwired, Pending, Live, SameSubs, SameTables
    <3>2. PairSound(d, d.stack)
      BY <2>0, <2>1 DEF Core, StackSound, PairSound, SameSubs
    <3> QED
      BY <2>0, <2>1, <3>1, <3>2 DEF Core, StackSound
  <2>6. SubsSound(d) /\ Truthful(d, g)
    BY <2>0, <2>1 DEF Core, SubsSound, Truthful, SameSubs
  <2>7. WireSound(d, g) /\ OneRenewal(d) /\ ServedIds(d)
    BY <2>1, NoLinkFacts DEF WireSound, OneRenewal, ServedIds
  <2>8. Core(d, g)
    BY <2>1, <2>2, <2>3, <2>4, <2>5, <2>6, <2>7 DEF Core
  <2>9. \A s \in Subs : Consistent(c, s) => Consistent(d, s)
    BY <2>1 DEF Consistent, Corrected, Corrects, Replacing, Live, SameSubs, SameTables
  <2>10. Sound(d, g, X, Y)
    BY <2>1, <2>8, <2>9, NoLinkFacts DEF Sound
  <2> QED
    BY <2>1, <2>10 DEF d
<1> QED
  BY <1>1, <1>2

\* Ids and the wire attempt change, and nothing else.
Rewired(m, n) ==
  /\ n \in SubType /\ SameBut(m, n) /\ n.answers = m.answers
  /\ n.renewing = m.renewing /\ n.queued = m.queued

LEMMA RewiredSound ==
  ASSUME NEW m \in SubType, NEW n, SubSound(m), m.state # "new", Rewired(m, n)
  PROVE  SubSound(n)
BY RenewalsSame DEF SubSound, Rewired, SameBut

\* A frame is put behind the others, or nothing is sent.
Sends(q, u, x) ==
  /\ \A i \in DOMAIN q : i \in DOMAIN u /\ u[i] = q[i]
  /\ \A i \in DOMAIN u : (i \in DOMAIN q /\ u[i] = q[i]) \/ (i \notin DOMAIN q /\ u[i] = x)
  /\ \A i, j \in DOMAIN u : i \notin DOMAIN q /\ j \notin DOMAIN q => i = j

LEMMA SendsFacts ==
  ASSUME NEW S, NEW q \in Seq(S), NEW x \in S
  PROVE  Sends(q, q, x) /\ Sends(q, Append(q, x), x)
<1> DEFINE u == Append(q, x)
           N == Len(q) + 1
<1>1. /\ DOMAIN q \subseteq Nat /\ DOMAIN u \subseteq Nat
      /\ \A i \in DOMAIN q : i \in DOMAIN u /\ u[i] = q[i]
      /\ \A i \in DOMAIN u : i \in DOMAIN q \/ i = N
      /\ u[N] = x /\ N \notin DOMAIN q
  BY AppendIndex
<1> HIDE DEF u, N
<1>2. Sends(q, u, x)
  BY <1>1 DEF Sends
<1>3. Sends(q, q, x)
  BY DEF Sends
<1> QED
  BY <1>2, <1>3 DEF u

LEMMA SendSubscribeSound ==
  ASSUME NEW c, NEW g, NEW X, NEW Y, NEW s \in Subs, Sound(c, g, X, Y), ~Replacing(c, s)
  PROVE  Sound(SendSubscribe(c, s), g, X, Y)
<1> DEFINE m == c.sub[s]
           r == c.requestId + 1
<1>0. Core(c, g) /\ c \in Clients /\ m \in SubType /\ SubSound(m)
  BY ClientFields DEF Sound, Core, SubsSound
<1>1. CASE \/ m.state # "active" \/ ~c.ready \/ m.recovery = "waiting"
           \/ m.request # 0 \/ m.liveId # 0
  BY <1>1 DEF SendSubscribe
<1>2. CASE ~(\/ m.state # "active" \/ ~c.ready \/ m.recovery = "waiting"
             \/ m.request # 0 \/ m.liveId # 0)
  <2> DEFINE e == [c EXCEPT !.requestId = r, !.sub[s].request = r, !.sub[s].requested = m.query,
                            !.pendingRequests = @ \cup {<<r, s>>}]
             f == Frame("subscribe", r, s, m.query)
             d == Send(e, f)
  <2>1. SendSubscribe(c, s) = d
    BY <1>2 DEF SendSubscribe
  <2>2. c.requestId \in Nat /\ r \in Nat /\ m.query \in 0..MaxCapability /\ m.query \in Nat
        /\ r > 0 /\ m.query > 0
    BY <1>0, <1>2, ClientFields, SubFields, Bounds DEF SubSound
  <2> DEFINE n == [m EXCEPT !.request = r, !.requested = m.query]
  <2>3. /\ Rewired(m, n) /\ n.request = r /\ n.requested = m.query /\ n.liveId = m.liveId
    BY <1>0, <2>2 DEF Rewired, SubType, SameBut
  <2>4. e.sub[s] = n
    BY <1>0 DEF Clients
  <2>5. /\ e \in Clients /\ SameWire(c, e) /\ e.stack = c.stack /\ e.requestId = r
        /\ e.pendingRequests = c.pendingRequests \cup {<<r, s>>}
        /\ e.liveSubscriptions = c.liveSubscriptions /\ e.detaching = c.detaching
        /\ e.targets = c.targets /\ e.delivering = c.delivering
        /\ e.managed = c.managed /\ e.active = c.active /\ e.disposed = c.disposed
        /\ \A t \in Subs : t # s => e.sub[t] = c.sub[t]
    <3>1. n \in SubType
      BY <2>3 DEF Rewired
    <3>2. e.sub = [c.sub EXCEPT ![s] = n]
      BY <1>0 DEF Clients
    <3>3. e.sub \in [Subs -> SubType] /\ \A t \in Subs : t # s => e.sub[t] = c.sub[t]
      <4> HIDE DEF n, e
      <4> QED
        BY <1>0, <3>1, <3>2 DEF Clients
    <3>4. c.pendingRequests \cup {<<r, s>>} \in Tables
      BY <1>0, <2>2, ClientFields DEF Tables
    <3>5. e.sub = [[c.sub EXCEPT ![s].request = r] EXCEPT ![s].requested = m.query]
      BY <1>0 DEF Clients
    <3> DEFINE b == [[c.sub EXCEPT ![s].request = r] EXCEPT ![s].requested = m.query]
    <3>6. e = [c EXCEPT !.requestId = r, !.sub = b, !.pendingRequests = @ \cup {<<r, s>>}]
      BY <1>0 DEF Clients
    <3>7. b \in [Subs -> SubType] /\ r \in Nat
      BY <2>2, <3>3, <3>5
    <3> HIDE DEF b, n, r, e
    <3> QED
      BY <1>0, <3>3, <3>4, <3>6, <3>7 DEF Clients, SameWire
  <2> HIDE DEF n, e
  <2>6. f \in Messages(Requests) /\ f.type = "subscribe" /\ f.id = r /\ f.sub = s
        /\ f.cap = m.query
    BY <2>2 DEF Messages, Requests, Frame
  <2> HIDE DEF f
  <2>7. /\ d \in Clients /\ SameSubs(e, d) /\ SameTables(e, d)
        /\ d.socket = e.socket /\ d.ready = e.ready /\ d.stack = e.stack
        /\ d.terminal = e.terminal
        /\ d.link.down = e.link.down /\ d.link.served = e.link.served
        /\ e.socket # "open" => d.link = e.link
        /\ e.socket = "open" => d.link.up = Append(e.link.up, f)
    BY <2>5, <2>6, SendEffect
  <2> HIDE DEF d
  <2>8. /\ \A i \in DOMAIN c.link.up : i \in DOMAIN d.link.up /\ d.link.up[i] = c.link.up[i]
        /\ \A i \in DOMAIN d.link.up :
             (i \in DOMAIN c.link.up /\ d.link.up[i] = c.link.up[i])
             \/ (i \notin DOMAIN c.link.up /\ d.link.up[i] = f)
        /\ \A i, j \in DOMAIN d.link.up :
             i \notin DOMAIN c.link.up /\ j \notin DOMAIN c.link.up => i = j
    <3>1. c.link.up \in Seq(Messages(Requests)) /\ e.link = c.link /\ e.socket = c.socket
      BY <1>0, <2>5, ClientFields, LinkFields DEF SameWire
    <3>2. d.link.up = c.link.up \/ d.link.up = Append(c.link.up, f)
      BY <2>7, <3>1
    <3>3. Sends(c.link.up, d.link.up, f)
      BY <2>6, <3>1, <3>2, SendsFacts
    <3> QED
      BY <3>3 DEF Sends
  <2>9. /\ d.sub[s] = n /\ \A t \in Subs : t # s => d.sub[t] = c.sub[t]
        /\ d.requestId = r /\ d.detaching = c.detaching
        /\ d.targets = c.targets /\ d.delivering = c.delivering
        /\ d.managed = c.managed /\ d.active = c.active /\ d.disposed = c.disposed
        /\ d.socket = c.socket /\ d.ready = c.ready /\ d.stack = c.stack
        /\ d.terminal = c.terminal
        /\ d.link.down = c.link.down /\ d.link.served = c.link.served
        /\ c.socket # "open" => d.link = c.link
    BY <2>4, <2>5, <2>7 DEF SameSubs, SameTables, SameWire
  <2>10. /\ \A q, t : Pending(d, q, t) <=> Pending(c, q, t) \/ (q = r /\ t = s)
         /\ \A q, t : Live(d, q, t) <=> Live(c, q, t)
    BY <2>5, <2>7 DEF Pending, Live, SameTables
  <2>11. /\ \A t \in Subs : /\ d.sub[t].state = c.sub[t].state /\ d.sub[t].liveId = c.sub[t].liveId
                            /\ d.sub[t].status = c.sub[t].status
                            /\ d.sub[t].renewing = c.sub[t].renewing
                            /\ d.sub[t].answers = c.sub[t].answers
                            /\ d.sub[t].prior = c.sub[t].prior
         /\ \A t \in Subs : t # s => /\ d.sub[t].request = c.sub[t].request
                                     /\ d.sub[t].requested = c.sub[t].requested
         /\ d.sub[s].request = r /\ d.sub[s].requested = m.query
         /\ d.sub[s].state = "active" /\ d.sub[s].liveId = 0
    BY <1>2, <2>3, <2>9 DEF Rewired, SameBut
  <2>12. \A q \in Nat : ~Pending(c, q, s)
    BY <1>0, <1>2 DEF Core, TablesSound, Ended
  <2>13. \A t \in Subs : c.sub[t].liveId \in Nat /\ c.sub[t].liveId <= c.requestId
    BY <1>0, ClientFields, SubFields DEF Core, IdsFresh
  <2>14. TablesSound(d)
    <3>1. ASSUME NEW q \in Nat, NEW t \in Subs, Pending(d, q, t)
          PROVE  /\ q > 0 /\ q <= d.requestId
                 /\ \/ Ended(d.sub[t])
                    \/ /\ d.sub[t].state = "active"
                       /\ d.sub[t].request = q /\ d.sub[t].liveId = 0
                 /\ q \notin d.detaching
                 /\ \A u \in Subs : d.sub[u].liveId # q /\ ~Live(d, q, u)
                 /\ \A u \in Subs : Pending(d, q, u) => t = u
      <4>1. CASE Pending(c, q, t)
        <5>1. t # s /\ q > 0 /\ q <= c.requestId
          BY <1>0, <2>12, <4>1 DEF Core, TablesSound
        <5>2. q <= d.requestId /\ q # r
          BY <2>2, <2>9, <5>1
        <5>3. \/ Ended(d.sub[t])
              \/ /\ d.sub[t].state = "active"
                 /\ d.sub[t].request = q /\ d.sub[t].liveId = 0
          BY <1>0, <2>9, <4>1, <5>1 DEF Core, TablesSound
        <5>4. /\ q \notin d.detaching
              /\ \A u \in Subs : d.sub[u].liveId # q /\ ~Live(d, q, u)
          BY <1>0, <2>9, <2>10, <2>11, <4>1 DEF Core, TablesSound
        <5>5. \A u \in Subs : Pending(d, q, u) => t = u
          BY <1>0, <2>10, <4>1, <5>2 DEF Core, TablesSound
        <5> QED
          BY <5>1, <5>2, <5>3, <5>4, <5>5
      <4>2. CASE q = r /\ t = s
        <5>1. r \notin d.detaching
          BY <1>0, <2>2, <2>9 DEF Core, IdsFresh
        <5>2. \A u \in Subs : d.sub[u].liveId # r
          BY <2>2, <2>11, <2>13
        <5>3. \A u \in Subs : ~Live(d, r, u) /\ ~Pending(c, r, u)
          BY <1>0, <2>2, <2>10 DEF Core, TablesSound
        <5> QED
          BY <2>2, <2>9, <2>10, <2>11, <4>2, <5>1, <5>2, <5>3
      <4> QED
        BY <2>10, <3>1, <4>1, <4>2
    <3>2. ASSUME NEW l \in Nat, NEW t \in Subs, Live(d, l, t)
          PROVE  /\ l > 0 /\ l <= d.requestId
                 /\ d.sub[t].state = "active" /\ d.sub[t].liveId = l
                 /\ t \in d.active
                 /\ l \notin d.detaching
      <4>1. Live(c, l, t)
        BY <2>10, <3>2
      <4>2. l > 0 /\ l <= c.requestId /\ c.sub[t].state = "active" /\ c.sub[t].liveId = l
            /\ t \in c.active /\ l \notin c.detaching
        BY <1>0, <4>1 DEF Core, TablesSound
      <4> QED
        BY <2>2, <2>9, <2>11, <4>2
    <3> QED
      BY <3>1, <3>2 DEF TablesSound
  <2>15. IdsFresh(d)
    <3>1. \A t \in Subs : d.sub[t].liveId <= d.requestId
      BY <2>2, <2>9, <2>11, <2>13
    <3>2. \A t, u \in Subs : d.sub[t].liveId = d.sub[u].liveId /\ d.sub[t].liveId # 0 => t = u
      BY <1>0, <2>11 DEF Core, IdsFresh
    <3>3. \A l \in Nat : l <= c.requestId => l <= d.requestId
      BY <2>2, <2>9
    <3>4. \A l \in d.targets \cup d.detaching \cup d.link.served : l <= d.requestId
      <4>1. d.targets \cup d.detaching \cup d.link.served \subseteq Nat
        BY <2>7, ClientFields, LinkFields
      <4> QED
        BY <1>0, <2>9, <3>3, <4>1 DEF Core, IdsFresh
    <3>5. \A i \in DOMAIN d.link.up : d.link.up[i].id <= d.requestId
      <4> TAKE i \in DOMAIN d.link.up
      <4>1. d.link.up[i].id \in Nat
        BY <2>7, ClientFields, LinkFields
      <4> QED
        BY <1>0, <2>2, <2>6, <2>8, <2>9, <3>3, <4>1 DEF Core, IdsFresh
    <3>6. \A i \in DOMAIN d.link.down : d.link.down[i].id <= d.requestId
      <4> TAKE i \in DOMAIN d.link.down
      <4>1. d.link.down[i].id \in Nat
        BY <2>7, ClientFields, LinkFields
      <4> QED
        BY <1>0, <2>9, <3>3, <4>1 DEF Core, IdsFresh
    <3> QED
      BY <3>1, <3>2, <3>4, <3>5, <3>6 DEF IdsFresh
  <2>16. DeliveringIsLive(d)
    BY <1>0, <2>9, <2>10 DEF Core, DeliveringIsLive
  <2>17. StackSound(d)
    <3>1. ASSUME NEW i \in DOMAIN c.stack
          PROVE  ItemSound(d, c.stack[i])
      <4> DEFINE w == c.stack[i]
      <4>1. ItemSound(c, w) /\ w.sub \subseteq Subs /\ (w.do = "replace" => s \notin w.sub)
        BY <1>0, StackFields DEF Core, StackSound, Replacing
      <4> HIDE DEF w
      <4>2. w.do # "detached"
        BY <1>2, <4>1 DEF ItemSound
      <4>3. w.do = "replace" => \A t \in w.sub : Unwired(d, t)
        BY <2>10, <2>11, <4>1 DEF ItemSound, Unwired
      <4>4. w.do = "live" => \A t \in w.sub : d.sub[t].status = "closed" \/ Live(d, d.sub[t].liveId, t)
        BY <2>10, <2>11, <4>1 DEF ItemSound
      <4>5. \A t \in w.sub : d.sub[t].state # "new"
        BY <2>11, <4>1 DEF ItemSound
      <4>6. ItemSound(d, w)
        BY <2>11, <4>1, <4>2, <4>3, <4>4, <4>5 DEF ItemSound
      <4> QED
        BY <4>6 DEF w
    <3>2. PairSound(d, d.stack)
      <4>1. \A i \in DOMAIN c.stack : c.stack[i].sub \subseteq Subs
        BY <1>0, StackFields
      <4> QED
        BY <1>0, <2>9, <2>11, <4>1 DEF Core, StackSound, PairSound
    <3> QED
      BY <2>9, <3>1, <3>2 DEF StackSound
  <2>18. SubsSound(d)
    <3>1. \A t \in Subs : SubSound(d.sub[t])
      BY <1>0, <1>2, <2>3, <2>9, RewiredSound DEF Core, SubsSound
    <3> QED
      BY <1>0, <2>9, <2>11, <3>1, ClientFields DEF Core, SubsSound
  <2>19. Truthful(d, g)
    BY <1>0, <2>11 DEF Core, Truthful
  <2>20. WireSound(d, g)
    <3>1. \A h : h.id \in Nat /\ h.id <= c.requestId /\ About(c, h) => About(d, h)
      <4> SUFFICES ASSUME NEW h, h.id \in Nat, h.id <= c.requestId, About(c, h), NEW t \in Subs,
                          Pending(d, h.id, t)
                   PROVE  h.sub = t /\ (~Ended(d.sub[t]) => h.cap = d.sub[t].requested)
        BY DEF About
      <4>1. h.id # r
        BY <2>2
      <4>2. Pending(c, h.id, t) /\ t # s
        BY <2>10, <2>12, <4>1
      <4> QED
        BY <2>9, <4>2 DEF About
    <3>2. \A h : h.id \in Nat /\ h.id <= c.requestId /\ Renews(c, h) => Renews(d, h)
      <4> SUFFICES ASSUME NEW h, h.id \in Nat, h.id <= c.requestId, Renews(c, h), NEW t \in Subs
                   PROVE  /\ ~Pending(d, h.id, t)
                          /\ Live(d, h.id, t) => h.sub = t /\ h.cap = d.sub[t].renewing
        BY DEF Renews
      <4>1. h.id # r
        BY <2>2
      <4> QED
        BY <2>10, <2>11, <4>1 DEF Renews
    <3>3. About(d, f)
      BY <1>0, <2>2, <2>6, <2>10, <2>11 DEF About, Core, TablesSound
    <3>4. /\ \A i \in DOMAIN c.link.up : c.link.up[i].id \in Nat /\ c.link.up[i].id <= c.requestId
          /\ \A i \in DOMAIN c.link.down :
               c.link.down[i].id \in Nat /\ c.link.down[i].id <= c.requestId
      BY <1>0, ClientFields, LinkFields DEF Core, IdsFresh
    <3>5. WireSound(c, g)
      BY <1>0 DEF Core
    <3>6. \A i \in DOMAIN d.link.up : d.link.up[i].type \in {"subscribe", "renew"} =>
            d.link.up[i].sub \in Subs /\ d.link.up[i].cap > 0
      BY <2>2, <2>6, <2>8, <3>5 DEF WireSound
    <3>7. \A i \in DOMAIN d.link.up : Up(d, i, "subscribe") => About(d, d.link.up[i])
      BY <2>8, <3>1, <3>3, <3>4, <3>5 DEF WireSound, Up
    <3>8. \A i \in DOMAIN d.link.up : Up(d, i, "renew") => Renews(d, d.link.up[i])
      BY <2>6, <2>8, <3>2, <3>4, <3>5 DEF WireSound, Up
    <3>9. \A i \in DOMAIN d.link.down :
            /\ Down(d, i, "subscribed") => About(d, d.link.down[i])
            /\ Down(d, i, "renewed") => Renews(d, d.link.down[i])
      BY <2>9, <3>1, <3>2, <3>4, <3>5 DEF WireSound, Down
    <3> QED
      BY <2>9, <3>5, <3>6, <3>7, <3>8, <3>9 DEF WireSound
  <2>21. OneRenewal(d)
    <3>1. \A i : Up(d, i, "renew") =>
            Up(c, i, "renew") /\ d.link.up[i] = c.link.up[i] /\ i \in DOMAIN c.link.up
      BY <2>6, <2>8 DEF Up
    <3>2. \A i, type : Down(d, i, type) <=> Down(c, i, type)
      BY <2>9 DEF Down
    <3> QED
      BY <1>0, <2>9, <2>10, <3>1, <3>2 DEF Core, OneRenewal
  <2>22. ServedIds(d)
    <3>1. /\ \A i \in DOMAIN c.link.up : c.link.up[i].id # r
          /\ \A i \in DOMAIN c.link.down : c.link.down[i].id # r
          /\ r \notin c.link.served
      <4>1. /\ \A i \in DOMAIN c.link.up : c.link.up[i].id \in Nat /\ c.link.up[i].id <= c.requestId
            /\ \A i \in DOMAIN c.link.down :
                 c.link.down[i].id \in Nat /\ c.link.down[i].id <= c.requestId
            /\ \A l \in c.link.served : l <= c.requestId
        BY <1>0, ClientFields, LinkFields DEF Core, IdsFresh
      <4> QED
        BY <2>2, <4>1
    <3>2. ServedIds(c)
      BY <1>0 DEF Core
    <3>3. \A i \in DOMAIN d.link.up : Up(d, i, "subscribe") =>
            /\ d.link.up[i].id \notin d.link.served
            /\ \A j \in DOMAIN d.link.up :
                 Up(d, j, "subscribe") /\ d.link.up[i].id = d.link.up[j].id => i = j
            /\ \A j \in DOMAIN d.link.down :
                 d.link.down[j].type \in Errors => d.link.down[j].id # d.link.up[i].id
      BY <2>6, <2>8, <2>9, <3>1, <3>2 DEF ServedIds, Up
    <3> QED
      BY <2>9, <3>2, <3>3 DEF ServedIds
  <2>23. Core(d, g)
    BY <2>7, <2>14, <2>15, <2>16, <2>17, <2>18, <2>19, <2>20, <2>21, <2>22 DEF Core
  <2>24. \A t \in Subs : Consistent(c, t) => Consistent(d, t)
    BY <2>9, <2>10, <2>11 DEF Consistent, Corrected, Corrects, Replacing
  <2>25. \A l : Accounted(c, l) => Accounted(d, l)
    BY <2>8, <2>9, <2>10 DEF Accounted, Up, Down
  <2>26. Terminating(c) => Terminating(d)
    BY <2>9 DEF Terminating
  <2>27. Sound(d, g, X, Y)
    BY <2>9, <2>23, <2>24, <2>25, <2>26 DEF Sound
  <2> QED
    BY <2>1, <2>27
<1> QED
  BY <1>1, <1>2

LEMMA SendNextRenewalSound ==
  ASSUME NEW c, NEW g, NEW X, NEW Y, NEW s \in Subs, Sound(c, g, X, Y), Granted(g)
  PROVE  Sound(SendNextRenewal(c, s), g, X, Y)
<1> DEFINE m == c.sub[s]
<1>0. Core(c, g) /\ c \in Clients /\ m \in SubType /\ SubSound(m)
  BY ClientFields DEF Sound, Core, SubsSound
<1>1. CASE \/ m.state # "active" \/ m.renewing # 0 \/ m.liveId = 0 \/ ~c.ready
           \/ m.queued = <<>>
  BY <1>1 DEF SendNextRenewal
<1>2. CASE ~(\/ m.state # "active" \/ m.renewing # 0 \/ m.liveId = 0 \/ ~c.ready
             \/ m.queued = <<>>)
  <2> DEFINE h == Head(m.queued)
             q == Tail(m.queued)
             n == Requeue(m, h, q)
             e == Assign(c, s, n, c.active)
             f == Frame("renew", m.liveId, s, h)
             d == Send(e, f)
  <2>1. h \in Capabilities /\ q \in Seq(Capabilities) /\ m.liveId \in Nat /\ h \in 0..MaxCapability
        /\ h > 0 /\ h \in Nat
    <3>1. m.queued \in Seq(Capabilities) /\ m.queued # <<>> /\ m.liveId \in Nat
      BY <1>0, <1>2, SubFields
    <3>2. h \in Capabilities /\ q \in Seq(Capabilities)
      BY <3>1, TailIndex
    <3> QED
      BY <3>1, <3>2, Bounds
  <2>2. SendNextRenewal(c, s) = d
    <3>1. [c EXCEPT !.sub[s].renewing = h, !.sub[s].queued = q]
            = [c EXCEPT !.sub[s] = n]
      BY <1>0 DEF Clients, Requeue
    <3>2. [c EXCEPT !.sub[s] = n] = e
      BY <1>0, AssignForms
    <3> QED
      BY <1>2, <3>1, <3>2 DEF SendNextRenewal
  <2> HIDE DEF h, q
  <2>3. /\ n \in SubType /\ SameBut(m, n) /\ SameWireIds(m, n)
        /\ n.renewing = h /\ n.queued = q /\ n.answers = m.answers
    BY <1>0, <2>1, RequeueEffect
  <2>4. SubSound(n)
    <3>1. RenewalsSound(n)
      BY <1>0, <1>2, <2>3, NextRenewalSound DEF SubSound, SameBut, h, q
    <3> QED
      BY <1>0, <1>2, <2>3, <3>1 DEF SubSound, SameBut
  <2> HIDE DEF n
  <2>5. /\ e \in Clients /\ Same(c, e) /\ e.managed = c.managed /\ e.disposed = c.disposed
        /\ e.active = c.active /\ e.sub[s] = n /\ \A t \in Subs : t # s => e.sub[t] = c.sub[t]
    BY <1>0, <2>3, ClientFields, AssignEffect
  <2> HIDE DEF e
  <2>6. f \in Messages(Requests) /\ f.type = "renew" /\ f.id = m.liveId /\ f.sub = s
        /\ f.cap = h
    BY <2>1 DEF Messages, Requests, Frame
  <2> HIDE DEF f
  <2>7. /\ d \in Clients /\ SameSubs(e, d) /\ SameTables(e, d)
        /\ d.socket = e.socket /\ d.ready = e.ready /\ d.stack = e.stack
        /\ d.terminal = e.terminal
        /\ d.link.down = e.link.down /\ d.link.served = e.link.served
        /\ e.socket # "open" => d.link = e.link
        /\ e.socket = "open" => d.link.up = Append(e.link.up, f)
    BY <2>5, <2>6, SendEffect
  <2> HIDE DEF d
  <2>8. Sends(c.link.up, d.link.up, f)
    <3>1. c.link.up \in Seq(Messages(Requests)) /\ e.link = c.link /\ e.socket = c.socket
      BY <1>0, <2>5, ClientFields, LinkFields DEF Same, SameWire
    <3>2. d.link.up = c.link.up \/ d.link.up = Append(c.link.up, f)
      BY <2>7, <3>1
    <3> QED
      BY <2>6, <3>1, <3>2, SendsFacts
  <2>9. /\ d.sub[s] = n /\ \A t \in Subs : t # s => d.sub[t] = c.sub[t]
        /\ SameTables(c, d)
        /\ d.managed = c.managed /\ d.active = c.active /\ d.disposed = c.disposed
        /\ d.socket = c.socket /\ d.ready = c.ready /\ d.stack = c.stack
        /\ d.terminal = c.terminal
        /\ d.link.down = c.link.down /\ d.link.served = c.link.served
        /\ c.socket # "open" => d.link = c.link
    BY <2>5, <2>7 DEF SameSubs, Same, SameTables, SameWire
  <2>10. /\ \A i, t : Pending(d, i, t) <=> Pending(c, i, t)
         /\ \A i, t : Live(d, i, t) <=> Live(c, i, t)
    BY <2>9 DEF Pending, Live, SameTables
  <2>11. /\ \A t \in Subs : /\ d.sub[t].state = c.sub[t].state /\ d.sub[t].liveId = c.sub[t].liveId
                            /\ d.sub[t].status = c.sub[t].status
                            /\ d.sub[t].request = c.sub[t].request
                            /\ d.sub[t].requested = c.sub[t].requested
                            /\ d.sub[t].answers = c.sub[t].answers
                            /\ d.sub[t].prior = c.sub[t].prior
         /\ \A t \in Subs : t # s => d.sub[t].renewing = c.sub[t].renewing
         /\ d.sub[s].renewing = h
    BY <2>3, <2>9 DEF SameWireIds, SameBut
  <2>12. TablesSound(d)
    BY <1>0, <2>9, <2>10, <2>11 DEF Core, TablesSound, SameTables, Ended
  <2>13. IdsFresh(d)
    <3>1. m.liveId <= c.requestId
      BY <1>0 DEF Core, IdsFresh
    <3>2. \A i \in DOMAIN d.link.up : d.link.up[i].id <= d.requestId
      BY <1>0, <2>6, <2>8, <2>9, <3>1 DEF Core, IdsFresh, Sends, SameTables
    <3> QED
      BY <1>0, <2>9, <2>11, <3>2 DEF Core, IdsFresh, SameTables
  <2>14. DeliveringIsLive(d)
    BY <1>0, <2>9, <2>10 DEF Core, DeliveringIsLive, SameTables
  <2>15. StackSound(d)
    <3>1. \A i \in DOMAIN c.stack : c.stack[i].sub \subseteq Subs
      BY <1>0, StackFields
    <3>2. \A i \in DOMAIN c.stack : ItemSound(d, c.stack[i])
      <4>1. ASSUME NEW w, w.sub \subseteq Subs, ItemSound(c, w)
            PROVE  ItemSound(d, w)
        BY <2>9, <2>10, <2>11, <4>1 DEF ItemSound, Unwired
      <4> QED
        BY <1>0, <3>1, <4>1 DEF Core, StackSound
    <3>3. PairSound(d, d.stack)
      BY <1>0, <2>9, <2>11, <3>1 DEF Core, StackSound, PairSound
    <3> QED
      BY <2>9, <3>2, <3>3 DEF StackSound
  <2>16. SubsSound(d)
    <3>1. \A t \in Subs : SubSound(d.sub[t])
      BY <1>0, <2>4, <2>9 DEF Core, SubsSound
    <3> QED
      BY <1>0, <2>9, <2>11, <3>1, ClientFields DEF Core, SubsSound
  <2>17. Truthful(d, g)
    BY <1>0, <2>11 DEF Core, Truthful
  <2>18. \A t \in Subs : Live(c, m.liveId, t) => t = s
    <3>1. \A t \in Subs : Live(c, m.liveId, t) => c.sub[t].liveId = m.liveId
      BY <1>0, <2>1 DEF Core, TablesSound
    <3> QED
      BY <1>0, <1>2, <3>1 DEF Core, IdsFresh
  <2>19. \A t \in Subs : ~Pending(c, m.liveId, t)
    BY <1>0, <2>1 DEF Core, TablesSound
  <2>20. /\ \A i \in DOMAIN c.link.up : Up(c, i, "renew") /\ c.link.up[i].id = m.liveId
              => ~Live(c, m.liveId, s)
         /\ \A i \in DOMAIN c.link.down : Down(c, i, "renewed") /\ c.link.down[i].id = m.liveId
              => ~Live(c, m.liveId, s)
    <3>1. WireSound(c, g)
      BY <1>0 DEF Core
    <3>2. ASSUME NEW i \in DOMAIN c.link.up, Up(c, i, "renew"), c.link.up[i].id = m.liveId
          PROVE  ~Live(c, m.liveId, s)
      <4>1. c.link.up[i].cap > 0 /\ Renews(c, c.link.up[i])
        BY <3>1, <3>2 DEF WireSound, Up
      <4> QED
        BY <1>2, <3>2, <4>1 DEF Renews
    <3>3. ASSUME NEW i \in DOMAIN c.link.down, Down(c, i, "renewed"), c.link.down[i].id = m.liveId
          PROVE  ~Live(c, m.liveId, s)
      <4>1. c.link.down[i].cap \in Capabilities /\ Renews(c, c.link.down[i])
        BY <3>1, <3>3 DEF WireSound, Down, Granted
      <4> QED
        BY <1>2, <3>3, <4>1, Bounds DEF Renews
    <3> QED
      BY <3>2, <3>3
  <2>21. WireSound(d, g)
    <3>1. WireSound(c, g)
      BY <1>0 DEF Core
    <3>2. \A x : About(c, x) => About(d, x)
      BY <2>10, <2>11 DEF About, Ended
    <3>3. \A x : Renews(c, x) /\ (x.id = m.liveId => ~Live(c, m.liveId, s)) => Renews(d, x)
      <4> SUFFICES ASSUME NEW x, Renews(c, x), x.id = m.liveId => ~Live(c, m.liveId, s),
                          NEW t \in Subs
                   PROVE  /\ ~Pending(d, x.id, t)
                          /\ Live(d, x.id, t) => x.sub = t /\ x.cap = d.sub[t].renewing
        BY DEF Renews
      <4>1. ~Pending(d, x.id, t)
        BY <2>10 DEF Renews
      <4>2. ASSUME Live(d, x.id, t)
            PROVE  x.sub = t /\ x.cap = d.sub[t].renewing
        <5>1. Live(c, x.id, t)
          BY <2>10, <4>2
        <5>2. t # s
          <6>1. ASSUME t = s
                PROVE  FALSE
            <7>1. x.id \in Nat
              BY <1>0, <5>1, ClientFields DEF Live, Tables
            <7>2. x.id = m.liveId
              BY <1>0, <5>1, <6>1, <7>1 DEF Core, TablesSound
            <7> QED
              BY <5>1, <6>1, <7>2
          <6> QED
            BY <6>1
        <5> QED
          BY <2>11, <5>1, <5>2 DEF Renews
      <4> QED
        BY <4>1, <4>2
    <3>4. Renews(d, f)
      BY <2>6, <2>10, <2>11, <2>18, <2>19 DEF Renews
    <3>5. \A i \in DOMAIN d.link.up : d.link.up[i].type \in {"subscribe", "renew"} =>
            d.link.up[i].sub \in Subs /\ d.link.up[i].cap > 0
      BY <2>1, <2>6, <2>8, <3>1 DEF WireSound, Sends
    <3>6. \A i \in DOMAIN d.link.up : Up(d, i, "subscribe") => About(d, d.link.up[i])
      BY <2>6, <2>8, <3>1, <3>2 DEF WireSound, Up, Sends
    <3>7. \A i \in DOMAIN d.link.up : Up(d, i, "renew") => Renews(d, d.link.up[i])
      BY <2>8, <2>20, <3>1, <3>3, <3>4 DEF WireSound, Up, Sends
    <3>8. \A i \in DOMAIN d.link.down : Down(d, i, "subscribed") => About(d, d.link.down[i])
      BY <2>9, <3>1, <3>2 DEF WireSound, Down
    <3>9. \A i \in DOMAIN d.link.down : Down(d, i, "renewed") => Renews(d, d.link.down[i])
      BY <2>9, <2>20, <3>1, <3>3 DEF WireSound, Down
    <3> QED
      BY <2>9, <3>1, <3>5, <3>6, <3>7, <3>8, <3>9 DEF WireSound
  <2>22. OneRenewal(d)
    <3>1. \A i : Up(d, i, "renew") =>
            \/ Up(c, i, "renew") /\ d.link.up[i] = c.link.up[i] /\ i \in DOMAIN c.link.up
            \/ i \in DOMAIN d.link.up /\ i \notin DOMAIN c.link.up /\ d.link.up[i].id = m.liveId
      BY <2>6, <2>8 DEF Up, Sends
    <3>2. \A i : Down(d, i, "renewed") <=> Down(c, i, "renewed")
      BY <2>9 DEF Down
    <3> SUFFICES ASSUME NEW l \in Nat, NEW t \in Subs, Live(d, l, t)
                 PROVE  /\ \A i, j \in DOMAIN d.link.up :
                             /\ Up(d, i, "renew") /\ d.link.up[i].id = l
                             /\ Up(d, j, "renew") /\ d.link.up[j].id = l
                             => i = j
                        /\ \A i, j \in DOMAIN d.link.down :
                             /\ Down(d, i, "renewed") /\ d.link.down[i].id = l
                             /\ Down(d, j, "renewed") /\ d.link.down[j].id = l
                             => i = j
                        /\ \A i \in DOMAIN d.link.up, j \in DOMAIN d.link.down :
                             ~ /\ Up(d, i, "renew") /\ d.link.up[i].id = l
                               /\ Down(d, j, "renewed") /\ d.link.down[j].id = l
      BY DEF OneRenewal
    <3>3. Live(c, l, t)
      BY <2>10
    <3>4. OneRenewal(c)
      BY <1>0 DEF Core
    <3>5. CASE l = m.liveId
      <4>1. t = s
        BY <2>18, <3>3, <3>5
      <4>2. /\ \A i \in DOMAIN c.link.up : ~(Up(c, i, "renew") /\ c.link.up[i].id = l)
            /\ \A i \in DOMAIN c.link.down : ~(Down(c, i, "renewed") /\ c.link.down[i].id = l)
        BY <2>20, <3>3, <3>5, <4>1
      <4> QED
        BY <2>8, <2>9, <3>1, <3>2, <4>2 DEF Sends
    <3>6. CASE l # m.liveId
      BY <2>9, <3>1, <3>2, <3>3, <3>4, <3>6 DEF OneRenewal
    <3> QED
      BY <3>5, <3>6
  <2>23. ServedIds(d)
    <3>1. \A i : Up(d, i, "subscribe") =>
            Up(c, i, "subscribe") /\ d.link.up[i] = c.link.up[i] /\ i \in DOMAIN c.link.up
      BY <2>6, <2>8 DEF Up, Sends
    <3> QED
      BY <1>0, <2>9, <3>1 DEF Core, ServedIds
  <2>24. Core(d, g)
    BY <2>7, <2>12, <2>13, <2>14, <2>15, <2>16, <2>17, <2>21, <2>22, <2>23 DEF Core
  <2>25. \A t \in Subs : Consistent(c, t) => Consistent(d, t)
    BY <2>9, <2>10, <2>11 DEF Consistent, Corrected, Corrects, Replacing
  <2>26. \A l : Accounted(c, l) => Accounted(d, l)
    BY <2>8, <2>9, <2>10 DEF Accounted, Up, Down, Sends
  <2>27. Terminating(c) => Terminating(d)
    BY <2>9 DEF Terminating
  <2>28. Sound(d, g, X, Y)
    BY <2>9, <2>24, <2>25, <2>26, <2>27 DEF Sound
  <2> QED
    BY <2>2, <2>28
<1> QED
  BY <1>1, <1>2

-----------------------------------------------------------------------------
(* The next item of unfinished work is taken.                              *)

Popped(c) == [c EXCEPT !.stack = Tail(@), !.listening = FALSE]

LEMMA PopEffect ==
  ASSUME NEW c \in Clients, c.stack # <<>>
  PROVE  LET e == Popped(c)
         IN  /\ e \in Clients /\ SameSubs(c, e) /\ SameTables(c, e) /\ SameWire(c, e)
             /\ e.stack = Tail(c.stack)
             /\ 1 \in DOMAIN c.stack /\ c.stack[1] = Head(c.stack) /\ Head(c.stack) \in Items
             /\ Len(e.stack) = Len(c.stack) - 1 /\ Len(c.stack) \in Nat
             /\ DOMAIN c.stack = 1..Len(c.stack) /\ DOMAIN e.stack = 1..(Len(c.stack) - 1)
             /\ \A i \in DOMAIN e.stack : i + 1 \in DOMAIN c.stack /\ e.stack[i] = c.stack[i + 1]
             /\ \A i \in DOMAIN c.stack :
                  i = 1 \/ (i - 1 \in DOMAIN e.stack /\ e.stack[i - 1] = c.stack[i])
<1> DEFINE e == Popped(c)
<1>1. c.stack \in Seq(Items)
  BY ClientFields
<1>2. /\ Head(c.stack) \in Items /\ Tail(c.stack) \in Seq(Items)
      /\ Len(Tail(c.stack)) = Len(c.stack) - 1
      /\ Len(c.stack) \in Nat /\ DOMAIN c.stack = 1..Len(c.stack) /\ 1 \in DOMAIN c.stack
      /\ c.stack[1] = Head(c.stack)
      /\ DOMAIN Tail(c.stack) = 1..(Len(c.stack) - 1)
      /\ \A i \in DOMAIN Tail(c.stack) :
           i + 1 \in DOMAIN c.stack /\ Tail(c.stack)[i] = c.stack[i + 1]
      /\ \A i \in DOMAIN c.stack :
           i = 1 \/ (i - 1 \in DOMAIN Tail(c.stack) /\ Tail(c.stack)[i - 1] = c.stack[i])
  BY <1>1, TailIndex
<1>3. /\ e \in Clients /\ SameSubs(c, e) /\ SameTables(c, e) /\ SameWire(c, e)
      /\ e.stack = Tail(c.stack)
  BY <1>2 DEF Popped, Clients, SameSubs, SameTables, SameWire
<1> HIDE DEF e
<1>4. /\ e \in Clients /\ SameSubs(c, e) /\ SameTables(c, e) /\ SameWire(c, e)
      /\ e.stack = Tail(c.stack)
      /\ 1 \in DOMAIN c.stack /\ c.stack[1] = Head(c.stack) /\ Head(c.stack) \in Items
      /\ Len(e.stack) = Len(c.stack) - 1 /\ Len(c.stack) \in Nat
      /\ DOMAIN c.stack = 1..Len(c.stack) /\ DOMAIN e.stack = 1..(Len(c.stack) - 1)
      /\ \A i \in DOMAIN e.stack : i + 1 \in DOMAIN c.stack /\ e.stack[i] = c.stack[i + 1]
      /\ \A i \in DOMAIN c.stack :
           i = 1 \/ (i - 1 \in DOMAIN e.stack /\ e.stack[i - 1] = c.stack[i])
  BY <1>2, <1>3
<1> QED
  BY <1>4 DEF e

LEMMA PopCore ==
  ASSUME NEW c, NEW g, Core(c, g), c.stack # <<>>
  PROVE  LET e == Popped(c)
         IN  Core(e, g) /\ ItemSound(e, Head(c.stack))
<1> DEFINE e == Popped(c)
           w == Head(c.stack)
<1>1. c \in Clients /\ StackSound(c)
  BY DEF Core
<1>2. /\ e \in Clients /\ SameSubs(c, e) /\ SameTables(c, e) /\ SameWire(c, e)
      /\ 1 \in DOMAIN c.stack /\ c.stack[1] = w
      /\ Len(e.stack) = Len(c.stack) - 1 /\ Len(c.stack) \in Nat
      /\ DOMAIN c.stack = 1..Len(c.stack) /\ DOMAIN e.stack = 1..(Len(c.stack) - 1)
      /\ \A i \in DOMAIN e.stack : i + 1 \in DOMAIN c.stack /\ e.stack[i] = c.stack[i + 1]
  BY <1>1, PopEffect
<1> HIDE DEF e, w
<1>3. \A v : ItemSound(c, v) => ItemSound(e, v)
  BY <1>2 DEF ItemSound, Unwired, Pending, Live, SameSubs, SameTables, SameWire
<1>4. PairSound(e, e.stack)
  <2> SUFFICES ASSUME NEW i \in DOMAIN e.stack, NEW j \in DOMAIN e.stack
               PROVE  /\ e.stack[i].do \in {"replace", "sending"} => i = Len(e.stack)
                      /\ e.stack[i].do = "replace" /\ e.stack[j].do = "resubscribe" =>
                           e.stack[i].sub # e.stack[j].sub
                      /\ e.stack[i].do = "renew" /\ e.stack[j] = e.stack[i] => i = j
                      /\ e.stack[i].do = "live" /\ e.stack[j].do = "terminating" =>
                           \A s \in e.stack[i].sub : e.sub[s].status = "closed"
    BY DEF PairSound
  <2> DEFINE a == i + 1
             b == j + 1
  <2>1. i \in Nat /\ j \in Nat
    BY <1>2
  <2>2. a \in DOMAIN c.stack /\ b \in DOMAIN c.stack /\ e.stack[i] = c.stack[a]
        /\ e.stack[j] = c.stack[b]
    <3>1. \A h \in DOMAIN e.stack : h + 1 \in DOMAIN c.stack /\ e.stack[h] = c.stack[h + 1]
      BY <1>2
    <3> QED
      BY <3>1
  <2>3. (a = b => i = j) /\ (a = Len(c.stack) => i = Len(e.stack))
    <3>1. Len(e.stack) = Len(c.stack) - 1 /\ Len(c.stack) \in Nat
      BY <1>2
    <3>2. a = b => i = j
      BY <2>1
    <3>3. a = Len(c.stack) => i = Len(e.stack)
      BY <2>1, <3>1
    <3> QED
      BY <3>2, <3>3
  <2> HIDE DEF a, b
  <2>4. PairSound(c, c.stack)
    BY <1>1 DEF StackSound
  <2>5. /\ c.stack[a].do \in {"replace", "sending"} => a = Len(c.stack)
        /\ c.stack[a].do = "replace" /\ c.stack[b].do = "resubscribe" =>
             c.stack[a].sub # c.stack[b].sub
        /\ c.stack[a].do = "renew" /\ c.stack[b] = c.stack[a] => a = b
        /\ c.stack[a].do = "live" /\ c.stack[b].do = "terminating" =>
             \A s \in c.stack[a].sub : c.sub[s].status = "closed"
    BY <2>2, <2>4 DEF PairSound
  <2>6. e.sub = c.sub
    BY <1>2 DEF SameSubs
  <2> QED
    BY <2>2, <2>3, <2>5, <2>6
<1>5. StackSound(e) /\ ItemSound(e, w)
  BY <1>1, <1>2, <1>3, <1>4 DEF StackSound
<1>6. SameRoutes(c, e)
  BY <1>2 DEF SameRoutes, SameSubs
<1>7. /\ TablesSound(e) /\ IdsFresh(e) /\ DeliveringIsLive(e) /\ WireSound(e, g)
      /\ OneRenewal(e) /\ ServedIds(e)
  BY <1>2, <1>6, RoutesTransfer DEF Core, SameSubs, SameWire
<1>8. SubsSound(e) /\ Truthful(e, g)
  BY <1>2 DEF Core, SubsSound, Truthful, SameSubs, SameWire
<1>9. Core(e, g) /\ ItemSound(e, w)
  BY <1>2, <1>5, <1>7, <1>8 DEF Core
<1> QED
  BY <1>9 DEF e, w

\* What a listener has still to hear, without the item that is taken.
LEMMA PopConsistent ==
  ASSUME NEW c, NEW g, Inv(c, g), c.stack # <<>>, NEW s \in Subs
  PROVE  LET e == Popped(c)
             w == Head(c.stack)
         IN  /\ e.sub[s].status = "live" =>
                  Live(e, e.sub[s].liveId, s) \/ Corrected(e, s) \/ Corrects(e, w, s)
             /\ e.sub[s].state = "active" =>
                  \/ s \in e.active \/ e.disposed \/ Replacing(e, s)
                  \/ w.do = "replace" /\ s \in w.sub
<1> DEFINE e == Popped(c)
           w == Head(c.stack)
<1>1. c \in Clients /\ Consistent(c, s)
  BY DEF Inv, Sound, Core, Nobody
<1>2. /\ e \in Clients /\ SameSubs(c, e) /\ SameTables(c, e) /\ SameWire(c, e)
      /\ c.stack[1] = w
      /\ \A i \in DOMAIN c.stack :
           i = 1 \/ (i - 1 \in DOMAIN e.stack /\ e.stack[i - 1] = c.stack[i])
  BY <1>1, PopEffect
<1> HIDE DEF e, w
<1>3. Live(c, c.sub[s].liveId, s) => Live(e, e.sub[s].liveId, s)
  BY <1>2 DEF Live, SameSubs, SameTables
<1>4. Corrected(c, s) => Corrected(e, s) \/ Corrects(e, w, s)
  BY <1>2 DEF Corrected, Corrects, SameSubs
<1>5. Replacing(c, s) => Replacing(e, s) \/ (w.do = "replace" /\ s \in w.sub)
  BY <1>2 DEF Replacing
<1>6. /\ e.sub[s].status = "live" =>
           Live(e, e.sub[s].liveId, s) \/ Corrected(e, s) \/ Corrects(e, w, s)
      /\ e.sub[s].state = "active" =>
           \/ s \in e.active \/ e.disposed \/ Replacing(e, s)
           \/ w.do = "replace" /\ s \in w.sub
  BY <1>1, <1>2, <1>3, <1>4, <1>5 DEF Consistent, SameSubs
<1> QED
  BY <1>6 DEF e, w

LEMMA PopSound ==
  ASSUME NEW c, NEW g, NEW X, Inv(c, g), c.stack # <<>>, Head(c.stack).do # "terminating",
         \A s \in Subs \ X : /\ ~Corrects(Popped(c), Head(c.stack), s)
                             /\ Head(c.stack).do = "replace" => s \notin Head(c.stack).sub
  PROVE  Sound(Popped(c), g, X, Nobody)
<1> DEFINE e == Popped(c)
           w == Head(c.stack)
<1>1. c \in Clients /\ Core(c, g)
  BY DEF Inv, Sound, Core
<1>2. \A s \in Subs \ X : Consistent(e, s)
  BY PopConsistent DEF Consistent
<1>3. Core(e, g)
  BY <1>1, PopCore
<1>4. /\ SameTables(c, e) /\ SameWire(c, e) /\ c.stack[1] = w
      /\ \A i \in DOMAIN c.stack :
           i = 1 \/ (i - 1 \in DOMAIN e.stack /\ e.stack[i - 1] = c.stack[i])
  BY <1>1, PopEffect
<1>5. w.do # "terminating"
  OBVIOUS
<1> HIDE DEF e, w
<1>6. Terminating(c) => Terminating(e)
  BY <1>4, <1>5 DEF Terminating
<1>7. \A l : Accounted(c, l) => Accounted(e, l)
  BY <1>4 DEF Accounted, Live, Up, Down, SameTables, SameWire
<1>8. e.link = c.link /\ e.socket = c.socket /\ e.terminal = c.terminal
  BY <1>4 DEF SameWire
<1>9. Sound(e, g, X, Nobody)
  BY <1>2, <1>3, <1>6, <1>7, <1>8 DEF Inv, Sound
<1> QED
  BY <1>9 DEF e

-----------------------------------------------------------------------------
(* A subscription changes and the wire does not.                           *)

\* No table names the subscription.
Apart(c, s) == \A r \in Nat : ~Pending(c, r, s) /\ ~Live(c, r, s)

Changes(c, d, s) ==
  /\ \A t \in Subs : t # s => d.sub[t] = c.sub[t]
  /\ Same(c, d) /\ d.disposed = c.disposed
  /\ d.active = c.active \/ d.active = c.active \cup {s}
  /\ d.managed = c.managed \/ (~c.disposed /\ d.managed = c.managed \cup {s})
  /\ SubSound(d.sub[s]) /\ d.sub[s].state # "new"
  /\ d.sub[s].status = "closed" <=> c.sub[s].status = "closed"
  /\ d.sub[s].status # "closed" => s \in d.managed
  /\ d.sub[s].request = c.sub[s].request /\ d.sub[s].liveId = c.sub[s].liveId
  /\ Apart(c, s) \/ (/\ d.sub[s].state = c.sub[s].state
                     /\ d.sub[s].renewing = c.sub[s].renewing)
  /\ d.sub[s].requested = c.sub[s].requested \/ \A r \in Nat : ~Pending(c, r, s)
  /\ \A k \in Capabilities :
       /\ d.sub[s].answers[k] = "pending" => s \in d.managed
       /\ d.sub[s].answers[k] = "resolved" => c.sub[s].answers[k] = "resolved"
  /\ \A i \in DOMAIN c.stack : s \in c.stack[i].sub =>
       /\ c.stack[i].do = "replace" => d.sub[s].state # "awaiting_query"
       /\ c.stack[i].do = "renew" =>
            /\ d.sub[s].answers[c.stack[i].cap] = "none"
            /\ d.sub[s].prior[c.stack[i].cap] # "none"
            /\ \A k \in Capabilities :
                 1 < k /\ k < c.stack[i].cap => d.sub[s].answers[k] # "none"

LEMMA ChangesCore ==
  ASSUME NEW c, NEW g, NEW d \in Clients, NEW s \in Subs, Core(c, g), Changes(c, d, s)
  PROVE  Core(d, g)
<1>1. /\ \A t \in Subs : t # s => d.sub[t] = c.sub[t]
      /\ d.pendingRequests = c.pendingRequests /\ d.liveSubscriptions = c.liveSubscriptions
      /\ d.detaching = c.detaching /\ d.targets = c.targets /\ d.delivering = c.delivering
      /\ d.requestId = c.requestId
      /\ d.socket = c.socket /\ d.link = c.link /\ d.ready = c.ready /\ d.stack = c.stack
      /\ d.disposed = c.disposed /\ c.active \subseteq d.active
  BY DEF Changes, Same, SameTables, SameWire
<1>2. \A r, t : (Pending(d, r, t) <=> Pending(c, r, t)) /\ (Live(d, r, t) <=> Live(c, r, t))
  BY <1>1 DEF Pending, Live
<1>3. \A t \in Subs : d.sub[t].request = c.sub[t].request /\ d.sub[t].liveId = c.sub[t].liveId
  BY <1>1 DEF Changes
<1>4. \A r \in Nat, t \in Subs : Pending(c, r, t) \/ Live(c, r, t) =>
        d.sub[t].state = c.sub[t].state /\ d.sub[t].renewing = c.sub[t].renewing
  BY <1>1 DEF Changes, Apart
<1>5. \A r \in Nat, t \in Subs : Pending(c, r, t) => d.sub[t].requested = c.sub[t].requested
  BY <1>1 DEF Changes
<1>6. TablesSound(d)
  <2>1. ASSUME NEW r \in Nat, NEW t \in Subs, Pending(d, r, t)
        PROVE  /\ r > 0 /\ r <= d.requestId
               /\ \/ Ended(d.sub[t])
                  \/ /\ d.sub[t].state = "active"
                     /\ d.sub[t].request = r /\ d.sub[t].liveId = 0
               /\ r \notin d.detaching
               /\ \A u \in Subs : d.sub[u].liveId # r /\ ~Live(d, r, u)
               /\ \A u \in Subs : Pending(d, r, u) => t = u
    <3>1. Pending(c, r, t)
      BY <1>2, <2>1
    <3> QED
      BY <1>1, <1>2, <1>3, <1>4, <3>1 DEF Core, TablesSound, Ended
  <2>2. ASSUME NEW l \in Nat, NEW t \in Subs, Live(d, l, t)
        PROVE  /\ l > 0 /\ l <= d.requestId
               /\ d.sub[t].state = "active" /\ d.sub[t].liveId = l
               /\ t \in d.active
               /\ l \notin d.detaching
    <3>1. Live(c, l, t)
      BY <1>2, <2>2
    <3> QED
      BY <1>1, <1>3, <1>4, <3>1 DEF Core, TablesSound
  <2> QED
    BY <2>1, <2>2 DEF TablesSound
<1>7. IdsFresh(d)
  BY <1>1, <1>3 DEF Core, IdsFresh
<1>8. DeliveringIsLive(d)
  BY <1>1, <1>2 DEF Core, DeliveringIsLive
<1>9. StackSound(d)
  <2>1. ASSUME NEW i \in DOMAIN c.stack
        PROVE  ItemSound(d, c.stack[i])
    <3> DEFINE w == c.stack[i]
    <3>1. ItemSound(c, w) /\ w.sub \subseteq Subs
      BY StackFields DEF Core, StackSound
    <3>2. s \in w.sub =>
            /\ w.do = "replace" => d.sub[s].state # "awaiting_query"
            /\ w.do = "renew" =>
                 /\ d.sub[s].answers[w.cap] = "none" /\ d.sub[s].prior[w.cap] # "none"
                 /\ \A k \in Capabilities : 1 < k /\ k < w.cap => d.sub[s].answers[k] # "none"
      BY DEF Changes
    <3>3. d.sub[s].state # "new" /\ (d.sub[s].status = "closed" <=> c.sub[s].status = "closed")
      BY DEF Changes
    <3> HIDE DEF w
    <3>4. \A t \in w.sub : d.sub[t].state # "new"
      BY <1>1, <3>1, <3>3 DEF ItemSound
    <3>5. w.do = "replace" => \A t \in w.sub : Unwired(d, t) /\ d.sub[t].state # "awaiting_query"
      <4> SUFFICES ASSUME w.do = "replace", NEW t \in w.sub
                   PROVE  Unwired(d, t) /\ d.sub[t].state # "awaiting_query"
        OBVIOUS
      <4>1. Unwired(c, t) /\ c.sub[t].state # "awaiting_query" /\ t \in Subs
        BY <3>1 DEF ItemSound
      <4>2. Unwired(d, t)
        BY <1>2, <1>3, <4>1 DEF Unwired
      <4> QED
        BY <1>1, <3>2, <4>1, <4>2
    <3>6. w.do = "renew" =>
            /\ w.cap > 1
            /\ \A t \in w.sub :
                 /\ d.sub[t].answers[w.cap] = "none" /\ d.sub[t].prior[w.cap] # "none"
                 /\ \A k \in Capabilities : 1 < k /\ k < w.cap => d.sub[t].answers[k] # "none"
      <4> SUFFICES ASSUME w.do = "renew"
                   PROVE  /\ w.cap > 1
                          /\ \A t \in w.sub :
                               /\ d.sub[t].answers[w.cap] = "none" /\ d.sub[t].prior[w.cap] # "none"
                               /\ \A k \in Capabilities :
                                    1 < k /\ k < w.cap => d.sub[t].answers[k] # "none"
        OBVIOUS
      <4>1. w.cap > 1
        BY <3>1 DEF ItemSound
      <4> SUFFICES ASSUME NEW t \in w.sub
                   PROVE  /\ d.sub[t].answers[w.cap] = "none" /\ d.sub[t].prior[w.cap] # "none"
                          /\ \A k \in Capabilities :
                               1 < k /\ k < w.cap => d.sub[t].answers[k] # "none"
        BY <4>1
      <4>2. CASE t = s
        BY <3>2, <4>2
      <4>3. CASE t # s
        <5>1. t \in Subs /\ d.sub[t] = c.sub[t]
          BY <1>1, <3>1, <4>3
        <5> QED
          BY <3>1, <5>1 DEF ItemSound
      <4> QED
        BY <4>2, <4>3
    <3>7. w.do = "live" => \A t \in w.sub : d.sub[t].status = "closed" \/ Live(d, d.sub[t].liveId, t)
      BY <1>1, <1>2, <1>3, <3>1, <3>3 DEF ItemSound
    <3>8. w.do = "detached" =>
            ~d.ready /\ \A r \in Nat, t \in Subs : ~Pending(d, r, t) /\ ~Live(d, r, t)
      BY <1>1, <1>2, <3>1 DEF ItemSound
    <3>9. w.do \notin {"sending", "detached", "terminating"} => \E t \in Subs : w.sub = {t}
      BY <3>1 DEF ItemSound
    <3>10. ItemSound(d, w)
      BY <3>4, <3>5, <3>6, <3>7, <3>8, <3>9 DEF ItemSound
    <3> QED
      BY <3>10 DEF w
  <2>2. PairSound(d, d.stack)
    <3>1. \A t \in Subs : c.sub[t].status = "closed" => d.sub[t].status = "closed"
      BY <1>1 DEF Changes
    <3>2. \A i \in DOMAIN c.stack : c.stack[i].sub \subseteq Subs
      BY StackFields DEF Core
    <3> QED
      BY <1>1, <3>1, <3>2 DEF Core, StackSound, PairSound
  <2> QED
    BY <1>1, <2>1, <2>2 DEF StackSound
<1>10. SubsSound(d)
  <2>1. \A t \in Subs : SubSound(d.sub[t])
    BY <1>1 DEF Changes, Core, SubsSound
  <2>2. c.managed \subseteq d.managed /\ d.managed \subseteq c.managed \cup {s}
        /\ d.active \subseteq c.active \cup {s}
    BY DEF Changes
  <2>3. \A t \in Subs, k \in Capabilities : d.sub[t].answers[k] = "pending" => t \in d.managed
    <3>1. SubsSound(c)
      BY DEF Core
    <3>2. \A k \in Capabilities : d.sub[s].answers[k] = "pending" => s \in d.managed
      BY DEF Changes
    <3> QED
      BY <1>1, <2>2, <3>1, <3>2 DEF SubsSound
  <2>4. \A t \in Subs : d.sub[t].state # "new" /\ d.sub[t].status # "closed" => t \in d.managed
    <3>1. SubsSound(c)
      BY DEF Core
    <3>2. d.sub[s].status # "closed" => s \in d.managed
      BY DEF Changes
    <3> QED
      BY <1>1, <2>2, <3>1, <3>2 DEF SubsSound
  <2>5. \A t \in d.managed \cup d.active : d.sub[t].state # "new"
    <3>1. c.managed \subseteq Subs /\ c.active \subseteq Subs /\ SubsSound(c)
      BY ClientFields DEF Core
    <3>2. d.sub[s].state # "new"
      BY DEF Changes
    <3> QED
      BY <1>1, <2>2, <3>1, <3>2 DEF SubsSound
  <2>6. d.disposed => d.managed = {} /\ d.socket = "none"
    <3>1. c.disposed => d.managed = c.managed
      BY DEF Changes
    <3> QED
      BY <1>1, <3>1 DEF Core, SubsSound
  <2> QED
    BY <2>1, <2>3, <2>4, <2>5, <2>6 DEF SubsSound
<1>11. Truthful(d, g)
  BY <1>1 DEF Changes, Core, Truthful
<1>12. WireSound(d, g)
  <2>1. \A h : h.id \in Nat /\ About(c, h) => About(d, h)
    <3> SUFFICES ASSUME NEW h, h.id \in Nat, About(c, h), NEW t \in Subs, Pending(d, h.id, t)
                 PROVE  h.sub = t /\ (~Ended(d.sub[t]) => h.cap = d.sub[t].requested)
      BY DEF About
    <3>1. Pending(c, h.id, t)
      BY <1>2
    <3> QED
      BY <1>4, <1>5, <3>1 DEF About, Ended
  <2>2. \A h : h.id \in Nat /\ Renews(c, h) => Renews(d, h)
    BY <1>2, <1>4 DEF Renews
  <2>3. /\ \A i \in DOMAIN c.link.up : c.link.up[i].id \in Nat
        /\ \A i \in DOMAIN c.link.down : c.link.down[i].id \in Nat
    BY ClientFields, LinkFields DEF Core
  <2>4. WireSound(c, g)
    BY DEF Core
  <2>5. /\ \A i \in DOMAIN d.link.up : Up(d, i, "subscribe") => About(d, d.link.up[i])
        /\ \A i \in DOMAIN d.link.up : Up(d, i, "renew") => Renews(d, d.link.up[i])
    BY <1>1, <2>1, <2>2, <2>3, <2>4 DEF WireSound, Up
  <2>6. /\ \A i \in DOMAIN d.link.down : Down(d, i, "subscribed") => About(d, d.link.down[i])
        /\ \A i \in DOMAIN d.link.down : Down(d, i, "renewed") => Renews(d, d.link.down[i])
    BY <1>1, <2>1, <2>2, <2>3, <2>4 DEF WireSound, Down
  <2> QED
    BY <1>1, <2>4, <2>5, <2>6 DEF WireSound
<1>13. OneRenewal(d) /\ ServedIds(d)
  BY <1>1, <1>2 DEF Core, OneRenewal, ServedIds, Up, Down
<1> QED
  BY <1>6, <1>7, <1>8, <1>9, <1>10, <1>11, <1>12, <1>13 DEF Core

LEMMA ChangesSound ==
  ASSUME NEW c, NEW g, NEW X, NEW Y, NEW d \in Clients, NEW s \in Subs, Sound(c, g, X, Y),
         Changes(c, d, s)
  PROVE  /\ Sound(d, g, X \cup {s}, Y)
         /\ Corrected(c, s) => Corrected(d, s)
         /\ Replacing(c, s) => Replacing(d, s)
         /\ \A l \in Nat : Live(d, l, s) <=> Live(c, l, s)
<1>1. Core(d, g)
  BY ChangesCore DEF Sound
<1>2. /\ \A t \in Subs : t # s => d.sub[t] = c.sub[t]
      /\ d.liveSubscriptions = c.liveSubscriptions /\ d.terminal = c.terminal
      /\ d.socket = c.socket /\ d.link = c.link /\ d.stack = c.stack
      /\ d.disposed = c.disposed /\ c.active \subseteq d.active
  BY DEF Changes, Same, SameTables, SameWire
<1>3. /\ \A t : Corrected(c, t) => Corrected(d, t)
      /\ \A t : Replacing(c, t) => Replacing(d, t)
      /\ \A l, t : Live(d, l, t) <=> Live(c, l, t)
      /\ Terminating(c) => Terminating(d)
  BY <1>2 DEF Corrected, Corrects, Replacing, Live, Terminating
<1>4. \A t \in Subs : t # s /\ Consistent(c, t) => Consistent(d, t)
  BY <1>2, <1>3 DEF Consistent
<1>5. \A l : Accounted(c, l) => Accounted(d, l)
  BY <1>2, <1>3 DEF Accounted, Up, Down
<1>6. Sound(d, g, X \cup {s}, Y)
  BY <1>1, <1>2, <1>3, <1>4, <1>5 DEF Sound
<1> QED
  BY <1>3, <1>6

\* The last subscription is dealt with.
LEMMA SettledSound ==
  ASSUME NEW c, NEW g, NEW Y, NEW X, NEW s \in Subs, X \subseteq {s}, Sound(c, g, X, Y),
         Consistent(c, s)
  PROVE  Sound(c, g, Nobody, Y)
BY DEF Sound, Nobody

-----------------------------------------------------------------------------
(* Listener calls and timers.                                              *)

\* Everything but what is shown, and what a failed renewal puts back, is the same.
Reshown(m, n) ==
  /\ n \in SubType
  /\ n.state = m.state /\ n.query = m.query /\ n.request = m.request
  /\ n.requested = m.requested /\ n.liveId = m.liveId /\ n.renewing = m.renewing
  /\ n.queued = m.queued /\ n.answers = m.answers
  /\ n.status = "closed" <=> m.status = "closed"

LEMMA ReshownChanges ==
  ASSUME NEW c, NEW g, NEW s \in Subs, Core(c, g), c.sub[s].state # "new",
         NEW n, Reshown(c.sub[s], n),
         \A i \in DOMAIN c.stack : s \in c.stack[i].sub /\ c.stack[i].do = "renew" =>
           n.prior[c.stack[i].cap] # "none"
  PROVE  LET d == Assign(c, s, n, c.active)
         IN  /\ d \in Clients /\ Changes(c, d, s) /\ d.sub[s] = n
             /\ d.active = c.active /\ d.disposed = c.disposed /\ d.stack = c.stack
<1> DEFINE A == c.active
           d == Assign(c, s, n, A)
<1>1. c \in Clients /\ c.sub[s] \in SubType /\ SubSound(c.sub[s]) /\ n \in SubType
      /\ A \in SUBSET Subs
  BY ClientFields DEF Core, SubsSound, Reshown
<1> HIDE DEF A
<1>2. /\ d \in Clients /\ Same(c, d) /\ d.managed = c.managed /\ d.disposed = c.disposed
      /\ d.active = A /\ d.sub[s] = n /\ \A t \in Subs : t # s => d.sub[t] = c.sub[t]
  BY <1>1, AssignEffect
<1> HIDE DEF d
<1>3. SubSound(n)
  <2>1. RenewalsSound(n)
    BY <1>1, RenewalsSame DEF SubSound, Reshown
  <2> QED
    BY <1>1, <2>1 DEF SubSound, Reshown
<1>4. /\ n.status # "closed" => s \in c.managed
      /\ \A k \in Capabilities : n.answers[k] = "pending" => s \in c.managed
  BY DEF Reshown, Core, SubsSound
<1>5. \A i \in DOMAIN c.stack : s \in c.stack[i].sub =>
        /\ c.stack[i].do = "replace" => n.state # "awaiting_query"
        /\ c.stack[i].do = "renew" =>
            /\ n.answers[c.stack[i].cap] = "none"
            /\ n.prior[c.stack[i].cap] # "none"
            /\ \A k \in Capabilities : 1 < k /\ k < c.stack[i].cap => n.answers[k] # "none"
  BY DEF Reshown, Core, StackSound, ItemSound
<1>6. Changes(c, d, s)
  BY <1>2, <1>3, <1>4, <1>5 DEF Changes, Reshown, A
<1>7. d \in Clients /\ Changes(c, d, s) /\ d.sub[s] = n /\ d.active = A
      /\ d.disposed = c.disposed /\ d.stack = c.stack
  BY <1>2, <1>6 DEF Same
<1> QED
  BY <1>7 DEF d, A

LEMMA ShowSound ==
  ASSUME NEW c, NEW g, NEW X, NEW Y, NEW s \in Subs, X \subseteq {s}, Sound(c, g, X, Y),
         c.sub[s].state # "new", NEW status \in Statuses \ {"closed"},
         status = "live" => c.sub[s].status = "closed" \/ Live(c, c.sub[s].liveId, s),
         c.sub[s].state = "active" => s \in c.active \/ c.disposed \/ Replacing(c, s)
  PROVE  Sound(Show(c, s, status), g, Nobody, Y)
<1>0. Core(c, g) /\ c \in Clients /\ c.sub[s] \in SubType
  BY ClientFields DEF Sound, Core
<1>1. CASE c.sub[s].status \in {"closed", status}
  <2>1. Show(c, s, status) = c
    BY <1>1 DEF Show
  <2>2. Consistent(c, s)
    BY <1>1 DEF Consistent
  <2> QED
    BY <2>1, <2>2, SettledSound
<1>2. CASE c.sub[s].status \notin {"closed", status}
  <2> DEFINE n == [c.sub[s] EXCEPT !.status = status]
             d == Assign(c, s, n, c.active)
             e == [d EXCEPT !.listening = TRUE]
  <2>1. Show(c, s, status) = e
    BY <1>0, <1>2 DEF Show, Assign, Clients
  <2>2. Reshown(c.sub[s], n) /\ n.status = status /\ n.prior = c.sub[s].prior
    BY <1>0, <1>2 DEF Reshown, SubType
  <2> HIDE DEF n
  <2>3. \A i \in DOMAIN c.stack : s \in c.stack[i].sub /\ c.stack[i].do = "renew" =>
          n.prior[c.stack[i].cap] # "none"
    <3>1. n.prior = c.sub[s].prior
      BY <2>2
    <3>2. \A i \in DOMAIN c.stack : s \in c.stack[i].sub /\ c.stack[i].do = "renew" =>
            c.sub[s].prior[c.stack[i].cap] # "none"
      BY <1>0 DEF Core, StackSound, ItemSound
    <3> QED
      BY <3>1, <3>2
  <2>4. /\ d \in Clients /\ Changes(c, d, s) /\ d.sub[s] = n
        /\ d.active = c.active /\ d.disposed = c.disposed
    <3>1. Core(c, g) /\ Reshown(c.sub[s], n)
      BY <1>0, <2>2
    <3> QED
      BY <2>3, <3>1, ReshownChanges
  <2> HIDE DEF d
  <2>5. /\ Sound(d, g, X \cup {s}, Y)
        /\ Replacing(c, s) => Replacing(d, s)
        /\ \A l \in Nat : Live(d, l, s) <=> Live(c, l, s)
    BY <2>4, ChangesSound
  <2>6. c.sub[s].liveId \in Nat
    BY <1>0, SubFields
  <2>7. Consistent(d, s)
    BY <1>2, <2>2, <2>4, <2>5, <2>6 DEF Consistent, Reshown
  <2>8. Sound(d, g, Nobody, Y)
    BY <2>5, <2>7, SettledSound
  <2>9. e \in Clients /\ SameSubs(d, e) /\ SameTables(d, e) /\ SameWire(d, e) /\ e.stack = d.stack
    BY <2>4 DEF Clients, SameSubs, SameTables, SameWire
  <2> HIDE DEF e
  <2> QED
    BY <2>1, <2>8, <2>9, FrameSound
<1> QED
  BY <1>1, <1>2

Recovering(c, s, v) == [c EXCEPT !.sub[s].recovery = v]

LEMMA RecoverySound ==
  ASSUME NEW c, NEW g, NEW Y, NEW s \in Subs, Sound(c, g, Nobody, Y),
         c.sub[s].state # "new", NEW v \in {"idle", "waiting", "trying", "settling"}
  PROVE  LET d == Recovering(c, s, v)
         IN  /\ d \in Clients /\ Sound(d, g, Nobody, Y) /\ d.stack = c.stack
             /\ d.sub[s].state = c.sub[s].state /\ d.sub[s].status = c.sub[s].status
             /\ d.link = c.link
<1> DEFINE m == c.sub[s]
           n == [m EXCEPT !.recovery = v]
           d == Assign(c, s, n, c.active)
           e == Recovering(c, s, v)
<1>1. Core(c, g) /\ c \in Clients /\ m \in SubType /\ Consistent(c, s)
  BY ClientFields DEF Sound, Core, Nobody
<1>2. e = d
  BY <1>1 DEF Assign, Clients, Recovering
<1>3. Reshown(m, n) /\ n.prior = m.prior /\ n.status = m.status
  BY <1>1 DEF Reshown, SubType
<1> HIDE DEF e, n
<1>4. \A i \in DOMAIN c.stack : s \in c.stack[i].sub /\ c.stack[i].do = "renew" =>
          n.prior[c.stack[i].cap] # "none"
  BY <1>1, <1>3 DEF Core, StackSound, ItemSound
<1>5. /\ d \in Clients /\ Changes(c, d, s) /\ d.sub[s] = n
      /\ d.active = c.active /\ d.disposed = c.disposed /\ d.stack = c.stack
  <2>1. c.sub[s].state # "new" /\ Reshown(c.sub[s], n)
    BY <1>3
  <2> HIDE DEF m
  <2> QED
    BY <1>1, <1>4, <2>1, ReshownChanges
<1> HIDE DEF d
<1>6. /\ Sound(d, g, Nobody \cup {s}, Y)
      /\ Corrected(c, s) => Corrected(d, s)
      /\ Replacing(c, s) => Replacing(d, s)
      /\ \A l \in Nat : Live(d, l, s) <=> Live(c, l, s)
  BY <1>5, ChangesSound
<1>7. m.liveId \in Nat
  BY <1>1, SubFields
<1>8. Consistent(d, s)
  BY <1>1, <1>3, <1>5, <1>6, <1>7 DEF Consistent, Reshown
<1>9. Sound(d, g, Nobody, Y)
  <2>1. Nobody \cup {s} \subseteq {s}
    BY DEF Nobody
  <2> DEFINE W == Nobody \cup {s}
  <2>2. Sound(d, g, W, Y) /\ W \subseteq {s}
    BY <1>6, <2>1
  <2> HIDE DEF W
  <2> QED
    BY <1>8, <2>2, SettledSound
<1>10. /\ d \in Clients /\ Sound(d, g, Nobody, Y) /\ d.stack = c.stack
       /\ d.sub[s].state = m.state /\ d.sub[s].status = m.status /\ d.link = c.link
  BY <1>3, <1>5, <1>9 DEF Changes, Same, SameWire, Reshown
<1> QED
  BY <1>2, <1>10 DEF e, m

-----------------------------------------------------------------------------
(* A query awaits a new capability.                                        *)

LEMMA OnEmptyStack ==
  ASSUME NEW c \in Clients, c.stack = Empty, NEW items \in Seq(Items)
  PROVE  items \o c.stack = items
BY EmptySeq, ConcatEmptySeq DEF Empty

LEMMA Unawaited ==
  ASSUME NEW c, c.stack = Empty
  PROVE  /\ \A s : ~Corrected(c, s) /\ ~Replacing(c, s) /\ LiveClosed(c, s)
         /\ ~Terminating(c)
         /\ \A i \in DOMAIN c.stack : FALSE
BY EmptyFacts DEF Corrected, Replacing, LiveClosed, Terminating

LEMMA AwaitReplacementSound ==
  ASSUME NEW c, NEW g, NEW Y, NEW s \in Subs, NEW rejected \in 0..MaxCapability,
         Sound(c, g, Nobody, Y), c.stack = Empty, c.sub[s].state = "active",
         c.sub[s].liveId = 0 \/ c.sub[s].liveId \notin c.link.served
  PROVE  Sound(AwaitReplacement(c, s, rejected), g, Nobody, Y)
<1> DEFINE m == c.sub[s]
           e == Unroute(c, s)
           n == ResetWire(m)
           A == c.active \ {s}
           d == Assign(e, s, n, A)
           w == Item("unavailable", s)
           v == [Item("replace", s) EXCEPT !.cap = rejected]
           items == Two(w, v)
<1>1. Core(c, g) /\ c \in Clients /\ m \in SubType /\ SubSound(m)
  BY ClientFields DEF Sound, Core, SubsSound
<1>2. e.sub = c.sub /\ e.active = c.active /\ e \in Clients
  BY <1>1, UnrouteEffect DEF SameSubs
<1>3. AwaitReplacement(c, s, rejected) = Push(d, items)
  BY <1>2 DEF AwaitReplacement, Assign, Two, Clients
<1>4. Released(m, n) /\ n.state = m.state /\ n.liveId = 0 /\ n.request = 0
  BY <1>1, ReleasedReset DEF SameBut
<1> HIDE DEF n, e
<1>5. d \in Clients /\ Leaves(c, d, s) /\ d.sub[s] = n /\ d.active = A
  <2>1. Stays(c, s, A)
    BY DEF Stays
  <2> HIDE DEF A
  <2> QED
    BY <1>1, <1>4, <2>1, UnrouteLeaves DEF e
<1> HIDE DEF d
<1>6. \A i \in DOMAIN c.stack : FALSE
  BY Unawaited
<1>7. Sound(d, g, Nobody \cup {s}, Y)
  <2>1. Terminating(c) \/ \A l \in c.link.served \ Y :
          l \in Y \/ (l # 0 /\ l = m.liveId) => Accounted(d, l)
    OBVIOUS
  <2> QED
    BY <1>5, <1>6, <2>1, LeavesSound
<1>8. /\ w \in Items /\ v \in Items /\ w.do = "unavailable" /\ w.sub = {s}
      /\ v.do = "replace" /\ v.sub = {s}
  BY Bounds DEF Item, Items, Works
<1> HIDE DEF w, v
<1>9. items \in Seq(Items) /\ DOMAIN items = {1, 2} /\ items[1] = w /\ items[2] = v
      /\ Len(items) = 2
  BY <1>8, ShortSequences
<1> HIDE DEF items
<1>10. Unwired(d, s) /\ d.sub[s].state = "active"
  <2>1. d.sub[s].request = 0 /\ d.sub[s].liveId = 0 /\ d.sub[s].state = "active"
    BY <1>4, <1>5
  <2>2. \A r \in Nat : ~Pending(d, r, s)
    BY <1>5, <2>1 DEF Leaves, Ended
  <2>3. \A r \in Nat : ~Live(d, r, s)
    BY <1>1, <1>5, LeavesLive DEF Core
  <2> QED
    BY <2>1, <2>2, <2>3 DEF Unwired
<1>11. \A i \in DOMAIN items : ItemSound(d, items[i])
  <2>1. ItemSound(d, w)
    BY <1>8, <1>10 DEF ItemSound
  <2>2. ItemSound(d, v)
    BY <1>8, <1>10 DEF ItemSound
  <2> QED
    BY <1>9, <2>1, <2>2
<1>12. PairSound(d, items \o d.stack)
  <2>1. items \o d.stack = items
    BY <1>5, <1>9, OnEmptyStack DEF Leaves
  <2>2. PairSound(d, items)
    BY <1>8, <1>9 DEF PairSound
  <2> QED
    BY <2>1, <2>2
<1>13. Core(Push(d, items), g)
  BY <1>7, <1>9, <1>11, <1>12, PushCore DEF Sound
<1> DEFINE X == Nobody \cup {s}
<1>14. Sound(d, g, X, Y) /\ \A t \in X : t = s
  BY <1>7 DEF Nobody
<1> HIDE DEF X
<1>15. Corrects(d, items[1], s) /\ 1 \in DOMAIN items /\ 2 \in DOMAIN items
       /\ items[2].do = "replace" /\ s \in items[2].sub
  BY <1>8, <1>9 DEF Corrects
<1>16. Sound(Push(d, items), g, Nobody, Y)
  BY <1>9, <1>13, <1>14, <1>15, PushSound
<1> QED
  BY <1>3, <1>16

LEMMA ResubscribeSound ==
  ASSUME NEW c, NEW g, NEW X, NEW Y, NEW s \in Subs, Sound(c, g, X, Y), ~Replacing(c, s)
  PROVE  Sound(Resubscribe(c, s), g, X, Y)
<1> DEFINE d == Connect(c)
<1>1. Sound(d, g, X, Y) /\ d.stack = c.stack
  BY ConnectSound
<1> HIDE DEF d
<1>2. ~Replacing(d, s)
  BY <1>1 DEF Replacing
<1>3. Sound(SendSubscribe(d, s), g, X, Y)
  BY <1>1, <1>2, SendSubscribeSound
<1>4. Resubscribe(c, s) \in {d, SendSubscribe(d, s)}
  BY DEF Resubscribe, d
<1> QED
  BY <1>1, <1>3, <1>4

\* A listener hears that the subscription connects, and then it is sent.
LEMMA PushResubscribe ==
  ASSUME NEW c, NEW g, NEW X, NEW Y, NEW s \in Subs, X \subseteq {s}, Sound(c, g, X, Y),
         c.sub[s].state # "new", s \in c.active, ~Replacing(c, s)
  PROVE  LET items == Two(Item("connecting", s), Item("resubscribe", s))
         IN  Sound(Push(c, items), g, Nobody, Y)
<1> DEFINE w == Item("connecting", s)
           v == Item("resubscribe", s)
           items == Two(w, v)
<1>1. Core(c, g) /\ c \in Clients
  BY DEF Sound, Core
<1>2. /\ w \in Items /\ w.do = "connecting" /\ w.sub = {s}
      /\ v \in Items /\ v.do = "resubscribe" /\ v.sub = {s}
  BY ItemType DEF Works
<1> HIDE DEF w, v
<1>3. items \in Seq(Items) /\ DOMAIN items = {1, 2} /\ items[1] = w /\ items[2] = v
  BY <1>2, ShortSequences
<1> HIDE DEF items
<1>4. \A i \in DOMAIN items : ItemSound(c, items[i])
  BY <1>2, <1>3 DEF ItemSound
<1>5. PairSound(c, items \o c.stack)
  <2>1. c.stack \in Seq(Items) /\ PairSound(c, c.stack)
    BY <1>1, ClientFields DEF Core, StackSound
  <2>2. \A j \in DOMAIN c.stack : c.stack[j].do = "replace" => c.stack[j].sub # {s}
    BY DEF Replacing
  <2> QED
    BY <1>2, <1>3, <2>1, <2>2, PushPairs
<1>6. Core(Push(c, items), g)
  BY <1>1, <1>3, <1>4, <1>5, PushCore
<1>7. Corrects(c, items[1], s) /\ 1 \in DOMAIN items
  BY <1>2, <1>3 DEF Corrects
<1>8. \A t \in X : t = s
  OBVIOUS
<1>9. Sound(Push(c, items), g, Nobody, Y)
  BY <1>3, <1>6, <1>7, <1>8, PushSound
<1> QED
  BY <1>9 DEF items, w, v

LEMMA ReplaceSound ==
  ASSUME NEW c, NEW g, NEW X, NEW Y, NEW s \in Subs, NEW rejected \in 0..MaxCapability,
         X \subseteq {s}, Sound(c, g, X, Y), c.stack = Empty, Unwired(c, s),
         c.sub[s].state # "new", c.sub[s].status # "live"
  PROVE  Sound(Replace(c, s, rejected), g, Nobody, Y)
<1> DEFINE m == c.sub[s]
<1>1. Core(c, g) /\ c \in Clients /\ m \in SubType /\ SubSound(m) /\ Apart(c, s)
  BY ClientFields DEF Sound, Core, SubsSound, Unwired, Apart
<1>2. \A i \in DOMAIN c.stack : FALSE
  BY Unawaited
<1>3. m.status # "closed" => s \in c.managed
  BY <1>1 DEF Core, SubsSound
<1>a. CASE rejected # 0 /\ m.query # rejected
  <2> DEFINE n == [m EXCEPT !.state = "active"]
             A == c.active \cup {s}
             d == Assign(c, s, n, A)
             items == Two(Item("connecting", s), Item("resubscribe", s))
  <2>1. Replace(c, s, rejected) = Push(d, items)
    BY <1>1, <1>a DEF Replace, Assign, Two, Clients
  <2>2. /\ n \in SubType /\ n.state = "active" /\ n.query = m.query /\ n.request = m.request
        /\ n.requested = m.requested /\ n.liveId = m.liveId /\ n.renewing = m.renewing
        /\ n.queued = m.queued /\ n.answers = m.answers /\ n.status = m.status
    BY <1>1 DEF SubType
  <2>3. SubSound(n)
    <3>1. RenewalsSound(n)
      BY <1>1, <2>2, RenewalsSame DEF SubSound
    <3> QED
      BY <1>1, <2>2, <3>1 DEF SubSound
  <2>4. A \in SUBSET Subs
    BY <1>1, ClientFields
  <2> HIDE DEF n, A
  <2>5. /\ d \in Clients /\ Same(c, d) /\ d.managed = c.managed /\ d.disposed = c.disposed
        /\ d.active = A /\ d.sub[s] = n /\ \A t \in Subs : t # s => d.sub[t] = c.sub[t]
    BY <1>1, <2>2, <2>4, AssignEffect
  <2> HIDE DEF d
  <2>6. Changes(c, d, s)
    <3>1. \A k \in Capabilities : /\ n.answers[k] = "pending" => s \in c.managed
                                  /\ n.answers[k] = "resolved" => m.answers[k] = "resolved"
      BY <1>1, <2>2 DEF Core, SubsSound
    <3> QED
      BY <1>1, <1>2, <1>3, <2>2, <2>3, <2>5, <3>1 DEF Changes, A
  <2>7. Sound(d, g, X \cup {s}, Y)
    BY <2>5, <2>6, ChangesSound
  <2> DEFINE W == X \cup {s}
  <2>8. W \subseteq {s} /\ Sound(d, g, W, Y)
    BY <2>7
  <2> HIDE DEF W
  <2>9. d.sub[s].state # "new" /\ s \in d.active /\ d.stack = Empty
    BY <2>2, <2>5 DEF A, Same
  <2>10. ~Replacing(d, s)
    BY <2>9, Unawaited
  <2> QED
    BY <2>1, <2>8, <2>9, <2>10, PushResubscribe
<1>b. CASE ~(rejected # 0 /\ m.query # rejected)
  <2> DEFINE a == [m EXCEPT !.state = "awaiting_query"]
             n == RejectRenewals(a)
             A == c.active
             d == Assign(c, s, n, A)
  <2>1. Replace(c, s, rejected) = d
    BY <1>1, <1>b DEF Replace, Assign, Clients
  <2>2. /\ a \in SubType /\ a.state = "awaiting_query" /\ a.query = m.query
        /\ a.request = m.request /\ a.requested = m.requested /\ a.liveId = m.liveId
        /\ a.renewing = m.renewing /\ a.queued = m.queued /\ a.answers = m.answers
        /\ a.status = m.status
    BY <1>1 DEF SubType
  <2> HIDE DEF a
  <2>3. RenewalsSound(a)
    BY <1>1, <2>2, RenewalsSame DEF SubSound
  <2>4. n \in SubType /\ SameBut(a, n) /\ SameWireIds(a, n)
    BY <2>2, RejectRenewalsEffect
  <2>5. /\ RenewalsSound(n)
        /\ \A k \in Capabilities : n.answers[k] # "pending"
        /\ \A k \in Capabilities : n.answers[k] = "resolved" => a.answers[k] = "resolved"
    BY <2>2, <2>3, RejectedSound
  <2> HIDE DEF n
  <2>6. SubSound(n)
    BY <1>1, <2>2, <2>4, <2>5 DEF SubSound, SameBut
  <2>7. A \in SUBSET Subs
    BY <1>1, ClientFields
  <2> HIDE DEF A
  <2>8. /\ d \in Clients /\ Same(c, d) /\ d.managed = c.managed /\ d.disposed = c.disposed
        /\ d.active = A /\ d.sub[s] = n /\ \A t \in Subs : t # s => d.sub[t] = c.sub[t]
    BY <1>1, <2>4, <2>7, AssignEffect
  <2> HIDE DEF d
  <2>9. Changes(c, d, s)
    BY <1>1, <1>2, <1>3, <2>2, <2>4, <2>5, <2>6, <2>8 DEF Changes, A, SameBut, SameWireIds
  <2>10. Sound(d, g, X \cup {s}, Y)
    BY <2>8, <2>9, ChangesSound
  <2> DEFINE W == X \cup {s}
  <2>11. W \subseteq {s} /\ Sound(d, g, W, Y)
    BY <2>10
  <2> HIDE DEF W
  <2>12. Consistent(d, s)
    BY <2>2, <2>4, <2>8 DEF Consistent, SameBut
  <2> QED
    BY <2>1, <2>11, <2>12, SettledSound
<1> QED
  BY <1>a, <1>b

-----------------------------------------------------------------------------
(* renew().                                                                *)

\* The application may renew with k: it is newer than all it has used.
MayRenew(c, s, k) ==
  /\ k > 1 /\ c.sub[s].state # "new" /\ c.sub[s].answers[k] = "none"
  /\ \A j \in Capabilities : 1 < j /\ j < k => c.sub[s].answers[j] # "none"
  /\ \A i \in DOMAIN c.stack :
       c.stack[i].do = "renew" /\ s \in c.stack[i].sub => c.stack[i].cap # k

\* Renewals that wait for a listener are not disturbed.
LEMMA RenewKeepsItems ==
  ASSUME NEW c, NEW g, NEW s \in Subs, NEW k \in Capabilities, Core(c, g), MayRenew(c, s, k),
         NEW n, n.prior = c.sub[s].prior, n.state # "awaiting_query" \/ n.state = c.sub[s].state,
         \A j \in Capabilities : j # k /\ c.sub[s].answers[j] = "none" => n.answers[j] = "none",
         \A j \in Capabilities : c.sub[s].answers[j] # "none" => n.answers[j] # "none"
  PROVE  \A i \in DOMAIN c.stack : s \in c.stack[i].sub =>
           /\ c.stack[i].do = "replace" => n.state # "awaiting_query"
           /\ c.stack[i].do = "renew" =>
                /\ n.answers[c.stack[i].cap] = "none"
                /\ n.prior[c.stack[i].cap] # "none"
                /\ \A j \in Capabilities : 1 < j /\ j < c.stack[i].cap => n.answers[j] # "none"
<1> SUFFICES ASSUME NEW i \in DOMAIN c.stack, s \in c.stack[i].sub
             PROVE  /\ c.stack[i].do = "replace" => n.state # "awaiting_query"
                    /\ c.stack[i].do = "renew" =>
                         /\ n.answers[c.stack[i].cap] = "none"
                         /\ n.prior[c.stack[i].cap] # "none"
                         /\ \A j \in Capabilities :
                              1 < j /\ j < c.stack[i].cap => n.answers[j] # "none"
  OBVIOUS
<1> DEFINE w == c.stack[i]
<1>1. ItemSound(c, w) /\ w.cap \in 0..MaxCapability
  BY StackFields DEF Core, StackSound
<1>2. w.do = "renew" => w.cap # k
  BY DEF MayRenew
<1>3. s \in w.sub
  OBVIOUS
<1> HIDE DEF w
<1>4. w.do = "replace" => n.state # "awaiting_query"
  BY <1>1, <1>3 DEF ItemSound
<1>5. ASSUME w.do = "renew"
      PROVE  /\ n.answers[w.cap] = "none"
             /\ n.prior[w.cap] # "none"
             /\ \A j \in Capabilities : 1 < j /\ j < w.cap => n.answers[j] # "none"
  <2>1. w.cap > 1 /\ c.sub[s].answers[w.cap] = "none" /\ c.sub[s].prior[w.cap] # "none"
        /\ \A j \in Capabilities : 1 < j /\ j < w.cap => c.sub[s].answers[j] # "none"
    BY <1>1, <1>3, <1>5 DEF ItemSound
  <2>2. w.cap \in Capabilities
    BY <1>1, <2>1, Bounds
  <2> QED
    BY <1>2, <1>5, <2>1, <2>2
<1> QED
  BY <1>4, <1>5 DEF w

\* The queue with the new capability, which supersedes those that wait.
LEMMA SupersededSound ==
  ASSUME NEW m \in SubType, SubSound(m), NEW k \in Capabilities, k > 1, m.answers[k] = "none",
         \A j \in Capabilities : 1 < j /\ j < k => m.answers[j] # "none"
  PROVE  LET n == [RejectQueued([m EXCEPT !.query = k]) EXCEPT !.queued = <<k>>,
                                                               !.answers[k] = "pending"]
         IN  /\ n \in SubType /\ RenewalsSound(n) /\ n.query = k
             /\ n.state = m.state /\ n.status = m.status /\ n.prior = m.prior
             /\ SameWireIds(m, n) /\ n.renewing = m.renewing
             /\ \A j \in Capabilities :
                  n.answers[j] = IF j = k THEN "pending"
                                 ELSE IF j \in ToSet(m.queued) THEN "rejected" ELSE m.answers[j]
<1> DEFINE a == [m EXCEPT !.query = k]
           b == RejectQueued(a)
           n == [b EXCEPT !.queued = <<k>>, !.answers[k] = "pending"]
<1>1. /\ a \in SubType /\ a.query = k /\ a.state = m.state /\ a.status = m.status
      /\ a.prior = m.prior /\ SameWireIds(m, a) /\ a.renewing = m.renewing
      /\ a.queued = m.queued /\ a.answers = m.answers
  BY Bounds DEF SubType, SameWireIds
<1> HIDE DEF a
<1>2. /\ b \in SubType /\ SameBut(a, b) /\ SameWireIds(a, b) /\ b.renewing = a.renewing
      /\ \A j \in Capabilities :
           b.answers[j] = IF j \in ToSet(a.queued) THEN "rejected" ELSE a.answers[j]
  BY <1>1, RejectQueuedEffect
<1> HIDE DEF b
<1>3. /\ n \in SubType /\ SameBut(b, n) /\ SameWireIds(b, n) /\ n.renewing = b.renewing
      /\ n.queued = <<k>>
      /\ \A j \in Capabilities : n.answers[j] = IF j = k THEN "pending" ELSE b.answers[j]
  <2>1. <<k>> \in Seq(Capabilities)
    OBVIOUS
  <2> DEFINE q == <<k>>
             f == [b.answers EXCEPT ![k] = "pending"]
  <2>2. n = [b EXCEPT !.queued = q, !.answers = f]
    BY <1>2 DEF SubType
  <2>3. f \in [Capabilities -> {"none", "pending", "resolved", "rejected"}]
        /\ \A j \in Capabilities : f[j] = IF j = k THEN "pending" ELSE b.answers[j]
    BY <1>2 DEF SubType
  <2>4. q \in Seq(Capabilities) /\ q = <<k>>
    BY <2>1
  <2> HIDE DEF q, f, n
  <2> QED
    BY <1>2, <2>2, <2>3, <2>4 DEF SubType, SameBut, SameWireIds
<1> HIDE DEF n
<1>4. \A j \in Capabilities :
        n.answers[j] = IF j = k THEN "pending"
                       ELSE IF j \in ToSet(m.queued) THEN "rejected" ELSE m.answers[j]
  BY <1>1, <1>2, <1>3
<1>5. n.query = k /\ n.state = m.state /\ n.status = m.status /\ n.prior = m.prior
      /\ SameWireIds(m, n) /\ n.renewing = m.renewing /\ n \in SubType
  BY <1>1, <1>2, <1>3 DEF SameBut, SameWireIds
<1>6. RenewalsSound(n)
  BY <1>3, <1>4, <1>5, RenewSound DEF SubSound
<1> QED
  BY <1>4, <1>5, <1>6 DEF n, b, a

\* What renew() leaves alone.
LEMMA RenewChanges ==
  ASSUME NEW c, NEW g, NEW s \in Subs, NEW k \in Capabilities, Core(c, g), MayRenew(c, s, k),
         NEW n \in SubType, RenewalsSound(n), n.query > 0,
         n.state \in {"active", c.sub[s].state}, n.state # c.sub[s].state => Apart(c, s),
         n.status = c.sub[s].status, n.prior = c.sub[s].prior, SameWireIds(c.sub[s], n),
         n.renewing = c.sub[s].renewing,
         \A j \in Capabilities :
           /\ j # k /\ c.sub[s].answers[j] = "none" => n.answers[j] = "none"
           /\ c.sub[s].answers[j] # "none" => n.answers[j] # "none"
           /\ n.answers[j] = "pending" =>
                n.state = "active" /\ (s \in c.managed \/ n.status # "closed")
           /\ n.answers[j] = "resolved" => c.sub[s].answers[j] = "resolved",
         NEW A, A = c.active \/ A = c.active \cup {s}
  PROVE  LET d == Assign(c, s, n, A)
         IN  /\ d \in Clients /\ Changes(c, d, s) /\ d.sub[s] = n
             /\ d.active = A /\ d.disposed = c.disposed /\ d.stack = c.stack
             /\ d.ready = c.ready
<1> DEFINE d == Assign(c, s, n, A)
<1>1. c \in Clients /\ A \in SUBSET Subs /\ c.sub[s].state # "new"
  BY ClientFields DEF Core, MayRenew
<1>2. /\ d \in Clients /\ Same(c, d) /\ d.managed = c.managed /\ d.disposed = c.disposed
      /\ d.active = A /\ d.sub[s] = n /\ \A t \in Subs : t # s => d.sub[t] = c.sub[t]
  BY <1>1, AssignEffect
<1> HIDE DEF d
<1>3. \A i \in DOMAIN c.stack : s \in c.stack[i].sub =>
           /\ c.stack[i].do = "replace" => n.state # "awaiting_query"
           /\ c.stack[i].do = "renew" =>
                /\ n.answers[c.stack[i].cap] = "none"
                /\ n.prior[c.stack[i].cap] # "none"
                /\ \A j \in Capabilities : 1 < j /\ j < c.stack[i].cap => n.answers[j] # "none"
  <2>1. n.state # "awaiting_query" \/ n.state = c.sub[s].state
    OBVIOUS
  <2> QED
    BY <2>1, RenewKeepsItems
<1>4. n.status # "closed" => s \in c.managed
  BY <1>1 DEF Core, SubsSound
<1>5. SubSound(n) /\ n.state # "new"
  <2>1. n.state # "new"
    BY <1>1
  <2> QED
    BY <2>1 DEF SubSound
<1>6. Changes(c, d, s)
  BY <1>2, <1>3, <1>4, <1>5 DEF Changes, SameWireIds
<1>7. /\ d \in Clients /\ Changes(c, d, s) /\ d.sub[s] = n
      /\ d.active = A /\ d.disposed = c.disposed /\ d.stack = c.stack /\ d.ready = c.ready
  BY <1>2, <1>6 DEF Same, SameWire
<1> QED
  BY <1>7 DEF d

LEMMA CoordinatorRenewSound ==
  ASSUME NEW c, NEW g, NEW s \in Subs, NEW k \in Capabilities, Sound(c, g, Nobody, Nobody),
         Granted(g), MayRenew(c, s, k)
  PROVE  Sound(CoordinatorRenew(c, s, k), g, Nobody, Nobody)
<1> DEFINE m == c.sub[s]
           r == [RejectQueued([m EXCEPT !.query = k]) EXCEPT !.queued = <<k>>,
                                                             !.answers[k] = "pending"]
           closed == m.status = "closed" \/ m.state \in {"closed", "failed"} \/ c.terminal # "no"
<1>1. /\ Core(c, g) /\ c \in Clients /\ m \in SubType /\ SubSound(m) /\ Consistent(c, s)
      /\ RenewalsSound(m) /\ m.state # "new" /\ m.query > 0 /\ m.liveId \in Nat
      /\ k > 1 /\ m.answers[k] = "none"
      /\ \A j \in Capabilities : 1 < j /\ j < k => m.answers[j] # "none"
  BY ClientFields, SubFields DEF Sound, Core, SubsSound, SubSound, MayRenew, Nobody
<1> DEFINE W == Nobody \cup {s}
<1>2. W \subseteq {s}
  BY DEF Nobody
<1> HIDE DEF W
<1>a. CASE closed
  <2> DEFINE n == [m EXCEPT !.answers[k] = "rejected"]
             A == c.active
             d == Assign(c, s, n, A)
  <2>1. CoordinatorRenew(c, s, k) = d
    BY <1>1, <1>a DEF CoordinatorRenew, Assign, Clients
  <2>2. /\ n \in SubType /\ n.state = m.state /\ n.status = m.status /\ n.query = m.query
        /\ n.prior = m.prior /\ SameWireIds(m, n) /\ n.renewing = m.renewing
        /\ n.queued = m.queued
        /\ \A j \in Capabilities : n.answers[j] = IF j = k THEN "rejected" ELSE m.answers[j]
    BY <1>1 DEF SubType, SameWireIds
  <2> HIDE DEF n
  <2>3. RenewalsSound(n)
    BY <1>1, <2>2 DEF RenewalsSound, Unanswered
  <2>4. \A j \in Capabilities :
           /\ j # k /\ m.answers[j] = "none" => n.answers[j] = "none"
           /\ m.answers[j] # "none" => n.answers[j] # "none"
           /\ n.answers[j] = "pending" =>
                n.state = "active" /\ (s \in c.managed \/ n.status # "closed")
           /\ n.answers[j] = "resolved" => m.answers[j] = "resolved"
    BY <1>1, <2>2 DEF Core, SubsSound, SubSound
  <2>5. A = c.active
    OBVIOUS
  <2> HIDE DEF A
  <2>6. /\ d \in Clients /\ Changes(c, d, s) /\ d.sub[s] = n
        /\ d.active = A /\ d.disposed = c.disposed /\ d.stack = c.stack
    BY <1>1, <2>2, <2>3, <2>4, <2>5, RenewChanges
  <2> HIDE DEF d
  <2>7. /\ Sound(d, g, W, Nobody)
        /\ Corrected(c, s) => Corrected(d, s)
        /\ Replacing(c, s) => Replacing(d, s)
        /\ \A l \in Nat : Live(d, l, s) <=> Live(c, l, s)
    BY <2>6, ChangesSound DEF W
  <2>8. Consistent(d, s)
    BY <1>1, <2>2, <2>5, <2>6, <2>7 DEF Consistent, SameWireIds
  <2> QED
    BY <1>2, <2>1, <2>7, <2>8, SettledSound
<1>3. /\ r \in SubType /\ RenewalsSound(r) /\ r.query = k
      /\ r.state = m.state /\ r.status = m.status /\ r.prior = m.prior
      /\ SameWireIds(m, r) /\ r.renewing = m.renewing
      /\ \A j \in Capabilities :
           r.answers[j] = IF j = k THEN "pending"
                          ELSE IF j \in ToSet(m.queued) THEN "rejected" ELSE m.answers[j]
  BY <1>1, SupersededSound
<1>4. \A j \in Capabilities : j \in ToSet(m.queued) => m.answers[j] = "pending"
  BY <1>1 DEF RenewalsSound, Unanswered
<1>b. CASE ~closed /\ m.state = "awaiting_query"
  <2> DEFINE n == [r EXCEPT !.state = "active"]
             A == c.active \cup {s}
             d == Assign(c, s, n, A)
             items == Two(Item("connecting", s), Item("resubscribe", s))
  <2>1. CoordinatorRenew(c, s, k) = Push(d, items)
    BY <1>b DEF CoordinatorRenew, Assign, Two
  <2> HIDE DEF r
  <2>2. /\ n \in SubType /\ n.state = "active" /\ n.status = r.status /\ n.query = r.query
        /\ n.prior = r.prior /\ SameWireIds(r, n) /\ n.renewing = r.renewing
        /\ n.queued = r.queued /\ n.answers = r.answers
    BY <1>3 DEF SubType, SameWireIds
  <2> HIDE DEF n
  <2>3. RenewalsSound(n)
    BY <1>3, <2>2, RenewalsSame
  <2>4. \A j \in Capabilities :
           /\ j # k /\ m.answers[j] = "none" => n.answers[j] = "none"
           /\ m.answers[j] # "none" => n.answers[j] # "none"
           /\ n.answers[j] = "pending" =>
                n.state = "active" /\ (s \in c.managed \/ n.status # "closed")
           /\ n.answers[j] = "resolved" => m.answers[j] = "resolved"
    BY <1>1, <1>3, <1>4, <1>b, <2>2
  <2>5. A = c.active \cup {s}
    OBVIOUS
  <2>6. Apart(c, s)
    BY <1>1, <1>b DEF Core, TablesSound, Apart, Ended
  <2> HIDE DEF A
  <2>7. n.query > 0 /\ n.state \in {"active", m.state} /\ n.status = m.status /\ n.prior = m.prior
        /\ SameWireIds(m, n) /\ n.renewing = m.renewing
    <3>1. n.query = k /\ n.state = "active" /\ n.status = m.status /\ n.prior = m.prior
          /\ n.renewing = m.renewing
      BY <1>3, <2>2
    <3>2. SameWireIds(m, n)
      BY <1>3, <2>2 DEF SameWireIds
    <3>3. k > 0
      BY Bounds
    <3> QED
      BY <3>1, <3>2, <3>3
  <2>8. /\ d \in Clients /\ Changes(c, d, s) /\ d.sub[s] = n
        /\ d.active = A /\ d.disposed = c.disposed /\ d.stack = c.stack
    BY <1>1, <2>2, <2>3, <2>4, <2>5, <2>6, <2>7, RenewChanges
  <2> HIDE DEF d
  <2>9. Sound(d, g, W, Nobody)
    BY <2>8, ChangesSound DEF W
  <2>10. s \in d.active /\ d.sub[s].state # "new"
    BY <2>2, <2>5, <2>8
  <2>11. ~Replacing(d, s)
    BY <1>1, <1>b, <2>8 DEF Replacing, Core, StackSound, ItemSound
  <2> QED
    BY <1>2, <2>1, <2>9, <2>10, <2>11, PushResubscribe
<1>c. CASE ~closed /\ m.state # "awaiting_query"
  <2> DEFINE A == c.active
             d == Assign(c, s, r, A)
  <2>1. CoordinatorRenew(c, s, k) = SendNextRenewal(d, s)
    <3>1. [c EXCEPT !.sub[s] = r] = d
      <4> HIDE DEF r
      <4> QED
        BY <1>1, AssignForms
    <3>2. CoordinatorRenew(c, s, k) = SendNextRenewal([c EXCEPT !.sub[s] = r], s)
      BY <1>c DEF CoordinatorRenew
    <3> QED
      BY <3>1, <3>2
  <2>2. m.state = "active" /\ m.status # "closed"
    BY <1>1, <1>c, SubFields DEF States
  <2> HIDE DEF r
  <2>3. A = c.active
    OBVIOUS
  <2> HIDE DEF A
  <2>4. \A j \in Capabilities :
           /\ j # k /\ m.answers[j] = "none" => r.answers[j] = "none"
           /\ m.answers[j] # "none" => r.answers[j] # "none"
           /\ r.answers[j] = "pending" =>
                r.state = "active" /\ (s \in c.managed \/ r.status # "closed")
           /\ r.answers[j] = "resolved" => m.answers[j] = "resolved"
    <3>1. r.state = "active" /\ r.status # "closed"
      BY <1>3, <2>2
    <3>2. \A j \in Capabilities :
            r.answers[j] = IF j = k THEN "pending"
                           ELSE IF j \in ToSet(m.queued) THEN "rejected" ELSE m.answers[j]
      BY <1>3
    <3> QED
      BY <1>4, <3>1, <3>2
  <2>5. r.query > 0
    <3>1. r.query = k
      BY <1>3
    <3> QED
      BY <3>1, Bounds
  <2>6. /\ d \in Clients /\ Changes(c, d, s) /\ d.sub[s] = r
        /\ d.active = A /\ d.disposed = c.disposed /\ d.stack = c.stack
    BY <1>1, <1>3, <2>3, <2>4, <2>5, RenewChanges
  <2> HIDE DEF d
  <2>7. /\ Sound(d, g, W, Nobody)
        /\ Corrected(c, s) => Corrected(d, s)
        /\ Replacing(c, s) => Replacing(d, s)
        /\ \A l \in Nat : Live(d, l, s) <=> Live(c, l, s)
    BY <2>6, ChangesSound DEF W
  <2>8. Consistent(d, s)
    BY <1>1, <1>3, <2>3, <2>6, <2>7 DEF Consistent, SameWireIds
  <2>9. Sound(d, g, Nobody, Nobody)
    BY <1>2, <2>7, <2>8, SettledSound
  <2> QED
    BY <2>1, <2>9, SendNextRenewalSound
<1> QED
  BY <1>a, <1>b, <1>c

-----------------------------------------------------------------------------
(* The loops.                                                              *)

LEMMA PushSending ==
  ASSUME NEW c, NEW g, NEW Y, Sound(c, g, Nobody, Y), c.stack = Empty,
         NEW v \in Items, v.do = "sending", \A s \in v.sub : c.sub[s].state # "new"
  PROVE  /\ Sound(Push(c, One(v)), g, Nobody, Y)
         /\ \A s : ~Replacing(Push(c, One(v)), s)
<1> DEFINE items == One(v)
<1>1. Core(c, g) /\ c \in Clients
  BY DEF Sound, Core
<1>2. items \in Seq(Items) /\ DOMAIN items = {1} /\ items[1] = v /\ Len(items) = 1
  BY ShortSequences
<1> HIDE DEF items
<1>3. items \o c.stack = items
  BY <1>1, <1>2, OnEmptyStack
<1>4. PairSound(c, items \o c.stack)
  BY <1>2, <1>3 DEF PairSound
<1>5. \A i \in DOMAIN items : ItemSound(c, items[i])
  BY <1>2 DEF ItemSound
<1>6. Core(Push(c, items), g)
  BY <1>1, <1>2, <1>4, <1>5, PushCore
<1>7. Sound(Push(c, items), g, Nobody, Y)
  <2>1. \A t \in Nobody \cap Subs : FALSE
    BY DEF Nobody
  <2> QED
    BY <1>2, <1>6, <2>1, PushSound
<1>8. Push(c, items).stack = items
  BY <1>1, <1>2, <1>3, PushEffect
<1>9. \A s : ~Replacing(Push(c, items), s)
  BY <1>2, <1>8 DEF Replacing
<1> QED
  BY <1>7, <1>9 DEF items

\* The item with one subscription more, or less.
LEMMA Revisited ==
  ASSUME NEW w \in Items, NEW s \in Subs
  PROVE  /\ [w EXCEPT !.sub = @ \cup {s}] \in Items
         /\ [w EXCEPT !.sub = @ \cup {s}].do = w.do
         /\ [w EXCEPT !.sub = @ \cup {s}].sub = w.sub \cup {s}
         /\ [w EXCEPT !.sub = @ \ {s}] \in Items
         /\ [w EXCEPT !.sub = @ \ {s}].do = w.do
         /\ [w EXCEPT !.sub = @ \ {s}].sub = w.sub \ {s}
BY DEF Items

LEMMA SendNextSound ==
  ASSUME NEW c, NEW g, NEW s \in Subs, NEW w \in Items, Sound(c, g, Nobody, Nobody),
         c.stack = Empty, w.do = "sending", ItemSound(c, w),
         Remaining(c, w) = {} \/ s \in Remaining(c, w)
  PROVE  Sound(SendNext(c, w, s), g, Nobody, Nobody)
<1>1. CASE Remaining(c, w) = {}
  BY <1>1 DEF SendNext
<1>2. CASE Remaining(c, w) # {}
  <2> DEFINE v == [w EXCEPT !.sub = @ \cup {s}]
             d == Push(c, One(v))
  <2>1. v \in Items /\ v.do = "sending" /\ v.sub = w.sub \cup {s}
    BY Revisited
  <2>2. s \in c.active
    BY <1>2 DEF Remaining
  <2>3. \A t \in v.sub : c.sub[t].state # "new"
    BY <2>1, <2>2 DEF Sound, Core, SubsSound, ItemSound
  <2>4. SendNext(c, w, s) = SendSubscribe(d, s)
    BY <1>2 DEF SendNext, One
  <2> HIDE DEF v
  <2>5. Sound(d, g, Nobody, Nobody) /\ ~Replacing(d, s)
    BY <2>1, <2>3, PushSending
  <2> HIDE DEF d
  <2> QED
    BY <2>4, <2>5, SendSubscribeSound
<1> QED
  BY <1>1, <1>2

LEMMA DetachNextSound ==
  ASSUME NEW c, NEW g, NEW s \in Subs, NEW w \in Items, NEW exhausted \in BOOLEAN, NEW X,
         X = c.active \ w.sub, Sound(c, g, X, Nobody), w.do = "detached", ItemSound(c, w),
         Remaining(c, w) = {} \/ s \in Remaining(c, w)
  PROVE  Sound(DetachNext(c, w, s, exhausted), g, Nobody, Nobody)
<1>0. Core(c, g) /\ c \in Clients /\ Remaining(c, w) = X
  BY DEF Sound, Core, Remaining
<1>1. ~c.ready /\ \A r \in Nat, t \in Subs : ~Pending(c, r, t) /\ ~Live(c, r, t)
  BY DEF ItemSound
<1>2. CASE Remaining(c, w) # {}
  <2> DEFINE m == c.sub[s]
             n == ResetWire(m)
             A == c.active
             d == Assign(c, s, n, A)
             x == Item("connecting", s)
             v == [w EXCEPT !.sub = @ \cup {s}]
             items == Two(x, v)
  <2>1. s \in c.active /\ s \notin w.sub
    BY <1>2 DEF Remaining
  <2>2. m \in SubType /\ SubSound(m) /\ m.state # "new"
    BY <1>0, <2>1, ClientFields DEF Core, SubsSound
  <2>3. Released(m, n) /\ n.state = m.state /\ n.status = m.status /\ n.liveId = 0 /\ n.request = 0
    BY <2>2, ReleasedReset DEF SameBut
  <2>4. DetachNext(c, w, s, exhausted) = Push(d, items)
    <3>1. [c EXCEPT !.sub[s] = ResetWire(@)] = d
      BY <1>0 DEF Assign, Clients
    <3> QED
      BY <1>2, <3>1 DEF DetachNext, Two
  <2> HIDE DEF n
  <2>5. A \in SUBSET Subs /\ n \in SubType
    BY <1>0, <2>3, ClientFields DEF Released
  <2> HIDE DEF A
  <2>6. /\ d \in Clients /\ Same(c, d) /\ d.managed = c.managed /\ d.disposed = c.disposed
        /\ d.active = A /\ d.sub[s] = n /\ \A t \in Subs : t # s => d.sub[t] = c.sub[t]
    BY <1>0, <2>5, AssignEffect
  <2> HIDE DEF d
  <2>7. Leaves(c, d, s)
    <3>1. \A r \in Nat, t \in Subs : ~Pending(d, r, t) /\ ~Live(d, r, t)
      BY <1>1, <2>6 DEF Same, SameTables, Pending, Live
    <3>2. \A l \in Nat : l \notin d.delivering /\ l \notin c.delivering
      BY <1>0, <1>1, <2>6 DEF Core, DeliveringIsLive, Same, SameTables
    <3>3. d.delivering \subseteq d.targets /\ \A l \in d.targets : l <= d.requestId
      BY <1>0, <2>6 DEF Core, DeliveringIsLive, IdsFresh, Same, SameTables
    <3>4. \A l \in d.detaching : l \in c.detaching
      BY <2>6 DEF Same, SameTables
    <3>5. d.requestId = c.requestId /\ d.socket = c.socket /\ d.ready = c.ready
          /\ d.terminal = c.terminal /\ d.stack = c.stack /\ d.link = c.link
      BY <2>6 DEF Same, SameTables, SameWire
    <3>6. Unsubscribes(c, d)
      BY <3>5 DEF Unsubscribes
    <3> QED
      BY <1>1, <2>3, <2>6, <3>1, <3>2, <3>3, <3>4, <3>5, <3>6 DEF Leaves, A
  <2>8. \A t \in Subs : LiveClosed(c, t)
    <3> SUFFICES ASSUME NEW t \in Subs, NEW i \in DOMAIN c.stack, c.stack[i].do = "live",
                        t \in c.stack[i].sub
                 PROVE  c.sub[t].status = "closed"
      BY DEF LiveClosed
    <3>1. c.sub[t].liveId \in Nat
      BY <1>0, ClientFields, SubFields
    <3> QED
      BY <1>0, <1>1, <3>1 DEF Core, StackSound, ItemSound
  <2>9. Sound(d, g, X \cup {s}, Nobody)
    <3>1. \A i \in DOMAIN c.stack : c.stack[i].do = "live" /\ s \in c.stack[i].sub =>
            d.sub[s].status = "closed"
      BY <2>3, <2>6, <2>8 DEF LiveClosed
    <3>2. \A l : Accounted(c, l) => Accounted(d, l)
      <4>1. d.liveSubscriptions = c.liveSubscriptions /\ d.link = c.link
        BY <2>6 DEF Same, SameTables, SameWire
      <4> QED
        BY <4>1 DEF Accounted, Live, Up, Down
    <3>3. Terminating(c) \/ \A l \in c.link.served \ Nobody :
            l \in Nobody \/ (l # 0 /\ l = m.liveId) => Accounted(d, l)
      BY <3>2 DEF Sound
    <3> QED
      BY <2>6, <2>7, <3>1, <3>3, LeavesSound
  <2>10. X \cup {s} = X
    BY <2>1
  <2>11. Sound(d, g, X, Nobody)
    BY <2>9, <2>10
  <2>12. v \in Items /\ v.do = "detached" /\ v.sub = w.sub \cup {s}
    BY Revisited
  <2>13. x \in Items /\ x.do = "connecting" /\ x.sub = {s}
    BY ItemType DEF Works
  <2> HIDE DEF v, x
  <2>14. items \in Seq(Items) /\ DOMAIN items = {1, 2} /\ items[1] = x /\ items[2] = v
    BY <2>12, <2>13, ShortSequences
  <2> HIDE DEF items
  <2>15. \A i \in DOMAIN items : ItemSound(d, items[i])
    <3>1. ItemSound(d, x)
      BY <2>2, <2>3, <2>6, <2>13 DEF ItemSound
    <3>2. \A t \in v.sub : d.sub[t].state # "new"
      <4>1. v.sub \subseteq Subs
        BY <2>12 DEF Items
      <4> QED
        BY <2>2, <2>3, <2>6, <2>12, <4>1 DEF ItemSound
    <3>3. ~d.ready /\ \A r \in Nat, t \in Subs : ~Pending(d, r, t) /\ ~Live(d, r, t)
      BY <1>1, <2>6 DEF Same, SameTables, SameWire, Pending, Live
    <3>4. ItemSound(d, v)
      BY <2>12, <3>2, <3>3 DEF ItemSound
    <3> QED
      BY <2>14, <3>1, <3>4
  <2>16. PairSound(d, items \o d.stack)
    <3>1. d.stack \in Seq(Items) /\ PairSound(d, d.stack)
      BY <2>11, ClientFields DEF Sound, Core, StackSound
    <3> QED
      BY <2>12, <2>13, <2>14, <3>1, PushPairs
  <2>17. Core(Push(d, items), g)
    BY <2>11, <2>14, <2>15, <2>16, PushCore DEF Sound
  <2>18. \A t \in X \cap Subs :
           (\E i \in DOMAIN items : Corrects(d, items[i], t)) /\ t \in d.active
    <3> SUFFICES ASSUME NEW t \in X \cap Subs
                 PROVE  (\E i \in DOMAIN items : Corrects(d, items[i], t)) /\ t \in d.active
      OBVIOUS
    <3>1. t \in d.active /\ t \notin w.sub
      BY <2>6 DEF A
    <3>2. CASE t = s
      BY <2>13, <2>14, <3>1, <3>2 DEF Corrects
    <3>3. CASE t # s
      BY <2>12, <2>14, <3>1, <3>3 DEF Corrects
    <3> QED
      BY <3>1, <3>2, <3>3
  <2>19. Sound(Push(d, items), g, Nobody, Nobody)
    BY <2>11, <2>14, <2>17, <2>18, PushSound
  <2> QED
    BY <2>4, <2>19
<1>3. CASE Remaining(c, w) = {}
  <2>1. Sound(c, g, Nobody, Nobody)
    BY <1>0, <1>3 DEF Nobody
  <2>2. CASE c.disposed \/ c.terminal # "no" \/ c.active = {}
    BY <1>3, <2>1, <2>2 DEF DetachNext
  <2>3. CASE ~(c.disposed \/ c.terminal # "no" \/ c.active = {}) /\ exhausted
    <3>1. DetachNext(c, w, s, exhausted) = Terminate(c, "exhausted")
      BY <1>3, <2>3 DEF DetachNext, ScheduleReconnect
    <3>2. \A t \in Subs : LiveClosed(c, t)
      <4> SUFFICES ASSUME NEW t \in Subs, NEW i \in DOMAIN c.stack, c.stack[i].do = "live",
                          t \in c.stack[i].sub
                   PROVE  c.sub[t].status = "closed"
        BY DEF LiveClosed
      <4>1. c.sub[t].liveId \in Nat
        BY <1>0, ClientFields, SubFields
      <4> QED
        BY <1>0, <1>1, <4>1 DEF Core, StackSound, ItemSound
    <3> QED
      BY <2>1, <2>3, <3>1, <3>2, TerminateSound
  <2>4. CASE ~(c.disposed \/ c.terminal # "no" \/ c.active = {}) /\ ~exhausted
    <3> DEFINE d == [c EXCEPT !.reconnectTimer = TRUE, !.episode = TRUE, !.deadline = Bounded]
    <3>1. DetachNext(c, w, s, exhausted) = d
      BY <1>3, <2>4 DEF DetachNext, ScheduleReconnect
    <3>2. d \in Clients /\ SameSubs(c, d) /\ SameTables(c, d) /\ SameWire(c, d) /\ d.stack = c.stack
      BY <1>0, Bounds DEF Clients, SameSubs, SameTables, SameWire
    <3> HIDE DEF d
    <3> QED
      BY <2>1, <3>1, <3>2, FrameSound
  <2> QED
    BY <2>2, <2>3, <2>4
<1> QED
  BY <1>2, <1>3

LEMMA TerminateNextSound ==
  ASSUME NEW c, NEW g, NEW s \in Subs, NEW w, Inv(c, g), c.stack # <<>>, w = Head(c.stack),
         w.do = "terminating", w.sub = {} \/ s \in w.sub
  PROVE  Sound(TerminateNext(Popped(c), w, s), g, Nobody, Nobody)
<1> DEFINE e == Popped(c)
<1>1. Core(c, g) /\ c \in Clients /\ StackSound(c)
  BY DEF Inv, Sound, Core
<1>2. Core(e, g) /\ ItemSound(e, w) /\ e \in Clients
  BY <1>1, PopCore DEF Core
<1>3. /\ SameSubs(c, e) /\ 1 \in DOMAIN c.stack /\ c.stack[1] = w /\ w \in Items
      /\ \A i \in DOMAIN e.stack : i + 1 \in DOMAIN c.stack /\ e.stack[i] = c.stack[i + 1]
  BY <1>1, PopEffect
<1>4. \A t \in Subs : t \notin w.sub => Consistent(e, t)
  <2> SUFFICES ASSUME NEW t \in Subs, t \notin w.sub
               PROVE  Consistent(e, t)
    OBVIOUS
  <2>1. ~Corrects(e, w, t)
    BY DEF Corrects
  <2>2. /\ e.sub[t].status = "live" =>
             Live(e, e.sub[t].liveId, t) \/ Corrected(e, t) \/ Corrects(e, w, t)
        /\ e.sub[t].state = "active" =>
             \/ t \in e.active \/ e.disposed \/ Replacing(e, t)
             \/ w.do = "replace" /\ t \in w.sub
    BY PopConsistent
  <2> HIDE DEF e
  <2> QED
    BY <2>1, <2>2 DEF Consistent
<1>5. \A t \in Subs : LiveClosed(e, t)
  <2> SUFFICES ASSUME NEW t \in Subs, NEW i \in DOMAIN e.stack, e.stack[i].do = "live",
                      t \in e.stack[i].sub
               PROVE  e.sub[t].status = "closed"
    BY DEF LiveClosed
  <2> HIDE DEF e
  <2> DEFINE a == i + 1
  <2>1. a \in DOMAIN c.stack /\ c.stack[a] = e.stack[i]
    BY <1>3
  <2> HIDE DEF a
  <2> QED
    BY <1>1, <1>3, <2>1 DEF StackSound, PairSound, SameSubs
<1> HIDE DEF e
<1>a. CASE w.sub = {}
  <2>1. TerminateNext(e, w, s) = CloseSocket(e)
    BY <1>a DEF TerminateNext
  <2>2. Sound(CloseSocket(e), g, Nobody, Nobody)
    BY <1>2, <1>4, <1>5, <1>a, CloseSocketSound
  <2> QED
    BY <2>1, <2>2 DEF e
<1>b. CASE w.sub # {}
  <2> DEFINE v == [w EXCEPT !.sub = @ \ {s}]
             items == One(v)
             d == Push(e, items)
  <2>1. v \in Items /\ v.do = "terminating" /\ v.sub = w.sub \ {s}
    BY <1>3, Revisited
  <2>2. TerminateNext(e, w, s) = TerminateSubscription(d, s)
    BY <1>b DEF TerminateNext, One
  <2> HIDE DEF v
  <2>3. items \in Seq(Items) /\ DOMAIN items = {1} /\ items[1] = v
    BY <2>1, ShortSequences
  <2> HIDE DEF items
  <2>4. \A i \in DOMAIN items : ItemSound(e, items[i])
    BY <1>2, <2>1, <2>3 DEF ItemSound
  <2>5. PairSound(e, items \o e.stack)
    <3>1. e.stack \in Seq(Items) /\ PairSound(e, e.stack)
      BY <1>2, ClientFields DEF Core, StackSound
    <3>2. \A j \in DOMAIN e.stack : e.stack[j].do = "live" =>
            \A t \in e.stack[j].sub : e.sub[t].status = "closed"
      <4>1. \A j \in DOMAIN e.stack : e.stack[j].sub \subseteq Subs
        BY <1>2, StackFields
      <4> QED
        BY <1>5, <4>1 DEF LiveClosed
    <3> QED
      BY <2>1, <2>3, <3>1, <3>2, PushPairs
  <2>6. Core(d, g)
    BY <1>2, <2>3, <2>4, <2>5, PushCore
  <2>7. /\ SameSubs(e, d) /\ SameTables(e, d) /\ SameWire(e, d) /\ d.stack = items \o e.stack
    BY <1>2, <2>3, PushEffect
  <2>8. /\ \A t \in Subs :
             Corrected(e, t) \/ (\E i \in DOMAIN items : Corrects(e, items[i], t))
               => Corrected(d, t)
        /\ \A t \in Subs : Consistent(e, t) => Consistent(d, t)
        /\ Terminating(e) \/ (\E i \in DOMAIN items : items[i].do = "terminating")
             => Terminating(d)
    BY <1>2, <2>3, PushKeeps
  <2>9. Terminating(d)
    BY <2>1, <2>3, <2>8
  <2>10. \A i \in DOMAIN d.stack : d.stack[i].do = "live" /\ s \in d.stack[i].sub =>
           d.sub[s].status = "closed"
    <3> SUFFICES ASSUME NEW i \in DOMAIN d.stack, d.stack[i].do = "live", s \in d.stack[i].sub
                 PROVE  d.sub[s].status = "closed"
      OBVIOUS
    <3>1. e.stack \in Seq(Items)
      BY <1>2, ClientFields
    <3>2. \/ i \in DOMAIN items /\ d.stack[i] = items[i]
          \/ i - Len(items) \in DOMAIN e.stack /\ d.stack[i] = e.stack[i - Len(items)]
      BY <2>3, <2>7, <3>1, ConcatIndex
    <3>3. CASE i \in DOMAIN items /\ d.stack[i] = items[i]
      BY <2>1, <2>3, <3>3
    <3>4. CASE i - Len(items) \in DOMAIN e.stack /\ d.stack[i] = e.stack[i - Len(items)]
      BY <1>5, <2>7, <3>4 DEF LiveClosed, SameSubs
    <3> QED
      BY <3>2, <3>3, <3>4
  <2> HIDE DEF d
  <2>11. \A t \in Subs : t # s => Consistent(d, t)
    <3> SUFFICES ASSUME NEW t \in Subs, t # s
                 PROVE  Consistent(d, t)
      OBVIOUS
    <3>1. CASE t \notin w.sub
      BY <1>4, <2>8, <3>1
    <3>2. CASE t \in w.sub
      <4>1. Corrects(e, items[1], t) /\ 1 \in DOMAIN items
        BY <2>1, <2>3, <3>2 DEF Corrects
      <4>2. Corrected(d, t)
        BY <2>8, <4>1
      <4>3. e.sub[t].state = "active" => t \in e.active \/ e.disposed \/ Replacing(e, t)
        BY PopConsistent DEF e
      <4>4. Replacing(e, t) => Replacing(d, t)
        <5>1. Replacing(e, t) => \E i \in DOMAIN e.stack : e.stack[i].do = "replace" /\ t \in e.stack[i].sub
          BY DEF Replacing
        <5>2. e.stack \in Seq(Items)
          BY <1>2, ClientFields
        <5>3. \A i \in DOMAIN e.stack : i + Len(items) \in DOMAIN d.stack
                                        /\ d.stack[i + Len(items)] = e.stack[i]
          BY <2>3, <2>7, <5>2, ConcatIndex
        <5> QED
          BY <5>1, <5>3 DEF Replacing
      <4> QED
        BY <2>7, <4>2, <4>3, <4>4 DEF Consistent, SameSubs
    <3> QED
      BY <3>1, <3>2
  <2> DEFINE X == {s}
  <2>12. Sound(d, g, X, Nobody)
    BY <2>6, <2>9, <2>11 DEF Sound
  <2>13. X \in {Nobody, {s}}
    OBVIOUS
  <2> HIDE DEF X
  <2>14. d.sub[s].state # "new"
    BY <1>2, <1>b, <2>7 DEF ItemSound, SameSubs
  <2>15. Sound(TerminateSubscription(d, s), g, Nobody, Nobody)
    BY <2>9, <2>10, <2>12, <2>13, <2>14, TerminateSubscriptionSound
  <2> QED
    BY <2>2, <2>15 DEF e
<1> QED
  BY <1>a, <1>b

-----------------------------------------------------------------------------
(* One item of unfinished work.                                            *)

LEMMA WorkForms ==
  ASSUME NEW c, NEW w, NEW s, NEW exhausted
  PROVE  LET d == Work(c, w, s, exhausted)
         IN  /\ w.do = "connecting"  => d = Show(c, s, "connecting")
             /\ w.do = "unavailable" => d = Show(c, s, "stale")
             /\ w.do = "failed"      => d = Show(c, s, "error")
             /\ w.do = "live"        => d = Show(c, s, "live")
             /\ w.do = "rows"        => d = [c EXCEPT !.listening = c.sub[s].status # "closed"]
             /\ w.do = "baseline"    => d = [c EXCEPT !.sub[s].recovery =
                                          IF @ \in {"trying", "settling"} THEN "settling" ELSE @]
             /\ w.do = "replace"     => d = Replace(c, s, w.cap)
             /\ w.do = "resubscribe" => d = Resubscribe(c, s)
             /\ w.do = "renew"       => d = CoordinatorRenew(c, s, w.cap)
             /\ w.do = "idle"        => d = CloseIfIdle(c)
             /\ w.do = "sending"     => d = SendNext(c, w, s)
             /\ w.do = "detached"    => d = DetachNext(c, w, s, exhausted)
             /\ w.do = "terminating" => d = TerminateNext(c, w, s)
BY DEF Work

LEMMA WorkSound ==
  ASSUME NEW c, NEW g, NEW s \in Subs, NEW exhausted \in BOOLEAN, NEW w, Inv(c, g), Granted(g),
         c.stack # <<>>, w = Head(c.stack), Remaining(c, w) = {} \/ s \in Remaining(c, w)
  PROVE  Inv(Work(Popped(c), w, s, exhausted), g)
<1> DEFINE e == Popped(c)
           d == Work(e, w, s, exhausted)
<1>1. Core(c, g) /\ c \in Clients /\ StackSound(c)
  BY DEF Inv, Sound, Core
<1>2. /\ e \in Clients /\ SameSubs(c, e) /\ SameTables(c, e) /\ SameWire(c, e)
      /\ 1 \in DOMAIN c.stack /\ c.stack[1] = w /\ w \in Items
      /\ Len(e.stack) = Len(c.stack) - 1 /\ Len(c.stack) \in Nat
      /\ DOMAIN e.stack = 1..(Len(c.stack) - 1)
      /\ \A i \in DOMAIN e.stack : i + 1 \in DOMAIN c.stack /\ e.stack[i] = c.stack[i + 1]
  BY <1>1, PopEffect
<1>3. Core(e, g) /\ ItemSound(e, w) /\ PairSound(c, c.stack)
  BY <1>1, PopCore DEF StackSound
<1>4. /\ e.sub[s].status = "live" =>
           Live(e, e.sub[s].liveId, s) \/ Corrected(e, s) \/ Corrects(e, w, s)
      /\ e.sub[s].state = "active" =>
           \/ s \in e.active \/ e.disposed \/ Replacing(e, s)
           \/ w.do = "replace" /\ s \in w.sub
  BY PopConsistent
<1>5. w.do \in Works /\ w.cap \in 0..MaxCapability /\ w.sub \subseteq Subs
  BY <1>2 DEF Items
<1>6. w.do \notin {"sending", "detached", "terminating"} =>
        w.sub = {s} /\ e.sub[s].state # "new"
  BY <1>3 DEF ItemSound, Remaining
<1>7. Remaining(e, w) = {} \/ s \in Remaining(e, w)
  BY <1>2 DEF Remaining, SameSubs
<1>8. \A X : w.do # "terminating"
             /\ (\A t \in Subs \ X : ~Corrects(e, w, t) /\ (w.do = "replace" => t \notin w.sub))
             => Sound(e, g, X, Nobody)
  <2> SUFFICES ASSUME NEW X, w.do # "terminating",
                      \A t \in Subs \ X : ~Corrects(e, w, t)
                                          /\ (w.do = "replace" => t \notin w.sub)
               PROVE  Sound(e, g, X, Nobody)
    OBVIOUS
  <2> QED
    BY PopSound
<1> HIDE DEF e
<1>9. w.do \notin {"connecting", "unavailable", "failed", "terminating", "detached", "replace"} =>
        Sound(e, g, Nobody, Nobody)
  BY <1>8 DEF Corrects
<1> SUFFICES Sound(d, g, Nobody, Nobody)
  BY DEF Inv, e
<1>10. ASSUME NEW status \in {"connecting", "stale", "error"},
              w.do \in {"connecting", "unavailable", "failed"}
       PROVE  Sound(Show(e, s, status), g, Nobody, Nobody)
  <2> DEFINE X == {s}
  <2>1. Sound(e, g, X, Nobody)
    <3>1. \A t \in Subs \ X : ~Corrects(e, w, t)
      BY <1>6, <1>10 DEF Corrects
    <3> QED
      BY <1>8, <1>10, <3>1
  <2>2. X \subseteq {s}
    OBVIOUS
  <2> HIDE DEF X
  <2>3. status \in Statuses \ {"closed"} /\ status # "live"
    BY DEF Statuses
  <2>4. e.sub[s].state # "new"
    BY <1>6, <1>10
  <2>5. e.sub[s].state = "active" => s \in e.active \/ e.disposed \/ Replacing(e, s)
    BY <1>4, <1>10
  <2> QED
    BY <2>1, <2>2, <2>3, <2>4, <2>5, ShowSound
<1>a. CASE w.do = "connecting"
  BY <1>10, <1>a, WorkForms
<1>b. CASE w.do = "unavailable"
  BY <1>10, <1>b, WorkForms
<1>c. CASE w.do = "failed"
  BY <1>10, <1>c, WorkForms
<1>d. CASE w.do = "live"
  <2>1. Sound(e, g, Nobody, Nobody) /\ w.sub = {s} /\ e.sub[s].state # "new"
    BY <1>6, <1>9, <1>d
  <2>2. e.sub[s].status = "closed" \/ Live(e, e.sub[s].liveId, s)
    BY <1>3, <1>d, <2>1 DEF ItemSound
  <2>3. e.sub[s].state = "active" => s \in e.active \/ e.disposed \/ Replacing(e, s)
    BY <1>4, <1>d
  <2>4. "live" \in Statuses \ {"closed"} /\ Nobody \subseteq {s}
    BY DEF Statuses, Nobody
  <2>5. Sound(Show(e, s, "live"), g, Nobody, Nobody)
    BY <2>1, <2>2, <2>3, <2>4, ShowSound
  <2> QED
    BY <1>d, <2>5, WorkForms
<1>e. CASE w.do = "rows"
  <2> DEFINE f == [e EXCEPT !.listening = e.sub[s].status # "closed"]
  <2>1. f \in Clients /\ SameSubs(e, f) /\ SameTables(e, f) /\ SameWire(e, f) /\ f.stack = e.stack
    BY <1>3 DEF Core, Clients, SameSubs, SameTables, SameWire
  <2>2. d = f
    BY <1>e, WorkForms
  <2> HIDE DEF f
  <2>3. Sound(f, g, Nobody, Nobody)
    BY <1>9, <1>e, <2>1, FrameSound
  <2> QED
    BY <2>2, <2>3
<1>f. CASE w.do = "baseline"
  <2> DEFINE v == IF e.sub[s].recovery \in {"trying", "settling"} THEN "settling"
                  ELSE e.sub[s].recovery
             f == Recovering(e, s, v)
  <2>1. e.sub[s] \in SubType
    BY <1>3, ClientFields DEF Core
  <2>2. d = f
    <3>1. d = [e EXCEPT !.sub[s].recovery =
                 IF @ \in {"trying", "settling"} THEN "settling" ELSE @]
      BY <1>f, WorkForms
    <3> QED
      BY <3>1 DEF Recovering
  <2>3. v \in {"idle", "waiting", "trying", "settling"}
    BY <2>1 DEF SubType
  <2> HIDE DEF v
  <2>4. Sound(e, g, Nobody, Nobody) /\ e.sub[s].state # "new"
    BY <1>6, <1>9, <1>f
  <2>5. Sound(f, g, Nobody, Nobody)
    BY <2>3, <2>4, RecoverySound
  <2> QED
    BY <2>2, <2>5
<1>g. CASE w.do = "replace"
  <2> DEFINE X == {s}
  <2>0. w.sub = {s} /\ e.sub[s].state # "new"
    BY <1>6, <1>g
  <2>1. Sound(e, g, X, Nobody)
    <3>1. \A t \in Subs \ X : ~Corrects(e, w, t) /\ t \notin w.sub
      BY <1>g, <2>0 DEF Corrects
    <3> QED
      BY <1>8, <1>g, <3>1
  <2>2. X \subseteq {s}
    OBVIOUS
  <2> HIDE DEF X
  <2>3. Unwired(e, s)
    BY <1>3, <1>g, <2>0 DEF ItemSound
  <2>4. Len(c.stack) = 1
    BY <1>2, <1>3, <1>g DEF PairSound
  <2>5. e.stack = Empty
    <3>1. e.stack \in Seq(Items) /\ Len(e.stack) = 0
      BY <1>2, <2>4, ClientFields
    <3> QED
      BY <3>1, EmptySeq DEF Empty
  <2>6. e.sub[s].status # "live"
    <3>1. ~Corrected(e, s) /\ ~Corrects(e, w, s)
      BY <1>g, <2>5, Unawaited DEF Corrects
    <3>2. ~Live(e, e.sub[s].liveId, s)
      <4>1. e.sub[s].liveId \in Nat
        BY <1>2, ClientFields, SubFields
      <4> QED
        BY <2>3, <4>1 DEF Unwired
    <3> QED
      BY <1>4, <3>1, <3>2
  <2>7. Sound(Replace(e, s, w.cap), g, Nobody, Nobody)
    BY <1>5, <2>0, <2>1, <2>2, <2>3, <2>5, <2>6, ReplaceSound
  <2> QED
    BY <1>g, <2>7, WorkForms
<1>h. CASE w.do = "resubscribe"
  <2>1. Sound(e, g, Nobody, Nobody) /\ w.sub = {s}
    BY <1>6, <1>9, <1>h
  <2>2. ~Replacing(e, s)
    <3> SUFFICES ASSUME NEW i \in DOMAIN e.stack, e.stack[i].do = "replace", s \in e.stack[i].sub
                 PROVE  FALSE
      BY DEF Replacing
    <3> DEFINE a == i + 1
    <3>1. a \in DOMAIN c.stack /\ c.stack[a] = e.stack[i]
      BY <1>2
    <3> HIDE DEF a
    <3>2. c.stack[a].sub # w.sub
      BY <1>2, <1>3, <1>h, <3>1 DEF PairSound
    <3>3. ItemSound(e, e.stack[i])
      BY <1>3 DEF Core, StackSound
    <3>4. e.stack[i].sub = {s}
      BY <3>3 DEF ItemSound
    <3> QED
      BY <2>1, <3>1, <3>2, <3>4
  <2>3. Sound(Resubscribe(e, s), g, Nobody, Nobody)
    BY <2>1, <2>2, ResubscribeSound
  <2> QED
    BY <1>h, <2>3, WorkForms
<1>i. CASE w.do = "renew"
  <2> DEFINE k == w.cap
  <2>1. Sound(e, g, Nobody, Nobody) /\ w.sub = {s} /\ e.sub[s].state # "new"
    BY <1>6, <1>9, <1>i
  <2>2. /\ k > 1 /\ e.sub[s].answers[k] = "none"
        /\ \A j \in Capabilities : 1 < j /\ j < k => e.sub[s].answers[j] # "none"
    BY <1>3, <1>i, <2>1 DEF ItemSound
  <2>3. k \in Capabilities
    BY <1>5, <2>2, Bounds
  <2>4. \A i \in DOMAIN e.stack : e.stack[i].do = "renew" /\ s \in e.stack[i].sub =>
          e.stack[i].cap # k
    <3> SUFFICES ASSUME NEW i \in DOMAIN e.stack, e.stack[i].do = "renew", s \in e.stack[i].sub,
                        e.stack[i].cap = k
                 PROVE  FALSE
      OBVIOUS
    <3> DEFINE a == i + 1
    <3>1. a \in DOMAIN c.stack /\ c.stack[a] = e.stack[i]
      BY <1>2
    <3>2. a # 1
      <4>1. i \in 1..(Len(c.stack) - 1) /\ Len(c.stack) \in Nat
        BY <1>2
      <4> QED
        BY <4>1
    <3> HIDE DEF a
    <3>3. ItemSound(e, e.stack[i]) /\ e.stack[i] \in Items
      BY <1>3, StackFields DEF Core, StackSound
    <3>4. e.stack[i].sub = {s}
      BY <3>3 DEF ItemSound
    <3>5. e.stack[i] = w
      <4> DEFINE x == e.stack[i]
      <4>1. /\ x \in Items /\ x.do = "renew" /\ x.sub = {s} /\ x.cap = k
            /\ w \in Items /\ w.do = "renew" /\ w.sub = {s} /\ w.cap = k
        BY <1>2, <1>i, <2>1, <3>3, <3>4
      <4> HIDE DEF x
      <4>2. /\ x = [do |-> x.do, sub |-> x.sub, cap |-> x.cap]
            /\ w = [do |-> w.do, sub |-> w.sub, cap |-> w.cap]
        BY <4>1 DEF Items
      <4>3. x = w
        BY <4>1, <4>2
      <4> QED
        BY <4>3 DEF x
    <3>6. c.stack[a] = c.stack[1]
      BY <1>2, <3>1, <3>5
    <3> QED
      BY <1>2, <1>3, <1>i, <3>1, <3>2, <3>6 DEF PairSound
  <2> HIDE DEF k
  <2>5. MayRenew(e, s, k)
    BY <2>1, <2>2, <2>4 DEF MayRenew
  <2>6. Sound(CoordinatorRenew(e, s, k), g, Nobody, Nobody)
    BY <2>1, <2>3, <2>5, CoordinatorRenewSound
  <2> QED
    BY <1>i, <2>6, WorkForms DEF k
<1>j. CASE w.do = "idle"
  <2>1. Sound(CloseIfIdle(e), g, Nobody, Nobody)
    BY <1>9, <1>j, CloseIfIdleSound
  <2> QED
    BY <1>j, <2>1, WorkForms
<1>k. CASE w.do = "sending"
  <2>1. Len(c.stack) = 1
    BY <1>2, <1>3, <1>k DEF PairSound
  <2>2. e.stack = Empty
    <3>1. e.stack \in Seq(Items) /\ Len(e.stack) = 0
      BY <1>2, <2>1, ClientFields
    <3> QED
      BY <3>1, EmptySeq DEF Empty
  <2>3. Sound(SendNext(e, w, s), g, Nobody, Nobody)
    BY <1>2, <1>3, <1>7, <1>9, <1>k, <2>2, SendNextSound
  <2> QED
    BY <1>k, <2>3, WorkForms
<1>l. CASE w.do = "detached"
  <2> DEFINE X == e.active \ w.sub
  <2>1. Sound(e, g, X, Nobody)
    <3>1. \A t \in Subs \ X : ~Corrects(e, w, t)
      BY <1>l DEF Corrects
    <3> QED
      BY <1>8, <1>l, <3>1
  <2>2. X = e.active \ w.sub
    OBVIOUS
  <2> HIDE DEF X
  <2>3. Sound(DetachNext(e, w, s, exhausted), g, Nobody, Nobody)
    BY <1>2, <1>3, <1>7, <1>l, <2>1, <2>2, DetachNextSound
  <2> QED
    BY <1>l, <2>3, WorkForms
<1>m. CASE w.do = "terminating"
  <2>1. w.sub = {} \/ s \in w.sub
    BY <1>7, <1>m DEF Remaining
  <2>2. Sound(TerminateNext(e, w, s), g, Nobody, Nobody)
    BY <1>m, <2>1, TerminateNextSound DEF e
  <2> QED
    BY <1>m, <2>2, WorkForms
<1> QED
  BY <1>5, <1>a, <1>b, <1>c, <1>d, <1>e, <1>f, <1>g, <1>h, <1>i, <1>j, <1>k, <1>l, <1>m DEF Works

-----------------------------------------------------------------------------
(* Public methods.                                                         *)

LEMMA SubscribeSound ==
  ASSUME NEW c, NEW g, NEW s \in Subs, Inv(c, g), ~c.disposed, c.sub[s].state = "new"
  PROVE  Inv(Subscribe(c, s), g)
<1> DEFINE m == c.sub[s]
           n == [m EXCEPT !.state = "active", !.query = 1]
           d == [c EXCEPT !.managed = @ \cup {s}, !.active = @ \cup {s},
                          !.sub[s].state = "active", !.sub[s].query = 1]
<1>1. Core(c, g) /\ c \in Clients /\ m \in SubType /\ m = NewSub
      /\ Sound(c, g, Nobody, Nobody)
  BY ClientFields DEF Inv, Sound, Core, SubsSound, SubSound
<1>2. /\ n \in SubType /\ n.state = "active" /\ n.query = 1 /\ n.status = "connecting"
      /\ n.request = 0 /\ n.liveId = 0 /\ n.requested = m.requested /\ n.renewing = 0
      /\ n.queued = Empty /\ \A k \in Capabilities : n.answers[k] = "none"
      /\ m.request = 0 /\ m.liveId = 0 /\ m.status = "connecting"
  <2>1. /\ m.status = "connecting" /\ m.request = 0 /\ m.liveId = 0 /\ m.renewing = 0
        /\ m.queued = Empty /\ m.answers = [k \in Capabilities |-> "none"]
    BY <1>1 DEF NewSub, Empty
  <2>2. 1 \in 0..MaxCapability
    BY Bounds
  <2>3. /\ n \in SubType /\ n.state = "active" /\ n.query = 1 /\ n.status = m.status
        /\ n.request = m.request /\ n.liveId = m.liveId /\ n.requested = m.requested
        /\ n.renewing = m.renewing /\ n.queued = m.queued /\ n.answers = m.answers
    <3> HIDE DEF m
    <3> QED
      BY <1>1, <2>2 DEF SubType
  <2> HIDE DEF n, m
  <2> QED
    BY <2>1, <2>3
<1>3. /\ d \in Clients /\ Same(c, d) /\ d.managed = c.managed \cup {s}
      /\ d.active = c.active \cup {s} /\ d.disposed = c.disposed
      /\ d.sub[s] = n /\ \A t \in Subs : t # s => d.sub[t] = c.sub[t]
  <2> DEFINE b == [c.sub EXCEPT ![s] = n]
  <2>1. d = [c EXCEPT !.managed = @ \cup {s}, !.active = @ \cup {s}, !.sub = b]
    BY <1>1, ZenonT(40) DEF Clients
  <2>2. b \in [Subs -> SubType] /\ b[s] = n /\ \A t \in Subs : t # s => b[t] = c.sub[t]
    <3> HIDE DEF n
    <3> QED
      BY <1>1, <1>2 DEF Clients
  <2>3. c.managed \cup {s} \subseteq Subs /\ c.active \cup {s} \subseteq Subs
    BY <1>1, ClientFields
  <2> HIDE DEF b, d, n
  <2> QED
    BY <1>1, <2>1, <2>2, <2>3 DEF Clients, Same, SameTables, SameWire
<1>4. Subscribe(c, s) = IF c.terminal # "no" THEN TerminateSubscription(d, s)
                        ELSE Resubscribe(d, s)
  BY DEF Subscribe
<1> HIDE DEF n, d
<1>5. Apart(c, s)
  BY <1>1 DEF Core, TablesSound, Apart, Ended
<1>6. \A i \in DOMAIN c.stack : s \notin c.stack[i].sub
  BY <1>1 DEF Core, StackSound, ItemSound
<1>7. SubSound(n)
  <2>1. DOMAIN n.queued = {} /\ ToSet(n.queued) = {} /\ n.renewing = 0
    BY <1>2, EmptyFacts
  <2>2. RenewalsSound(n)
    BY <1>2, <2>1, Bounds DEF RenewalsSound, Unanswered
  <2> QED
    BY <1>2, <2>2 DEF SubSound
<1>8. Changes(c, d, s)
  BY <1>2, <1>3, <1>5, <1>6, <1>7 DEF Changes
<1> DEFINE X == Nobody \cup {s}
<1>9. Sound(d, g, X, Nobody)
  BY <1>1, <1>3, <1>8, ChangesSound
<1>10. X \subseteq {s}
  BY DEF Nobody
<1> HIDE DEF X
<1>11. Consistent(d, s)
  BY <1>2, <1>3 DEF Consistent
<1>12. Sound(d, g, Nobody, Nobody)
  BY <1>9, <1>10, <1>11, SettledSound
<1>13. d.stack = c.stack
  BY <1>3 DEF Same
<1>14. Sound(TerminateSubscription(d, s), g, Nobody, Nobody)
  <2>1. \A i \in DOMAIN d.stack : d.stack[i].do = "live" /\ s \in d.stack[i].sub =>
          d.sub[s].status = "closed"
    BY <1>6, <1>13
  <2>2. d.sub[s].state # "new" /\ d.sub[s].liveId = 0 /\ Nobody \in {Nobody, {s}}
    BY <1>2, <1>3
  <2> QED
    BY <1>12, <2>1, <2>2, TerminateSubscriptionSound
<1>15. Sound(Resubscribe(d, s), g, Nobody, Nobody)
  <2>1. ~Replacing(d, s)
    BY <1>6, <1>13 DEF Replacing
  <2> QED
    BY <1>12, <2>1, ResubscribeSound
<1> QED
  BY <1>4, <1>14, <1>15 DEF Inv

LEMMA UnsubscribeSound ==
  ASSUME NEW c, NEW g, NEW s \in Subs, Inv(c, g), c.sub[s].state # "new"
  PROVE  Inv(Unsubscribe(c, s), g)
<1> DEFINE m == c.sub[s]
           n == RejectRenewals([m EXCEPT !.recovery = "idle", !.state = "closed",
                                         !.status = "closed"])
           e == [c EXCEPT !.managed = @ \ {s}, !.active = @ \ {s}, !.sub[s] = n]
           d == Detach(e, s)
<1>1. Core(c, g) /\ c \in Clients /\ m \in SubType /\ SubSound(m)
      /\ Sound(c, g, Nobody, Nobody)
  BY ClientFields DEF Inv, Sound, Core, SubsSound
<1>2. Released(m, n) /\ n.state = "closed" /\ n.status = "closed" /\ n.liveId = m.liveId
  BY <1>1, ReleasedClosed
<1>3. Unsubscribe(c, s) = CloseIfIdle(d)
  BY <1>1 DEF Unsubscribe, Clients
<1> HIDE DEF n
<1>4. /\ e \in Clients /\ Same(c, e) /\ e.managed = c.managed \ {s}
      /\ e.active = c.active \ {s} /\ e.disposed = c.disposed
      /\ e.sub[s] = n /\ \A t \in Subs : t # s => e.sub[t] = c.sub[t]
  <2> DEFINE b == [c.sub EXCEPT ![s] = n]
  <2>1. e = [c EXCEPT !.managed = @ \ {s}, !.active = @ \ {s}, !.sub = b]
    BY <1>1 DEF Clients
  <2>2. b \in [Subs -> SubType] /\ b[s] = n /\ \A t \in Subs : t # s => b[t] = c.sub[t]
    BY <1>1, <1>2 DEF Clients, Released
  <2>3. c.managed \ {s} \subseteq Subs /\ c.active \ {s} \subseteq Subs
    BY <1>1, ClientFields
  <2> HIDE DEF b, e
  <2> QED
    BY <1>1, <2>1, <2>2, <2>3 DEF Clients, Same, SameTables, SameWire
<1> HIDE DEF e
<1>5. d \in Clients /\ SameSubs(e, d)
  BY <1>4, DetachEffect
<1>6. Same(Detach(e, s), d)
  BY DEF Same, SameTables, SameWire
<1> HIDE DEF d
<1>7. /\ e.sub[s].liveId = m.liveId /\ SameWire(c, e) /\ e.stack = c.stack
      /\ e.pendingRequests = c.pendingRequests /\ e.liveSubscriptions = c.liveSubscriptions
      /\ e.detaching = c.detaching /\ e.targets = c.targets /\ e.requestId = c.requestId
      /\ e.delivering \in {c.delivering, c.delivering \ {m.liveId}}
  BY <1>2, <1>4 DEF Same, SameTables
<1>8. /\ \A t \in Subs : t # s => d.sub[t] = c.sub[t]
      /\ Released(m, d.sub[s]) /\ Ended(d.sub[s]) /\ d.active = c.active \ {s}
      /\ d.managed = c.managed \ {s} /\ d.sub[s].status = "closed"
      /\ d.disposed = c.disposed /\ d.sub[s].state = "closed"
  BY <1>2, <1>4, <1>5 DEF SameSubs, Ended
<1>9. /\ Leaves(c, d, s)
      /\ \A l \in c.link.served : l # 0 /\ l = m.liveId => Accounted(d, l)
  BY <1>1, <1>4, <1>5, <1>6, <1>7, <1>8, DetachLeaves
<1> DEFINE X == Nobody \cup {s}
<1>10. Sound(d, g, X, Nobody)
  <2>1. \A i \in DOMAIN c.stack : c.stack[i].do = "live" /\ s \in c.stack[i].sub =>
          d.sub[s].status = "closed"
    BY <1>8
  <2>2. Terminating(c) \/ \A l \in c.link.served \ Nobody :
          l \in Nobody \/ (l # 0 /\ l = m.liveId) => Accounted(d, l)
    BY <1>9 DEF Nobody
  <2> QED
    BY <1>1, <1>5, <1>9, <2>1, <2>2, LeavesSound
<1>11. X \subseteq {s}
  BY DEF Nobody
<1> HIDE DEF X
<1>12. Consistent(d, s)
  BY <1>8 DEF Consistent
<1>13. Sound(d, g, Nobody, Nobody)
  BY <1>10, <1>11, <1>12, SettledSound
<1> QED
  BY <1>3, <1>13, CloseIfIdleSound DEF Inv

\* A capability is known to nobody yet, and no renewal of it waits on the stack.
LEMMA RenewAllowed ==
  ASSUME NEW c, NEW g, NEW s \in Subs, NEW k \in Capabilities, Core(c, g), k > 1,
         c.sub[s].state # "new", c.sub[s].answers[k] = "none", c.sub[s].prior[k] = "none",
         \A j \in 2..(k - 1) : c.sub[s].answers[j] # "none"
  PROVE  MayRenew(c, s, k)
<1>1. \A j \in Capabilities : 1 < j /\ j < k => c.sub[s].answers[j] # "none"
  <2>1. \A j \in Capabilities : 1 < j /\ j < k => j \in 2..(k - 1)
    BY Bounds
  <2> QED
    BY <2>1
<1>2. \A i \in DOMAIN c.stack :
        c.stack[i].do = "renew" /\ s \in c.stack[i].sub => c.stack[i].cap # k
  BY DEF Core, StackSound, ItemSound
<1> QED
  BY <1>1, <1>2 DEF MayRenew

\* Subscription.renew() of a subscription that shows an error or an expired query.
LEMMA RenewWaitsSound ==
  ASSUME NEW c, NEW g, NEW s \in Subs, NEW k \in Capabilities, Inv(c, g), MayRenew(c, s, k),
         c.sub[s].status \in {"stale", "error"}
  PROVE  LET d == [c EXCEPT !.sub[s].prior[k] = c.sub[s].status, !.sub[s].status = "connecting"]
         IN  Inv(Push(d, One([Item("renew", s) EXCEPT !.cap = k])), g)
<1> DEFINE m == c.sub[s]
           n == [m EXCEPT !.prior[k] = m.status, !.status = "connecting"]
           d == Assign(c, s, n, c.active)
           w == [Item("renew", s) EXCEPT !.cap = k]
           items == One(w)
<1>1. Core(c, g) /\ c \in Clients /\ m \in SubType /\ SubSound(m)
      /\ Sound(c, g, Nobody, Nobody) /\ m.state # "new" /\ k > 1
      /\ m.status \in {"stale", "error"}
  BY ClientFields DEF Inv, Sound, Core, SubsSound, MayRenew
<1>2. [c EXCEPT !.sub[s].prior[k] = c.sub[s].status, !.sub[s].status = "connecting"] = d
  BY <1>1 DEF Assign, Clients
<1>3. /\ Reshown(m, n) /\ n.status = "connecting" /\ n.prior[k] # "none"
      /\ \A j \in Capabilities : m.prior[j] # "none" => n.prior[j] # "none"
  <2> HIDE DEF m
  <2> QED
    BY <1>1 DEF SubType, Statuses, Reshown
<1> HIDE DEF n
<1>4. \A i \in DOMAIN c.stack : s \in c.stack[i].sub /\ c.stack[i].do = "renew" =>
        n.prior[c.stack[i].cap] # "none"
  <2> TAKE i \in DOMAIN c.stack
  <2> HAVE s \in c.stack[i].sub /\ c.stack[i].do = "renew"
  <2>1. ItemSound(c, c.stack[i])
    BY <1>1 DEF Core, StackSound
  <2>2. c.stack[i].cap > 1 /\ m.prior[c.stack[i].cap] # "none"
    BY <2>1 DEF ItemSound
  <2>3. c.stack[i].cap \in Capabilities
    BY <1>1, <2>2, StackFields, Bounds
  <2>4. \A j \in Capabilities : m.prior[j] # "none" => n.prior[j] # "none"
    BY <1>3
  <2> HIDE DEF m
  <2> QED
    BY <2>2, <2>3, <2>4
<1>5. /\ d \in Clients /\ Changes(c, d, s) /\ d.sub[s] = n
      /\ d.active = c.active /\ d.disposed = c.disposed /\ d.stack = c.stack
  <2>1. Core(c, g) /\ c.sub[s].state # "new" /\ Reshown(c.sub[s], n)
    BY <1>1, <1>3
  <2>2. \A i \in DOMAIN c.stack : s \in c.stack[i].sub /\ c.stack[i].do = "renew" =>
          n.prior[c.stack[i].cap] # "none"
    BY <1>4
  <2> QED
    BY ONLY <2>1, <2>2, ReshownChanges, s \in Subs, ZenonT(60) DEF d
<1> HIDE DEF d
<1> DEFINE X == Nobody \cup {s}
<1>6. /\ Sound(d, g, X, Nobody)
      /\ Replacing(c, s) => Replacing(d, s)
  BY <1>1, <1>5, ChangesSound
<1>7. X \subseteq {s}
  BY DEF Nobody
<1> HIDE DEF X
<1>8. Consistent(d, s)
  <2>1. Consistent(c, s)
    BY <1>1 DEF Sound, Nobody
  <2> QED
    BY <1>3, <1>5, <1>6, <2>1 DEF Consistent, Reshown
<1>9. Sound(d, g, Nobody, Nobody)
  BY <1>6, <1>7, <1>8, SettledSound
<1>10. /\ w \in Items /\ w.do = "renew" /\ w.sub = {s} /\ w.cap = k
       /\ items \in Seq(Items) /\ DOMAIN items = {1} /\ items[1] = w
  <2>1. w \in Items /\ w.do = "renew" /\ w.sub = {s} /\ w.cap = k
    BY Bounds DEF Item, Items, Works
  <2> HIDE DEF w
  <2> QED
    BY <2>1, ShortSequences
<1> HIDE DEF items, w
<1>11. ItemSound(d, w)
  <2>1. d.sub[s].answers = m.answers /\ d.sub[s].state # "new" /\ d.sub[s].prior[k] # "none"
    BY <1>1, <1>3, <1>5 DEF Reshown
  <2>2. m.answers[k] = "none"
        /\ \A j \in Capabilities : 1 < j /\ j < k => m.answers[j] # "none"
    BY DEF MayRenew
  <2> QED
    BY <1>1, <1>10, <2>1, <2>2 DEF ItemSound
<1>12. PairSound(d, items \o d.stack)
  <2>1. PairSound(d, d.stack) /\ d.stack \in Seq(Items)
    BY <1>5, <1>9, ClientFields DEF Sound, Core, StackSound
  <2>2. \A j \in DOMAIN d.stack : d.stack[j] # w
    BY <1>5, <1>10 DEF MayRenew
  <2> QED
    BY <1>10, <2>1, <2>2, PushPairs
<1>13. Core(Push(d, items), g)
  <2>1. Core(d, g)
    BY <1>9 DEF Sound
  <2>2. \A i \in DOMAIN items : ItemSound(d, items[i])
    BY <1>10, <1>11
  <2> QED
    BY <1>10, <1>12, <2>1, <2>2, PushCore
<1>14. Nobody \cap Subs = {}
  BY DEF Nobody
<1>15. Sound(Push(d, items), g, Nobody, Nobody)
  BY <1>9, <1>10, <1>13, <1>14, PushSound
<1> QED
  BY <1>2, <1>15 DEF Inv, items, w

LEMMA RenewMethodSound ==
  ASSUME NEW c, NEW g, NEW s \in Subs, NEW k \in Capabilities, Inv(c, g), Granted(g), k > 1,
         c.sub[s].state # "new", c.sub[s].answers[k] = "none", c.sub[s].prior[k] = "none",
         \A j \in 2..(k - 1) : c.sub[s].answers[j] # "none"
  PROVE  Inv(Renew(c, s, k), g)
<1>1. Core(c, g) /\ Sound(c, g, Nobody, Nobody)
  BY DEF Inv, Sound
<1>2. MayRenew(c, s, k)
  BY <1>1, RenewAllowed
<1>3. CASE c.sub[s].status \in {"stale", "error"}
  <2>1. Renew(c, s, k) =
          Push([c EXCEPT !.sub[s].prior[k] = c.sub[s].status, !.sub[s].status = "connecting"],
               One([Item("renew", s) EXCEPT !.cap = k]))
    BY <1>3 DEF Renew, One
  <2>2. Inv(Push([c EXCEPT !.sub[s].prior[k] = c.sub[s].status, !.sub[s].status = "connecting"],
                 One([Item("renew", s) EXCEPT !.cap = k])), g)
    BY <1>2, <1>3, RenewWaitsSound
  <2> QED
    BY <2>1, <2>2
<1>4. CASE c.sub[s].status \notin {"stale", "error"}
  <2>1. Renew(c, s, k) = CoordinatorRenew(c, s, k)
    BY <1>4 DEF Renew
  <2> QED
    BY <1>1, <1>2, <2>1, CoordinatorRenewSound DEF Inv
<1> QED
  BY <1>3, <1>4

\* The catch handler of a rejected renewal.
LEMMA RestoreSound ==
  ASSUME NEW c, NEW g, NEW s \in Subs, NEW k \in Capabilities, Inv(c, g), c.stack = Empty,
         c.sub[s].answers[k] = "rejected", c.sub[s].prior[k] # "none"
  PROVE  Inv([c EXCEPT !.sub[s].prior[k] = "none",
                       !.sub[s].status = IF @ \in {"error", "closed"} THEN @
                                         ELSE c.sub[s].prior[k]], g)
<1> DEFINE m == c.sub[s]
           v == IF m.status \in {"error", "closed"} THEN m.status ELSE m.prior[k]
           n == [m EXCEPT !.prior[k] = "none", !.status = v]
           d == Assign(c, s, n, c.active)
<1>1. Core(c, g) /\ c \in Clients /\ m \in SubType /\ SubSound(m)
      /\ Sound(c, g, Nobody, Nobody)
  BY ClientFields DEF Inv, Sound, Core, SubsSound
<1>2. [c EXCEPT !.sub[s].prior[k] = "none",
                !.sub[s].status = IF @ \in {"error", "closed"} THEN @
                                  ELSE c.sub[s].prior[k]] = d
  BY <1>1, ZenonT(40) DEF Assign, Clients
<1>3. m.state # "new"
  <2> SUFFICES ASSUME m.state = "new" PROVE FALSE
    OBVIOUS
  <2>1. m = NewSub
    BY <1>1 DEF SubSound
  <2> HIDE DEF m
  <2>2. m.answers[k] = "none"
    BY <2>1 DEF NewSub
  <2> QED
    BY <2>2 DEF m
<1>4. v \in {"stale", "error", "closed"} /\ (v = "closed" <=> m.status = "closed")
  BY <1>1, SubFields
<1>5. Reshown(m, n) /\ n.status = v
  <2> HIDE DEF m, v
  <2> QED
    BY <1>1, <1>4 DEF SubType, Statuses, Reshown
<1> HIDE DEF n, v
<1>6. \A i \in DOMAIN c.stack : FALSE
  BY Unawaited
<1>7. /\ d \in Clients /\ Changes(c, d, s) /\ d.sub[s] = n
      /\ d.active = c.active /\ d.disposed = c.disposed /\ d.stack = c.stack
  BY <1>1, <1>3, <1>5, <1>6, ReshownChanges
<1> HIDE DEF d
<1> DEFINE X == Nobody \cup {s}
<1>8. /\ Sound(d, g, X, Nobody)
      /\ Replacing(c, s) => Replacing(d, s)
  BY <1>1, <1>7, ChangesSound
<1>9. X \subseteq {s}
  BY DEF Nobody
<1> HIDE DEF X
<1>10. Consistent(d, s)
  <2>1. Consistent(c, s)
    BY <1>1 DEF Sound, Nobody
  <2> QED
    BY <1>4, <1>5, <1>7, <1>8, <2>1 DEF Consistent, Reshown
<1> QED
  BY <1>2, <1>8, <1>9, <1>10, SettledSound DEF Inv

-----------------------------------------------------------------------------
(* close().                                                                *)

\* What close() makes of a subscription.
Disposed(m, n) ==
  /\ n \in SubType /\ n.state = m.state /\ n.query = m.query /\ n.prior = m.prior
  /\ n.request = m.request /\ n.liveId = m.liveId
  /\ m.state = "new" => n = m
  /\ m.state # "new" => n.status = "closed"
  /\ RenewalsSound(n)
  /\ \A k \in Capabilities :
       /\ n.answers[k] # "pending"
       /\ n.answers[k] = "resolved" => m.answers[k] = "resolved"
       /\ n.answers[k] = "none" <=> m.answers[k] = "none"

LEMMA DisposedNew ==
  ASSUME NEW m \in SubType, SubSound(m), m.state = "new"
  PROVE  Disposed(m, m)
<1>1. RenewalsSound(m)
  BY DEF SubSound
<1>2. \A k \in Capabilities : m.answers[k] # "pending"
  BY DEF SubSound
<1> QED
  BY <1>1, <1>2 DEF Disposed

LEMMA DisposedReleased ==
  ASSUME NEW m \in SubType, SubSound(m), m.state # "new",
         \A k \in Capabilities : m.answers[k] # "pending"
  PROVE  Disposed(m, [m EXCEPT !.status = "closed"])
<1> DEFINE n == [m EXCEPT !.status = "closed"]
<1>1. /\ n \in SubType /\ n.state = m.state /\ n.query = m.query /\ n.prior = m.prior
      /\ n.request = m.request /\ n.liveId = m.liveId /\ n.answers = m.answers
      /\ n.renewing = m.renewing /\ n.queued = m.queued /\ n.status = "closed"
  BY DEF SubType, Statuses
<1> HIDE DEF n
<1>2. RenewalsSound(n)
  BY <1>1, RenewalsSame DEF SubSound
<1> QED
  BY <1>1, <1>2 DEF Disposed, n

LEMMA DisposedManaged ==
  ASSUME NEW m \in SubType, SubSound(m), m.state # "new"
  PROVE  Disposed(m, RejectRenewals([[m EXCEPT !.status = "closed"] EXCEPT !.recovery = "idle"]))
<1> DEFINE a == [[m EXCEPT !.status = "closed"] EXCEPT !.recovery = "idle"]
           n == RejectRenewals(a)
<1>1. /\ a \in SubType /\ a.state = m.state /\ a.query = m.query /\ a.prior = m.prior
      /\ a.request = m.request /\ a.liveId = m.liveId /\ a.answers = m.answers
      /\ a.renewing = m.renewing /\ a.queued = m.queued /\ a.status = "closed"
  BY DEF SubType, Statuses
<1> HIDE DEF a
<1>2. RenewalsSound(a)
  BY <1>1, RenewalsSame DEF SubSound
<1>3. n \in SubType /\ SameBut(a, n) /\ SameWireIds(a, n)
  BY <1>1, RejectRenewalsEffect
<1>4. /\ RenewalsSound(n)
      /\ \A k \in Capabilities : n.answers[k] # "pending"
      /\ \A k \in Capabilities : n.answers[k] = "resolved" => a.answers[k] = "resolved"
      /\ \A k \in Capabilities : n.answers[k] = "none" <=> a.answers[k] = "none"
  BY <1>1, <1>2, RejectedSound
<1> HIDE DEF n
<1>5. Disposed(m, n)
  BY <1>1, <1>3, <1>4 DEF Disposed, SameBut, SameWireIds
<1> QED
  BY <1>5 DEF n, a

\* A client that is closed and has no socket.
Emptied(c, z) ==
  /\ z.pendingRequests = {} /\ z.liveSubscriptions = {} /\ z.detaching = {}
  /\ z.targets = {} /\ z.delivering = {} /\ z.requestId = c.requestId
  /\ z.stack = c.stack /\ z.socket = "none" /\ z.link = NoLink
  /\ z.managed = {} /\ z.active = {} /\ z.disposed
  /\ z.ready => c.ready
  /\ \A s \in Subs : Disposed(c.sub[s], z.sub[s])

LEMMA EmptiedSound ==
  ASSUME NEW c, NEW g, NEW z \in Clients, Core(c, g), Emptied(c, z)
  PROVE  Sound(z, g, Nobody, Nobody)
<1>0. /\ c \in Clients /\ \A s \in Subs : c.sub[s] \in SubType /\ SubSound(c.sub[s])
      /\ z.stack = c.stack
  BY ClientFields DEF Core, SubsSound, Emptied
<1>1. \A r \in Nat, s \in Subs : ~Pending(z, r, s) /\ ~Live(z, r, s)
  BY DEF Emptied, Pending, Live
<1>2. TablesSound(z) /\ DeliveringIsLive(z)
  BY <1>1 DEF TablesSound, DeliveringIsLive, Emptied
<1>3. IdsFresh(z) /\ WireSound(z, g) /\ OneRenewal(z) /\ ServedIds(z)
  <2>1. z.link.up = NoLink.up /\ z.link.down = NoLink.down /\ z.link.served = {}
        /\ DOMAIN z.link.up = {} /\ DOMAIN z.link.down = {}
    BY NoLinkFacts DEF Emptied
  <2>2. \A s \in Subs : z.sub[s].liveId = c.sub[s].liveId
    BY DEF Emptied, Disposed
  <2>3. IdsFresh(z)
    BY <2>1, <2>2 DEF IdsFresh, Emptied, Core
  <2>4. z.link = NoLink
    BY DEF Emptied
  <2>5. WireSound(z, g)
    BY <2>1, <2>4 DEF WireSound, Up, Down
  <2>6. OneRenewal(z) /\ ServedIds(z)
    BY <2>1 DEF OneRenewal, ServedIds, Up, Down
  <2> QED
    BY <2>3, <2>5, <2>6
<1>4. StackSound(z)
  <2>1. \A i \in DOMAIN c.stack : \A s \in c.stack[i].sub :
          s \in Subs /\ c.sub[s].state # "new" /\ z.sub[s].status = "closed"
    BY <1>0, StackFields DEF Core, StackSound, ItemSound, Emptied, Disposed
  <2>2. ASSUME NEW i \in DOMAIN c.stack
        PROVE  ItemSound(z, c.stack[i])
    <3> DEFINE w == c.stack[i]
    <3>1. ItemSound(c, w) /\ w \in Items /\ w.sub \subseteq Subs
      BY <1>0, StackFields DEF Core, StackSound
    <3>2. \A s \in w.sub : s \in Subs /\ c.sub[s].state # "new" /\ z.sub[s].status = "closed"
      BY <2>1
    <3> HIDE DEF w
    <3>3. \A s \in w.sub : z.sub[s].state # "new"
      BY <3>2 DEF Emptied, Disposed
    <3>4. w.do = "detached" => ~z.ready
      BY <3>1 DEF ItemSound, Emptied
    <3>5. w.do = "replace" => \A s \in w.sub : Unwired(z, s) /\ z.sub[s].state # "awaiting_query"
      BY <1>1, <3>1, <3>2 DEF ItemSound, Emptied, Disposed, Unwired
    <3>6. w.do = "renew" =>
            /\ w.cap > 1
            /\ \A s \in w.sub :
                 /\ z.sub[s].answers[w.cap] = "none" /\ z.sub[s].prior[w.cap] # "none"
                 /\ \A k \in Capabilities : 1 < k /\ k < w.cap => z.sub[s].answers[k] # "none"
      <4> HAVE w.do = "renew"
      <4>1. w.cap > 1 /\ w.cap \in 0..MaxCapability
        BY <3>1 DEF ItemSound, Items
      <4>2. w.cap \in Capabilities
        BY <4>1, Bounds
      <4>3. \A s \in w.sub :
                 /\ c.sub[s].answers[w.cap] = "none" /\ c.sub[s].prior[w.cap] # "none"
                 /\ \A k \in Capabilities : 1 < k /\ k < w.cap => c.sub[s].answers[k] # "none"
        BY <3>1 DEF ItemSound
      <4>4. \A s \in w.sub : Disposed(c.sub[s], z.sub[s])
        BY <3>1 DEF Emptied
      <4> QED
        BY <4>1, <4>2, <4>3, <4>4 DEF Disposed
    <3>7. w.do \notin {"sending", "detached", "terminating"} => \E s \in Subs : w.sub = {s}
      BY <3>1 DEF ItemSound
    <3> QED
      BY <1>1, <3>2, <3>3, <3>4, <3>5, <3>6, <3>7 DEF ItemSound, w
  <2>3. PairSound(z, c.stack)
    BY <2>1 DEF Core, StackSound, PairSound
  <2> QED
    BY <1>0, <2>2, <2>3 DEF StackSound
<1>5. SubsSound(z)
  <2>1. \A s \in Subs : Disposed(c.sub[s], z.sub[s]) /\ SubSound(c.sub[s])
    BY <1>0 DEF Emptied
  <2>2. \A s \in Subs : SubSound(z.sub[s])
    BY <2>1 DEF Disposed, SubSound
  <2>3. \A s \in Subs : z.sub[s].state # "new" => z.sub[s].status = "closed"
    BY <2>1 DEF Disposed
  <2>4. \A s \in Subs, k \in Capabilities : z.sub[s].answers[k] # "pending"
    BY <2>1 DEF Disposed
  <2> QED
    BY <2>2, <2>3, <2>4 DEF SubsSound, Emptied
<1>6. Truthful(z, g)
  BY DEF Core, Truthful, Emptied, Disposed
<1>7. Core(z, g)
  BY <1>2, <1>3, <1>4, <1>5, <1>6 DEF Core
<1>8. \A s \in Subs : Consistent(z, s)
  <2> TAKE s \in Subs
  <2>1. Disposed(c.sub[s], z.sub[s]) /\ z.disposed /\ SubSound(c.sub[s])
    BY <1>0 DEF Emptied
  <2>2. z.sub[s].status # "live"
    <3>1. CASE c.sub[s].state = "new"
      <4>1. z.sub[s] = NewSub
        BY <2>1, <3>1 DEF Disposed, SubSound
      <4> QED
        BY <4>1 DEF NewSub
    <3>2. CASE c.sub[s].state # "new"
      BY <2>1, <3>2 DEF Disposed
    <3> QED
      BY <3>1, <3>2
  <2> QED
    BY <2>1, <2>2 DEF Consistent
<1>9. z.socket = "none" /\ z.link.served = {}
  BY NoLinkFacts DEF Emptied
<1> QED
  BY <1>7, <1>8, <1>9 DEF Sound

LEMMA CloseSound ==
  ASSUME NEW c, NEW g, Inv(c, g)
  PROVE  Inv(Close(c), g)
<1> DEFINE b == [s \in Subs |->
                 IF c.sub[s].state = "new" THEN c.sub[s]
                 ELSE LET m == [c.sub[s] EXCEPT !.status = "closed"]
                      IN  IF s \in c.managed
                            THEN RejectRenewals([m EXCEPT !.recovery = "idle"]) ELSE m]
           a == [c EXCEPT !.disposed = TRUE, !.managed = {}, !.active = {},
                          !.pendingRequests = {}, !.liveSubscriptions = {},
                          !.detaching = {}, !.targets = {}, !.delivering = {}, !.sub = b]
           e == CancelReconnectEpisode(a)
           d == Lost(e)
<1>1. Core(c, g) /\ c \in Clients
  BY DEF Inv, Sound, Core
<1>2. Close(c) = CloseSocket(e)
  BY <1>1 DEF Close, Clients
<1>3. \A s \in Subs : b[s] \in SubType /\ Disposed(c.sub[s], b[s])
  <2> TAKE s \in Subs
  <2> DEFINE m == c.sub[s]
  <2>1. m \in SubType /\ SubSound(m)
    BY <1>1, ClientFields DEF Core, SubsSound
  <2>2. s \notin c.managed => \A k \in Capabilities : m.answers[k] # "pending"
    BY <1>1 DEF Core, SubsSound
  <2>3. b[s] = IF m.state = "new" THEN m
               ELSE IF s \in c.managed
                      THEN RejectRenewals([[m EXCEPT !.status = "closed"] EXCEPT !.recovery = "idle"])
                      ELSE [m EXCEPT !.status = "closed"]
    OBVIOUS
  <2> HIDE DEF m, b
  <2>4. Disposed(m, b[s])
    BY <2>1, <2>2, <2>3, DisposedNew, DisposedReleased, DisposedManaged
  <2> QED
    BY <2>4 DEF Disposed, m
<1>4. b \in [Subs -> SubType]
  <2>1. b = [s \in Subs |-> b[s]]
    OBVIOUS
  <2> HIDE DEF b
  <2> QED
    BY <1>3, <2>1
<1> HIDE DEF b
<1>5. /\ a \in Clients /\ a.sub = b /\ a.disposed /\ a.managed = {} /\ a.active = {}
      /\ a.pendingRequests = {} /\ a.liveSubscriptions = {} /\ a.detaching = {}
      /\ a.targets = {} /\ a.delivering = {} /\ a.requestId = c.requestId
      /\ a.stack = c.stack /\ a.socket = c.socket /\ a.link = c.link /\ a.ready = c.ready
  BY <1>1, <1>4 DEF Clients, Tables
<1> HIDE DEF a
<1>6. e \in Clients /\ Same(a, e) /\ SameSubs(a, e)
  BY <1>5, CancelEffect
<1> HIDE DEF e
<1>7. CASE c.socket = "none"
  <2>1. c.link = NoLink
    BY <1>1, <1>7 DEF Core, WireSound
  <2>2. Emptied(c, e)
    BY <1>3, <1>5, <1>6, <1>7, <2>1 DEF Emptied, Same, SameTables, SameWire, SameSubs
  <2>3. CloseSocket(e) = e
    BY <1>5, <1>6, <1>7 DEF CloseSocket, Same, SameWire
  <2> QED
    BY <1>1, <1>2, <1>6, <2>2, <2>3, EmptiedSound DEF Inv
<1>8. CASE c.socket # "none"
  <2>1. CloseSocket(e) = Push(d, One(Everyone))
    BY <1>5, <1>6, <1>8, CloseSocketForm DEF Same, SameWire
  <2>2. /\ d \in Clients /\ SameSubs(e, d) /\ d.stack = e.stack
        /\ d.requestId = e.requestId /\ d.socket = "none" /\ d.link = NoLink /\ ~d.ready
        /\ d.pendingRequests = {} /\ d.liveSubscriptions = {} /\ d.detaching = {}
        /\ d.targets = {} /\ d.delivering = {}
    BY <1>6, LostEffect
  <2> HIDE DEF d
  <2>3. Emptied(c, d)
    BY <1>3, <1>5, <1>6, <2>2 DEF Emptied, Same, SameTables, SameSubs
  <2>4. Sound(d, g, Nobody, Nobody) /\ Core(d, g)
    BY <1>1, <2>2, <2>3, EmptiedSound DEF Sound
  <2>5. /\ Everyone \in Items /\ Everyone.do = "detached" /\ Everyone.sub = {}
        /\ One(Everyone) \in Seq(Items) /\ DOMAIN One(Everyone) = {1}
        /\ One(Everyone)[1] = Everyone
    <3>1. Everyone \in Items /\ Everyone.do = "detached" /\ Everyone.sub = {}
      BY Bounds DEF Everyone, Items, Works
    <3> QED
      BY <3>1, ShortSequences
  <2>6. ItemSound(d, Everyone)
    BY <2>2, <2>5 DEF ItemSound, Pending, Live
  <2>7. PairSound(d, One(Everyone) \o d.stack)
    <3>1. PairSound(d, d.stack) /\ d.stack \in Seq(Items)
      BY <2>2, <2>4, ClientFields DEF Core, StackSound
    <3> QED
      BY <2>5, <3>1, PushPairs
  <2>8. Core(Push(d, One(Everyone)), g)
    <3>1. \A i \in DOMAIN One(Everyone) : ItemSound(d, One(Everyone)[i])
      BY <2>5, <2>6
    <3> QED
      BY <2>4, <2>5, <2>7, <3>1, PushCore
  <2>9. Nobody \cap Subs = {}
    BY DEF Nobody
  <2> QED
    BY <1>2, <2>1, <2>4, <2>5, <2>8, <2>9, PushSound DEF Inv
<1> QED
  BY <1>7, <1>8

-----------------------------------------------------------------------------
(* Frames.                                                                 *)

\* The client takes the first frame of those on their way to it.
Taken(c) == [c EXCEPT !.link.down = Tail(@)]

LEMMA TakeEffect ==
  ASSUME NEW c \in Clients, c.link.down # <<>>
  PROVE  LET d == Taken(c)
             u == c.link.down
         IN  /\ d \in Clients /\ SameSubs(c, d) /\ SameTables(c, d) /\ d.socket = c.socket
             /\ d.ready = c.ready /\ d.terminal = c.terminal /\ d.stack = c.stack
             /\ d.link.up = c.link.up /\ d.link.served = c.link.served
             /\ Head(u) \in Messages(Replies) /\ 1 \in DOMAIN u /\ u[1] = Head(u)
             /\ \A i \in DOMAIN d.link.down :
                  i \in Nat /\ i + 1 \in DOMAIN u /\ d.link.down[i] = u[i + 1] /\ i + 1 # 1
             /\ \A i \in DOMAIN u :
                  i = 1 \/ (i - 1 \in DOMAIN d.link.down /\ d.link.down[i - 1] = u[i])
<1> DEFINE u == c.link.down
           b == [c.link EXCEPT !.down = Tail(u)]
           d == Taken(c)
<1>1. u \in Seq(Messages(Replies)) /\ c.link \in Links /\ u # <<>>
  BY ClientFields, LinkFields
<1>2. /\ Tail(u) \in Seq(Messages(Replies)) /\ Head(u) \in Messages(Replies)
      /\ 1 \in DOMAIN u /\ u[1] = Head(u)
      /\ \A i \in DOMAIN Tail(u) :
           i \in Nat /\ i + 1 \in DOMAIN u /\ Tail(u)[i] = u[i + 1] /\ i + 1 # 1
      /\ \A i \in DOMAIN u : i = 1 \/ (i - 1 \in DOMAIN Tail(u) /\ Tail(u)[i - 1] = u[i])
  <2> HIDE DEF u
  <2>1. /\ Tail(u) \in Seq(Messages(Replies)) /\ Head(u) \in Messages(Replies)
        /\ 1 \in DOMAIN u /\ u[1] = Head(u) /\ Len(u) \in Nat
        /\ DOMAIN Tail(u) = 1..(Len(u) - 1)
        /\ \A i \in DOMAIN Tail(u) : i + 1 \in DOMAIN u /\ Tail(u)[i] = u[i + 1]
        /\ \A i \in DOMAIN u : i = 1 \/ (i - 1 \in DOMAIN Tail(u) /\ Tail(u)[i - 1] = u[i])
    BY <1>1, TailIndex
  <2> QED
    BY <2>1
<1>3. /\ b \in Links /\ b.up = c.link.up /\ b.served = c.link.served /\ b.down = Tail(u)
  <2> HIDE DEF u
  <2> QED
    BY <1>1, <1>2 DEF Links
<1>4. d = [c EXCEPT !.link = b]
  BY DEF Taken, Clients
<1> HIDE DEF b, d
<1>5. /\ d \in Clients /\ SameSubs(c, d) /\ SameTables(c, d) /\ d.socket = c.socket
      /\ d.ready = c.ready /\ d.terminal = c.terminal /\ d.stack = c.stack /\ d.link = b
  BY <1>3, <1>4 DEF Clients, SameSubs, SameTables
<1> HIDE DEF u
<1>6. d.link.up = c.link.up /\ d.link.served = c.link.served /\ d.link.down = Tail(u)
  BY <1>3, <1>5
<1> QED
  BY <1>2, <1>5, <1>6 DEF d, u

\* What holds of a frame when it has been taken.
FrameSaysTruth(c, g, f) ==
  /\ f \in Messages(Replies) /\ f.id \in Nat /\ f.id <= c.requestId
  /\ f.type \in {"subscribed", "renewed"} => <<f.sub, f.cap>> \in g
  /\ f.type = "subscribed" => About(c, f)
  /\ f.type = "renewed" =>
       /\ Renews(c, f)
       /\ \A s \in Subs : Live(c, f.id, s) =>
            /\ \A i \in DOMAIN c.link.up : Up(c, i, "renew") => c.link.up[i].id # f.id
            /\ \A i \in DOMAIN c.link.down : Down(c, i, "renewed") => c.link.down[i].id # f.id
  /\ f.type \in Errors => f.id \notin c.link.served

\* An admission that was taken has still to be dealt with.
Admitting(f) == IF f.type = "subscribed" THEN {f.id} ELSE Nobody

LEMMA TakeCore ==
  ASSUME NEW c, NEW g, Core(c, g), c.link.down # <<>>, c.socket = "open", c.stack = Empty
  PROVE  /\ Core(Taken(c), g)
         /\ FrameSaysTruth(Taken(c), g, Head(c.link.down))
<1> DEFINE d == Taken(c)
           u == c.link.down
           f == Head(u)
<1>1. c \in Clients
  BY DEF Core
<1>2. /\ d \in Clients /\ SameSubs(c, d) /\ SameTables(c, d) /\ d.socket = c.socket
      /\ d.ready = c.ready /\ d.terminal = c.terminal /\ d.stack = c.stack
      /\ d.link.up = c.link.up /\ d.link.served = c.link.served
      /\ f \in Messages(Replies) /\ 1 \in DOMAIN u /\ u[1] = f
      /\ \A i \in DOMAIN d.link.down :
           i \in Nat /\ i + 1 \in DOMAIN u /\ d.link.down[i] = u[i + 1] /\ i + 1 # 1
      /\ \A i \in DOMAIN u :
           i = 1 \/ (i - 1 \in DOMAIN d.link.down /\ d.link.down[i - 1] = u[i])
  BY <1>1, TakeEffect
<1> HIDE DEF d, f
<1>3. /\ \A r \in Nat, s \in Subs : Pending(d, r, s) <=> Pending(c, r, s)
      /\ \A r \in Nat, s \in Subs : Live(d, r, s) <=> Live(c, r, s)
      /\ d.sub = c.sub
  BY <1>2 DEF Pending, Live, SameTables, SameSubs
<1>4. /\ f.id \in Nat
      /\ \A i \in DOMAIN u : u[i].id \in Nat
      /\ \A i \in DOMAIN c.link.up : c.link.up[i].id \in Nat
  BY <1>1, <1>2, ClientFields, LinkFields DEF Messages
<1>5. TablesSound(d) /\ DeliveringIsLive(d)
  BY <1>2, <1>3 DEF Core, TablesSound, DeliveringIsLive, Ended, SameTables, SameSubs
<1>6. IdsFresh(d)
  BY <1>2, <1>3 DEF Core, IdsFresh, SameTables
<1>7. StackSound(d)
  <2>1. DOMAIN d.stack = {}
    BY <1>2, EmptyFacts
  <2> QED
    BY <2>1 DEF StackSound, PairSound
<1>8. SubsSound(d) /\ Truthful(d, g)
  <2>1. SubsSound(c) /\ Truthful(c, g)
    BY DEF Core
  <2>2. SubsSound(d)
    BY <1>2, <2>1 DEF SubsSound, SameSubs
  <2> QED
    BY <1>3, <2>1, <2>2 DEF Truthful
<1>9. \A h : h.id \in Nat => (About(d, h) <=> About(c, h)) /\ (Renews(d, h) <=> Renews(c, h))
  BY <1>3 DEF About, Renews
<1>10. WireSound(d, g)
  <2>1. d.socket = "open"
    BY <1>2
  <2>2. \A i \in DOMAIN d.link.up : d.link.up[i].type \in {"subscribe", "renew"} =>
          d.link.up[i].sub \in Subs /\ d.link.up[i].cap > 0
    BY <1>2 DEF Core, WireSound
  <2>3. \A i \in DOMAIN d.link.down : d.link.down[i].type \in {"subscribed", "renewed"} =>
          <<d.link.down[i].sub, d.link.down[i].cap>> \in g
    BY <1>2 DEF Core, WireSound
  <2>4. \A i \in DOMAIN d.link.up : Up(d, i, "subscribe") => About(d, d.link.up[i])
    BY <1>2, <1>4, <1>9 DEF Core, WireSound, Up
  <2>5. \A i \in DOMAIN d.link.down : Down(d, i, "subscribed") => About(d, d.link.down[i])
    <3>1. \A j \in DOMAIN u : u[j].type = "subscribed" => About(c, u[j])
      BY DEF Core, WireSound, Down
    <3> QED
      BY <1>2, <1>4, <1>9, <3>1 DEF Down
  <2>6. \A i \in DOMAIN d.link.up : Up(d, i, "renew") => Renews(d, d.link.up[i])
    BY <1>2, <1>4, <1>9 DEF Core, WireSound, Up
  <2>7. \A i \in DOMAIN d.link.down : Down(d, i, "renewed") => Renews(d, d.link.down[i])
    <3>1. \A j \in DOMAIN u : u[j].type = "renewed" => Renews(c, u[j])
      BY DEF Core, WireSound, Down
    <3> QED
      BY <1>2, <1>4, <1>9, <3>1 DEF Down
  <2> QED
    BY <2>1, <2>2, <2>3, <2>4, <2>5, <2>6, <2>7 DEF WireSound
<1>11. OneRenewal(d)
  <2> SUFFICES ASSUME NEW l \in Nat, NEW s \in Subs, Live(d, l, s)
               PROVE  /\ \A i, j \in DOMAIN d.link.up :
                           /\ Up(d, i, "renew") /\ d.link.up[i].id = l
                           /\ Up(d, j, "renew") /\ d.link.up[j].id = l
                           => i = j
                      /\ \A i, j \in DOMAIN d.link.down :
                           /\ Down(d, i, "renewed") /\ d.link.down[i].id = l
                           /\ Down(d, j, "renewed") /\ d.link.down[j].id = l
                           => i = j
                      /\ \A i \in DOMAIN d.link.up, j \in DOMAIN d.link.down :
                           ~ /\ Up(d, i, "renew") /\ d.link.up[i].id = l
                             /\ Down(d, j, "renewed") /\ d.link.down[j].id = l
    BY DEF OneRenewal
  <2>1. /\ \A i, j \in DOMAIN c.link.up :
             /\ Up(c, i, "renew") /\ c.link.up[i].id = l
             /\ Up(c, j, "renew") /\ c.link.up[j].id = l
             => i = j
        /\ \A i, j \in DOMAIN u :
             /\ Down(c, i, "renewed") /\ u[i].id = l
             /\ Down(c, j, "renewed") /\ u[j].id = l
             => i = j
        /\ \A i \in DOMAIN c.link.up, j \in DOMAIN u :
             ~ /\ Up(c, i, "renew") /\ c.link.up[i].id = l
               /\ Down(c, j, "renewed") /\ u[j].id = l
    BY <1>3 DEF Core, OneRenewal
  <2>2. \A i, j \in DOMAIN d.link.down :
          /\ Down(d, i, "renewed") /\ d.link.down[i].id = l
          /\ Down(d, j, "renewed") /\ d.link.down[j].id = l
          => i = j
    <3> SUFFICES ASSUME NEW i \in DOMAIN d.link.down, NEW j \in DOMAIN d.link.down,
                        Down(d, i, "renewed"), d.link.down[i].id = l,
                        Down(d, j, "renewed"), d.link.down[j].id = l
                 PROVE  i = j
      OBVIOUS
    <3>1. /\ i + 1 \in DOMAIN u /\ d.link.down[i] = u[i + 1]
          /\ j + 1 \in DOMAIN u /\ d.link.down[j] = u[j + 1]
          /\ i \in Nat /\ j \in Nat
      BY <1>2
    <3>2. i + 1 = j + 1
      BY <2>1, <3>1 DEF Down
    <3> QED
      BY <3>1, <3>2
  <2> QED
    BY <1>2, <2>1, <2>2 DEF Up, Down
<1>12. ServedIds(d)
  <2>1. /\ \A i \in DOMAIN c.link.up : Up(c, i, "subscribe") =>
             /\ c.link.up[i].id \notin c.link.served
             /\ \A j \in DOMAIN c.link.up :
                  Up(c, j, "subscribe") /\ c.link.up[i].id = c.link.up[j].id => i = j
             /\ \A j \in DOMAIN u : u[j].type \in Errors => u[j].id # c.link.up[i].id
        /\ \A i \in DOMAIN u : u[i].type \in Errors => u[i].id \notin c.link.served
    BY DEF Core, ServedIds
  <2> QED
    BY <1>2, <2>1 DEF ServedIds, Up
<1>13. FrameSaysTruth(d, g, f)
  <2>1. f.id <= d.requestId
    BY <1>2 DEF Core, IdsFresh, SameTables
  <2>2. f.type \in {"subscribed", "renewed"} => <<f.sub, f.cap>> \in g
    BY <1>2 DEF Core, WireSound
  <2>3. f.type = "subscribed" => About(d, f)
    BY <1>2, <1>4, <1>9 DEF Core, WireSound, Down
  <2>4. f.type = "renewed" => Renews(d, f)
    BY <1>2, <1>4, <1>9 DEF Core, WireSound, Down
  <2>5. ASSUME f.type = "renewed", NEW s \in Subs, Live(d, f.id, s)
        PROVE  /\ \A i \in DOMAIN d.link.up : Up(d, i, "renew") => d.link.up[i].id # f.id
               /\ \A i \in DOMAIN d.link.down : Down(d, i, "renewed") => d.link.down[i].id # f.id
    <3>1. Live(c, f.id, s)
      BY <1>3, <1>4, <2>5
    <3>2. /\ \A i, j \in DOMAIN u :
               /\ Down(c, i, "renewed") /\ u[i].id = f.id
               /\ Down(c, j, "renewed") /\ u[j].id = f.id
               => i = j
          /\ \A i \in DOMAIN c.link.up, j \in DOMAIN u :
               ~ /\ Up(c, i, "renew") /\ c.link.up[i].id = f.id
                 /\ Down(c, j, "renewed") /\ u[j].id = f.id
      BY <1>4, <3>1 DEF Core, OneRenewal
    <3>3. Down(c, 1, "renewed") /\ u[1].id = f.id
      BY <1>2, <2>5 DEF Down
    <3> QED
      BY <1>2, <3>2, <3>3 DEF Up, Down
  <2>6. f.type \in Errors => f.id \notin d.link.served
    BY <1>2 DEF Core, ServedIds
  <2> QED
    BY <1>2, <1>4, <2>1, <2>2, <2>3, <2>4, <2>5, <2>6 DEF FrameSaysTruth
<1>14. Core(d, g)
  BY <1>2, <1>5, <1>6, <1>7, <1>8, <1>10, <1>11, <1>12 DEF Core
<1> QED
  BY <1>13, <1>14 DEF d, f

LEMMA TakeSound ==
  ASSUME NEW c, NEW g, Inv(c, g), c.link.down # <<>>, c.socket = "open", c.stack = Empty
  PROVE  LET d == Taken(c)
             f == Head(c.link.down)
         IN  /\ Sound(d, g, Nobody, Admitting(f)) /\ FrameSaysTruth(d, g, f)
             /\ d.stack = Empty /\ d.terminal = "no" /\ d.socket = "open"
<1> DEFINE d == Taken(c)
           u == c.link.down
           f == Head(u)
<1>1. Core(c, g) /\ c \in Clients /\ Core(d, g) /\ FrameSaysTruth(d, g, f)
  BY TakeCore DEF Inv, Sound, Core
<1>2. /\ d \in Clients /\ SameSubs(c, d) /\ SameTables(c, d) /\ d.socket = c.socket
      /\ d.terminal = c.terminal /\ d.stack = c.stack
      /\ d.link.up = c.link.up /\ d.link.served = c.link.served
      /\ u[1] = f
      /\ \A i \in DOMAIN u :
           i = 1 \/ (i - 1 \in DOMAIN d.link.down /\ d.link.down[i - 1] = u[i])
  BY <1>1, TakeEffect
<1> HIDE DEF d, f
<1>3. ~Terminating(c)
  BY Unawaited
<1>4. c.terminal = "no" /\ \A l \in c.link.served : Accounted(c, l)
  BY <1>3 DEF Inv, Sound, Nobody
<1>5. \A l \in d.link.served \ Admitting(f) : Accounted(d, l)
  <2> TAKE l \in d.link.served \ Admitting(f)
  <2>1. Accounted(c, l)
    BY <1>2, <1>4
  <2>2. CASE \E s \in Subs : Live(c, l, s)
    BY <1>2, <2>2 DEF Accounted, Live, SameTables
  <2>3. CASE \E i \in DOMAIN c.link.up : Up(c, i, "unsubscribe") /\ c.link.up[i].id = l
    BY <1>2, <2>3 DEF Accounted, Up
  <2>4. CASE \E i \in DOMAIN u : Down(c, i, "subscribed") /\ u[i].id = l
    <3>1. PICK i \in DOMAIN u : Down(c, i, "subscribed") /\ u[i].id = l
      BY <2>4
    <3>2. i # 1
      BY <1>2, <3>1 DEF Admitting, Down
    <3>3. i - 1 \in DOMAIN d.link.down /\ d.link.down[i - 1] = u[i]
      BY <1>2, <3>2
    <3> QED
      BY <3>1, <3>3 DEF Accounted, Down
  <2> QED
    BY <2>1, <2>2, <2>3, <2>4 DEF Accounted
<1>6. \A s \in Subs : Consistent(d, s)
  <2> TAKE s \in Subs
  <2>1. Consistent(c, s)
    BY DEF Inv, Sound, Nobody
  <2> QED
    BY <1>2, <2>1 DEF Consistent, Live, Corrected, Corrects, Replacing, SameSubs, SameTables
<1>7. Sound(d, g, Nobody, Admitting(f))
  BY <1>1, <1>2, <1>4, <1>5, <1>6 DEF Sound
<1> QED
  BY <1>1, <1>2, <1>4, <1>7 DEF d, f

\* A pending request is answered: it is forgotten.
Forget(c, r, s, n) == [c EXCEPT !.pendingRequests = Without(@, r), !.sub[s] = n]

LEMMA ForgetEffect ==
  ASSUME NEW c \in Clients, NEW r \in Nat, NEW s \in Subs, NEW n \in SubType
  PROVE  LET d == Forget(c, r, s, n)
         IN  /\ d \in Clients /\ SameWire(c, d) /\ d.stack = c.stack
             /\ d.managed = c.managed /\ d.active = c.active /\ d.disposed = c.disposed
             /\ d.pendingRequests = Without(c.pendingRequests, r)
             /\ d.liveSubscriptions = c.liveSubscriptions /\ d.detaching = c.detaching
             /\ d.targets = c.targets /\ d.delivering = c.delivering
             /\ d.requestId = c.requestId
             /\ d.sub[s] = n /\ \A t \in Subs : t # s => d.sub[t] = c.sub[t]
<1> DEFINE b == [c.sub EXCEPT ![s] = n]
           p == Without(c.pendingRequests, r)
           d == Forget(c, r, s, n)
<1>1. d = [c EXCEPT !.pendingRequests = p, !.sub = b]
  BY DEF Forget, Clients
<1>2. b \in [Subs -> SubType] /\ b[s] = n /\ \A t \in Subs : t # s => b[t] = c.sub[t]
  BY DEF Clients
<1>3. p \in Tables
  BY ClientFields, OwnerFacts
<1> HIDE DEF b, p, d
<1>4. /\ d \in Clients /\ SameWire(c, d) /\ d.stack = c.stack
      /\ d.managed = c.managed /\ d.active = c.active /\ d.disposed = c.disposed
      /\ d.pendingRequests = p
      /\ d.liveSubscriptions = c.liveSubscriptions /\ d.detaching = c.detaching
      /\ d.targets = c.targets /\ d.delivering = c.delivering
      /\ d.requestId = c.requestId /\ d.sub = b
  BY <1>1, <1>2, <1>3 DEF Clients, SameWire
<1> QED
  BY <1>2, <1>4 DEF p, d

LEMMA ForgetSound ==
  ASSUME NEW c, NEW g, NEW Y, NEW r \in Nat, NEW s \in Subs, Sound(c, g, Nobody, Y),
         c.stack = Empty, Pending(c, r, s), c.sub[s].state # "new",
         NEW n \in SubType, SameBut(c.sub[s], n), n.answers = c.sub[s].answers,
         n.renewing = c.sub[s].renewing, n.queued = c.sub[s].queued,
         n.liveId = c.sub[s].liveId, n.request \in {0, c.sub[s].request}
  PROVE  Sound(Forget(c, r, s, n), g, Nobody, Y)
<1> DEFINE m == c.sub[s]
           d == Forget(c, r, s, n)
<1>1. Core(c, g) /\ c \in Clients /\ m \in SubType /\ SubSound(m) /\ ~Terminating(c)
  BY ClientFields, Unawaited DEF Sound, Core, SubsSound
<1>2. /\ d \in Clients /\ SameWire(c, d) /\ d.stack = c.stack
      /\ d.managed = c.managed /\ d.active = c.active /\ d.disposed = c.disposed
      /\ d.pendingRequests = Without(c.pendingRequests, r)
      /\ d.liveSubscriptions = c.liveSubscriptions /\ d.detaching = c.detaching
      /\ d.targets = c.targets /\ d.delivering = c.delivering
      /\ d.requestId = c.requestId
      /\ d.sub[s] = n /\ \A t \in Subs : t # s => d.sub[t] = c.sub[t]
  BY <1>1, ForgetEffect
<1> HIDE DEF d
<1>3. \A q \in Nat : \A t : Pending(d, q, t) <=> Pending(c, q, t) /\ q # r
  BY <1>1, <1>2, PendingWithout
<1>4. \A l, t : Live(d, l, t) <=> Live(c, l, t)
  BY <1>2 DEF Live
<1>5. \A l \in Nat, t \in Subs : Live(c, l, t) => l # m.liveId
  <2> SUFFICES ASSUME NEW l \in Nat, NEW t \in Subs, Live(c, l, t), l = m.liveId
               PROVE  FALSE
    OBVIOUS
  <2>1. l > 0 /\ c.sub[t].state = "active" /\ c.sub[t].liveId = l
    BY <1>1 DEF Core, TablesSound
  <2>2. t = s
    BY <1>1, <2>1 DEF Core, IdsFresh
  <2>3. Ended(m) \/ m.liveId = 0
    BY <1>1 DEF Core, TablesSound
  <2> QED
    BY <2>1, <2>2, <2>3 DEF Ended
<1>6. Released(m, n)
  <2>1. RenewalsSound(n)
    BY <1>1, RenewalsSame DEF SameBut, SubSound
  <2> QED
    BY <1>1, <2>1 DEF Released, SameBut, SubSound
<1>7. Leaves(c, d, s)
  <2>1. \A q \in Nat, t \in Subs :
          Pending(d, q, t) => Pending(c, q, t) /\ (t = s => Ended(d.sub[s]))
    <3> SUFFICES ASSUME NEW q \in Nat, Pending(c, q, s), q # r
                 PROVE  Ended(d.sub[s])
      BY <1>3
    <3>1. Ended(m)
      BY <1>1 DEF Core, TablesSound
    <3> QED
      BY <1>2, <3>1 DEF Ended, SameBut
  <2>2. \A l \in Nat, t \in Subs : Live(d, l, t) <=> Live(c, l, t) /\ l # m.liveId
    BY <1>4, <1>5
  <2>3. \A l \in Nat : l \in d.delivering <=> l \in c.delivering /\ l # m.liveId
    BY <1>1, <1>2, <1>5 DEF Core, DeliveringIsLive
  <2>4. d.delivering \subseteq d.targets /\ \A l \in d.targets : l <= d.requestId
    BY <1>1, <1>2 DEF Core, DeliveringIsLive, IdsFresh
  <2>5. Unsubscribes(c, d)
    BY <1>2 DEF Unsubscribes, SameWire
  <2>6. d.terminal = c.terminal /\ d.socket = c.socket /\ d.ready = c.ready
    BY <1>2 DEF SameWire
  <2>7. Released(c.sub[s], d.sub[s])
    BY <1>2, <1>6
  <2> QED
    BY <1>2, <2>1, <2>2, <2>3, <2>4, <2>5, <2>6, <2>7 DEF Leaves
<1>8. \A l \in c.link.served \ Y :
        l \in Y \/ (l # 0 /\ l = m.liveId) => Accounted(d, l)
  <2> TAKE l \in c.link.served \ Y
  <2>1. Accounted(c, l)
    BY <1>1 DEF Sound
  <2>2. d.link = c.link
    BY <1>2 DEF SameWire
  <2> QED
    BY <1>4, <2>1, <2>2 DEF Accounted, Up, Down
<1> DEFINE X == Nobody \cup {s}
<1>9. Sound(d, g, X, Y)
  BY <1>1, <1>2, <1>7, <1>8, Unawaited, LeavesSound
<1>10. X \subseteq {s}
  BY DEF Nobody
<1> HIDE DEF X
<1>11. Consistent(d, s)
  <2>1. Consistent(c, s)
    BY DEF Sound, Nobody
  <2>2. m.liveId \in Nat /\ ~Corrected(c, s) /\ ~Replacing(c, s)
    BY <1>1, Unawaited, SubFields
  <2>3. m.status # "live"
    BY <1>5, <2>1, <2>2 DEF Consistent
  <2>4. m.state = "active" => s \in c.active \/ c.disposed
    BY <2>1, <2>2 DEF Consistent
  <2> QED
    BY <1>2, <2>3, <2>4 DEF Consistent, SameBut
<1> QED
  BY <1>9, <1>10, <1>11, SettledSound DEF d

\* What an answer finds in the table.
LEMMA PendingFacts ==
  ASSUME NEW c, NEW g, NEW r \in Nat, Core(c, g), Owner(c.pendingRequests, r) # {}
  PROVE  LET s == OwnerOf(c.pendingRequests, r)
         IN  /\ s \in Subs /\ Pending(c, r, s) /\ c.sub[s].state # "new" /\ r > 0
             /\ \/ Ended(c.sub[s])
                \/ c.sub[s].state = "active" /\ c.sub[s].request = r /\ c.sub[s].liveId = 0
<1> DEFINE s == OwnerOf(c.pendingRequests, r)
<1>1. s \in Subs /\ Pending(c, r, s)
  BY ClientFields, OwnerFacts DEF Core, Pending
<1> HIDE DEF s
<1>2. /\ r > 0
      /\ \/ Ended(c.sub[s])
         \/ /\ c.sub[s].state = "active"
            /\ c.sub[s].request = r /\ c.sub[s].liveId = 0
  BY <1>1 DEF Core, TablesSound
<1>3. c.sub[s].state # "new"
  BY <1>2 DEF Ended
<1> QED
  BY <1>1, <1>2, <1>3 DEF s

LEMMA LiveFacts ==
  ASSUME NEW c, NEW g, NEW l \in Nat, Core(c, g), Owner(c.liveSubscriptions, l) # {}
  PROVE  LET s == OwnerOf(c.liveSubscriptions, l)
         IN  /\ s \in Subs /\ Live(c, l, s) /\ c.sub[s].state = "active"
             /\ c.sub[s].liveId = l /\ l > 0 /\ s \in c.active
<1> DEFINE s == OwnerOf(c.liveSubscriptions, l)
<1>1. s \in Subs /\ Live(c, l, s)
  BY ClientFields, OwnerFacts DEF Core, Live
<1> HIDE DEF s
<1>2. c.sub[s].state = "active" /\ c.sub[s].liveId = l /\ l > 0 /\ s \in c.active
  BY <1>1 DEF Core, TablesSound
<1> QED
  BY <1>1, <1>2 DEF s

\* The answer to a frame that makes no sense.
LEMMA ProtocolSound ==
  ASSUME NEW c, NEW g, NEW Y, Sound(c, g, Nobody, Y), c.stack = Empty, c.terminal = "no"
  PROVE  Inv(Terminate(c, "protocol"), g)
BY Unawaited, TerminateSound DEF Inv

LEMMA RejectedFrameSound ==
  ASSUME NEW c, NEW g, NEW r \in Nat, Inv(c, g), c.stack = Empty, c.terminal = "no",
         NEW code, NEW exhausted \in BOOLEAN
  PROVE  Inv(Rejected(c, r, code, exhausted), g)
<1> DEFINE s == OwnerOf(c.pendingRequests, r)
           m == c.sub[s]
           n == [m EXCEPT !.request = 0]
           d == Forget(c, r, s, n)
<1>1. Core(c, g) /\ c \in Clients /\ Sound(c, g, Nobody, Nobody)
  BY DEF Inv, Sound, Core
<1>2. CASE Owner(c.pendingRequests, r) = {}
  <2>1. Rejected(c, r, code, exhausted) = Terminate(c, "protocol")
    BY <1>2 DEF Rejected
  <2> QED
    BY <1>1, <2>1, ProtocolSound
<1>3. CASE Owner(c.pendingRequests, r) # {}
  <2>1. /\ s \in Subs /\ Pending(c, r, s) /\ m.state # "new"
        /\ \/ Ended(m)
           \/ m.state = "active" /\ m.request = r /\ m.liveId = 0
    BY <1>1, <1>3, PendingFacts
  <2>2. Rejected(c, r, code, exhausted) =
          LET e == [c EXCEPT !.pendingRequests = Without(@, r), !.sub[s].request = 0]
          IN  IF m.state \in {"closed", "failed"} THEN e
              ELSE IF code = "overloaded" THEN Retry(e, s, exhausted)
              ELSE IF code = "expired" THEN AwaitReplacement(e, s, m.requested)
              ELSE TerminateSubscription(e, s)
    BY <1>3 DEF Rejected
  <2>3. m \in SubType
    BY <1>1, <2>1, ClientFields
  <2> HIDE DEF s
  <2>4. [c EXCEPT !.pendingRequests = Without(@, r), !.sub[s].request = 0] = d
    BY <1>1, <2>1 DEF Forget, Clients
  <2>5. /\ n \in SubType /\ SameBut(m, n) /\ n.answers = m.answers
        /\ n.renewing = m.renewing /\ n.queued = m.queued
        /\ n.liveId = m.liveId /\ n.request = 0
    <3> HIDE DEF m
    <3> QED
      BY <2>3 DEF SubType, SameBut
  <2> HIDE DEF n
  <2>6. Sound(d, g, Nobody, Nobody)
    BY <1>1, <2>1, <2>5, ForgetSound
  <2>7. d.stack = c.stack /\ d.sub[s] = n /\ d.active = c.active
    BY <1>1, <2>1, <2>5, ForgetEffect
  <2> HIDE DEF d
  <2>8. CASE m.state \in {"closed", "failed"}
    BY <2>2, <2>4, <2>6, <2>8 DEF Inv
  <2>9. CASE m.state \notin {"closed", "failed"}
    <3>1. m.state = "active" /\ m.liveId = 0 /\ d.sub[s].state = "active" /\ d.sub[s].liveId = 0
      BY <2>1, <2>5, <2>7, <2>9 DEF Ended, SameBut
    <3>2. d.stack = Empty /\ LiveClosed(d, s) /\ ~Replacing(d, s)
      BY <2>7, Unawaited
    <3>3. s \in d.active \/ d.disposed
      BY <2>1, <2>6, <3>1, <3>2 DEF Sound, Nobody, Consistent
    <3>4. Sound(Retry(d, s, exhausted), g, Nobody, Nobody)
      BY <2>1, <2>6, <3>1, <3>2, <3>3, RetrySound DEF LiveClosed
    <3>5. Sound(AwaitReplacement(d, s, m.requested), g, Nobody, Nobody)
      <4>1. m.requested \in 0..MaxCapability
        BY <2>3, SubFields
      <4> HIDE DEF m
      <4> QED
        BY <2>1, <2>6, <3>1, <3>2, <4>1, AwaitReplacementSound
    <3>6. Sound(TerminateSubscription(d, s), g, Nobody, Nobody)
      BY <2>1, <2>6, <3>1, <3>2, TerminateSubscriptionSound DEF LiveClosed
    <3> QED
      BY <2>2, <2>4, <2>9, <3>4, <3>5, <3>6 DEF Inv
  <2> QED
    BY <2>8, <2>9
<1> QED
  BY <1>2, <1>3

\* A subscription that has ended is admitted, and detached at once.
LEMMA LateAdmissionSound ==
  ASSUME NEW c, NEW g, NEW r \in Nat, NEW s \in Subs, Sound(c, g, Nobody, {r}),
         c.stack = Empty, c.socket = "open", Pending(c, r, s), Ended(c.sub[s]),
         c.sub[s].liveId = 0, r > 0, r <= c.requestId
  PROVE  Inv(LateAdmission([c EXCEPT !.pendingRequests = Without(@, r), !.sub[s].request = 0],
                           s, r), g)
<1> DEFINE m == c.sub[s]
           n == [m EXCEPT !.request = 0]
           e == Forget(c, r, s, n)
           a == [e EXCEPT !.targets = @ \cup {r}, !.detaching = @ \cup {r}]
           f == Frame("unsubscribe", r, s, 0)
           d == Send(a, f)
<1>1. Core(c, g) /\ c \in Clients /\ m \in SubType /\ SubSound(m) /\ ~Terminating(c)
  BY ClientFields, Unawaited DEF Sound, Core, SubsSound
<1>2. [c EXCEPT !.pendingRequests = Without(@, r), !.sub[s].request = 0] = e
  BY <1>1 DEF Forget, Clients
<1>3. LateAdmission(e, s, r) = d
  BY DEF LateAdmission
<1>4. /\ n \in SubType /\ SameBut(m, n) /\ n.answers = m.answers
      /\ n.renewing = m.renewing /\ n.queued = m.queued
      /\ n.liveId = m.liveId /\ n.request = 0
  <2> HIDE DEF m
  <2> QED
    BY <1>1 DEF SubType, SameBut
<1> HIDE DEF n
<1>5. /\ e \in Clients /\ SameWire(c, e) /\ e.stack = c.stack
      /\ e.managed = c.managed /\ e.active = c.active /\ e.disposed = c.disposed
      /\ e.pendingRequests = Without(c.pendingRequests, r)
      /\ e.liveSubscriptions = c.liveSubscriptions /\ e.detaching = c.detaching
      /\ e.targets = c.targets /\ e.delivering = c.delivering
      /\ e.requestId = c.requestId
      /\ e.sub[s] = n /\ \A t \in Subs : t # s => e.sub[t] = c.sub[t]
  BY <1>1, <1>4, ForgetEffect
<1> HIDE DEF e
<1>6. /\ a \in Clients /\ SameWire(e, a) /\ a.stack = e.stack /\ SameSubs(e, a)
      /\ a.pendingRequests = e.pendingRequests
      /\ a.liveSubscriptions = e.liveSubscriptions /\ a.detaching = e.detaching \cup {r}
      /\ a.targets = e.targets \cup {r} /\ a.delivering = e.delivering
      /\ a.requestId = e.requestId
  BY <1>5 DEF Clients, SameWire, SameSubs
<1>7. f \in Messages(Requests) /\ f.type = "unsubscribe" /\ f.id = r
  BY Bounds DEF Frame, Messages, Requests
<1> HIDE DEF a, f
<1>8. /\ d \in Clients /\ SameSubs(a, d) /\ SameTables(a, d)
      /\ d.socket = a.socket /\ d.ready = a.ready /\ d.stack = a.stack
      /\ d.terminal = a.terminal
      /\ d.link.down = a.link.down /\ d.link.served = a.link.served
      /\ a.socket # "open" => d.link = a.link
      /\ a.socket = "open" => d.link.up = Append(a.link.up, f)
  BY <1>6, <1>7, SendEffect
<1> HIDE DEF d
<1>9. /\ d.link.down = c.link.down /\ d.link.served = c.link.served
      /\ d.link.up = Append(c.link.up, f) /\ d.socket = c.socket /\ d.ready = c.ready
      /\ d.terminal = c.terminal /\ d.stack = c.stack
      /\ d.sub[s] = n /\ \A t \in Subs : t # s => d.sub[t] = c.sub[t]
      /\ d.managed = c.managed /\ d.active = c.active /\ d.disposed = c.disposed
      /\ d.pendingRequests = Without(c.pendingRequests, r)
      /\ d.liveSubscriptions = c.liveSubscriptions /\ d.detaching = c.detaching \cup {r}
      /\ d.targets = c.targets \cup {r} /\ d.delivering = c.delivering
      /\ d.requestId = c.requestId
  BY <1>5, <1>6, <1>8 DEF SameWire, SameSubs, SameTables
<1>10. \A q \in Nat : \A t : Pending(d, q, t) <=> Pending(c, q, t) /\ q # r
  BY <1>1, <1>9, PendingWithout
<1>11. \A l, t : Live(d, l, t) <=> Live(c, l, t)
  BY <1>9 DEF Live
<1>12. \A l \in Nat, t \in Subs : Live(c, l, t) => l # 0
  BY <1>1 DEF Core, TablesSound
<1>13. Released(m, n)
  <2>1. RenewalsSound(n)
    BY <1>1, <1>4, RenewalsSame DEF SameBut, SubSound
  <2>2. m.state # "new"
    BY DEF Ended
  <2> QED
    BY <1>1, <1>4, <2>1, <2>2 DEF Released, SameBut, SubSound
<1>14. c.link.up \in Seq(Messages(Requests))
  BY <1>1, ClientFields, LinkFields
<1>15. Leaves(c, d, s)
  <2>1. Ended(d.sub[s])
    BY <1>4, <1>9 DEF Ended, SameBut
  <2>2. \A q \in Nat, t \in Subs :
          Pending(d, q, t) => Pending(c, q, t) /\ (t = s => Ended(d.sub[s]))
    BY <1>10, <2>1
  <2>3. \A l \in Nat, t \in Subs : Live(d, l, t) <=> Live(c, l, t) /\ l # m.liveId
    BY <1>11, <1>12
  <2>4. \A l \in Nat : l \in d.delivering <=> l \in c.delivering /\ l # m.liveId
    BY <1>1, <1>9, <1>12 DEF Core, DeliveringIsLive
  <2>5. d.delivering \subseteq d.targets /\ \A l \in d.targets : l <= d.requestId
    BY <1>1, <1>9 DEF Core, DeliveringIsLive, IdsFresh
  <2>6. \A l \in d.detaching : l \in c.detaching \/
          /\ l <= d.requestId
          /\ \A t \in Subs : ~Pending(d, l, t) /\ ~Live(d, l, t)
    <3>1. \A t \in Subs : ~Live(c, r, t)
      BY <1>1 DEF Core, TablesSound
    <3> QED
      BY <1>9, <1>10, <1>11, <3>1
  <2>7. Unsubscribes(c, d)
    <3>1. /\ \A i \in DOMAIN c.link.up : i \in DOMAIN d.link.up /\ d.link.up[i] = c.link.up[i]
          /\ \A i \in DOMAIN d.link.up :
               \/ i \in DOMAIN c.link.up /\ d.link.up[i] = c.link.up[i]
               \/ d.link.up[i] = f
      BY <1>7, <1>9, <1>14, AppendIndex
    <3> QED
      BY <1>7, <1>9, <3>1 DEF Unsubscribes
  <2>8. Released(c.sub[s], d.sub[s])
    BY <1>9, <1>13
  <2> QED
    BY <1>9, <2>2, <2>3, <2>4, <2>5, <2>6, <2>7, <2>8 DEF Leaves
<1>16. Accounted(d, r)
  <2>1. Len(c.link.up) + 1 \in DOMAIN d.link.up /\ d.link.up[Len(c.link.up) + 1] = f
    BY <1>7, <1>9, <1>14, AppendIndex
  <2> QED
    BY <1>7, <2>1 DEF Accounted, Up
<1>17. \A l \in c.link.served \ Nobody :
         l \in {r} \/ (l # 0 /\ l = m.liveId) => Accounted(d, l)
  BY <1>16
<1> DEFINE X == Nobody \cup {s}
<1>18. Sound(d, g, X, Nobody)
  BY <1>1, <1>8, <1>15, <1>17, Unawaited, LeavesSound
<1>19. X \subseteq {s}
  BY DEF Nobody
<1> HIDE DEF X
<1>20. Consistent(d, s)
  <2>1. Consistent(c, s)
    BY DEF Sound, Nobody
  <2>2. m.status # "live"
    BY <1>12, <2>1, Unawaited DEF Consistent
  <2> QED
    BY <1>4, <1>9, <2>2 DEF Consistent, SameBut, Ended
<1> QED
  BY <1>2, <1>3, <1>18, <1>19, <1>20, SettledSound DEF Inv, d

\* What the admission of a request makes of the client, but for its renewals.
Admits(c, d, s, r) ==
  /\ \A t \in Subs : t # s => d.sub[t] = c.sub[t]
  /\ d.managed = c.managed /\ d.active = c.active /\ d.disposed = c.disposed
  /\ SameWire(c, d) /\ d.stack = c.stack /\ d.requestId = c.requestId
  /\ \A q \in Nat, t \in Subs : Pending(d, q, t) <=> Pending(c, q, t) /\ q # r
  /\ \A l \in Nat, t \in Subs : Live(d, l, t) <=> Live(c, l, t) \/ (l = r /\ t = s)
  /\ d.detaching = c.detaching
  /\ d.targets = c.targets \cup {r} /\ d.delivering = c.delivering \cup {r}
  /\ d.sub[s].state = c.sub[s].state /\ d.sub[s].status = c.sub[s].status
  /\ d.sub[s].liveId = r /\ d.sub[s].request = 0
  /\ SubSound(d.sub[s])
  /\ \A k \in Capabilities :
       d.sub[s].answers[k] = "pending" => c.sub[s].answers[k] = "pending"

LEMMA AdmitsSound ==
  ASSUME NEW c, NEW g, NEW r \in Nat, NEW s \in Subs, NEW d \in Clients,
         Sound(c, g, Nobody, {r}), c.stack = Empty, c.terminal = "no", c.socket = "open",
         Pending(c, r, s), c.sub[s].state = "active", Admits(c, d, s, r),
         \A k \in Capabilities : d.sub[s].answers[k] = "resolved" =>
           \/ c.sub[s].answers[k] = "resolved"
           \/ \E j \in k..MaxCapability : <<s, j>> \in g
  PROVE  Sound(d, g, Nobody, Nobody)
<1> DEFINE m == c.sub[s]
           n == d.sub[s]
<1>1. /\ Core(c, g) /\ c \in Clients /\ d.stack = Empty /\ ~c.disposed
      /\ n.state = "active" /\ n.liveId = r /\ n.request = 0
  BY DEF Sound, Core, SubsSound, Admits
<1>2. s \in c.active
  BY <1>1, Unawaited DEF Sound, Consistent, Nobody
<1>3. /\ r > 0 /\ r <= c.requestId /\ m.request = r /\ m.liveId = 0
      /\ r \notin c.detaching /\ \A t \in Subs : c.sub[t].liveId # r /\ ~Live(c, r, t)
      /\ \A t \in Subs : Pending(c, r, t) => t = s
  BY <1>1 DEF Core, TablesSound, Ended
<1>4. /\ \A q \in Nat, t \in Subs : Pending(d, q, t) <=> Pending(c, q, t) /\ q # r
      /\ \A l \in Nat, t \in Subs : Live(d, l, t) <=> Live(c, l, t) \/ (l = r /\ t = s)
      /\ \A t \in Subs : t # s => d.sub[t] = c.sub[t]
      /\ d.requestId = c.requestId /\ d.active = c.active /\ d.detaching = c.detaching
      /\ d.link = c.link /\ d.socket = c.socket /\ d.stack = c.stack
      /\ d.targets = c.targets \cup {r} /\ d.delivering = c.delivering \cup {r}
  BY DEF Admits, SameWire
<1>5. \A q \in Nat : Pending(d, q, s) => FALSE
  BY <1>1, <1>3, <1>4 DEF Core, TablesSound, Ended
<1>6. \A l \in Nat : Live(d, l, s) => l = r
  BY <1>1, <1>3, <1>4 DEF Core, TablesSound
<1> HIDE DEF m, n
<1>7. TablesSound(d)
  <2>1. ASSUME NEW q \in Nat, NEW t \in Subs, Pending(d, q, t)
        PROVE  /\ q > 0 /\ q <= d.requestId
               /\ \/ Ended(d.sub[t])
                  \/ /\ d.sub[t].state = "active"
                     /\ d.sub[t].request = q /\ d.sub[t].liveId = 0
               /\ q \notin d.detaching
               /\ \A v \in Subs : d.sub[v].liveId # q /\ ~Live(d, q, v)
               /\ \A v \in Subs : Pending(d, q, v) => t = v
    <3>1. t # s /\ Pending(c, q, t) /\ q # r /\ d.sub[t] = c.sub[t]
      BY <1>4, <1>5, <2>1
    <3>2. /\ q > 0 /\ q <= c.requestId
          /\ \/ Ended(c.sub[t])
             \/ /\ c.sub[t].state = "active"
                /\ c.sub[t].request = q /\ c.sub[t].liveId = 0
          /\ q \notin c.detaching
          /\ \A v \in Subs : c.sub[v].liveId # q /\ ~Live(c, q, v)
          /\ \A v \in Subs : Pending(c, q, v) => t = v
      BY <1>1, <3>1 DEF Core, TablesSound
    <3>3. \A v \in Subs : d.sub[v].liveId # q
      BY <1>1, <1>4, <3>1, <3>2 DEF n
    <3> QED
      BY <1>4, <3>1, <3>2, <3>3
  <2>2. ASSUME NEW l \in Nat, NEW t \in Subs, Live(d, l, t)
        PROVE  /\ l > 0 /\ l <= d.requestId
               /\ d.sub[t].state = "active" /\ d.sub[t].liveId = l
               /\ t \in d.active /\ l \notin d.detaching
    <3>1. CASE l = r /\ t = s
      BY <1>1, <1>2, <1>3, <1>4, <3>1 DEF n
    <3>2. CASE Live(c, l, t) /\ t # s
      BY <1>1, <1>4, <3>2 DEF Core, TablesSound
    <3> QED
      BY <1>4, <1>6, <2>2, <3>1, <3>2
  <2> QED
    BY <2>1, <2>2 DEF TablesSound
<1>8. IdsFresh(d)
  <2>1. \A t \in Subs : d.sub[t].liveId <= d.requestId
    BY <1>1, <1>3, <1>4 DEF Core, IdsFresh, n
  <2>2. \A t, v \in Subs : d.sub[t].liveId = d.sub[v].liveId /\ d.sub[t].liveId # 0 => t = v
    BY <1>1, <1>3, <1>4 DEF Core, IdsFresh, n
  <2> QED
    BY <1>1, <1>3, <1>4, <2>1, <2>2 DEF Core, IdsFresh
<1>9. DeliveringIsLive(d)
  BY <1>1, <1>4 DEF Core, DeliveringIsLive
<1>10. StackSound(d)
  <2>1. DOMAIN d.stack = {}
    BY <1>1, EmptyFacts
  <2> QED
    BY <2>1 DEF StackSound, PairSound
<1>11. SubsSound(d)
  <2>1. \A t \in Subs : SubSound(d.sub[t])
    BY <1>1 DEF Admits, Core, SubsSound
  <2>2. \A t \in Subs, k \in Capabilities : d.sub[t].answers[k] = "pending" => t \in d.managed
    BY <1>1 DEF Admits, Core, SubsSound
  <2>3. \A t \in Subs : d.sub[t].state # "new" /\ d.sub[t].status # "closed" => t \in d.managed
    BY <1>1 DEF Admits, Core, SubsSound
  <2>4. \A t \in d.managed \cup d.active : d.sub[t].state # "new"
    BY <1>1, ClientFields DEF Admits, Core, SubsSound
  <2>5. d.disposed => d.managed = {} /\ d.socket = "none"
    BY <1>1 DEF Admits
  <2> QED
    BY <2>1, <2>2, <2>3, <2>4, <2>5 DEF SubsSound
<1>12. Truthful(d, g)
  BY <1>1, <1>4 DEF Core, Truthful
<1>13. /\ \A i \in DOMAIN c.link.up : c.link.up[i].id \in Nat
       /\ \A i \in DOMAIN c.link.down : c.link.down[i].id \in Nat
  BY <1>1, ClientFields, LinkFields
<1>14. \A f : f.id \in Nat =>
         /\ About(c, f) => About(d, f)
         /\ Renews(c, f) => Renews(d, f) /\ f.id # r
  <2> SUFFICES ASSUME NEW f, f.id \in Nat
               PROVE  /\ About(c, f) => About(d, f)
                      /\ Renews(c, f) => Renews(d, f) /\ f.id # r
    OBVIOUS
  <2>1. ASSUME About(c, f) PROVE About(d, f)
    BY <1>4, <1>5, <2>1 DEF About
  <2>2. ASSUME Renews(c, f) PROVE Renews(d, f) /\ f.id # r
    <3>1. f.id # r
      BY <2>2 DEF Renews
    <3> QED
      BY <1>4, <1>6, <2>2, <3>1 DEF Renews
  <2> QED
    BY <2>1, <2>2
<1>15. WireSound(d, g)
  BY <1>1, <1>4, <1>13, <1>14 DEF Core, WireSound, Up, Down
<1>16. OneRenewal(d)
  <2>1. \A l \in Nat, t \in Subs : Live(c, l, t) =>
          /\ \A i, j \in DOMAIN c.link.up :
               /\ Up(c, i, "renew") /\ c.link.up[i].id = l
               /\ Up(c, j, "renew") /\ c.link.up[j].id = l
               => i = j
          /\ \A i, j \in DOMAIN c.link.down :
               /\ Down(c, i, "renewed") /\ c.link.down[i].id = l
               /\ Down(c, j, "renewed") /\ c.link.down[j].id = l
               => i = j
          /\ \A i \in DOMAIN c.link.up, j \in DOMAIN c.link.down :
               ~ /\ Up(c, i, "renew") /\ c.link.up[i].id = l
                 /\ Down(c, j, "renewed") /\ c.link.down[j].id = l
    BY <1>1 DEF Core, OneRenewal
  <2>2. /\ \A i \in DOMAIN c.link.up : Up(c, i, "renew") => c.link.up[i].id # r
        /\ \A i \in DOMAIN c.link.down : Down(c, i, "renewed") => c.link.down[i].id # r
    BY <1>1, <1>13, <1>14 DEF Core, WireSound
  <2> QED
    BY <1>4, <2>1, <2>2 DEF OneRenewal, Up, Down
<1>17. ServedIds(d)
  BY <1>1, <1>4 DEF Core, ServedIds, Up, Down
<1>18. Core(d, g)
  BY <1>7, <1>8, <1>9, <1>10, <1>11, <1>12, <1>15, <1>16, <1>17 DEF Core
<1>19. \A t \in Subs : Consistent(d, t)
  <2> TAKE t \in Subs
  <2>1. CASE t = s
    BY <1>1, <1>2, <1>4, <2>1 DEF Consistent, n
  <2>2. CASE t # s
    <3>1. Consistent(c, t) /\ c.sub[t].liveId \in Nat
      BY <1>1, ClientFields, SubFields DEF Sound, Nobody
    <3>2. d.disposed = c.disposed
      BY DEF Admits
    <3> QED
      BY <1>1, <1>4, <2>2, <3>1, <3>2, Unawaited DEF Consistent
  <2> QED
    BY <2>1, <2>2
<1>20. d.terminal = "no" /\ \A l \in d.link.served : Accounted(d, l)
  <2>1. d.terminal = "no" /\ ~Terminating(c)
    BY Unawaited DEF Admits, SameWire
  <2>2. \A l \in c.link.served : l \in Nat
    BY <1>1, ClientFields, LinkFields
  <2>3. \A l \in c.link.served : l # r => Accounted(c, l)
    BY <2>1 DEF Sound
  <2> QED
    BY <1>4, <2>1, <2>2, <2>3 DEF Accounted, Up, Down
<1> QED
  BY <1>18, <1>19, <1>20 DEF Sound

Admit(c, r, s, n) ==
  [c EXCEPT !.pendingRequests = Without(@, r), !.liveSubscriptions = @ \cup {<<r, s>>},
            !.targets = @ \cup {r}, !.delivering = @ \cup {r}, !.sub[s] = n]

LEMMA AdmitEffect ==
  ASSUME NEW c \in Clients, NEW r \in Nat, NEW s \in Subs, NEW n \in SubType, SubSound(n),
         n.state = c.sub[s].state, n.status = c.sub[s].status, n.liveId = r, n.request = 0,
         \A k \in Capabilities :
           n.answers[k] = "pending" => c.sub[s].answers[k] = "pending"
  PROVE  LET d == Admit(c, r, s, n)
         IN  d \in Clients /\ Admits(c, d, s, r) /\ d.sub[s] = n
<1> DEFINE b == [c.sub EXCEPT ![s] = n]
           p == Without(c.pendingRequests, r)
           v == c.liveSubscriptions \cup {<<r, s>>}
           d == Admit(c, r, s, n)
<1>1. d = [c EXCEPT !.pendingRequests = p, !.liveSubscriptions = v,
                    !.targets = @ \cup {r}, !.delivering = @ \cup {r}, !.sub = b]
  BY DEF Admit, Clients
<1>2. b \in [Subs -> SubType] /\ b[s] = n /\ \A t \in Subs : t # s => b[t] = c.sub[t]
  BY DEF Clients
<1>3. p \in Tables /\ v \in Tables
  <2>1. p \in Tables
    BY ClientFields, OwnerFacts
  <2>2. c.liveSubscriptions \in SUBSET (Nat \X Subs) /\ <<r, s>> \in Nat \X Subs
    BY ClientFields DEF Tables
  <2>3. v \in Tables
    BY <2>2 DEF Tables
  <2> QED
    BY <2>1, <2>3
<1>4. \A l, t : <<l, t>> \in v <=> <<l, t>> \in c.liveSubscriptions \/ (l = r /\ t = s)
  OBVIOUS
<1> HIDE DEF b, p, v, d
<1>5. /\ d \in Clients /\ SameWire(c, d) /\ d.stack = c.stack
      /\ d.managed = c.managed /\ d.active = c.active /\ d.disposed = c.disposed
      /\ d.pendingRequests = p
      /\ d.liveSubscriptions = v /\ d.detaching = c.detaching
      /\ d.targets = c.targets \cup {r} /\ d.delivering = c.delivering \cup {r}
      /\ d.requestId = c.requestId /\ d.sub = b
  <2>1. d \in Clients
    BY <1>1, <1>2, <1>3, ClientFields DEF Clients
  <2> QED
    BY <1>1, <2>1 DEF Clients, SameWire
<1>6. \A q \in Nat : \A t : Pending(d, q, t) <=> Pending(c, q, t) /\ q # r
  BY <1>5, PendingWithout DEF p
<1>7. \A l, t : Live(d, l, t) <=> Live(c, l, t) \/ (l = r /\ t = s)
  BY <1>4, <1>5 DEF Live
<1> QED
  BY <1>2, <1>5, <1>6, <1>7 DEF Admits, d

\* The expressions of admission that write one subscription.
Put(c, s, n)     == [c EXCEPT !.sub[s] = n]
Unrequested(m)   == [m EXCEPT !.requested = 0]
Cleared(c, s)    == [c EXCEPT !.sub[s].requested = 0]
OnAdmission(m, r) == [m EXCEPT !.request = 0, !.liveId = r, !.accepted = m.requested]
AdmittedNow(c, r, s) ==
  [[c EXCEPT !.pendingRequests = Without(@, r)]
     EXCEPT !.sub[s].request = 0, !.sub[s].liveId = r,
            !.sub[s].accepted = c.sub[s].requested,
            !.liveSubscriptions = @ \cup {<<r, s>>},
            !.targets = @ \cup {r}, !.delivering = @ \cup {r}]

WithSubs(c, r, s, b) ==
  [c EXCEPT !.pendingRequests = Without(@, r),
            !.liveSubscriptions = @ \cup {<<r, s>>},
            !.targets = @ \cup {r}, !.delivering = @ \cup {r}, !.sub = b]

LEMMA AdmitAsRecord ==
  ASSUME NEW c \in Clients, NEW r, NEW s, NEW x
  PROVE  Admit(c, r, s, x) = WithSubs(c, r, s, [c.sub EXCEPT ![s] = x])
BY DEF Admit, WithSubs, Clients

LEMMA WithSubsFacts ==
  ASSUME NEW c \in Clients, NEW r, NEW s, NEW b, NEW f
  PROVE  /\ WithSubs(c, r, s, b).sub = b
         /\ [WithSubs(c, r, s, b) EXCEPT !.sub = f] = WithSubs(c, r, s, f)
BY DEF WithSubs, Clients

LEMMA AdmitReplaced ==
  ASSUME NEW c \in Clients, NEW r \in Nat, NEW s \in Subs, NEW n, NEW x
  PROVE  Put(Admit(c, r, s, n), s, x) = Admit(c, r, s, x)
<1> DEFINE b == [c.sub EXCEPT ![s] = n]
           z == WithSubs(c, r, s, b)
<1>1. Admit(c, r, s, n) = z
  BY AdmitAsRecord
<1>2. z.sub = b
  BY WithSubsFacts
<1>3. [b EXCEPT ![s] = x] = [c.sub EXCEPT ![s] = x]
  BY ClientFields
<1> HIDE DEF z, b
<1>4. Put(z, s, x) = [z EXCEPT !.sub = [b EXCEPT ![s] = x]]
  BY <1>2 DEF Put
<1>5. [z EXCEPT !.sub = [c.sub EXCEPT ![s] = x]] = WithSubs(c, r, s, [c.sub EXCEPT ![s] = x])
  BY WithSubsFacts DEF z
<1> QED
  BY <1>1, <1>3, <1>4, <1>5, AdmitAsRecord

LEMMA AdmitCleared ==
  ASSUME NEW c \in Clients, NEW r \in Nat, NEW s \in Subs, NEW n
  PROVE  Cleared(Admit(c, r, s, n), s) = Admit(c, r, s, Unrequested(n))
<1> DEFINE b == [c.sub EXCEPT ![s] = n]
           x == Unrequested(n)
           z == WithSubs(c, r, s, b)
<1>1. Admit(c, r, s, n) = z
  BY AdmitAsRecord
<1>2. z.sub = b
  BY WithSubsFacts
<1>3. [b EXCEPT ![s].requested = 0] = [c.sub EXCEPT ![s] = x]
  BY ClientFields DEF Unrequested
<1> HIDE DEF z, b, x
<1>4. Cleared(z, s) = [z EXCEPT !.sub = [b EXCEPT ![s].requested = 0]]
  BY <1>2 DEF Cleared
<1>5. [z EXCEPT !.sub = [c.sub EXCEPT ![s] = x]] = WithSubs(c, r, s, [c.sub EXCEPT ![s] = x])
  BY WithSubsFacts DEF z
<1> QED
  BY <1>1, <1>3, <1>4, <1>5, AdmitAsRecord DEF x

LEMMA AdmitForm ==
  ASSUME NEW c \in Clients, NEW r \in Nat, NEW s \in Subs
  PROVE  AdmittedNow(c, r, s) = Admit(c, r, s, OnAdmission(c.sub[s], r))
<1> DEFINE m == c.sub[s]
           b == [c.sub EXCEPT ![s].request = 0, ![s].liveId = r, ![s].accepted = m.requested]
           f == [c.sub EXCEPT ![s] = OnAdmission(m, r)]
<1>1. b = f
  BY ClientFields DEF OnAdmission
<1>2. AdmittedNow(c, r, s) = WithSubs(c, r, s, b)
  <2> HIDE DEF m
  <2> QED
    BY ZenonT(40) DEF AdmittedNow, WithSubs, Clients, m
<1> HIDE DEF b, f
<1> QED
  BY <1>1, <1>2, AdmitAsRecord DEF f, m

LEMMA SendNextRenewalEffect ==
  ASSUME NEW c \in Clients, NEW s \in Subs
  PROVE  LET d == SendNextRenewal(c, s)
         IN  /\ d.stack = c.stack /\ d.active = c.active /\ d.disposed = c.disposed
             /\ d.sub[s].state = c.sub[s].state /\ d.sub[s].liveId = c.sub[s].liveId
<1> DEFINE m == c.sub[s]
           a == [c EXCEPT !.sub[s].renewing = Head(m.queued), !.sub[s].queued = Tail(m.queued)]
           f == Frame("renew", m.liveId, s, Head(m.queued))
<1>1. SendNextRenewal(c, s) = c \/ SendNextRenewal(c, s) = Send(a, f)
  BY DEF SendNextRenewal
<1>2. /\ a.stack = c.stack /\ a.active = c.active /\ a.disposed = c.disposed
      /\ a.sub[s].state = m.state /\ a.sub[s].liveId = m.liveId
  BY DEF Clients, SubType
<1>3. \A x, y : LET z == [x EXCEPT !.link.up = y]
                IN  z.stack = x.stack /\ z.active = x.active /\ z.disposed = x.disposed
                    /\ z.sub = x.sub
  OBVIOUS
<1> HIDE DEF f
<1>4. LET z == Send(a, f)
      IN  z.stack = a.stack /\ z.active = a.active /\ z.disposed = a.disposed
          /\ z.sub = a.sub
  <2> HIDE DEF a
  <2> QED
    BY <1>3 DEF Send
<1> HIDE DEF a
<1> QED
  BY <1>1, <1>2, <1>4

LEMMA ClearRequestedSound ==
  ASSUME NEW c, NEW g, NEW s \in Subs, Sound(c, g, Nobody, Nobody), c.stack = Empty,
         c.sub[s].state = "active", c.sub[s].liveId # 0
  PROVE  Sound([c EXCEPT !.sub[s].requested = 0], g, Nobody, Nobody)
<1> DEFINE m == c.sub[s]
           n == [m EXCEPT !.requested = 0]
           d == Assign(c, s, n, c.active)
<1>1. Core(c, g) /\ c \in Clients /\ m \in SubType /\ SubSound(m)
  BY ClientFields DEF Sound, Core, SubsSound
<1>2. [c EXCEPT !.sub[s].requested = 0] = d
  BY <1>1 DEF Assign, Clients
<1>3. /\ n \in SubType /\ n.state = m.state /\ n.status = m.status /\ n.query = m.query
      /\ n.request = m.request /\ n.liveId = m.liveId /\ n.renewing = m.renewing
      /\ n.queued = m.queued /\ n.answers = m.answers /\ n.state = "active"
  <2> HIDE DEF m
  <2>1. m.state = "active"
    BY DEF m
  <2>2. 0 \in 0..MaxCapability
    BY Bounds
  <2> QED
    BY <1>1, <2>1, <2>2 DEF SubType
<1> HIDE DEF n
<1>4. /\ d \in Clients /\ Same(c, d) /\ d.managed = c.managed /\ d.disposed = c.disposed
      /\ d.active = c.active /\ d.sub[s] = n /\ \A t \in Subs : t # s => d.sub[t] = c.sub[t]
  BY <1>1, <1>3, ClientFields, AssignEffect
<1> HIDE DEF d
<1>5. SubSound(n)
  <2>1. RenewalsSound(n)
    BY <1>1, <1>3, RenewalsSame DEF SubSound
  <2> QED
    BY <1>1, <1>3, <2>1 DEF SubSound
<1>6. \A r \in Nat : ~Pending(c, r, s)
  BY <1>1 DEF Core, TablesSound, Ended
<1>7. \A i \in DOMAIN c.stack : FALSE
  BY Unawaited
<1>8. Changes(c, d, s)
  BY <1>1, <1>3, <1>4, <1>5, <1>6, <1>7 DEF Changes, Core, SubsSound
<1> DEFINE X == Nobody \cup {s}
<1>9. /\ Sound(d, g, X, Nobody)
      /\ \A l \in Nat : Live(d, l, s) <=> Live(c, l, s)
  BY <1>4, <1>8, ChangesSound
<1>10. X \subseteq {s}
  BY DEF Nobody
<1> HIDE DEF X
<1>11. Consistent(d, s)
  <2>1. Consistent(c, s) /\ m.liveId \in Nat /\ ~Corrected(c, s) /\ ~Replacing(c, s)
    BY <1>1, SubFields, Unawaited DEF Sound, Nobody
  <2> QED
    BY <1>3, <1>4, <1>9, <2>1 DEF Consistent
<1> QED
  BY <1>2, <1>9, <1>10, <1>11, SettledSound

LEMMA AdmissionSound ==
  ASSUME NEW c, NEW g, NEW r \in Nat, NEW s \in Subs, Granted(g),
         Sound(c, g, Nobody, {r}), c.stack = Empty, c.terminal = "no", c.socket = "open",
         Pending(c, r, s), c.sub[s].state = "active", r > 0,
         c.sub[s].requested # 0, <<s, c.sub[s].requested>> \in g
  PROVE  Inv(Cleared(AnswerRenewals(AdmittedNow(c, r, s), s), s), g)
<1> DEFINE m == c.sub[s]
           n == OnAdmission(m, r)
           a == Admit(c, r, s, n)
           p == Unrequested(ResolveRenewals(n))
           d == Admit(c, r, s, p)
           b == SendNextRenewal(a, s)
<1>1. Core(c, g) /\ c \in Clients /\ m \in SubType /\ SubSound(m)
  BY ClientFields DEF Sound, Core, SubsSound
<1>2. AdmittedNow(c, r, s) = a
  BY <1>1, AdmitForm
<1>3. /\ n \in SubType /\ n.state = m.state /\ n.status = m.status /\ n.query = m.query
      /\ n.request = 0 /\ n.liveId = r /\ n.renewing = m.renewing /\ n.queued = m.queued
      /\ n.answers = m.answers /\ n.accepted = m.requested /\ n.state = "active"
  <2>1. m.state = "active"
    OBVIOUS
  <2> HIDE DEF m
  <2> QED
    BY <1>1, <2>1 DEF SubType, OnAdmission
<1> HIDE DEF n
<1>4. SubSound(n)
  <2>1. RenewalsSound(n)
    BY <1>1, <1>3, RenewalsSame DEF SubSound
  <2> QED
    BY <1>1, <1>3, <2>1 DEF SubSound
<1>5. a \in Clients /\ Admits(c, a, s, r) /\ a.sub[s] = n
  BY <1>1, <1>3, <1>4, AdmitEffect
<1>6. CASE n.accepted = n.query
  <2> DEFINE q == ResolveRenewals(n)
  <2>1. /\ q \in SubType /\ SameBut(n, q) /\ SameWireIds(n, q)
        /\ RenewalsSound(q)
        /\ \A k \in Capabilities : q.answers[k] # "pending"
        /\ \A k \in Capabilities : q.answers[k] = "resolved" =>
              n.answers[k] = "resolved" \/ k <= n.query
    BY <1>3, <1>4, ResolveRenewalsEffect, ResolvedSound DEF SubSound
  <2> HIDE DEF q
  <2>2. /\ p \in SubType /\ p.state = q.state /\ p.status = q.status /\ p.query = q.query
        /\ p.request = q.request /\ p.liveId = q.liveId /\ p.renewing = q.renewing
        /\ p.queued = q.queued /\ p.answers = q.answers
    <3>1. 0 \in 0..MaxCapability /\ p = [q EXCEPT !.requested = 0]
      BY Bounds DEF q, Unrequested
    <3> HIDE DEF p
    <3> QED
      BY <2>1, <3>1 DEF SubType
  <2>3. Cleared(Put(a, s, q), s) = d
    <3>1. Put(a, s, q) = Admit(c, r, s, q)
      BY <1>1, AdmitReplaced
    <3>2. Cleared(Admit(c, r, s, q), s) = Admit(c, r, s, Unrequested(q))
      BY <1>1, AdmitCleared
    <3> HIDE DEF a
    <3> QED
      BY <3>1, <3>2 DEF q
  <2> HIDE DEF p
  <2>4. RenewalsSound(p)
    BY <2>1, <2>2, RenewalsSame
  <2>5. SubSound(p) /\ p.state = m.state /\ p.status = m.status /\ p.liveId = r /\ p.request = 0
    BY <1>1, <1>3, <2>1, <2>2, <2>4 DEF SubSound, SameBut, SameWireIds
  <2>6. \A k \in Capabilities : p.answers[k] # "pending"
    BY <2>1, <2>2
  <2>7. d \in Clients /\ Admits(c, d, s, r) /\ d.sub[s] = p
    BY <1>1, <2>2, <2>5, <2>6, AdmitEffect
  <2> HIDE DEF d, a
  <2>8. \A k \in Capabilities : d.sub[s].answers[k] = "resolved" =>
           \/ c.sub[s].answers[k] = "resolved"
           \/ \E j \in k..MaxCapability : <<s, j>> \in g
    <3> SUFFICES ASSUME NEW k \in Capabilities, k <= n.query
                 PROVE  \E j \in k..MaxCapability : <<s, j>> \in g
      BY <1>3, <2>1, <2>2, <2>7
    <3>1. m.requested \in k..MaxCapability
      BY <1>1, <1>3, <1>6, Bounds, SubFields
    <3> QED
      BY <3>1
  <2>9. Sound(d, g, Nobody, Nobody)
    BY <2>7, <2>8, AdmitsSound
  <2>10. AnswerRenewals(a, s) = Put(a, s, q)
    BY <1>5, <1>6 DEF AnswerRenewals, Put, q
  <2> QED
    BY <1>2, <2>3, <2>9, <2>10 DEF Inv
<1>7. CASE n.accepted # n.query
  <2> HIDE DEF a
  <2>1. Sound(a, g, Nobody, Nobody)
    BY <1>3, <1>5, AdmitsSound
  <2>2. AnswerRenewals(a, s) = b
    BY <1>5, <1>7 DEF AnswerRenewals
  <2>3. Sound(b, g, Nobody, Nobody)
    BY <2>1, SendNextRenewalSound
  <2>4. b.stack = Empty /\ b.sub[s].state = "active" /\ b.sub[s].liveId # 0
    <3>1. b.stack = a.stack /\ b.sub[s].state = a.sub[s].state
          /\ b.sub[s].liveId = a.sub[s].liveId
      BY <1>5, SendNextRenewalEffect
    <3>2. a.stack = c.stack
      BY <1>5 DEF Admits
    <3> QED
      BY <1>3, <1>5, <3>1, <3>2
  <2> HIDE DEF b
  <2>5. Sound(Cleared(b, s), g, Nobody, Nobody)
    BY <2>3, <2>4, ClearRequestedSound DEF Cleared
  <2> QED
    BY <1>2, <2>2, <2>5 DEF Inv
<1> QED
  BY <1>6, <1>7

LEMMA AdmittedSound ==
  ASSUME NEW c, NEW g, NEW f, Granted(g), Sound(c, g, Nobody, {f.id}), FrameSaysTruth(c, g, f),
         f.type = "subscribed", c.stack = Empty, c.terminal = "no", c.socket = "open"
  PROVE  Inv(Admitted(c, f.id), g)
<1> DEFINE r == f.id
           s == OwnerOf(c.pendingRequests, r)
           m == c.sub[s]
           d == [c EXCEPT !.pendingRequests = Without(@, r)]
           protocol == \/ Owner(c.pendingRequests, r) = {}
                       \/ c.sub[s].liveId # 0
                       \/ Owner(c.liveSubscriptions, r) # {}
<1>1. Core(c, g) /\ c \in Clients /\ r \in Nat /\ r <= c.requestId /\ About(c, f)
      /\ <<f.sub, f.cap>> \in g
  BY DEF Sound, Core, FrameSaysTruth
<1>2. CASE protocol
  <2>1. Admitted(c, r) = Terminate(c, "protocol")
    BY <1>2 DEF Admitted
  <2> QED
    BY <2>1, ProtocolSound
<1>3. CASE ~protocol
  <2>1. /\ s \in Subs /\ Pending(c, r, s) /\ m.state # "new" /\ r > 0
        /\ \/ Ended(m)
           \/ m.state = "active" /\ m.request = r /\ m.liveId = 0
    BY <1>1, <1>3, PendingFacts
  <2>2. m.liveId = 0
    BY <1>3
  <2>3. m \in SubType
    BY <1>1, <2>1, ClientFields
  <2>4. CASE m.state \in {"closed", "failed"}
    <3>1. Admitted(c, r) =
            LateAdmission([c EXCEPT !.pendingRequests = Without(@, r), !.sub[s].request = 0], s, r)
      <4>1. Admitted(c, r) = LateAdmission([d EXCEPT !.sub[s].request = 0], s, r)
        BY <1>3, <2>4 DEF Admitted
      <4> HIDE DEF s
      <4>2. [d EXCEPT !.sub[s].request = 0]
              = [c EXCEPT !.pendingRequests = Without(@, r), !.sub[s].request = 0]
        BY <1>1 DEF Clients
      <4> QED
        BY <4>1, <4>2
    <3> HIDE DEF s
    <3>2. Ended(m)
      BY <2>4 DEF Ended
    <3> QED
      BY <1>1, <2>1, <2>2, <3>1, <3>2, LateAdmissionSound
  <2>5. CASE m.state \notin {"closed", "failed"}
    <3>1. m.state = "active"
      BY <2>1, <2>5 DEF Ended
    <3>2. CASE m.state # "active" \/ m.requested = 0 \/ r \in c.targets
      <4>1. Admitted(c, r) = Terminate(d, "protocol")
        BY <1>3, <2>5, <3>2 DEF Admitted
      <4> HIDE DEF s
      <4>2. d = Forget(c, r, s, m)
        <5>1. [c.sub EXCEPT ![s] = m] = c.sub
          BY <1>1, <2>1, ClientFields
        <5>2. Forget(c, r, s, m) = [c EXCEPT !.pendingRequests = Without(@, r),
                                            !.sub = [c.sub EXCEPT ![s] = m]]
          BY <1>1 DEF Forget, Clients
        <5> HIDE DEF m
        <5>3. [c EXCEPT !.pendingRequests = Without(@, r), !.sub = c.sub] = d
          BY <1>1 DEF Clients
        <5> QED
          BY <5>1, <5>2, <5>3
      <4>3. Sound(d, g, Nobody, {r})
        <5>1. SameBut(m, m)
          BY DEF SameBut
        <5> QED
          BY <1>1, <2>1, <2>3, <4>2, <5>1, ForgetSound
      <4>4. d.stack = Empty /\ d.terminal = "no"
        BY <1>1 DEF Clients
      <4> QED
        BY <4>1, <4>3, <4>4, ProtocolSound
    <3>3. CASE ~(m.state # "active" \/ m.requested = 0 \/ r \in c.targets)
      <4>1. Admitted(c, r) = Cleared(AnswerRenewals(AdmittedNow(c, r, s), s), s)
        BY <1>3, <2>5, <3>3 DEF Admitted, Cleared, AdmittedNow
      <4> HIDE DEF s
      <4>2. <<s, m.requested>> \in g
        BY <1>1, <2>1, <3>1 DEF About, Ended
      <4> QED
        BY <1>1, <2>1, <3>1, <3>3, <4>1, <4>2, AdmissionSound
    <3> QED
      BY <3>2, <3>3
  <2> QED
    BY <2>4, <2>5
<1> QED
  BY <1>2, <1>3

\* A renewal is accepted: the renewal that was in flight is answered.
LEMMA AcceptedRenewal ==
  ASSUME NEW c, NEW g, NEW s \in Subs, NEW l \in Nat, Sound(c, g, Nobody, Nobody),
         c.stack = Empty, Live(c, l, s), c.sub[s].renewing # 0,
         <<s, c.sub[s].renewing>> \in g,
         \A i \in DOMAIN c.link.up : Up(c, i, "renew") => c.link.up[i].id # l,
         \A i \in DOMAIN c.link.down : Down(c, i, "renewed") => c.link.down[i].id # l
  PROVE  Sound([c EXCEPT !.sub[s] = [Settle(c.sub[s], {c.sub[s].renewing}, "resolved")
                                       EXCEPT !.accepted = c.sub[s].renewing, !.renewing = 0]],
               g, Nobody, Nobody)
<1> DEFINE m == c.sub[s]
           q == Settle(m, {m.renewing}, "resolved")
           n == [q EXCEPT !.accepted = m.renewing, !.renewing = 0]
           d == Assign(c, s, n, c.active)
<1>1. Core(c, g) /\ c \in Clients /\ m \in SubType /\ SubSound(m)
  BY ClientFields DEF Sound, Core, SubsSound
<1>2. [c EXCEPT !.sub[s] = n] = d
  BY <1>1, AssignForms
<1>3. /\ q \in SubType /\ SameBut(m, q) /\ SameWireIds(m, q)
      /\ q.renewing = m.renewing /\ q.queued = m.queued
      /\ \A k \in Capabilities : q.answers[k] = IF k \in {m.renewing} THEN "resolved" ELSE m.answers[k]
  BY <1>1, SettleEffect
<1>4. m.renewing \in 0..MaxCapability /\ m.renewing \in Capabilities
      /\ 0 \in 0..MaxCapability
  BY <1>1, SubFields, Bounds
<1>5. /\ n \in SubType /\ n.state = q.state /\ n.status = q.status /\ n.query = q.query
      /\ n.request = q.request /\ n.requested = q.requested /\ n.liveId = q.liveId
      /\ n.renewing = 0 /\ n.queued = q.queued /\ n.answers = q.answers
  <2> HIDE DEF q, m
  <2> QED
    BY <1>3, <1>4 DEF SubType
<1> HIDE DEF q, n
<1>6. \A k \in Capabilities : n.answers[k] = IF k = m.renewing THEN "resolved" ELSE m.answers[k]
  BY <1>3, <1>5
<1>7. RenewalsSound(n)
  BY <1>1, <1>3, <1>5, <1>6, AcceptedSound DEF SubSound, SameBut
<1>8. m.state = "active" /\ m.liveId = l /\ s \in c.active
  BY <1>1 DEF Core, TablesSound
<1>9. SubSound(n) /\ n.state = "active" /\ n.liveId = l /\ n.status = m.status
      /\ n.request = m.request /\ n.requested = m.requested
  BY <1>1, <1>3, <1>5, <1>7, <1>8 DEF SubSound, SameBut, SameWireIds
<1>10. /\ d \in Clients /\ Same(c, d) /\ d.managed = c.managed /\ d.disposed = c.disposed
       /\ d.active = c.active /\ d.sub[s] = n /\ \A t \in Subs : t # s => d.sub[t] = c.sub[t]
  BY <1>1, <1>5, ClientFields, AssignEffect
<1> HIDE DEF d
<1>11. /\ \A r, t : Pending(d, r, t) <=> Pending(c, r, t)
       /\ \A r, t : Live(d, r, t) <=> Live(c, r, t)
       /\ d.link = c.link /\ d.socket = c.socket /\ d.terminal = c.terminal
       /\ d.stack = Empty
  BY <1>10 DEF Same, SameTables, SameWire, Pending, Live
<1>12. \A t \in Subs : /\ d.sub[t].state = c.sub[t].state /\ d.sub[t].status = c.sub[t].status
                       /\ d.sub[t].request = c.sub[t].request
                       /\ d.sub[t].requested = c.sub[t].requested
                       /\ d.sub[t].liveId = c.sub[t].liveId
  BY <1>8, <1>9, <1>10
<1>13. TablesSound(d) /\ IdsFresh(d) /\ DeliveringIsLive(d)
  BY <1>1, <1>10, <1>11, <1>12
     DEF Core, TablesSound, IdsFresh, DeliveringIsLive, Same, SameTables, Ended
<1>14. StackSound(d)
  <2>1. DOMAIN d.stack = {}
    BY <1>11, EmptyFacts
  <2> QED
    BY <2>1 DEF StackSound, PairSound
<1>15. SubsSound(d)
  <2>1. \A t \in Subs : SubSound(d.sub[t])
    BY <1>1, <1>9, <1>10 DEF Core, SubsSound
  <2>2. \A t \in Subs, k \in Capabilities :
          d.sub[t].answers[k] = "pending" => c.sub[t].answers[k] = "pending"
    BY <1>6, <1>10
  <2> QED
    BY <1>1, <1>10, <1>11, <1>12, <2>1, <2>2, ClientFields DEF Core, SubsSound
<1>16. Truthful(d, g)
  <2>1. \A k \in Capabilities : n.answers[k] = "resolved" =>
          \E j \in k..MaxCapability : <<s, j>> \in g
    <3> SUFFICES ASSUME NEW k \in Capabilities, n.answers[k] = "resolved"
                 PROVE  \E j \in k..MaxCapability : <<s, j>> \in g
      OBVIOUS
    <3>1. CASE k = m.renewing
      <4>1. m.renewing \in k..MaxCapability
        BY <1>4, <3>1, Bounds
      <4> QED
        BY <4>1
    <3>2. CASE k # m.renewing
      BY <1>1, <1>6, <3>2 DEF Core, Truthful
    <3> QED
      BY <3>1, <3>2
  <2> QED
    BY <1>1, <1>10, <2>1 DEF Core, Truthful
<1>17. /\ \A i \in DOMAIN c.link.up : c.link.up[i].id \in Nat
       /\ \A i \in DOMAIN c.link.down : c.link.down[i].id \in Nat
  BY <1>1, ClientFields, LinkFields
<1>18. \A h : h.id \in Nat =>
         /\ About(c, h) => About(d, h)
         /\ Renews(c, h) /\ h.id # l => Renews(d, h)
  <2> SUFFICES ASSUME NEW h, h.id \in Nat
               PROVE  /\ About(c, h) => About(d, h)
                      /\ Renews(c, h) /\ h.id # l => Renews(d, h)
    OBVIOUS
  <2>1. ASSUME About(c, h) PROVE About(d, h)
    BY <1>11, <1>12, <2>1 DEF About, Ended
  <2>2. ASSUME Renews(c, h), h.id # l PROVE Renews(d, h)
    <3>1. ~Live(c, h.id, s)
      BY <1>1, <1>8, <2>2 DEF Core, TablesSound
    <3> QED
      BY <1>10, <1>11, <2>2, <3>1 DEF Renews
  <2> QED
    BY <2>1, <2>2
<1>19. WireSound(d, g)
  BY <1>1, <1>11, <1>17, <1>18 DEF Core, WireSound, Up, Down
<1>20. OneRenewal(d)
  BY <1>1, <1>11 DEF Core, OneRenewal, Up, Down
<1>21. ServedIds(d)
  BY <1>1, <1>11 DEF Core, ServedIds, Up, Down
<1>22. Core(d, g)
  BY <1>10, <1>13, <1>14, <1>15, <1>16, <1>19, <1>20, <1>21 DEF Core
<1>23. \A t \in Subs : Consistent(d, t)
  <2> TAKE t \in Subs
  <2>1. Consistent(c, t)
    BY DEF Sound, Nobody
  <2> QED
    BY <1>10, <1>11, <1>12, <2>1, Unawaited DEF Consistent
<1>24. /\ d.terminal # "no" => d.socket = "none"
       /\ \A k \in d.link.served : Accounted(d, k)
  BY <1>11, Unawaited DEF Sound, Accounted, Up, Down, Nobody
<1>25. Sound(d, g, Nobody, Nobody)
  BY <1>22, <1>23, <1>24 DEF Sound
<1> QED
  BY <1>2, <1>25 DEF n, q, d

LEMMA RenewedSound ==
  ASSUME NEW c, NEW g, NEW f, Granted(g), Inv(c, g), FrameSaysTruth(c, g, f),
         f.type = "renewed", c.stack = Empty, c.terminal = "no"
  PROVE  Inv(Renewed(c, f.id), g)
<1> DEFINE l == f.id
           s == OwnerOf(c.liveSubscriptions, l)
           m == c.sub[s]
           d == [c EXCEPT !.sub[s] = [Settle(m, {m.renewing}, "resolved")
                                       EXCEPT !.accepted = m.renewing, !.renewing = 0]]
<1>1. Core(c, g) /\ c \in Clients /\ l \in Nat /\ Sound(c, g, Nobody, Nobody)
  BY DEF Inv, Sound, Core, FrameSaysTruth
<1>2. CASE Owner(c.liveSubscriptions, l) = {} \/ m.renewing = 0
  <2>1. Renewed(c, l) = Terminate(c, "protocol")
    BY <1>2 DEF Renewed
  <2> QED
    BY <1>1, <2>1, ProtocolSound
<1>3. CASE ~(Owner(c.liveSubscriptions, l) = {} \/ m.renewing = 0)
  <2>1. s \in Subs /\ Live(c, l, s)
    BY <1>1, <1>3, LiveFacts
  <2>2. Renewed(c, l) = SendNextRenewal(d, s)
    BY <1>3 DEF Renewed
  <2> HIDE DEF s
  <2>3. f.sub = s /\ f.cap = m.renewing /\ <<s, m.renewing>> \in g
    BY <2>1 DEF FrameSaysTruth, Renews
  <2>4. /\ \A i \in DOMAIN c.link.up : Up(c, i, "renew") => c.link.up[i].id # l
        /\ \A i \in DOMAIN c.link.down : Down(c, i, "renewed") => c.link.down[i].id # l
    BY <2>1 DEF FrameSaysTruth
  <2>5. Sound(d, g, Nobody, Nobody)
    BY <1>1, <1>3, <2>1, <2>3, <2>4, AcceptedRenewal
  <2> HIDE DEF d
  <2> QED
    BY <2>1, <2>2, <2>5, SendNextRenewalSound DEF Inv
<1> QED
  BY <1>2, <1>3

\* The service has ended a query that was detached.
LEMMA DetachedSound ==
  ASSUME NEW c, NEW g, NEW l \in Nat, Sound(c, g, Nobody, Nobody), c.stack = Empty,
         l \in c.detaching
  PROVE  Sound([c EXCEPT !.detaching = @ \ {l}, !.targets = @ \ {l}, !.delivering = @ \ {l}],
               g, Nobody, Nobody)
<1> DEFINE d == [c EXCEPT !.detaching = @ \ {l}, !.targets = @ \ {l}, !.delivering = @ \ {l}]
<1>1. Core(c, g) /\ c \in Clients
  BY DEF Sound, Core
<1>2. /\ d \in Clients /\ SameSubs(c, d) /\ SameWire(c, d) /\ d.stack = c.stack
      /\ d.pendingRequests = c.pendingRequests
      /\ d.liveSubscriptions = c.liveSubscriptions
      /\ d.detaching = c.detaching \ {l} /\ d.targets = c.targets \ {l}
      /\ d.delivering = c.delivering \ {l} /\ d.requestId = c.requestId
  BY <1>1 DEF Clients, SameSubs, SameWire
<1> HIDE DEF d
<1>3. /\ \A r, t : Pending(d, r, t) <=> Pending(c, r, t)
      /\ \A r, t : Live(d, r, t) <=> Live(c, r, t)
      /\ d.sub = c.sub /\ d.active = c.active /\ d.link = c.link /\ d.socket = c.socket
      /\ d.disposed = c.disposed /\ d.terminal = c.terminal
  BY <1>2 DEF Pending, Live, SameSubs, SameWire
<1>4. \A t \in Subs : ~Live(c, l, t)
  BY <1>1 DEF Core, TablesSound
<1>5. l \notin c.delivering
  BY <1>1, <1>4 DEF Core, DeliveringIsLive
<1>6. TablesSound(d)
  BY <1>1, <1>2, <1>3 DEF Core, TablesSound, Ended
<1>7. IdsFresh(d)
  BY <1>1, <1>2, <1>3 DEF Core, IdsFresh
<1>8. DeliveringIsLive(d)
  BY <1>1, <1>2, <1>3, <1>5 DEF Core, DeliveringIsLive
<1>9. StackSound(d)
  <2>1. DOMAIN d.stack = {}
    BY <1>2, EmptyFacts
  <2> QED
    BY <2>1 DEF StackSound, PairSound
<1>10. SubsSound(d) /\ Truthful(d, g)
  BY <1>1, <1>2 DEF Core, SubsSound, Truthful, SameSubs, SameWire
<1>11. \A h : (About(c, h) => About(d, h)) /\ (Renews(c, h) => Renews(d, h))
  BY <1>3 DEF About, Renews
<1>12. WireSound(d, g)
  BY <1>1, <1>3, <1>11 DEF Core, WireSound, Up, Down
<1>13. OneRenewal(d) /\ ServedIds(d)
  BY <1>1, <1>3 DEF Core, OneRenewal, ServedIds, Up, Down
<1>14. Core(d, g)
  BY <1>2, <1>6, <1>7, <1>8, <1>9, <1>10, <1>12, <1>13 DEF Core
<1>15. \A t \in Subs : Consistent(d, t)
  <2> TAKE t \in Subs
  <2>1. Consistent(c, t)
    BY DEF Sound, Nobody
  <2> QED
    BY <1>3, <2>1, Unawaited DEF Consistent
<1>16. /\ d.terminal # "no" => d.socket = "none"
       /\ \A k \in d.link.served : Accounted(d, k)
  BY <1>3, Unawaited DEF Sound, Accounted, Up, Down, Nobody
<1>17. Sound(d, g, Nobody, Nobody)
  BY <1>14, <1>15, <1>16 DEF Sound
<1> QED
  BY <1>17 DEF d

LEMMA UnsubscribedSound ==
  ASSUME NEW c, NEW g, NEW l \in Nat, Inv(c, g), c.stack = Empty, c.terminal = "no"
  PROVE  Inv(Unsubscribed(c, l), g)
<1>1. CASE l \in c.detaching
  BY <1>1, DetachedSound DEF Unsubscribed, Inv
<1>2. CASE l \notin c.detaching
  BY <1>2, ProtocolSound DEF Unsubscribed, Inv
<1> QED
  BY <1>1, <1>2

LEMMA SubscriptionErrorSound ==
  ASSUME NEW c, NEW g, NEW l \in Nat, Inv(c, g), c.stack = Empty, c.terminal = "no",
         l \notin c.link.served, NEW code, NEW exhausted \in BOOLEAN
  PROVE  Inv(SubscriptionError(c, l, code, exhausted), g)
<1> DEFINE s == OwnerOf(c.liveSubscriptions, l)
           m == c.sub[s]
<1>1. Core(c, g) /\ c \in Clients /\ Sound(c, g, Nobody, Nobody)
  BY DEF Inv, Sound, Core
<1>2. CASE l \in c.detaching
  BY <1>2 DEF SubscriptionError
<1>3. CASE l \notin c.detaching /\ Owner(c.liveSubscriptions, l) = {}
  BY <1>1, <1>3, ProtocolSound DEF SubscriptionError
<1>4. CASE l \notin c.detaching /\ Owner(c.liveSubscriptions, l) # {}
  <2>1. s \in Subs /\ m.state = "active" /\ m.liveId = l /\ s \in c.active
    BY <1>1, <1>4, LiveFacts
  <2>2. SubscriptionError(c, l, code, exhausted) =
          IF code = "overloaded" THEN Retry(c, s, exhausted)
          ELSE IF code = "expired" THEN AwaitReplacement(c, s, m.accepted)
          ELSE TerminateSubscription(c, s)
    BY <1>4 DEF SubscriptionError
  <2> HIDE DEF s
  <2>3. m.accepted \in 0..MaxCapability
    BY <1>1, <2>1, ClientFields, SubFields
  <2>4. LiveClosed(c, s)
    BY Unawaited
  <2>5. Sound(Retry(c, s, exhausted), g, Nobody, Nobody)
    BY <1>1, <2>1, <2>4, RetrySound DEF LiveClosed
  <2>6. Sound(AwaitReplacement(c, s, m.accepted), g, Nobody, Nobody)
    BY <1>1, <2>1, <2>3, AwaitReplacementSound
  <2>7. Sound(TerminateSubscription(c, s), g, Nobody, Nobody)
    BY <1>1, <2>1, <2>4, TerminateSubscriptionSound DEF LiveClosed
  <2> QED
    BY <2>2, <2>5, <2>6, <2>7 DEF Inv
<1> QED
  BY <1>2, <1>3, <1>4

\* The baseline of a live query is announced.
Announced(s) == <<Item("rows", s), Item("baseline", s), Item("live", s)>>

LEMMA AnnouncedSound ==
  ASSUME NEW c, NEW g, NEW s \in Subs, Sound(c, g, Nobody, Nobody), c.stack = Empty,
         c.sub[s].state = "active", Live(c, c.sub[s].liveId, s)
  PROVE  Sound(Push(c, Announced(s)), g, Nobody, Nobody)
<1> DEFINE items == Announced(s)
<1>1. Core(c, g) /\ c \in Clients
  BY DEF Sound, Core
<1>2. /\ items \in Seq(Items) /\ DOMAIN items = {1, 2, 3}
      /\ items[1].do = "rows" /\ items[2].do = "baseline" /\ items[3].do = "live"
      /\ \A i \in {1, 2, 3} : items[i].sub = {s}
  <2>1. /\ Item("rows", s) \in Items /\ Item("baseline", s) \in Items
        /\ Item("live", s) \in Items
        /\ Item("rows", s).do = "rows" /\ Item("baseline", s).do = "baseline"
        /\ Item("live", s).do = "live"
        /\ Item("rows", s).sub = {s} /\ Item("baseline", s).sub = {s}
        /\ Item("live", s).sub = {s}
    BY ItemType DEF Works
  <2>2. \A x, y, z \in Items :
          /\ <<x, y, z>> \in Seq(Items) /\ DOMAIN <<x, y, z>> = {1, 2, 3}
          /\ <<x, y, z>>[1] = x /\ <<x, y, z>>[2] = y /\ <<x, y, z>>[3] = z
    OBVIOUS
  <2> QED
    BY <2>1, <2>2 DEF Announced
<1> HIDE DEF items
<1>3. \A i \in DOMAIN items : ItemSound(c, items[i])
  BY <1>2 DEF ItemSound
<1>4. PairSound(c, items \o c.stack)
  <2>1. items \o c.stack = items
    BY <1>1, <1>2, OnEmptyStack
  <2>2. PairSound(c, items)
    BY <1>2 DEF PairSound
  <2> QED
    BY <2>1, <2>2
<1>5. Core(Push(c, items), g)
  BY <1>1, <1>2, <1>3, <1>4, PushCore
<1>6. Nobody \cap Subs = {}
  BY DEF Nobody
<1> QED
  BY <1>2, <1>5, <1>6, PushSound DEF items

LEMMA BaselineSound ==
  ASSUME NEW c, NEW g, NEW l \in Nat, Inv(c, g), c.stack = Empty, c.terminal = "no",
         NEW parses \in BOOLEAN
  PROVE  Inv(Baseline(c, l, parses), g)
<1> DEFINE s == OwnerOf(c.liveSubscriptions, l)
           e == [c EXCEPT !.delivering = @ \ {l}]
<1>1. Core(c, g) /\ c \in Clients /\ Sound(c, g, Nobody, Nobody)
  BY DEF Inv, Sound, Core
<1>2. CASE l \notin c.targets
  BY <1>1, <1>2, ProtocolSound DEF Baseline
<1>3. CASE l \in c.targets /\ l \notin c.delivering
  BY <1>3 DEF Baseline
<1>4. CASE l \in c.targets /\ l \in c.delivering
  <2>1. Owner(c.liveSubscriptions, l) # {}
    <3>1. PICK t \in Subs : Live(c, l, t)
      BY <1>1, <1>4 DEF Core, DeliveringIsLive
    <3>2. t \in Owner(c.liveSubscriptions, l)
      BY <1>1, <3>1, ClientFields, OwnerFacts DEF Live
    <3> QED
      BY <3>2
  <2>2. /\ s \in Subs /\ Live(c, l, s) /\ c.sub[s].state = "active" /\ c.sub[s].liveId = l
    BY <1>1, <2>1, LiveFacts
  <2>3. Baseline(c, l, parses) = IF parses THEN Push(c, Announced(s)) ELSE FailLocal(e, s)
    BY <1>4 DEF Baseline, Announced
  <2> HIDE DEF s
  <2>4. Sound(Push(c, Announced(s)), g, Nobody, Nobody)
    BY <1>1, <2>2, AnnouncedSound
  <2>5. Sound(FailLocal(e, s), g, Nobody, Nobody)
    <3>1. /\ e \in Clients /\ SameSubs(c, e) /\ SameWire(c, e) /\ e.stack = c.stack
          /\ e.pendingRequests = c.pendingRequests
          /\ e.liveSubscriptions = c.liveSubscriptions
          /\ e.detaching = c.detaching /\ e.targets = c.targets
          /\ e.requestId = c.requestId /\ e.delivering = c.delivering \ {l}
      BY <1>1 DEF Clients, SameSubs, SameWire
    <3> HIDE DEF e
    <3>2. ~Ended(c.sub[s]) /\ LiveClosed(c, s) /\ c.sub[s].state # "new"
          /\ e.delivering \in {c.delivering, c.delivering \ {c.sub[s].liveId}}
      BY <2>2, <3>1, Unawaited DEF Ended
    <3>3. \A k \in c.link.served : k \in Nobody => Accounted(c, k) /\ k # c.sub[s].liveId
      BY DEF Nobody
    <3> QED
      BY <1>1, <2>2, <3>1, <3>2, <3>3, FailLocalSound DEF LiveClosed
  <2> QED
    BY <2>3, <2>4, <2>5 DEF Inv
<1> QED
  BY <1>2, <1>3, <1>4

-----------------------------------------------------------------------------
(* The steps.                                                              *)

LEMMA QuietStack ==
  ASSUME Quiet
  PROVE  client.stack = Empty
BY DEF Quiet, Empty

LEMMA DeliverStep ==
  ASSUME IInv, Deliver
  PROVE  Inv(client', granted) /\ granted' = granted /\ faults' \in 0..MaxFaults
<1> DEFINE f == Head(client.link.down)
           c == Taken(client)
<1>1. Inv(client, granted) /\ Granted(granted) /\ client.stack = Empty
      /\ client.link.down # <<>> /\ client.socket = "open" /\ faults \in 0..MaxFaults
  BY QuietStack DEF IInv, Deliver
<1>2. /\ Sound(c, granted, Nobody, Admitting(f)) /\ FrameSaysTruth(c, granted, f)
      /\ c.stack = Empty /\ c.terminal = "no" /\ c.socket = "open"
  BY <1>1, TakeSound
<1>3. PICK exhausted \in Exhaustible, parses \in BOOLEAN :
        /\ ~parses => f.type = "baseline" /\ faults < MaxFaults
        /\ faults' = IF parses THEN faults ELSE faults + 1
        /\ client' =
             CASE f.type = "subscribed"          -> Admitted(c, f.id)
               [] f.type = "rejected_overloaded" -> Rejected(c, f.id, "overloaded", exhausted)
               [] f.type = "rejected_expired"    -> Rejected(c, f.id, "expired", FALSE)
               [] f.type = "rejected_denied"     -> Rejected(c, f.id, "denied", FALSE)
               [] f.type = "renewed"             -> Renewed(c, f.id)
               [] f.type = "unsubscribed"        -> Unsubscribed(c, f.id)
               [] f.type = "error_overloaded"    -> SubscriptionError(c, f.id, "overloaded", exhausted)
               [] f.type = "error_expired"       -> SubscriptionError(c, f.id, "expired", FALSE)
               [] f.type = "error_denied"        -> SubscriptionError(c, f.id, "denied", FALSE)
               [] f.type = "baseline"            -> Baseline(c, f.id, parses)
  BY DEF Deliver, Taken
<1>4. exhausted \in BOOLEAN /\ FALSE \in BOOLEAN
  BY DEF Exhaustible
<1>5. f.type \in Replies /\ f.id \in Nat
  BY <1>2 DEF FrameSaysTruth, Messages
<1> HIDE DEF f, c
<1>6. f.type # "subscribed" => Inv(c, granted)
  BY <1>2 DEF Admitting, Inv
<1>7. ASSUME f.type = "subscribed" PROVE Inv(client', granted)
  <2>1. client' = Admitted(c, f.id)
    BY <1>3, <1>7
  <2>2. Admitting(f) = {f.id}
    BY <1>7 DEF Admitting
  <2> QED
    BY <1>1, <1>2, <1>7, <2>1, <2>2, AdmittedSound
<1>8. ASSUME f.type = "rejected_overloaded" PROVE Inv(client', granted)
  <2>1. client' = Rejected(c, f.id, "overloaded", exhausted)
    BY <1>3, <1>8
  <2> QED
    BY <1>2, <1>4, <1>5, <1>6, <1>8, <2>1, RejectedFrameSound
<1>9. ASSUME f.type = "rejected_expired" PROVE Inv(client', granted)
  <2>1. client' = Rejected(c, f.id, "expired", FALSE)
    BY <1>3, <1>9
  <2> QED
    BY <1>2, <1>4, <1>5, <1>6, <1>9, <2>1, RejectedFrameSound
<1>10. ASSUME f.type = "rejected_denied" PROVE Inv(client', granted)
  <2>1. client' = Rejected(c, f.id, "denied", FALSE)
    BY <1>3, <1>10
  <2> QED
    BY <1>2, <1>4, <1>5, <1>6, <1>10, <2>1, RejectedFrameSound
<1>11. ASSUME f.type = "renewed" PROVE Inv(client', granted)
  <2>1. client' = Renewed(c, f.id)
    BY <1>3, <1>11
  <2> QED
    BY <1>1, <1>2, <1>6, <1>11, <2>1, RenewedSound
<1>12. ASSUME f.type = "unsubscribed" PROVE Inv(client', granted)
  <2>1. client' = Unsubscribed(c, f.id)
    BY <1>3, <1>12
  <2> QED
    BY <1>2, <1>5, <1>6, <1>12, <2>1, UnsubscribedSound
<1>13. f.type \in Errors => f.id \notin c.link.served
  BY <1>2 DEF FrameSaysTruth
<1>14. ASSUME f.type = "error_overloaded" PROVE Inv(client', granted)
  <2>1. client' = SubscriptionError(c, f.id, "overloaded", exhausted)
    BY <1>3, <1>14
  <2>2. f.id \notin c.link.served
    BY <1>13, <1>14 DEF Errors
  <2> QED
    BY <1>2, <1>4, <1>5, <1>6, <1>14, <2>1, <2>2, SubscriptionErrorSound
<1>15. ASSUME f.type = "error_expired" PROVE Inv(client', granted)
  <2>1. client' = SubscriptionError(c, f.id, "expired", FALSE)
    BY <1>3, <1>15
  <2>2. f.id \notin c.link.served
    BY <1>13, <1>15 DEF Errors
  <2> QED
    BY <1>2, <1>4, <1>5, <1>6, <1>15, <2>1, <2>2, SubscriptionErrorSound
<1>16. ASSUME f.type = "error_denied" PROVE Inv(client', granted)
  <2>1. client' = SubscriptionError(c, f.id, "denied", FALSE)
    BY <1>3, <1>16
  <2>2. f.id \notin c.link.served
    BY <1>13, <1>16 DEF Errors
  <2> QED
    BY <1>2, <1>4, <1>5, <1>6, <1>16, <2>1, <2>2, SubscriptionErrorSound
<1>17. ASSUME f.type = "baseline" PROVE Inv(client', granted)
  <2>1. client' = Baseline(c, f.id, parses)
    BY <1>3, <1>17
  <2> QED
    BY <1>2, <1>3, <1>5, <1>6, <1>17, <2>1, BaselineSound
<1>18. Inv(client', granted)
  BY <1>5, <1>7, <1>8, <1>9, <1>10, <1>11, <1>12, <1>14, <1>15, <1>16, <1>17 DEF Replies
<1>19. faults' \in 0..MaxFaults
  BY <1>1, <1>3, Bounds
<1>20. granted' = granted
  BY DEF Deliver
<1> QED
  BY <1>18, <1>19, <1>20

-----------------------------------------------------------------------------
(* The service.                                                            *)

\* The service takes the first frame of those on their way to it.
TakenUp(c) == [c EXCEPT !.link.up = Tail(@)]

\* ... and tells the client something.
Told(c, x, V) == [c EXCEPT !.link.down = Append(@, x), !.link.served = V]

LEMMA TakeUpEffect ==
  ASSUME NEW c \in Clients, c.link.up # <<>>
  PROVE  LET d == TakenUp(c)
             u == c.link.up
         IN  /\ d \in Clients /\ SameSubs(c, d) /\ SameTables(c, d) /\ d.socket = c.socket
             /\ d.ready = c.ready /\ d.terminal = c.terminal /\ d.stack = c.stack
             /\ d.link.down = c.link.down /\ d.link.served = c.link.served
             /\ d.link.up = Tail(u)
             /\ Head(u) \in Messages(Requests) /\ 1 \in DOMAIN u /\ u[1] = Head(u)
             /\ \A i \in DOMAIN d.link.up :
                  i \in Nat /\ i + 1 \in DOMAIN u /\ d.link.up[i] = u[i + 1] /\ i + 1 # 1
             /\ \A i \in DOMAIN u :
                  i = 1 \/ (i - 1 \in DOMAIN d.link.up /\ d.link.up[i - 1] = u[i])
<1> DEFINE u == c.link.up
           b == [c.link EXCEPT !.up = Tail(u)]
           d == TakenUp(c)
<1>1. u \in Seq(Messages(Requests)) /\ c.link \in Links /\ u # <<>>
  BY ClientFields, LinkFields
<1>2. /\ Tail(u) \in Seq(Messages(Requests)) /\ Head(u) \in Messages(Requests)
      /\ 1 \in DOMAIN u /\ u[1] = Head(u)
      /\ \A i \in DOMAIN Tail(u) :
           i \in Nat /\ i + 1 \in DOMAIN u /\ Tail(u)[i] = u[i + 1] /\ i + 1 # 1
      /\ \A i \in DOMAIN u : i = 1 \/ (i - 1 \in DOMAIN Tail(u) /\ Tail(u)[i - 1] = u[i])
  <2> HIDE DEF u
  <2>1. /\ Tail(u) \in Seq(Messages(Requests)) /\ Head(u) \in Messages(Requests)
        /\ 1 \in DOMAIN u /\ u[1] = Head(u) /\ Len(u) \in Nat
        /\ DOMAIN Tail(u) = 1..(Len(u) - 1)
        /\ \A i \in DOMAIN Tail(u) : i + 1 \in DOMAIN u /\ Tail(u)[i] = u[i + 1]
        /\ \A i \in DOMAIN u : i = 1 \/ (i - 1 \in DOMAIN Tail(u) /\ Tail(u)[i - 1] = u[i])
    BY <1>1, TailIndex
  <2> QED
    BY <2>1
<1>3. /\ b \in Links /\ b.down = c.link.down /\ b.served = c.link.served /\ b.up = Tail(u)
  <2> HIDE DEF u
  <2> QED
    BY <1>1, <1>2 DEF Links
<1>4. d = [c EXCEPT !.link = b]
  BY DEF TakenUp, Clients
<1> HIDE DEF b, d
<1>5. /\ d \in Clients /\ SameSubs(c, d) /\ SameTables(c, d) /\ d.socket = c.socket
      /\ d.ready = c.ready /\ d.terminal = c.terminal /\ d.stack = c.stack /\ d.link = b
  BY <1>3, <1>4 DEF Clients, SameSubs, SameTables
<1> HIDE DEF u
<1>6. d.link.down = c.link.down /\ d.link.served = c.link.served /\ d.link.up = Tail(u)
  BY <1>3, <1>5
<1> QED
  BY <1>2, <1>5, <1>6 DEF d, u

LEMMA ToldEffect ==
  ASSUME NEW c \in Clients, NEW x \in Messages(Replies), NEW V \in SUBSET Nat
  PROVE  LET d == Told(c, x, V)
             u == c.link.down
             v == d.link.down
         IN  /\ d \in Clients /\ SameSubs(c, d) /\ SameTables(c, d) /\ d.socket = c.socket
             /\ d.ready = c.ready /\ d.terminal = c.terminal /\ d.stack = c.stack
             /\ d.link.up = c.link.up /\ d.link.served = V
             /\ \A i \in DOMAIN u : i \in DOMAIN v /\ v[i] = u[i]
             /\ \E n : n \in DOMAIN v /\ v[n] = x /\ \A i \in DOMAIN v :
                         i = n \/ (i \in DOMAIN u /\ v[i] = u[i])
<1> DEFINE u == c.link.down
           v == Append(u, x)
           b == [c.link EXCEPT !.down = v, !.served = V]
           d == Told(c, x, V)
<1>1. u \in Seq(Messages(Replies)) /\ c.link \in Links
  BY ClientFields, LinkFields
<1>2. /\ v \in Seq(Messages(Replies))
      /\ \A i \in DOMAIN u : i \in DOMAIN v /\ v[i] = u[i]
      /\ Len(u) + 1 \in DOMAIN v /\ v[Len(u) + 1] = x
      /\ \A i \in DOMAIN v : i = Len(u) + 1 \/ (i \in DOMAIN u /\ v[i] = u[i])
  <2> HIDE DEF u
  <2> QED
    BY <1>1, AppendIndex
<1>3. /\ b \in Links /\ b.up = c.link.up /\ b.served = V /\ b.down = v
  <2> HIDE DEF v
  <2> QED
    BY <1>1, <1>2 DEF Links
<1>4. d = [c EXCEPT !.link = b]
  BY DEF Told, Clients
<1> HIDE DEF b, d
<1>5. /\ d \in Clients /\ SameSubs(c, d) /\ SameTables(c, d) /\ d.socket = c.socket
      /\ d.ready = c.ready /\ d.terminal = c.terminal /\ d.stack = c.stack /\ d.link = b
  BY <1>3, <1>4 DEF Clients, SameSubs, SameTables
<1> HIDE DEF v
<1>6. d.link.up = c.link.up /\ d.link.served = V /\ d.link.down = v
  BY <1>3, <1>5
<1> QED
  BY <1>2, <1>5, <1>6 DEF d

\* What holds of a request when the service has taken it.
RequestSaysTruth(c, f) ==
  /\ f \in Messages(Requests) /\ f.id \in Nat /\ f.id <= c.requestId
  /\ f.type \in {"subscribe", "renew"} => f.sub \in Subs /\ f.cap > 0
  /\ f.type = "subscribe" =>
       /\ About(c, f) /\ f.id \notin c.link.served
       /\ \A i \in DOMAIN c.link.up : Up(c, i, "subscribe") => c.link.up[i].id # f.id
       /\ \A i \in DOMAIN c.link.down :
            c.link.down[i].type \in Errors => c.link.down[i].id # f.id
  /\ f.type = "renew" =>
       /\ Renews(c, f)
       /\ \A s \in Subs : Live(c, f.id, s) =>
            /\ \A i \in DOMAIN c.link.up : Up(c, i, "renew") => c.link.up[i].id # f.id
            /\ \A i \in DOMAIN c.link.down : Down(c, i, "renewed") => c.link.down[i].id # f.id

\* A query whose end was asked for is no longer accounted for.
Ending(f) == IF f.type = "unsubscribe" THEN {f.id} ELSE Nobody

LEMMA TakeUpCore ==
  ASSUME NEW c, NEW g, Core(c, g), c.link.up # <<>>, c.stack = Empty
  PROVE  /\ Core(TakenUp(c), g)
         /\ RequestSaysTruth(TakenUp(c), Head(c.link.up))
         /\ c.socket = "open"
<1> DEFINE d == TakenUp(c)
           u == c.link.up
           f == Head(u)
<1>0. c.socket = "open"
  <2> SUFFICES ASSUME c.socket # "open" PROVE FALSE
    OBVIOUS
  <2>1. c.link = NoLink
    BY DEF Core, WireSound
  <2> QED
    BY <2>1 DEF NoLink
<1>1. c \in Clients
  BY DEF Core
<1>2. /\ d \in Clients /\ SameSubs(c, d) /\ SameTables(c, d) /\ d.socket = c.socket
      /\ d.ready = c.ready /\ d.terminal = c.terminal /\ d.stack = c.stack
      /\ d.link.down = c.link.down /\ d.link.served = c.link.served
      /\ f \in Messages(Requests) /\ 1 \in DOMAIN u /\ u[1] = f
      /\ \A i \in DOMAIN d.link.up :
           i \in Nat /\ i + 1 \in DOMAIN u /\ d.link.up[i] = u[i + 1] /\ i + 1 # 1
      /\ \A i \in DOMAIN u :
           i = 1 \/ (i - 1 \in DOMAIN d.link.up /\ d.link.up[i - 1] = u[i])
  BY <1>1, TakeUpEffect
<1> HIDE DEF d, f
<1>3. /\ \A r \in Nat, s \in Subs : Pending(d, r, s) <=> Pending(c, r, s)
      /\ \A r \in Nat, s \in Subs : Live(d, r, s) <=> Live(c, r, s)
      /\ d.sub = c.sub
  BY <1>2 DEF Pending, Live, SameTables, SameSubs
<1>4. /\ f.id \in Nat
      /\ \A i \in DOMAIN u : u[i].id \in Nat
      /\ \A i \in DOMAIN c.link.down : c.link.down[i].id \in Nat
  BY <1>1, <1>2, ClientFields, LinkFields DEF Messages
<1>5. TablesSound(d) /\ DeliveringIsLive(d)
  BY <1>2, <1>3 DEF Core, TablesSound, DeliveringIsLive, Ended, SameTables, SameSubs
<1>6. IdsFresh(d)
  BY <1>2, <1>3 DEF Core, IdsFresh, SameTables
<1>7. StackSound(d)
  <2>1. DOMAIN d.stack = {}
    BY <1>2, EmptyFacts
  <2> QED
    BY <2>1 DEF StackSound, PairSound
<1>8. SubsSound(d) /\ Truthful(d, g)
  BY <1>2, <1>3 DEF Core, SubsSound, Truthful, SameSubs
<1>9. \A h : h.id \in Nat => (About(d, h) <=> About(c, h)) /\ (Renews(d, h) <=> Renews(c, h))
  BY <1>3 DEF About, Renews
<1>10. WireSound(d, g)
  <2>1. d.socket = "open"
    BY <1>0, <1>2
  <2>2. \A i \in DOMAIN d.link.up : d.link.up[i].type \in {"subscribe", "renew"} =>
          d.link.up[i].sub \in Subs /\ d.link.up[i].cap > 0
    BY <1>2 DEF Core, WireSound
  <2>3. \A i \in DOMAIN d.link.down : d.link.down[i].type \in {"subscribed", "renewed"} =>
          <<d.link.down[i].sub, d.link.down[i].cap>> \in g
    BY <1>2 DEF Core, WireSound
  <2>4. \A i \in DOMAIN d.link.up : Up(d, i, "subscribe") => About(d, d.link.up[i])
    <3>1. \A j \in DOMAIN u : u[j].type = "subscribe" => About(c, u[j])
      BY DEF Core, WireSound, Up
    <3> QED
      BY <1>2, <1>4, <1>9, <3>1 DEF Up
  <2>5. \A i \in DOMAIN d.link.down : Down(d, i, "subscribed") => About(d, d.link.down[i])
    BY <1>2, <1>4, <1>9 DEF Core, WireSound, Down
  <2>6. \A i \in DOMAIN d.link.up : Up(d, i, "renew") => Renews(d, d.link.up[i])
    <3>1. \A j \in DOMAIN u : u[j].type = "renew" => Renews(c, u[j])
      BY DEF Core, WireSound, Up
    <3> QED
      BY <1>2, <1>4, <1>9, <3>1 DEF Up
  <2>7. \A i \in DOMAIN d.link.down : Down(d, i, "renewed") => Renews(d, d.link.down[i])
    BY <1>2, <1>4, <1>9 DEF Core, WireSound, Down
  <2> QED
    BY <2>1, <2>2, <2>3, <2>4, <2>5, <2>6, <2>7 DEF WireSound
<1>11. OneRenewal(d)
  <2> SUFFICES ASSUME NEW l \in Nat, NEW s \in Subs, Live(d, l, s)
               PROVE  /\ \A i, j \in DOMAIN d.link.up :
                           /\ Up(d, i, "renew") /\ d.link.up[i].id = l
                           /\ Up(d, j, "renew") /\ d.link.up[j].id = l
                           => i = j
                      /\ \A i, j \in DOMAIN d.link.down :
                           /\ Down(d, i, "renewed") /\ d.link.down[i].id = l
                           /\ Down(d, j, "renewed") /\ d.link.down[j].id = l
                           => i = j
                      /\ \A i \in DOMAIN d.link.up, j \in DOMAIN d.link.down :
                           ~ /\ Up(d, i, "renew") /\ d.link.up[i].id = l
                             /\ Down(d, j, "renewed") /\ d.link.down[j].id = l
    BY DEF OneRenewal
  <2>1. /\ \A i, j \in DOMAIN u :
             /\ Up(c, i, "renew") /\ u[i].id = l
             /\ Up(c, j, "renew") /\ u[j].id = l
             => i = j
        /\ \A i, j \in DOMAIN c.link.down :
             /\ Down(c, i, "renewed") /\ c.link.down[i].id = l
             /\ Down(c, j, "renewed") /\ c.link.down[j].id = l
             => i = j
        /\ \A i \in DOMAIN u, j \in DOMAIN c.link.down :
             ~ /\ Up(c, i, "renew") /\ u[i].id = l
               /\ Down(c, j, "renewed") /\ c.link.down[j].id = l
    BY <1>3 DEF Core, OneRenewal
  <2>2. \A i, j \in DOMAIN d.link.up :
          /\ Up(d, i, "renew") /\ d.link.up[i].id = l
          /\ Up(d, j, "renew") /\ d.link.up[j].id = l
          => i = j
    <3> SUFFICES ASSUME NEW i \in DOMAIN d.link.up, NEW j \in DOMAIN d.link.up,
                        Up(d, i, "renew"), d.link.up[i].id = l,
                        Up(d, j, "renew"), d.link.up[j].id = l
                 PROVE  i = j
      OBVIOUS
    <3>1. /\ i + 1 \in DOMAIN u /\ d.link.up[i] = u[i + 1]
          /\ j + 1 \in DOMAIN u /\ d.link.up[j] = u[j + 1]
          /\ i \in Nat /\ j \in Nat
      BY <1>2
    <3>2. i + 1 = j + 1
      BY <2>1, <3>1 DEF Up
    <3> QED
      BY <3>1, <3>2
  <2> QED
    BY <1>2, <2>1, <2>2 DEF Up, Down
<1>12. ServedIds(d)
  <2>1. /\ \A i \in DOMAIN u : u[i].type = "subscribe" =>
             /\ u[i].id \notin c.link.served
             /\ \A j \in DOMAIN u : u[j].type = "subscribe" /\ u[i].id = u[j].id => i = j
             /\ \A j \in DOMAIN c.link.down :
                  c.link.down[j].type \in Errors => c.link.down[j].id # u[i].id
        /\ \A i \in DOMAIN c.link.down :
             c.link.down[i].type \in Errors => c.link.down[i].id \notin c.link.served
    BY DEF Core, ServedIds, Up
  <2>2. \A i, j \in DOMAIN d.link.up :
          d.link.up[i].type = "subscribe" /\ d.link.up[j].type = "subscribe"
            /\ d.link.up[i].id = d.link.up[j].id => i = j
    <3> SUFFICES ASSUME NEW i \in DOMAIN d.link.up, NEW j \in DOMAIN d.link.up,
                        d.link.up[i].type = "subscribe", d.link.up[j].type = "subscribe",
                        d.link.up[i].id = d.link.up[j].id
                 PROVE  i = j
      OBVIOUS
    <3>1. i + 1 = j + 1
      BY <1>2, <2>1
    <3> QED
      BY <1>2, <3>1
  <2> QED
    BY <1>2, <2>1, <2>2 DEF ServedIds, Up
<1>13. RequestSaysTruth(d, f)
  <2>1. f.id <= d.requestId
    BY <1>2 DEF Core, IdsFresh, SameTables
  <2>2. f.type \in {"subscribe", "renew"} => f.sub \in Subs /\ f.cap > 0
    BY <1>2 DEF Core, WireSound
  <2>3. ASSUME f.type = "subscribe"
        PROVE  /\ About(d, f) /\ f.id \notin d.link.served
               /\ \A i \in DOMAIN d.link.up : Up(d, i, "subscribe") => d.link.up[i].id # f.id
               /\ \A i \in DOMAIN d.link.down :
                    d.link.down[i].type \in Errors => d.link.down[i].id # f.id
    <3>1. Up(c, 1, "subscribe")
      BY <1>2, <2>3 DEF Up
    <3>2. About(d, f)
      BY <1>2, <1>4, <1>9, <3>1 DEF Core, WireSound
    <3>3. /\ f.id \notin c.link.served
          /\ \A j \in DOMAIN u : Up(c, j, "subscribe") /\ f.id = u[j].id => 1 = j
          /\ \A j \in DOMAIN c.link.down :
               c.link.down[j].type \in Errors => c.link.down[j].id # f.id
      BY <1>2, <3>1 DEF Core, ServedIds
    <3> QED
      BY <1>2, <3>2, <3>3 DEF Up
  <2>4. f.type = "renew" => Renews(d, f)
    BY <1>2, <1>4, <1>9 DEF Core, WireSound, Up
  <2>5. ASSUME f.type = "renew", NEW s \in Subs, Live(d, f.id, s)
        PROVE  /\ \A i \in DOMAIN d.link.up : Up(d, i, "renew") => d.link.up[i].id # f.id
               /\ \A i \in DOMAIN d.link.down : Down(d, i, "renewed") => d.link.down[i].id # f.id
    <3>1. Live(c, f.id, s)
      BY <1>3, <1>4, <2>5
    <3>2. /\ \A i, j \in DOMAIN u :
               /\ Up(c, i, "renew") /\ u[i].id = f.id
               /\ Up(c, j, "renew") /\ u[j].id = f.id
               => i = j
          /\ \A i \in DOMAIN u, j \in DOMAIN c.link.down :
               ~ /\ Up(c, i, "renew") /\ u[i].id = f.id
                 /\ Down(c, j, "renewed") /\ c.link.down[j].id = f.id
      BY <1>4, <3>1 DEF Core, OneRenewal
    <3>3. Up(c, 1, "renew") /\ u[1].id = f.id
      BY <1>2, <2>5 DEF Up
    <3> QED
      BY <1>2, <3>2, <3>3 DEF Up, Down
  <2> QED
    BY <1>2, <1>4, <2>1, <2>2, <2>3, <2>4, <2>5 DEF RequestSaysTruth
<1>14. Core(d, g)
  BY <1>2, <1>5, <1>6, <1>7, <1>8, <1>10, <1>11, <1>12 DEF Core
<1> QED
  BY <1>0, <1>13, <1>14 DEF d, f

LEMMA TakeUpSound ==
  ASSUME NEW c, NEW g, Inv(c, g), c.link.up # <<>>, c.stack = Empty
  PROVE  LET d == TakenUp(c)
             f == Head(c.link.up)
         IN  /\ Sound(d, g, Nobody, Ending(f)) /\ RequestSaysTruth(d, f)
             /\ d.stack = Empty /\ d.socket = "open" /\ d.terminal = "no"
             /\ d \in Clients
<1> DEFINE d == TakenUp(c)
           u == c.link.up
           f == Head(u)
<1>1. /\ Core(c, g) /\ c \in Clients /\ Core(d, g) /\ RequestSaysTruth(d, f)
      /\ c.socket = "open"
  BY TakeUpCore DEF Inv, Sound, Core
<1>2. /\ d \in Clients /\ SameSubs(c, d) /\ SameTables(c, d) /\ d.socket = c.socket
      /\ d.terminal = c.terminal /\ d.stack = c.stack
      /\ d.link.down = c.link.down /\ d.link.served = c.link.served
      /\ u[1] = f
      /\ \A i \in DOMAIN u :
           i = 1 \/ (i - 1 \in DOMAIN d.link.up /\ d.link.up[i - 1] = u[i])
  BY <1>1, TakeUpEffect
<1> HIDE DEF d, f
<1>3. ~Terminating(c)
  BY Unawaited
<1>4. c.terminal = "no" /\ \A l \in c.link.served : Accounted(c, l)
  BY <1>1, <1>3 DEF Inv, Sound, Nobody
<1>5. \A l \in d.link.served \ Ending(f) : Accounted(d, l)
  <2> TAKE l \in d.link.served \ Ending(f)
  <2>1. Accounted(c, l)
    BY <1>2, <1>4
  <2>2. CASE \E s \in Subs : Live(c, l, s)
    BY <1>2, <2>2 DEF Accounted, Live, SameTables
  <2>3. CASE \E i \in DOMAIN c.link.down : Down(c, i, "subscribed") /\ c.link.down[i].id = l
    BY <1>2, <2>3 DEF Accounted, Down
  <2>4. CASE \E i \in DOMAIN u : Up(c, i, "unsubscribe") /\ u[i].id = l
    <3>1. PICK i \in DOMAIN u : Up(c, i, "unsubscribe") /\ u[i].id = l
      BY <2>4
    <3>2. i # 1
      BY <1>2, <3>1 DEF Ending, Up
    <3>3. i - 1 \in DOMAIN d.link.up /\ d.link.up[i - 1] = u[i]
      BY <1>2, <3>2
    <3> QED
      BY <3>1, <3>3 DEF Accounted, Up
  <2> QED
    BY <2>1, <2>2, <2>3, <2>4 DEF Accounted
<1>6. \A s \in Subs : Consistent(d, s)
  <2> TAKE s \in Subs
  <2>1. Consistent(c, s)
    BY DEF Inv, Sound, Nobody
  <2> QED
    BY <1>2, <2>1 DEF Consistent, Live, Corrected, Corrects, Replacing, SameSubs, SameTables
<1>7. Sound(d, g, Nobody, Ending(f))
  BY <1>1, <1>2, <1>4, <1>5, <1>6 DEF Sound
<1> QED
  BY <1>1, <1>2, <1>4, <1>7 DEF d, f

\* What the service may say: what it has accepted, about what it was asked for, and
\* that a query ended only if it did.
MayTell(c, h, x, V) ==
  /\ x \in Messages(Replies) /\ x.id \in Nat /\ x.id <= c.requestId
  /\ V \subseteq Nat /\ \A l \in V : l <= c.requestId
  /\ x.type \in {"subscribed", "renewed"} => <<x.sub, x.cap>> \in h
  /\ x.type = "subscribed" => About(c, x)
  /\ x.type = "renewed" =>
       /\ Renews(c, x)
       /\ \A s \in Subs : Live(c, x.id, s) =>
            /\ \A i \in DOMAIN c.link.up : Up(c, i, "renew") => c.link.up[i].id # x.id
            /\ \A i \in DOMAIN c.link.down : Down(c, i, "renewed") => c.link.down[i].id # x.id
  /\ x.type \in Errors =>
       /\ x.id \notin V
       /\ \A i \in DOMAIN c.link.up : Up(c, i, "subscribe") => c.link.up[i].id # x.id
  /\ \A i \in DOMAIN c.link.up : Up(c, i, "subscribe") => c.link.up[i].id \notin V
  /\ \A i \in DOMAIN c.link.down :
       c.link.down[i].type \in Errors => c.link.down[i].id \notin V

LEMMA TellCore ==
  ASSUME NEW c, NEW g, NEW h, NEW x, NEW V, Core(c, g), g \subseteq h, c.stack = Empty,
         c.socket = "open", MayTell(c, h, x, V)
  PROVE  Core(Told(c, x, V), h)
<1> DEFINE d == Told(c, x, V)
           u == c.link.down
<1>1. c \in Clients /\ x \in Messages(Replies) /\ V \in SUBSET Nat
  BY DEF Core, MayTell
<1>2. /\ d \in Clients /\ SameSubs(c, d) /\ SameTables(c, d) /\ d.socket = c.socket
      /\ d.ready = c.ready /\ d.terminal = c.terminal /\ d.stack = c.stack
      /\ d.link.up = c.link.up /\ d.link.served = V
      /\ \E n : n \in DOMAIN d.link.down /\ d.link.down[n] = x
                /\ \A i \in DOMAIN d.link.down :
                     i = n \/ (i \in DOMAIN u /\ d.link.down[i] = u[i])
  BY <1>1, ToldEffect
<1> HIDE DEF d
<1>3. PICK n : /\ n \in DOMAIN d.link.down /\ d.link.down[n] = x
               /\ \A i \in DOMAIN d.link.down :
                    i = n \/ (i \in DOMAIN u /\ d.link.down[i] = u[i])
  BY <1>2
<1>4. /\ \A r \in Nat, s \in Subs : Pending(d, r, s) <=> Pending(c, r, s)
      /\ \A r \in Nat, s \in Subs : Live(d, r, s) <=> Live(c, r, s)
      /\ d.sub = c.sub /\ d.requestId = c.requestId
  BY <1>2 DEF Pending, Live, SameTables, SameSubs
<1>5. /\ \A i \in DOMAIN u : u[i].id \in Nat
      /\ \A i \in DOMAIN c.link.up : c.link.up[i].id \in Nat
  BY <1>1, ClientFields, LinkFields
<1>6. TablesSound(d) /\ DeliveringIsLive(d)
  BY <1>2, <1>4 DEF Core, TablesSound, DeliveringIsLive, Ended, SameTables, SameSubs
<1>7. IdsFresh(d)
  <2>1. \A i \in DOMAIN d.link.down : d.link.down[i].id <= d.requestId
    BY <1>3, <1>4 DEF Core, IdsFresh, MayTell
  <2>2. /\ \A l \in d.targets \cup d.detaching : l <= d.requestId
        /\ \A l \in d.link.served : l <= d.requestId
    BY <1>2, <1>4 DEF Core, IdsFresh, SameTables, MayTell
  <2>3. /\ \A s \in Subs : d.sub[s].liveId <= d.requestId
        /\ \A s, t \in Subs : d.sub[s].liveId = d.sub[t].liveId /\ d.sub[s].liveId # 0 => s = t
        /\ \A i \in DOMAIN d.link.up : d.link.up[i].id <= d.requestId
    BY <1>2, <1>4 DEF Core, IdsFresh
  <2> QED
    BY <2>1, <2>2, <2>3 DEF IdsFresh
<1>8. StackSound(d)
  <2>1. DOMAIN d.stack = {}
    BY <1>2, EmptyFacts
  <2> QED
    BY <2>1 DEF StackSound, PairSound
<1>9. SubsSound(d) /\ Truthful(d, h)
  <2>1. SubsSound(d)
    BY <1>2, <1>4 DEF Core, SubsSound, SameSubs
  <2>2. Truthful(d, h)
    BY <1>4 DEF Core, Truthful
  <2> QED
    BY <2>1, <2>2
<1>10. \A f : f.id \in Nat => (About(d, f) <=> About(c, f)) /\ (Renews(d, f) <=> Renews(c, f))
  BY <1>4 DEF About, Renews
<1>11. WireSound(d, h)
  <2>1. d.socket = "open"
    BY <1>2
  <2>2. \A i \in DOMAIN d.link.up : d.link.up[i].type \in {"subscribe", "renew"} =>
          d.link.up[i].sub \in Subs /\ d.link.up[i].cap > 0
    BY <1>2 DEF Core, WireSound
  <2>3. \A i \in DOMAIN d.link.down : d.link.down[i].type \in {"subscribed", "renewed"} =>
          <<d.link.down[i].sub, d.link.down[i].cap>> \in h
    <3>1. \A i \in DOMAIN u : u[i].type \in {"subscribed", "renewed"} =>
            <<u[i].sub, u[i].cap>> \in h
      BY DEF Core, WireSound
    <3>2. x.type \in {"subscribed", "renewed"} => <<x.sub, x.cap>> \in h
      BY DEF MayTell
    <3> QED
      BY <1>3, <3>1, <3>2
  <2>4. \A i \in DOMAIN d.link.up : Up(d, i, "subscribe") => About(d, d.link.up[i])
    BY <1>2, <1>5, <1>10 DEF Core, WireSound, Up
  <2>5. \A i \in DOMAIN d.link.down : Down(d, i, "subscribed") => About(d, d.link.down[i])
    <3>1. \A i \in DOMAIN u : u[i].type = "subscribed" => About(d, u[i])
      BY <1>5, <1>10 DEF Core, WireSound, Down
    <3>2. x.type = "subscribed" => About(d, x)
      BY <1>10 DEF MayTell
    <3> QED
      BY <1>3, <3>1, <3>2 DEF Down
  <2>6. \A i \in DOMAIN d.link.up : Up(d, i, "renew") => Renews(d, d.link.up[i])
    BY <1>2, <1>5, <1>10 DEF Core, WireSound, Up
  <2>7. \A i \in DOMAIN d.link.down : Down(d, i, "renewed") => Renews(d, d.link.down[i])
    <3>1. \A i \in DOMAIN u : u[i].type = "renewed" => Renews(d, u[i])
      BY <1>5, <1>10 DEF Core, WireSound, Down
    <3>2. x.type = "renewed" => Renews(d, x)
      BY <1>10 DEF MayTell
    <3> QED
      BY <1>3, <3>1, <3>2 DEF Down
  <2> QED
    BY <2>1, <2>2, <2>3, <2>4, <2>5, <2>6, <2>7 DEF WireSound
<1>12. OneRenewal(d)
  <2> SUFFICES ASSUME NEW l \in Nat, NEW s \in Subs, Live(d, l, s)
               PROVE  /\ \A i, j \in DOMAIN d.link.up :
                           /\ Up(d, i, "renew") /\ d.link.up[i].id = l
                           /\ Up(d, j, "renew") /\ d.link.up[j].id = l
                           => i = j
                      /\ \A i, j \in DOMAIN d.link.down :
                           /\ Down(d, i, "renewed") /\ d.link.down[i].id = l
                           /\ Down(d, j, "renewed") /\ d.link.down[j].id = l
                           => i = j
                      /\ \A i \in DOMAIN d.link.up, j \in DOMAIN d.link.down :
                           ~ /\ Up(d, i, "renew") /\ d.link.up[i].id = l
                             /\ Down(d, j, "renewed") /\ d.link.down[j].id = l
    BY DEF OneRenewal
  <2>1. Live(c, l, s)
    BY <1>4
  <2>2. /\ \A i, j \in DOMAIN c.link.up :
             /\ Up(c, i, "renew") /\ c.link.up[i].id = l
             /\ Up(c, j, "renew") /\ c.link.up[j].id = l
             => i = j
        /\ \A i, j \in DOMAIN u :
             /\ Down(c, i, "renewed") /\ u[i].id = l
             /\ Down(c, j, "renewed") /\ u[j].id = l
             => i = j
        /\ \A i \in DOMAIN c.link.up, j \in DOMAIN u :
             ~ /\ Up(c, i, "renew") /\ c.link.up[i].id = l
               /\ Down(c, j, "renewed") /\ u[j].id = l
    BY <2>1 DEF Core, OneRenewal
  <2>3. x.type = "renewed" /\ x.id = l =>
          /\ \A i \in DOMAIN c.link.up : Up(c, i, "renew") => c.link.up[i].id # l
          /\ \A i \in DOMAIN u : Down(c, i, "renewed") => u[i].id # l
    BY <2>1 DEF MayTell
  <2>4. \A i, j \in DOMAIN d.link.down :
          /\ Down(d, i, "renewed") /\ d.link.down[i].id = l
          /\ Down(d, j, "renewed") /\ d.link.down[j].id = l
          => i = j
    BY <1>3, <2>2, <2>3 DEF Down
  <2>5. \A i \in DOMAIN d.link.up, j \in DOMAIN d.link.down :
          ~ /\ Up(d, i, "renew") /\ d.link.up[i].id = l
            /\ Down(d, j, "renewed") /\ d.link.down[j].id = l
    BY <1>2, <1>3, <2>2, <2>3 DEF Up, Down
  <2> QED
    BY <1>2, <2>2, <2>4, <2>5 DEF Up
<1>13. ServedIds(d)
  <2>1. \A i \in DOMAIN c.link.up : c.link.up[i].type = "subscribe" =>
          /\ c.link.up[i].id \notin V
          /\ \A j \in DOMAIN c.link.up :
               c.link.up[j].type = "subscribe" /\ c.link.up[i].id = c.link.up[j].id => i = j
          /\ \A j \in DOMAIN u : u[j].type \in Errors => u[j].id # c.link.up[i].id
          /\ x.type \in Errors => x.id # c.link.up[i].id
    BY DEF Core, ServedIds, Up, MayTell
  <2>2. /\ \A i \in DOMAIN u : u[i].type \in Errors => u[i].id \notin V
        /\ x.type \in Errors => x.id \notin V
    BY DEF MayTell
  <2> QED
    BY <1>2, <1>3, <2>1, <2>2 DEF ServedIds, Up
<1> QED
  BY <1>2, <1>6, <1>7, <1>8, <1>9, <1>11, <1>12, <1>13 DEF Core, d

LEMMA TellSound ==
  ASSUME NEW c, NEW g, NEW h, NEW Y, NEW x, NEW V, Sound(c, g, Nobody, Y), g \subseteq h,
         c.stack = Empty, c.socket = "open", c.terminal = "no", MayTell(c, h, x, V),
         \A l \in V : \/ l \in c.link.served /\ l \notin Y
                      \/ x.type = "subscribed" /\ x.id = l
  PROVE  Inv(Told(c, x, V), h)
<1> DEFINE d == Told(c, x, V)
           u == c.link.down
<1>1. c \in Clients /\ x \in Messages(Replies) /\ V \in SUBSET Nat /\ Core(c, g)
  BY DEF Sound, Core, MayTell
<1>2. Core(d, h)
  BY <1>1, TellCore
<1>3. /\ d \in Clients /\ SameSubs(c, d) /\ SameTables(c, d)
      /\ d.terminal = c.terminal /\ d.stack = c.stack
      /\ d.link.up = c.link.up /\ d.link.served = V
      /\ \A i \in DOMAIN u : i \in DOMAIN d.link.down /\ d.link.down[i] = u[i]
      /\ \E n : n \in DOMAIN d.link.down /\ d.link.down[n] = x
  BY <1>1, ToldEffect
<1> HIDE DEF d
<1>4. ~Terminating(c)
  BY Unawaited
<1>5. \A l \in c.link.served \ Y : Accounted(c, l)
  BY <1>4 DEF Sound
<1>6. \A l \in V : Accounted(d, l)
  <2> TAKE l \in V
  <2>1. CASE x.type = "subscribed" /\ x.id = l
    BY <1>3, <2>1 DEF Accounted, Down
  <2>2. CASE l \in c.link.served \ Y
    <3>1. Accounted(c, l)
      BY <1>5, <2>2
    <3>2. CASE \E s \in Subs : Live(c, l, s)
      BY <1>3, <3>2 DEF Accounted, Live, SameTables
    <3>3. CASE \E i \in DOMAIN u : Down(c, i, "subscribed") /\ u[i].id = l
      BY <1>3, <3>3 DEF Accounted, Down
    <3>4. CASE \E i \in DOMAIN c.link.up : Up(c, i, "unsubscribe") /\ c.link.up[i].id = l
      BY <1>3, <3>4 DEF Accounted, Up
    <3> QED
      BY <3>1, <3>2, <3>3, <3>4 DEF Accounted
  <2> QED
    BY <2>1, <2>2
<1>7. \A s \in Subs : Consistent(d, s)
  <2> TAKE s \in Subs
  <2>1. Consistent(c, s)
    BY DEF Sound, Nobody
  <2> QED
    BY <1>3, <2>1 DEF Consistent, Live, Corrected, Corrects, Replacing, SameSubs, SameTables
<1> QED
  BY <1>2, <1>3, <1>6, <1>7 DEF Inv, Sound, d, Nobody

LEMMA FrameFacts ==
  ASSUME NEW type \in Replies, NEW id \in Nat, NEW s \in Subs \cup {0},
         NEW k \in 0..MaxCapability
  PROVE  LET x == Frame(type, id, s, k)
         IN  x \in Messages(Replies) /\ x.type = type /\ x.id = id /\ x.sub = s /\ x.cap = k
BY DEF Frame, Messages

LEMMA TakenUpForms ==
  ASSUME client \in Clients, NEW x, NEW V
  PROVE  /\ [client EXCEPT !.link.up = Tail(@)] = TakenUp(client)
         /\ Answer(x) = Told(TakenUp(client), x, client.link.served)
         /\ [Answer(x) EXCEPT !.link.served = V] = Told(TakenUp(client), x, V)
         /\ [client EXCEPT !.link.served = V, !.link.down = Append(@, x)] = Told(client, x, V)
         /\ [client EXCEPT !.link.down = Append(@, x)] = Told(client, x, client.link.served)
<1>1. client.link \in Links
  BY ClientFields
<1> QED
  <2>1. /\ Answer(x) = Told(TakenUp(client), x, client.link.served)
        /\ [Answer(x) EXCEPT !.link.served = V] = Told(TakenUp(client), x, V)
    BY <1>1, ZenonT(40) DEF Answer, Told, TakenUp, Clients, Links
  <2>2. /\ [client EXCEPT !.link.up = Tail(@)] = TakenUp(client)
        /\ [client EXCEPT !.link.served = V, !.link.down = Append(@, x)] = Told(client, x, V)
        /\ [client EXCEPT !.link.down = Append(@, x)] = Told(client, x, client.link.served)
    BY <1>1, ZenonT(40) DEF Told, TakenUp, Clients, Links
  <2> QED
    BY <2>1, <2>2

LEMMA TakenUpFacts ==
  ASSUME IInv, client.link.up # <<>>, Quiet
  PROVE  LET c == TakenUp(client)
             f == Head(client.link.up)
         IN  /\ Sound(c, granted, Nobody, Ending(f)) /\ RequestSaysTruth(c, f)
             /\ c.stack = Empty /\ c.socket = "open" /\ c.terminal = "no" /\ c \in Clients
             /\ c.link.served = client.link.served /\ client \in Clients
             /\ \A l \in c.link.served : l \in Nat /\ l <= c.requestId
             /\ \A i \in DOMAIN c.link.down :
                  c.link.down[i].type \in Errors => c.link.down[i].id \notin c.link.served
             /\ \A i \in DOMAIN c.link.up :
                  Up(c, i, "subscribe") => c.link.up[i].id \notin c.link.served
             /\ f \in Messages(Requests) /\ f.id \in Nat
<1> DEFINE c == TakenUp(client)
           f == Head(client.link.up)
<1>1. Inv(client, granted) /\ client.stack = Empty
  BY QuietStack DEF IInv
<1>2. client \in Clients
  BY <1>1 DEF Inv, Sound, Core
<1>3. /\ Sound(c, granted, Nobody, Ending(f)) /\ RequestSaysTruth(c, f)
      /\ c.stack = Empty /\ c.socket = "open" /\ c.terminal = "no" /\ c \in Clients
  BY <1>1, TakeUpSound
<1>4. c.link.served = client.link.served
  BY <1>2, TakeUpEffect
<1> HIDE DEF c, f
<1>5. Core(c, granted) /\ c.link.served \subseteq Nat
  BY <1>3, ClientFields, LinkFields DEF Sound
<1>6. /\ \A l \in c.link.served : l <= c.requestId
      /\ \A i \in DOMAIN c.link.down :
           c.link.down[i].type \in Errors => c.link.down[i].id \notin c.link.served
      /\ \A i \in DOMAIN c.link.up :
           Up(c, i, "subscribe") => c.link.up[i].id \notin c.link.served
  BY <1>5 DEF Core, IdsFresh, ServedIds
<1>7. f \in Messages(Requests) /\ f.id \in Nat
  BY <1>3 DEF RequestSaysTruth
<1> QED
  BY <1>2, <1>3, <1>4, <1>5, <1>6, <1>7 DEF c, f

\* What a step of the service, the client or the application preserves.
Preserved == Inv(client', granted') /\ Granted(granted') /\ faults' \in 0..MaxFaults

LEMMA ServeSubscribeStep ==
  ASSUME IInv, client.link.up # <<>>, Quiet, NEW f, f = Head(client.link.up),
         f.type = "subscribe", ServeSubscribe(f)
  PROVE  Preserved
<1> DEFINE c == TakenUp(client)
<1>1. /\ Sound(c, granted, Nobody, Ending(f)) /\ RequestSaysTruth(c, f)
      /\ c.stack = Empty /\ c.socket = "open" /\ c.terminal = "no" /\ c \in Clients
      /\ c.link.served = client.link.served /\ client \in Clients
      /\ \A l \in c.link.served : l \in Nat /\ l <= c.requestId
      /\ \A i \in DOMAIN c.link.down :
           c.link.down[i].type \in Errors => c.link.down[i].id \notin c.link.served
      /\ \A i \in DOMAIN c.link.up :
           Up(c, i, "subscribe") => c.link.up[i].id \notin c.link.served
      /\ f \in Messages(Requests) /\ f.id \in Nat
  BY TakenUpFacts
<1>2. \A x, V : /\ Answer(x) = Told(c, x, client.link.served)
                /\ [Answer(x) EXCEPT !.link.served = V] = Told(c, x, V)
  BY <1>1, TakenUpForms
<1> HIDE DEF c
<1>3. Ending(f) = Nobody
  BY DEF Ending
<1>4. f.sub \in Subs /\ f.cap \in Capabilities /\ f.cap \in 0..MaxCapability
  BY <1>1, Bounds DEF RequestSaysTruth, Messages
<1>5. Granted(granted) /\ faults \in 0..MaxFaults
  BY DEF IInv
<1>6. CASE /\ client' = [Answer(Frame("subscribed", f.id, f.sub, f.cap))
                           EXCEPT !.link.served = @ \cup {f.id}]
           /\ granted' = granted \cup {<<f.sub, f.cap>>}
           /\ UNCHANGED faults
  <2> DEFINE x == Frame("subscribed", f.id, f.sub, f.cap)
             V == client.link.served \cup {f.id}
             h == granted \cup {<<f.sub, f.cap>>}
  <2>1. /\ x \in Messages(Replies) /\ x.type = "subscribed" /\ x.id = f.id
        /\ x.sub = f.sub /\ x.cap = f.cap
    BY <1>1, <1>4, FrameFacts DEF Replies
  <2> HIDE DEF x
  <2>2. client' = Told(c, x, V)
    <3>1. client' = [Answer(x) EXCEPT !.link.served = @ \cup {f.id}]
      BY <1>6 DEF x
    <3>2. Answer(x).link.served = client.link.served
      BY <1>1, ClientFields DEF Answer, Clients, Links
    <3>3. [Answer(x) EXCEPT !.link.served = @ \cup {f.id}] = [Answer(x) EXCEPT !.link.served = V]
      BY <3>2
    <3> QED
      BY <1>2, <3>1, <3>3
  <2>3. MayTell(c, h, x, V)
    <3>1. x.id \in Nat /\ x.id <= c.requestId /\ V \subseteq Nat /\ \A l \in V : l <= c.requestId
      BY <1>1, <2>1 DEF RequestSaysTruth
    <3>2. About(c, x)
      BY <1>1, <2>1 DEF RequestSaysTruth, About
    <3>3. <<x.sub, x.cap>> \in h
      BY <2>1
    <3>4. /\ \A i \in DOMAIN c.link.up : Up(c, i, "subscribe") => c.link.up[i].id \notin V
          /\ \A i \in DOMAIN c.link.down :
               c.link.down[i].type \in Errors => c.link.down[i].id \notin V
      BY <1>1 DEF RequestSaysTruth
    <3>5. x.type \notin Errors /\ x.type # "renewed"
      BY <2>1 DEF Errors
    <3> QED
      BY <2>1, <3>1, <3>2, <3>3, <3>4, <3>5 DEF MayTell
  <2>4. \A l \in V : \/ l \in c.link.served /\ l \notin Ending(f)
                     \/ x.type = "subscribed" /\ x.id = l
    BY <1>1, <1>3, <2>1 DEF Nobody
  <2> HIDE DEF V, h
  <2>5. granted' = h /\ granted \subseteq h
    BY <1>6 DEF h
  <2>6. Inv(Told(c, x, V), h)
    BY <1>1, <2>3, <2>4, <2>5, TellSound
  <2>7. Granted(granted')
    <3>1. granted' = granted \cup {<<f.sub, f.cap>>}
      BY <1>6
    <3> QED
      BY <1>4, <1>5, <3>1 DEF Granted
  <2> QED
    BY <1>5, <1>6, <2>2, <2>5, <2>6, <2>7 DEF Preserved
<1>7. CASE /\ faults < MaxFaults
           /\ faults' = faults + 1
           /\ \E code \in {"rejected_overloaded", "rejected_expired", "rejected_denied"} :
                client' = Answer(Frame(code, f.id, f.sub, f.cap))
           /\ UNCHANGED granted
  <2>1. PICK code \in {"rejected_overloaded", "rejected_expired", "rejected_denied"} :
          client' = Answer(Frame(code, f.id, f.sub, f.cap))
    BY <1>7
  <2> DEFINE x == Frame(code, f.id, f.sub, f.cap)
             V == client.link.served
  <2>2. /\ x \in Messages(Replies) /\ x.type = code /\ x.id = f.id
        /\ x.sub = f.sub /\ x.cap = f.cap
    <3>1. code \in Replies
      BY DEF Replies
    <3> QED
      BY <1>1, <1>4, <3>1, FrameFacts
  <2> HIDE DEF x
  <2>3. client' = Told(c, x, V)
    BY <1>2, <2>1 DEF x
  <2>4. MayTell(c, granted, x, V)
    <3>1. x.id \in Nat /\ x.id <= c.requestId /\ V \subseteq Nat /\ \A l \in V : l <= c.requestId
      BY <1>1, <2>2 DEF RequestSaysTruth
    <3>2. x.type \notin Errors \cup {"renewed", "subscribed"}
      BY <2>2 DEF Errors
    <3> QED
      BY <1>1, <2>2, <3>1, <3>2 DEF MayTell
  <2>5. \A l \in V : \/ l \in c.link.served /\ l \notin Ending(f)
                     \/ x.type = "subscribed" /\ x.id = l
    BY <1>1, <1>3 DEF Nobody
  <2> HIDE DEF V
  <2>6. Inv(Told(c, x, V), granted)
    BY <1>1, <2>4, <2>5, TellSound
  <2>7. faults' \in 0..MaxFaults
    BY <1>5, <1>7, Bounds
  <2> QED
    BY <1>5, <1>7, <2>3, <2>6, <2>7 DEF Preserved
<1> QED
  BY <1>6, <1>7 DEF ServeSubscribe

LEMMA ServeRenewStep ==
  ASSUME IInv, client.link.up # <<>>, Quiet, NEW f, f = Head(client.link.up),
         f.type = "renew", ServeRenew(f)
  PROVE  Preserved
<1> DEFINE c == TakenUp(client)
<1>1. /\ Sound(c, granted, Nobody, Ending(f)) /\ RequestSaysTruth(c, f)
      /\ c.stack = Empty /\ c.socket = "open" /\ c.terminal = "no" /\ c \in Clients
      /\ c.link.served = client.link.served /\ client \in Clients
      /\ \A l \in c.link.served : l \in Nat /\ l <= c.requestId
      /\ \A i \in DOMAIN c.link.down :
           c.link.down[i].type \in Errors => c.link.down[i].id \notin c.link.served
      /\ \A i \in DOMAIN c.link.up :
           Up(c, i, "subscribe") => c.link.up[i].id \notin c.link.served
      /\ f \in Messages(Requests) /\ f.id \in Nat
  BY TakenUpFacts
<1>2. /\ \A x : Answer(x) = Told(c, x, client.link.served)
      /\ [client EXCEPT !.link.up = Tail(@)] = c
  BY <1>1, TakenUpForms
<1> HIDE DEF c
<1>3. Ending(f) = Nobody
  BY DEF Ending
<1>4. f.sub \in Subs /\ f.cap \in Capabilities /\ f.cap \in 0..MaxCapability
  BY <1>1, Bounds DEF RequestSaysTruth, Messages
<1>5. Granted(granted) /\ faults \in 0..MaxFaults /\ faults' = faults
  BY DEF IInv, ServeRenew
<1>6. CASE /\ client' = Answer(Frame("renewed", f.id, f.sub, f.cap))
           /\ granted' = granted \cup {<<f.sub, f.cap>>}
  <2> DEFINE x == Frame("renewed", f.id, f.sub, f.cap)
             V == client.link.served
             h == granted \cup {<<f.sub, f.cap>>}
  <2>1. /\ x \in Messages(Replies) /\ x.type = "renewed" /\ x.id = f.id
        /\ x.sub = f.sub /\ x.cap = f.cap
    BY <1>1, <1>4, FrameFacts DEF Replies
  <2> HIDE DEF x
  <2>2. client' = Told(c, x, V)
    BY <1>2, <1>6 DEF x
  <2>3. MayTell(c, h, x, V)
    <3>1. x.id \in Nat /\ x.id <= c.requestId /\ V \subseteq Nat /\ \A l \in V : l <= c.requestId
      BY <1>1, <2>1 DEF RequestSaysTruth
    <3>2. Renews(c, f)
      BY <1>1 DEF RequestSaysTruth
    <3>3. Renews(c, x)
      BY <2>1, <3>2 DEF Renews
    <3>4. \A s \in Subs : Live(c, x.id, s) =>
            /\ \A i \in DOMAIN c.link.up : Up(c, i, "renew") => c.link.up[i].id # x.id
            /\ \A i \in DOMAIN c.link.down : Down(c, i, "renewed") => c.link.down[i].id # x.id
      BY <1>1, <2>1 DEF RequestSaysTruth
    <3>5. <<x.sub, x.cap>> \in h
      BY <2>1
    <3>6. x.type \notin Errors /\ x.type # "subscribed"
      BY <2>1 DEF Errors
    <3> QED
      BY <1>1, <2>1, <3>1, <3>3, <3>4, <3>5, <3>6 DEF MayTell
  <2>4. \A l \in V : \/ l \in c.link.served /\ l \notin Ending(f)
                     \/ x.type = "subscribed" /\ x.id = l
    BY <1>1, <1>3 DEF Nobody
  <2> HIDE DEF V, h
  <2>5. granted' = h /\ granted \subseteq h
    BY <1>6 DEF h
  <2>6. Inv(Told(c, x, V), h)
    BY <1>1, <2>3, <2>4, <2>5, TellSound
  <2>7. Granted(granted')
    <3>1. granted' = granted \cup {<<f.sub, f.cap>>}
      BY <1>6
    <3> QED
      BY <1>4, <1>5, <3>1 DEF Granted
  <2> QED
    BY <1>5, <2>2, <2>5, <2>6, <2>7 DEF Preserved
<1>7. CASE client' = [client EXCEPT !.link.up = Tail(@)] /\ UNCHANGED granted
  BY <1>1, <1>2, <1>3, <1>5, <1>7 DEF Preserved, Inv
<1> QED
  BY <1>6, <1>7 DEF ServeRenew

LEMMA ServeUnsubscribeStep ==
  ASSUME IInv, client.link.up # <<>>, Quiet, NEW f, f = Head(client.link.up),
         f.type = "unsubscribe", ServeUnsubscribe(f)
  PROVE  Preserved
<1> DEFINE c == TakenUp(client)
<1>1. /\ Sound(c, granted, Nobody, Ending(f)) /\ RequestSaysTruth(c, f)
      /\ c.stack = Empty /\ c.socket = "open" /\ c.terminal = "no" /\ c \in Clients
      /\ c.link.served = client.link.served /\ client \in Clients
      /\ \A l \in c.link.served : l \in Nat /\ l <= c.requestId
      /\ \A i \in DOMAIN c.link.down :
           c.link.down[i].type \in Errors => c.link.down[i].id \notin c.link.served
      /\ \A i \in DOMAIN c.link.up :
           Up(c, i, "subscribe") => c.link.up[i].id \notin c.link.served
      /\ f \in Messages(Requests) /\ f.id \in Nat
  BY TakenUpFacts
<1>2. \A x, V : [Answer(x) EXCEPT !.link.served = V] = Told(c, x, V)
  BY <1>1, TakenUpForms
<1> HIDE DEF c
<1>3. Ending(f) = {f.id}
  BY DEF Ending
<1>4. f.sub \in Subs \cup {0} /\ 0 \in 0..MaxCapability
  BY <1>1, Bounds DEF Messages
<1>5. Granted(granted) /\ faults \in 0..MaxFaults /\ faults' = faults /\ granted' = granted
  BY DEF IInv, ServeUnsubscribe
<1> DEFINE x == Frame("unsubscribed", f.id, f.sub, 0)
           V == client.link.served \ {f.id}
<1>6. /\ x \in Messages(Replies) /\ x.type = "unsubscribed" /\ x.id = f.id
  BY <1>1, <1>4 DEF Replies, Frame, Messages
<1> HIDE DEF x
<1>7. client' = Told(c, x, V)
  <2>1. client' = [Answer(x) EXCEPT !.link.served = @ \ {f.id}]
    BY DEF x, ServeUnsubscribe
  <2>2. Answer(x).link.served = client.link.served
    BY <1>1, ClientFields DEF Answer, Clients, Links
  <2>3. [Answer(x) EXCEPT !.link.served = @ \ {f.id}] = [Answer(x) EXCEPT !.link.served = V]
    BY <2>2
  <2> QED
    BY <1>2, <2>1, <2>3
<1>8. MayTell(c, granted, x, V)
  <2>1. x.id \in Nat /\ x.id <= c.requestId /\ V \subseteq Nat /\ \A l \in V : l <= c.requestId
    BY <1>1, <1>6 DEF RequestSaysTruth
  <2>2. x.type \notin Errors \cup {"renewed", "subscribed"}
    BY <1>6 DEF Errors
  <2> QED
    BY <1>1, <1>6, <2>1, <2>2 DEF MayTell
<1>9. \A l \in V : \/ l \in c.link.served /\ l \notin Ending(f)
                   \/ x.type = "subscribed" /\ x.id = l
  BY <1>1, <1>3
<1> HIDE DEF V
<1>10. Inv(Told(c, x, V), granted)
  BY <1>1, <1>8, <1>9, TellSound
<1> QED
  BY <1>5, <1>7, <1>10 DEF Preserved

LEMMA ServiceAnswerStep ==
  ASSUME IInv, ServiceAnswer
  PROVE  Preserved
<1> DEFINE f == Head(client.link.up)
<1>1. Quiet /\ client.link.up # <<>>
  BY DEF ServiceAnswer
<1>2. \/ f.type = "subscribe" /\ ServeSubscribe(f)
      \/ f.type = "renew" /\ ServeRenew(f)
      \/ f.type = "unsubscribe" /\ ServeUnsubscribe(f)
  BY DEF ServiceAnswer
<1> QED
  BY <1>1, <1>2, ServeSubscribeStep, ServeRenewStep, ServeUnsubscribeStep

\* The service speaks first of a query it serves.
LEMMA SpeaksSound ==
  ASSUME IInv, Quiet, NEW l \in client.link.served,
         NEW type \in Errors \cup {"baseline"},
         NEW V, V \in {client.link.served, client.link.served \ {l}},
         type \in Errors => V = client.link.served \ {l}
  PROVE  Inv(Told(client, Frame(type, l, 0, 0), V), granted)
<1>1. Inv(client, granted) /\ client.stack = Empty
  BY QuietStack DEF IInv
<1>2. Core(client, granted) /\ Sound(client, granted, Nobody, Nobody)
  BY <1>1 DEF Inv, Sound
<1>3. client \in Clients /\ client.link.served \subseteq Nat /\ l \in Nat
  <2>1. client \in Clients
    BY <1>2 DEF Core
  <2> QED
    BY <2>1, ClientFields, LinkFields
<1>4. client.socket = "open"
  <2> SUFFICES ASSUME client.socket # "open" PROVE FALSE
    OBVIOUS
  <2>1. client.link = NoLink
    BY <1>2 DEF Core, WireSound
  <2> QED
    BY <2>1 DEF NoLink
<1>5. client.terminal = "no"
  BY <1>1, <1>2, <1>4, Unawaited DEF Sound
<1> DEFINE x == Frame(type, l, 0, 0)
<1>6. x \in Messages(Replies) /\ x.type = type /\ x.id = l
  BY <1>3, Bounds DEF Replies, Errors, Frame, Messages
<1> HIDE DEF x
<1>7. MayTell(client, granted, x, V)
  <2>1. \A k \in client.link.served : k <= client.requestId
    BY <1>2 DEF Core, IdsFresh
  <2>2. /\ \A i \in DOMAIN client.link.up :
             Up(client, i, "subscribe") => client.link.up[i].id \notin client.link.served
        /\ \A i \in DOMAIN client.link.down :
             client.link.down[i].type \in Errors =>
               client.link.down[i].id \notin client.link.served
    BY <1>2 DEF Core, ServedIds
  <2>3. V \subseteq client.link.served
    OBVIOUS
  <2>4. x.type \notin {"subscribed", "renewed"}
    BY <1>6 DEF Errors
  <2>5. x.type \in Errors => x.id \notin V
    BY <1>6
  <2> QED
    BY <1>3, <1>6, <2>1, <2>2, <2>3, <2>4, <2>5 DEF MayTell
<1>8. \A k \in V : \/ k \in client.link.served /\ k \notin Nobody
                   \/ x.type = "subscribed" /\ x.id = k
  BY DEF Nobody
<1>9. Inv(Told(client, x, V), granted)
  BY <1>1, <1>2, <1>4, <1>5, <1>7, <1>8, TellSound
<1> QED
  BY <1>9 DEF x

LEMMA ServiceBaselineStep ==
  ASSUME IInv, ServiceBaseline
  PROVE  Preserved
<1>1. Quiet /\ granted' = granted /\ faults' = faults
  BY DEF ServiceBaseline
<1>2. PICK l \in client.link.served :
        client' = [client EXCEPT !.link.down = Append(@, Frame("baseline", l, 0, 0))]
  BY DEF ServiceBaseline, Served
<1>3. client \in Clients
  BY DEF IInv, Inv, Sound, Core
<1>4. client' = Told(client, Frame("baseline", l, 0, 0), client.link.served)
  BY <1>2, <1>3, TakenUpForms
<1>5. Inv(client', granted)
  <2>1. "baseline" \in Errors \cup {"baseline"} /\ "baseline" \notin Errors
    BY DEF Errors
  <2> QED
    BY <1>1, <1>4, <2>1, SpeaksSound
<1> QED
  BY <1>1, <1>5 DEF Preserved, IInv

LEMMA ServiceErrorStep ==
  ASSUME IInv, ServiceError
  PROVE  Preserved
<1>1. Quiet /\ granted' = granted /\ faults < MaxFaults /\ faults' = faults + 1
  BY DEF ServiceError
<1>2. PICK l \in client.link.served, code \in Errors :
        client' = [client EXCEPT !.link.served = @ \ {l},
                                 !.link.down = Append(@, Frame(code, l, 0, 0))]
  BY DEF ServiceError, Served, Errors
<1>3. client \in Clients
  BY DEF IInv, Inv, Sound, Core
<1> DEFINE V == client.link.served \ {l}
           x == Frame(code, l, 0, 0)
<1>4. client' = Told(client, x, V)
  <2>1. client' = [client EXCEPT !.link.served = V, !.link.down = Append(@, x)]
    BY <1>2
  <2> HIDE DEF V, x
  <2> QED
    BY <1>3, <2>1, TakenUpForms
<1>5. Inv(client', granted)
  <2>1. code \in Errors \cup {"baseline"}
    BY <1>2
  <2> QED
    BY <1>1, <1>4, <2>1, SpeaksSound
<1>6. faults' \in 0..MaxFaults
  BY <1>1, Bounds DEF IInv
<1> QED
  BY <1>1, <1>5, <1>6 DEF Preserved, IInv

-----------------------------------------------------------------------------
(* The rest of the client's steps.                                         *)

LEMMA ReceiveReadyStep ==
  ASSUME IInv, ReceiveReady
  PROVE  Preserved
<1> DEFINE d == [client EXCEPT !.ready = TRUE, !.stability = client.episode]
           v == [do |-> "sending", sub |-> {}, cap |-> 0]
<1>1. /\ Inv(client, granted) /\ client.stack = Empty
      /\ client' = Push(d, One(v)) /\ granted' = granted /\ faults' = faults
  BY QuietStack DEF IInv, ReceiveReady, Ready, One
<1>2. Core(client, granted) /\ client \in Clients
  BY <1>1 DEF Inv, Sound, Core
<1>3. /\ d \in Clients /\ SameSubs(client, d) /\ SameTables(client, d)
      /\ d.socket = client.socket /\ d.link = client.link /\ d.terminal = client.terminal
      /\ d.stack = client.stack
  BY <1>2 DEF Clients, SameSubs, SameTables
<1>4. v \in Items /\ v.do = "sending" /\ v.sub = {}
  BY Bounds DEF Items, Works
<1> HIDE DEF d, v
<1>5. Core(d, granted)
  <2>1. SameRoutes(client, d)
    BY <1>3 DEF SameRoutes, SameSubs
  <2>2. /\ TablesSound(d) /\ IdsFresh(d) /\ DeliveringIsLive(d) /\ WireSound(d, granted)
        /\ OneRenewal(d) /\ ServedIds(d)
    BY <1>2, <1>3, <2>1, RoutesTransfer DEF Core, SameSubs
  <2>3. StackSound(d)
    <3>1. DOMAIN d.stack = {}
      BY <1>1, <1>3, EmptyFacts
    <3> QED
      BY <3>1 DEF StackSound, PairSound
  <2>4. SubsSound(d) /\ Truthful(d, granted)
    BY <1>2, <1>3 DEF Core, SubsSound, Truthful, SameSubs
  <2> QED
    BY <1>3, <2>2, <2>3, <2>4 DEF Core
<1>6. Sound(d, granted, Nobody, Nobody)
  <2>1. \A s \in Subs : Consistent(d, s)
    <3> TAKE s \in Subs
    <3>1. Consistent(client, s)
      BY <1>1 DEF Inv, Sound, Nobody
    <3> QED
      BY <1>3, <3>1
        DEF Consistent, Live, Corrected, Corrects, Replacing, SameSubs, SameTables
  <2>2. ~Terminating(client)
    BY <1>1, Unawaited
  <2>3. /\ client.terminal # "no" => client.socket = "none"
        /\ \A l \in client.link.served : Accounted(client, l)
    BY <1>1, <2>2 DEF Inv, Sound, Nobody
  <2>4. \A l \in d.link.served : Accounted(d, l)
    BY <1>3, <2>3 DEF Accounted, Live, Up, Down, SameTables
  <2> QED
    BY <1>3, <1>5, <2>1, <2>3, <2>4 DEF Sound
<1>7. Inv(client', granted)
  BY <1>1, <1>3, <1>4, <1>6, PushSending DEF Inv
<1> QED
  BY <1>1, <1>7 DEF Preserved, IInv

LEMMA DropStep ==
  ASSUME IInv, Drop
  PROVE  Preserved
<1>1. /\ Inv(client, granted) /\ client.stack = Empty /\ client.socket = "open"
      /\ granted' = granted /\ faults' = faults + 1 /\ faults < MaxFaults
      /\ client' = IF HalfClosed THEN [client EXCEPT !.socket = "closing", !.link = NoLink]
                   ELSE CloseSocket(client)
  BY QuietStack DEF IInv, Drop
<1>2. Core(client, granted) /\ client \in Clients /\ \A s \in Subs : Consistent(client, s)
  BY <1>1 DEF Inv, Sound, Core, Nobody
<1>3. faults' \in 0..MaxFaults
  BY <1>1, Bounds DEF IInv
<1>4. CASE ~HalfClosed
  <2>1. Sound(CloseSocket(client), granted, Nobody, Nobody)
    BY <1>1, <1>2, CloseSocketSound, Unawaited
  <2> QED
    BY <1>1, <1>3, <1>4, <2>1 DEF Preserved, IInv, Inv
<1>5. CASE HalfClosed
  <2> DEFINE d == [client EXCEPT !.socket = "closing", !.link = NoLink]
  <2>1. client' = d
    BY <1>1, <1>5
  <2>2. /\ d \in Clients /\ SameSubs(client, d) /\ SameTables(client, d)
        /\ d.socket = "closing" /\ d.link = NoLink /\ d.ready = client.ready
        /\ d.terminal = client.terminal /\ d.stack = client.stack
    BY <1>2, NoLinkFacts DEF Clients, SameSubs, SameTables
  <2> HIDE DEF d
  <2>3. client.terminal = "no"
    BY <1>1, Unawaited DEF Inv, Sound
  <2>4. TablesSound(d) /\ DeliveringIsLive(d)
    BY <1>2, <2>2
      DEF Core, TablesSound, DeliveringIsLive, Pending, Live, Ended, SameTables, SameSubs
  <2>5. IdsFresh(d)
    <3>1. DOMAIN d.link.up = {} /\ DOMAIN d.link.down = {} /\ d.link.served = {}
      BY <2>2, NoLinkFacts
    <3>2. d.sub = client.sub /\ d.requestId = client.requestId
          /\ d.targets = client.targets /\ d.detaching = client.detaching
      BY <2>2 DEF SameTables, SameSubs
    <3> QED
      BY <1>2, <3>1, <3>2 DEF Core, IdsFresh
  <2>6. StackSound(d)
    <3>1. DOMAIN d.stack = {}
      BY <1>1, <2>2, EmptyFacts
    <3> QED
      BY <3>1 DEF StackSound, PairSound
  <2>7. SubsSound(d) /\ Truthful(d, granted)
    BY <1>1, <1>2, <2>2 DEF Core, SubsSound, Truthful, SameSubs
  <2>8. WireSound(d, granted) /\ OneRenewal(d) /\ ServedIds(d)
    BY <2>2, NoLinkFacts DEF WireSound, OneRenewal, ServedIds, Up, Down
  <2>9. \A s \in Subs : Consistent(d, s)
    <3> TAKE s \in Subs
    <3>1. Consistent(client, s)
      BY <1>2
    <3> QED
      BY <2>2, <3>1
        DEF Consistent, Live, Corrected, Corrects, Replacing, SameSubs, SameTables
  <2>10. Inv(d, granted)
    BY <2>2, <2>3, <2>4, <2>5, <2>6, <2>7, <2>8, <2>9, NoLinkFacts DEF Inv, Sound, Core, Nobody
  <2> QED
    BY <1>1, <1>3, <2>1, <2>10 DEF Preserved, IInv
<1> QED
  BY <1>4, <1>5

LEMMA CloseEventStep ==
  ASSUME IInv, CloseEvent
  PROVE  Preserved
<1>1. /\ Inv(client, granted) /\ client.stack = Empty
      /\ client' = CloseSocket(client) /\ granted' = granted /\ faults' = faults
  BY QuietStack DEF IInv, CloseEvent
<1>2. Core(client, granted) /\ client \in Clients /\ \A s \in Subs : Consistent(client, s)
  BY <1>1 DEF Inv, Sound, Core, Nobody
<1>3. Sound(CloseSocket(client), granted, Nobody, Nobody)
  BY <1>1, <1>2, CloseSocketSound, Unawaited
<1> QED
  BY <1>1, <1>3 DEF Preserved, IInv, Inv

LEMMA GivingUpSound ==
  ASSUME NEW c, NEW g, Inv(c, g), c.stack = Empty,
         NEW why \in {"protocol", "fatal", "exhausted"}
  PROVE  Inv(Terminate(c, why), g)
<1>1. \A s \in Subs : LiveClosed(c, s)
  BY Unawaited
<1>2. Sound(c, g, Nobody, Nobody)
  BY DEF Inv
<1> QED
  BY <1>1, <1>2, TerminateSound DEF Inv

LEMMA FatalErrorStep ==
  ASSUME IInv, FatalError
  PROVE  Preserved
<1>1. /\ Inv(client, granted) /\ client.stack = Empty
      /\ client' = Terminate(client, "fatal") /\ granted' = granted
      /\ faults' = faults + 1 /\ faults < MaxFaults
  BY QuietStack DEF IInv, FatalError
<1>2. Inv(client', granted)
  BY <1>1, GivingUpSound
<1>3. faults' \in 0..MaxFaults
  BY <1>1, Bounds DEF IInv
<1> QED
  BY <1>1, <1>2, <1>3 DEF Preserved, IInv

\* Timers are no part of the invariant.
LEMMA TimersSound ==
  ASSUME NEW c, NEW g, Inv(c, g), NEW d \in Clients, SameSubs(c, d), SameTables(c, d),
         SameWire(c, d), d.stack = c.stack
  PROVE  Inv(d, g)
BY FrameSound DEF Inv

LEMMA TimerStep ==
  ASSUME IInv, ReconnectDelay \/ ReconnectDeadline \/ Stable
  PROVE  Preserved
<1>1. /\ Inv(client, granted) /\ client.stack = Empty
      /\ granted' = granted /\ faults' = faults
  BY QuietStack DEF IInv, ReconnectDelay, ReconnectDeadline, Stable
<1>2. client \in Clients
  BY <1>1 DEF Inv, Sound, Core
<1>3. CASE ReconnectDelay
  <2> DEFINE c == [client EXCEPT !.reconnectTimer = FALSE]
  <2>1. client' = IF c.active = {} THEN c ELSE Connect(c)
    BY <1>3 DEF ReconnectDelay
  <2>2. /\ c \in Clients /\ SameSubs(client, c) /\ SameTables(client, c)
        /\ SameWire(client, c) /\ c.stack = client.stack
    BY <1>2 DEF Clients, SameSubs, SameTables, SameWire
  <2> HIDE DEF c
  <2>3. Inv(c, granted)
    BY <1>1, <2>2, TimersSound
  <2>4. Inv(Connect(c), granted)
    BY <2>3, ConnectSound DEF Inv
  <2>5. Inv(client', granted)
    BY <2>1, <2>3, <2>4
  <2> QED
    BY <1>1, <2>5 DEF Preserved, IInv
<1>4. CASE ReconnectDeadline
  <2> DEFINE c == [client EXCEPT !.deadline = FALSE]
  <2>1. client' = IF c.episode THEN Terminate(c, "exhausted") ELSE c
    BY <1>4 DEF ReconnectDeadline
  <2>2. /\ c \in Clients /\ SameSubs(client, c) /\ SameTables(client, c)
        /\ SameWire(client, c) /\ c.stack = client.stack
    BY <1>2 DEF Clients, SameSubs, SameTables, SameWire
  <2> HIDE DEF c
  <2>3. Inv(c, granted)
    BY <1>1, <2>2, TimersSound
  <2>4. Inv(Terminate(c, "exhausted"), granted)
    BY <1>1, <2>2, <2>3, GivingUpSound
  <2>5. Inv(client', granted)
    BY <2>1, <2>3, <2>4
  <2> QED
    BY <1>1, <2>5 DEF Preserved, IInv
<1>5. CASE Stable
  <2> DEFINE c == [client EXCEPT !.stability = FALSE, !.episode = FALSE, !.deadline = FALSE]
  <2>1. client' = c
    BY <1>5 DEF Stable
  <2>2. /\ c \in Clients /\ SameSubs(client, c) /\ SameTables(client, c)
        /\ SameWire(client, c) /\ c.stack = client.stack
    BY <1>2 DEF Clients, SameSubs, SameTables, SameWire
  <2> HIDE DEF c
  <2>3. Inv(c, granted)
    BY <1>1, <2>2, TimersSound
  <2> QED
    BY <1>1, <2>1, <2>3 DEF Preserved, IInv
<1> QED
  BY <1>3, <1>4, <1>5

LEMMA RecoveryStep ==
  ASSUME IInv, Recovery
  PROVE  Preserved
<1>1. /\ Inv(client, granted) /\ client.stack = Empty
      /\ granted' = granted /\ faults' = faults
  BY QuietStack DEF IInv, Recovery
<1>2. PICK s \in Subs : RecoveryDelay(s) \/ RecoveryDeadline(s) \/ RecoveryStable(s)
  BY DEF Recovery
<1>3. client.sub[s].state # "new"
  <2>1. client.sub[s].recovery # "idle"
    BY <1>2 DEF RecoveryDelay, RecoveryDeadline, RecoveryStable
  <2>2. SubSound(client.sub[s])
    BY <1>1 DEF Inv, Sound, Core, SubsSound
  <2>3. NewSub.recovery = "idle"
    BY DEF NewSub
  <2> QED
    BY <2>1, <2>2, <2>3 DEF SubSound
<1> DEFINE d(v) == Recovering(client, s, v)
<1>4. \A v \in {"idle", "trying"} :
        /\ d(v) \in Clients /\ Sound(d(v), granted, Nobody, Nobody) /\ d(v).stack = Empty
        /\ d(v).sub[s].state = client.sub[s].state
  <2>1. Sound(client, granted, Nobody, Nobody)
    BY <1>1 DEF Inv
  <2> QED
    BY <1>1, <1>3, <2>1, RecoverySound
<1>5. ASSUME RecoveryDelay(s) PROVE Inv(client', granted)
  <2>1. client' = SendSubscribe(d("trying"), s)
    BY <1>5 DEF RecoveryDelay, Recovering
  <2> HIDE DEF d
  <2>2. ~Replacing(d("trying"), s)
    BY <1>4, Unawaited
  <2> QED
    BY <1>4, <2>1, <2>2, SendSubscribeSound DEF Inv
<1>6. ASSUME RecoveryDeadline(s) PROVE Inv(client', granted)
  <2>1. client' = FailLocal(d("idle"), s)
    BY <1>6 DEF RecoveryDeadline, Recovering
  <2> DEFINE e == d("idle")
  <2>2. /\ e \in Clients /\ Sound(e, granted, Nobody, Nobody) /\ e.stack = Empty
        /\ e.sub[s].state # "new"
    BY <1>3, <1>4
  <2> HIDE DEF e, d
  <2>3. CASE Ended(e.sub[s])
    <3>1. FailLocal(e, s) = e
      BY <2>3 DEF FailLocal, Ended
    <3> QED
      BY <2>1, <2>2, <3>1 DEF Inv, e
  <2>4. CASE ~Ended(e.sub[s])
    <3>1. SameSubs(e, e) /\ SameWire(e, e)
      BY DEF SameSubs, SameWire
    <3>2. \A i \in DOMAIN e.stack : FALSE
      BY <2>2, Unawaited
    <3>3. \A l \in e.link.served : l \in Nobody => Accounted(e, l) /\ l # e.sub[s].liveId
      BY DEF Nobody
    <3>4. Sound(FailLocal(e, s), granted, Nobody, Nobody)
      BY <2>2, <2>4, <3>1, <3>2, <3>3, FailLocalSound
    <3> QED
      BY <2>1, <3>4 DEF Inv, e
  <2> QED
    BY <2>3, <2>4
<1>7. ASSUME RecoveryStable(s) PROVE Inv(client', granted)
  <2>1. client' = d("idle")
    BY <1>7 DEF RecoveryStable, Recovering
  <2> QED
    BY <1>4, <2>1 DEF Inv
<1>8. Inv(client', granted)
  BY <1>2, <1>5, <1>6, <1>7
<1> QED
  BY <1>1, <1>8 DEF Preserved, IInv

LEMMA HandlerStep ==
  ASSUME IInv, Handler
  PROVE  Preserved
<1> DEFINE w == Head(client.stack)
<1>1. /\ Inv(client, granted) /\ Granted(granted) /\ client.stack # <<>>
      /\ granted' = granted /\ faults' = faults
  BY DEF IInv, Handler
<1>2. PICK s \in Subs, exhausted \in Exhaustible :
        /\ Remaining(client, w) = {} \/ s \in Remaining(client, w)
        /\ client' = Work(Popped(client), w, s, exhausted)
  BY DEF Handler, Popped
<1>3. exhausted \in BOOLEAN
  BY DEF Exhaustible
<1>4. Inv(client', granted)
  BY <1>1, <1>2, <1>3, WorkSound
<1> QED
  BY <1>1, <1>4 DEF Preserved, IInv

LEMMA RestoreStep ==
  ASSUME IInv, Restore
  PROVE  Preserved
<1>1. /\ Inv(client, granted) /\ client.stack = Empty
      /\ granted' = granted /\ faults' = faults
  BY DEF IInv, Restore, Empty
<1>2. PICK s \in Subs, k \in Capabilities :
        /\ client.sub[s].answers[k] = "rejected" /\ client.sub[s].prior[k] # "none"
        /\ client' = [client EXCEPT !.sub[s].prior[k] = "none",
                                    !.sub[s].status = IF @ \in {"error", "closed"} THEN @
                                                      ELSE client.sub[s].prior[k]]
  BY DEF Restore, Owed
<1>3. Inv(client', granted)
  BY <1>1, <1>2, RestoreSound
<1> QED
  BY <1>1, <1>3 DEF Preserved, IInv

LEMMA ApplicationStep ==
  ASSUME IInv, Application
  PROVE  Preserved
<1>1. /\ Inv(client, granted) /\ Granted(granted) /\ ~client.disposed
      /\ granted' = granted /\ faults' = faults
  BY DEF IInv, Application
<1>2. \/ \E s \in Subs : client.sub[s].state = "new" /\ client' = Subscribe(client, s)
      \/ \E s \in Subs : client.sub[s].state # "new" /\ client' = Unsubscribe(client, s)
      \/ \E s \in Subs, k \in Capabilities :
           /\ client.sub[s].state # "new" /\ k > 1
           /\ client.sub[s].answers[k] = "none" /\ client.sub[s].prior[k] = "none"
           /\ \A j \in 2..(k - 1) : client.sub[s].answers[j] # "none"
           /\ client' = Renew(client, s, k)
      \/ client' = Close(client)
  BY DEF Application
<1>3. Inv(client', granted)
  BY <1>1, <1>2, SubscribeSound, UnsubscribeSound, RenewMethodSound, CloseSound
<1> QED
  BY <1>1, <1>3 DEF Preserved, IInv

-----------------------------------------------------------------------------
(* The theorems.                                                           *)

LEMMA InitSound ==
  ASSUME Init
  PROVE  IInv
<1> DEFINE c == client
<1>1. /\ c.sub = [s \in Subs |-> NewSub] /\ c.managed = {} /\ c.active = {}
      /\ c.pendingRequests = {} /\ c.liveSubscriptions = {} /\ c.detaching = {}
      /\ c.targets = {} /\ c.delivering = {} /\ c.requestId = 0
      /\ c.socket = "none" /\ c.ready = FALSE /\ c.disposed = FALSE /\ c.terminal = "no"
      /\ c.link = NoLink /\ c.stack = Empty
  BY DEF Init, Empty
<1>2. c \in Clients
  <2>1. NoLink \in Links /\ Empty \in Seq(Items)
    BY NoLinkFacts DEF Empty
  <2>2. [s \in Subs |-> NewSub] \in [Subs -> SubType]
    BY NewSubSound
  <2> QED
    BY <2>1, <2>2 DEF Init, Clients, Tables, Empty
<1>3. \A s \in Subs : c.sub[s] = NewSub
  BY <1>1
<1> HIDE DEF c
<1>4. /\ NewSub.state = "new" /\ NewSub.status = "connecting" /\ NewSub.liveId = 0
      /\ \A k \in Capabilities : NewSub.answers[k] = "none"
  BY DEF NewSub
<1>5. /\ \A r \in Nat, s \in Subs : ~Pending(c, r, s) /\ ~Live(c, r, s)
  BY <1>1 DEF Pending, Live
<1>6. DOMAIN c.stack = {} /\ DOMAIN c.link.up = {} /\ DOMAIN c.link.down = {}
      /\ c.link.served = {}
  BY <1>1, NoLinkFacts, EmptyFacts
<1>7. TablesSound(c)
  BY <1>5 DEF TablesSound
<1>8. IdsFresh(c) /\ DeliveringIsLive(c)
  BY <1>1, <1>3, <1>4, <1>5, <1>6 DEF IdsFresh, DeliveringIsLive
<1>9. StackSound(c)
  BY <1>6 DEF StackSound, PairSound
<1>10. SubsSound(c) /\ Truthful(c, granted)
  BY <1>1, <1>3, <1>4, NewSubSound DEF SubsSound, Truthful
<1>11. WireSound(c, granted) /\ OneRenewal(c) /\ ServedIds(c)
  BY <1>1, <1>6 DEF WireSound, OneRenewal, ServedIds
<1>12. \A s \in Subs : Consistent(c, s)
  BY <1>3, <1>4 DEF Consistent
<1>13. Inv(c, granted)
  BY <1>1, <1>2, <1>6, <1>7, <1>8, <1>9, <1>10, <1>11, <1>12 DEF Inv, Sound, Core, Nobody
<1>14. Granted(granted) /\ faults \in 0..MaxFaults
  BY Bounds DEF Init, Granted
<1> QED
  BY <1>13, <1>14 DEF IInv, c

LEMMA NextSound ==
  ASSUME IInv, [Next]_vars
  PROVE  IInv'
<1>1. ASSUME Next PROVE Preserved
  <2>1. CASE Handler
    BY <2>1, HandlerStep
  <2>2. CASE Restore
    BY <2>2, RestoreStep
  <2>3. CASE Application
    BY <2>3, ApplicationStep
  <2>4. CASE ServiceAnswer
    BY <2>4, ServiceAnswerStep
  <2>5. CASE ServiceBaseline
    BY <2>5, ServiceBaselineStep
  <2>6. CASE ServiceError
    BY <2>6, ServiceErrorStep
  <2>7. CASE Deliver
    BY <2>7, DeliverStep DEF Preserved, IInv
  <2>8. CASE ReceiveReady
    BY <2>8, ReceiveReadyStep
  <2>9. CASE Drop
    BY <2>9, DropStep
  <2>10. CASE CloseEvent
    BY <2>10, CloseEventStep
  <2>11. CASE FatalError
    BY <2>11, FatalErrorStep
  <2>12. CASE ReconnectDelay \/ ReconnectDeadline \/ Stable
    BY <2>12, TimerStep
  <2>13. CASE Recovery
    BY <2>13, RecoveryStep
  <2> QED
    BY <1>1, <2>1, <2>2, <2>3, <2>4, <2>5, <2>6, <2>7, <2>8, <2>9, <2>10, <2>11, <2>12, <2>13
      DEF Next
<1>2. CASE Next
  BY <1>1, <1>2 DEF Preserved, IInv, Inv
<1>3. CASE UNCHANGED vars
  BY <1>3 DEF vars, IInv, Inv
<1> QED
  BY <1>2, <1>3

\* The inductive invariant.
THEOREM InvariantAlways == Spec => []IInv
<1>1. Init => IInv
  BY InitSound
<1>2. IInv /\ [Next]_vars => IInv'
  BY NextSound
<1> QED
  BY <1>1, <1>2, PTL DEF Spec

LEMMA InvariantFacts ==
  ASSUME IInv
  PROVE  /\ client \in Clients /\ TablesSound(client) /\ IdsFresh(client)
         /\ DeliveringIsLive(client) /\ SubsSound(client) /\ Truthful(client, granted)
         /\ Quiet => /\ \A s \in Subs : client.sub[s].status = "live" =>
                          Live(client, client.sub[s].liveId, s)
                     /\ \A l \in client.link.served : Accounted(client, l)
<1>1. Core(client, granted) /\ Sound(client, granted, Nobody, Nobody)
  BY DEF IInv, Inv, Sound
<1>2. ASSUME Quiet
      PROVE  /\ \A s \in Subs : client.sub[s].status = "live" =>
                  Live(client, client.sub[s].liveId, s)
             /\ \A l \in client.link.served : Accounted(client, l)
  <2>1. client.stack = Empty
    BY <1>2, QuietStack
  <2>2. (\A s : ~Corrected(client, s)) /\ ~Terminating(client)
    BY <1>1, <2>1, Unawaited DEF Core
  <2> QED
    BY <1>1, <2>2 DEF Sound, Nobody, Consistent
<1> QED
  BY <1>1, <1>2 DEF Core

\* The routing tables stay the maps they are, and every field of the client keeps its
\* type, whatever interleaving of the application, listeners, timers and the service.
THEOREM TypeCorrect == Spec => []TypeOK
<1>1. IInv => TypeOK
  <2> SUFFICES ASSUME IInv PROVE TypeOK
    OBVIOUS
  <2>1. client \in Clients /\ TablesSound(client) /\ IdsFresh(client)
        /\ DeliveringIsLive(client)
    BY InvariantFacts
  <2>2. \A e, f \in client.pendingRequests : e[1] = f[1] => e = f
    <3> SUFFICES ASSUME NEW e \in client.pendingRequests, NEW f \in client.pendingRequests,
                        e[1] = f[1]
                 PROVE  e = f
      OBVIOUS
    <3>1. client.pendingRequests \subseteq Nat \X Subs
      BY <2>1, ClientFields DEF Tables
    <3>2. PICK r \in Nat, s \in Subs : e = <<r, s>>
      BY <3>1
    <3>3. PICK t \in Subs : f = <<r, t>>
      BY <3>1, <3>2
    <3> QED
      BY <2>1, <3>2, <3>3 DEF TablesSound, Pending
  <2>3. \A e, f \in client.liveSubscriptions : e[1] = f[1] => e = f
    <3> SUFFICES ASSUME NEW e \in client.liveSubscriptions,
                        NEW f \in client.liveSubscriptions, e[1] = f[1]
                 PROVE  e = f
      OBVIOUS
    <3>1. client.liveSubscriptions \subseteq Nat \X Subs
      BY <2>1, ClientFields DEF Tables
    <3>2. PICK l \in Nat, s \in Subs : e = <<l, s>>
      BY <3>1
    <3>3. PICK t \in Subs : f = <<l, t>>
      BY <3>1, <3>2
    <3>4. l > 0 /\ client.sub[s].liveId = l /\ client.sub[t].liveId = l
      BY <2>1, <3>2, <3>3 DEF TablesSound, Live
    <3>5. s = t
      BY <2>1, <3>4 DEF IdsFresh
    <3> QED
      BY <3>2, <3>3, <3>5
  <2>4. /\ client.sub \in [Subs -> SubType]
        /\ client.managed \subseteq Subs /\ client.active \subseteq Subs
        /\ client.socket \in {"none", "open", "closing"}
        /\ client.terminal \in {"no", "protocol", "fatal", "exhausted"}
    BY <2>1 DEF Clients
  <2>5. client.delivering \subseteq client.targets
    BY <2>1 DEF DeliveringIsLive
  <2>6. granted \subseteq Subs \X Capabilities /\ faults \in 0..MaxFaults
    BY DEF IInv, Granted
  <2> QED
    BY <2>2, <2>3, <2>4, <2>5, <2>6 DEF TypeOK
<1> QED
  BY <1>1, InvariantAlways, PTL

\* renew() resolves only if the service has accepted that capability, or a newer one of
\* the same subscription.
THEOREM RenewalsTruthfulAlways == Spec => []RenewalsTruthful
<1>1. IInv => RenewalsTruthful
  BY InvariantFacts DEF Truthful, RenewalsTruthful
<1> QED
  BY <1>1, InvariantAlways, PTL

\* Through lost connections, retries and newer capabilities a renewal is unanswered only
\* while its active subscription holds it: as the one in flight, or queued.
THEOREM NoRenewalLostAlways == Spec => []NoRenewalLost
<1>1. IInv => NoRenewalLost
  <2> SUFFICES ASSUME IInv, NEW s \in Subs, NEW k \in Capabilities
               PROVE  client.sub[s].answers[k] = "pending" <=>
                        /\ client.sub[s].state = "active" /\ ~client.disposed
                        /\ k \in {client.sub[s].renewing} \cup ToSet(client.sub[s].queued)
    BY DEF NoRenewalLost
  <2>1. SubSound(client.sub[s]) /\ SubsSound(client)
    BY InvariantFacts DEF SubsSound
  <2>2. client.sub[s].answers[k] = "pending" <=> k \in Unanswered(client.sub[s])
    BY <2>1 DEF SubSound, RenewalsSound
  <2>3. client.sub[s].answers[k] = "pending" =>
          client.sub[s].state = "active" /\ s \in client.managed
    BY <2>1 DEF SubSound, SubsSound
  <2>4. client.disposed => client.managed = {}
    BY <2>1 DEF SubsSound
  <2> QED
    BY <2>2, <2>3, <2>4 DEF Unanswered
<1> QED
  BY <1>1, InvariantAlways, PTL

\* getState() says live, between handlers, only for an active subscription whose live query
\* is a target of the reconciler, also when listeners re-enter; with half-closed sockets
\* that query may be one of the socket that was replaced.
THEOREM LiveMeansLiveAlways == Spec => []LiveMeansLive
<1>1. IInv => LiveMeansLive
  <2> SUFFICES ASSUME IInv, Quiet, NEW s \in Subs, client.sub[s].status = "live"
               PROVE  s \in Active /\ client.sub[s].liveId \in client.delivering
    BY DEF LiveMeansLive
  <2>1. /\ client \in Clients /\ TablesSound(client) /\ DeliveringIsLive(client)
        /\ Live(client, client.sub[s].liveId, s)
    BY InvariantFacts
  <2>2. client.sub[s].liveId \in Nat
    BY <2>1, ClientFields, SubFields
  <2> QED
    BY <2>1, <2>2 DEF TablesSound, DeliveringIsLive, Active
<1> QED
  BY <1>1, InvariantAlways, PTL

\* The service never serves a query that nobody reads and nobody is about to
\* unsubscribe, however late it was admitted.
THEOREM NoOrphansAlways == Spec => []NoOrphans
<1>1. IInv => NoOrphans
  <2> SUFFICES ASSUME IInv, Quiet, NEW l \in Served
               PROVE  \/ \E s \in Active : <<l, s>> \in client.liveSubscriptions
                      \/ Travelling({"unsubscribe", "subscribed"}, l)
    BY DEF NoOrphans
  <2>1. client \in Clients /\ TablesSound(client) /\ Accounted(client, l)
    BY InvariantFacts DEF Served
  <2>2. l \in Nat /\ client.link \in Links
    BY <2>1, ClientFields, LinkFields DEF Served
  <2>3. CASE \E s \in Subs : Live(client, l, s)
    BY <2>1, <2>2, <2>3 DEF TablesSound, Active, Live
  <2>4. /\ \A x : x \in ToSet(client.link.up) <=>
                    \E i \in DOMAIN client.link.up : client.link.up[i] = x
        /\ \A x : x \in ToSet(client.link.down) <=>
                    \E i \in DOMAIN client.link.down : client.link.down[i] = x
    BY <2>2, ToSetMember, LinkFields
  <2>5. CASE \E i \in DOMAIN client.link.up :
               Up(client, i, "unsubscribe") /\ client.link.up[i].id = l
    BY <2>4, <2>5 DEF Travelling, Frames, Up
  <2>6. CASE \E i \in DOMAIN client.link.down :
               Down(client, i, "subscribed") /\ client.link.down[i].id = l
    BY <2>4, <2>6 DEF Travelling, Frames, Down
  <2> QED
    BY <2>1, <2>3, <2>5, <2>6 DEF Accounted
<1> QED
  BY <1>1, InvariantAlways, PTL
=============================================================================

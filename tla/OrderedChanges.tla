--------------------------- MODULE OrderedChanges ---------------------------
(***************************************************************************)
(* How one batch of row changes is checked and applied to the ordered rows *)
(* of a query: validateChangeOrder() on the joined program, then           *)
(* applyMaterializedChanges() on a private candidate, contents first and   *)
(* moves by splicing a linked list, and the installation of the result.    *)
(* Each iteration of a loop of the code is a step.                         *)
(*                                                                         *)
(* Rows are a sequence of <<key, value>> pairs, the iteration order of the *)
(* JavaScript Map that holds them.                                         *)
(***************************************************************************)
EXTENDS Naturals, SequencesExt

CONSTANTS
  Keys,         \* row keys
  Values,       \* decoded rows
  Null,         \* no row: the anchor of a move to the top, the end of the list
  MaxChanges    \* bound: changes of a program

ASSUME NullIsNoKey == Null \notin Keys

VARIABLES
  shown,      \* Subscription.rows
  program,    \* the batch's changes
  phase,      \* where prepare() and install() are
  next,       \* the change to apply next
  candidate,  \* the private copy the contents are applied to
  links       \* the linked order of the candidate

vars == <<shown, program, phase, next, candidate, links>>

Change ==
  [op : {"upsert"}, key : Keys, val : Values]
    \cup [op : {"remove"}, key : Keys]
    \cup [op : {"move"}, key : Keys, after : Keys \cup {Null}]

Indices(op) == {i \in DOMAIN program : program[i].op = op}
Contents    == Indices("upsert") \cup Indices("remove")
HasMoves    == Indices("move") # {}

KeysOf(rows) == {rows[i][1] : i \in DOMAIN rows}

NoLinks == [head |-> Null, prev |-> [k \in Keys |-> Null], next |-> [k \in Keys |-> Null]]

Init ==
  /\ \E present \in SUBSET Keys : \E order \in SetToSeqs(present), v \in Values :
       shown = [i \in 1..Len(order) |-> <<order[i], v>>]
  /\ program = <<>>
  /\ phase = "receiving"
  /\ next = 1
  /\ candidate = <<>>
  /\ links = NoLinks

\* Publication bodies bring the changes of the batch.
Receive(c) ==
  /\ phase = "receiving"
  /\ Len(program) < MaxChanges
  /\ program' = Append(program, c)
  /\ UNCHANGED <<shown, phase, next, candidate, links>>

-----------------------------------------------------------------------------
(* validateChangeOrder().                                                  *)

MovesLast == \A i \in Indices("move"), j \in Contents : j < i

MoveOnce ==
  \A i, j \in Indices("move") : i # j =>
    program[i].key # program[j].key /\ program[i].after # program[j].after

NoSelfAnchor == \A i \in Indices("move") : program[i].key # program[i].after

ContentsOnce == \A i, j \in Contents : i # j => program[i].key # program[j].key

\* Neither a moved row nor its anchor is removed by the same program.
NothingRemoved ==
  \A i \in Indices("move"), j \in Indices("remove") :
    program[j].key # program[i].key /\ program[j].key # program[i].after

\* Faulty variant: a row may follow a row that is moved later.
AnchorsAnywhere == TRUE

\* A row may follow a moved row only when that one is placed already.
AnchorsPlaced ==
  \A i, j \in Indices("move") : program[j].key = program[i].after => j < i

ValidOrder ==
  /\ MovesLast
  /\ NoSelfAnchor
  /\ MoveOnce
  /\ HasMoves => ContentsOnce /\ NothingRemoved /\ AnchorsPlaced

\* Faulty variant: a new row without a move goes to the end.
EntrantsAnywhere == TRUE

\* A row that enters an ordered program needs an explicit position.
EntrantsPlaced ==
  HasMoves => \A i \in Indices("upsert") :
    \/ program[i].key \in KeysOf(shown)
    \/ \E j \in Indices("move") : program[j].key = program[i].key

\* prepare() starts on a copy, or throws a ProtocolError.
Prepare ==
  /\ phase = "receiving"
  /\ \/ /\ ~(ValidOrder /\ EntrantsPlaced)
        /\ phase' = "rejected"
        /\ UNCHANGED candidate
     \/ /\ ValidOrder /\ EntrantsPlaced
        /\ phase' = "contents"
        /\ candidate' = shown
  /\ UNCHANGED <<shown, program, next, links>>

-----------------------------------------------------------------------------
(* applyMaterializedChanges().                                             *)

\* Map.set(): a key that is present keeps its place.
MapSet(rows, key, val) ==
  IF key \in KeysOf(rows)
    THEN [i \in DOMAIN rows |-> IF rows[i][1] = key THEN <<key, val>> ELSE rows[i]]
    ELSE Append(rows, <<key, val>>)

MapDelete(rows, key) == SelectSeq(rows, LAMBDA row : row[1] # key)

ApplyContent ==
  /\ phase = "contents"
  /\ next \in Contents
  /\ LET c == program[next]
     IN  \/ c.op = "remove" /\ candidate' = MapDelete(candidate, c.key)
         \/ c.op = "upsert" /\ candidate' = MapSet(candidate, c.key, c.val)
  /\ next' = next + 1
  /\ UNCHANGED <<shown, program, phase, links>>

KeyAt(i) == IF i \in DOMAIN candidate THEN candidate[i][1] ELSE Null

Index(rows, key) == CHOOSE i \in DOMAIN rows : rows[i][1] = key

Place(key) == Index(candidate, key)

\* The temporary list runs through the candidate in its order.
Link ==
  /\ phase = "contents"
  /\ next \notin Contents
  /\ HasMoves
  /\ links' = [head |-> KeyAt(1),
               prev |-> [k \in Keys |-> IF k \in KeysOf(candidate)
                                          THEN KeyAt(Place(k) - 1) ELSE Null],
               next |-> [k \in Keys |-> IF k \in KeysOf(candidate)
                                          THEN KeyAt(Place(k) + 1) ELSE Null]]
  /\ phase' = "moves"
  /\ UNCHANGED <<shown, program, next, candidate>>

Unlink(l, key) ==
  LET p == l.prev[key]
      n == l.next[key]
  IN  [head |-> IF p = Null THEN n ELSE l.head,
       prev |-> [k \in Keys |-> IF k = n THEN p ELSE l.prev[k]],
       next |-> [k \in Keys |-> IF k = p THEN n ELSE l.next[k]]]

\* Faulty variant: the row behind the new place still points to the anchor.
InsertOneWay(l, key, anchor) ==
  LET s == IF anchor = Null THEN l.head ELSE l.next[anchor]
  IN  [head |-> IF anchor = Null THEN key ELSE l.head,
       prev |-> [k \in Keys |-> IF k = key THEN anchor ELSE l.prev[k]],
       next |-> [k \in Keys |-> IF k = key THEN s ELSE IF k = anchor THEN key ELSE l.next[k]]]

InsertAfter(l, key, anchor) ==
  LET s == IF anchor = Null THEN l.head ELSE l.next[anchor]
  IN  [head |-> IF anchor = Null THEN key ELSE l.head,
       prev |-> [k \in Keys |-> IF k = key THEN anchor ELSE IF k = s THEN key ELSE l.prev[k]],
       next |-> [k \in Keys |-> IF k = key THEN s ELSE IF k = anchor THEN key ELSE l.next[k]]]

Move ==
  /\ phase = "moves"
  /\ next \in DOMAIN program
  /\ LET c == program[next]
     IN  \/ /\ {c.key, c.after} \ {Null} \subseteq KeysOf(candidate)
            /\ links' = IF links.prev[c.key] = c.after THEN links
                          ELSE InsertAfter(Unlink(links, c.key), c.key, c.after)
            /\ next' = next + 1
            /\ UNCHANGED phase
         \/ /\ ~({c.key, c.after} \ {Null} \subseteq KeysOf(candidate))
            /\ phase' = "rejected"
            /\ UNCHANGED <<links, next>>
  /\ UNCHANGED <<shown, program, candidate>>

\* The rows along the list.
Ordered ==
  LET walk[n \in 0..Cardinality(Keys)] ==
        IF n = 0 THEN <<links.head>>
        ELSE LET last == walk[n - 1][n]
             IN  Append(walk[n - 1], IF last = Null THEN Null ELSE links.next[last])
      path == SelectSeq(walk[Cardinality(Keys)], LAMBDA k : k # Null)
  IN  [i \in DOMAIN path |-> candidate[Place(path[i])]]

\* install(): the candidate becomes the subscription's rows.
Install ==
  /\ \/ phase = "contents" /\ next \notin Contents /\ ~HasMoves /\ shown' = candidate
     \/ phase = "moves" /\ next \notin DOMAIN program /\ shown' = Ordered
  /\ phase' = "installed"
  /\ UNCHANGED <<program, next, candidate, links>>

Next ==
  \/ \E c \in Change : Receive(c)
  \/ Prepare \/ ApplyContent \/ Link \/ Move \/ Install

Spec == Init /\ [][Next]_vars

-----------------------------------------------------------------------------
(* Properties.                                                             *)

\* After a program, each moved row stands right behind its anchor (or first),
\* whatever moves came before and after it in the program.
MovedBehindAnchor ==
  phase = "installed" => \A i \in Indices("move") :
    Index(shown, program[i].key) =
      IF program[i].after = Null THEN 1 ELSE Index(shown, program[i].after) + 1

\* Installing a program with moves leaves the rows it does not move exactly as
\* they stood: none overtakes another, and none appears among them (at the tail,
\* say) that was not shown before.
UnmovedStandStill ==
  [][HasMoves =>
       LET changed == {program[i].key : i \in Indices("move") \cup Indices("remove")}
           Standing(rows) == SelectSeq([i \in DOMAIN rows |-> rows[i][1]],
                                       LAMBDA k : k \notin changed)
       IN  Standing(shown') = Standing(shown)]_shown

\* While moves are applied the list stays one list through all rows: forward
\* and backward links agree.
ListIntact ==
  phase = "moves" =>
    /\ \A k \in KeysOf(candidate) :
         /\ links.next[k] # Null => links.prev[links.next[k]] = k
         /\ IF links.prev[k] = Null THEN links.head = k ELSE links.next[links.prev[k]] = k
    /\ Len(Ordered) = Len(candidate)

\* Applying a program loses no row and doubles none: the rows are those of the
\* candidate, whose contents are the last ones the program gave, and the list of
\* them stays whole through all moves.
RowsConserved ==
  /\ ListIntact
  /\ phase = "installed" =>
       /\ Cardinality(KeysOf(shown)) = Len(shown)
       /\ ToSet(shown) = ToSet(candidate)
       /\ \A i \in Contents :
            (\A j \in Contents : j > i => program[j].key # program[i].key) =>
              IF program[i].op = "remove" THEN program[i].key \notin KeysOf(shown)
              ELSE <<program[i].key, program[i].val>> \in ToSet(shown)

=============================================================================

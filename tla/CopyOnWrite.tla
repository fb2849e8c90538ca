---------------------------- MODULE CopyOnWrite ----------------------------
(***************************************************************************)
(* Where values are kept.  An octave_value (ov.h, ov.cc) points to a rep   *)
(* that counts how many do: a scalar, a range, or a matrix, which in turn  *)
(* points to an ArrayRep (Array.h, Array.cc) that counts the matrices that *)
(* use it.  Both are shared until somebody writes.  Holders point to reps  *)
(* (here: cells); matrix cells point to ArrayReps (here: blocks).          *)
(***************************************************************************)
EXTENDS Integers, Sequences, FiniteSets

CONSTANTS Vars,       \* variables
          Lits,       \* constants of the program text
          Temps,      \* arguments, operands and right hand sides
          None,       \* no value
          Radix,      \* bound: elements are numbers modulo Radix
          Positions,  \* bound: elements that assignments name
          Inputs,     \* bound: values that appear
          Cells,      \* bound: reps of octave_value
          Blocks,     \* bound: ArrayReps
          Old,        \* old_rep of a conversion
          Tmp,        \* tmp_rhs of a conversion
          NoCell,     \* a holder that points nowhere
          NoBlock     \* a cell that is no matrix

VARIABLES mem,        \* [ref, cell, block]: holders to cells, cells, blocks
          pc,         \* where octave_value::assign () stands, or "idle"
          stmt,       \* its variable v, right hand side t and position p, and rhs, which it uses for t
          lost        \* an interrupt has left counts behind

vars == <<mem, pc, stmt, lost>>

value == [h \in Vars \cup Lits \cup Temps |->
            IF mem.ref[h] = NoCell THEN None
            ELSE LET c == mem.cell[mem.ref[h]]
                 IN IF c.kind = "matrix" THEN mem.block[c.block].data ELSE c.val]

\* The refinement mapping: what each holder has, read from the storage.
Abstract == INSTANCE Values WITH value <- value

Vectors == Abstract!Vectors
Users   == Abstract!Users
Holders == Users \cup {Old, Tmp}

ASSUME HolderAssumption ==
  /\ Vars \cap Lits = {} /\ Vars \cap Temps = {} /\ Lits \cap Temps = {}
  /\ Old \notin Users /\ Tmp \notin Users /\ Old # Tmp
  /\ IsFiniteSet(Users)
ASSUME HeapAssumption ==
  /\ NoCell \notin Cells /\ NoBlock \notin Blocks /\ IsFiniteSet(Cells)
ASSUME DataAssumption ==
  /\ Radix \in Nat \ {0} /\ Positions \subseteq Nat /\ Inputs \subseteq Vectors /\ None \notin Vectors

(******************************** the heap ********************************)

FreeCell  == [kind |-> "free", count |-> 0, val |-> <<>>, block |-> NoBlock]
FreeBlock == [count |-> 0, data |-> <<>>]

CellState  == [kind : {"free", "scalar", "range", "matrix"}, count : Nat, val : Vectors, block : Blocks \cup {NoBlock}]
BlockState == [count : Nat, data : Vectors]

Content(S, c) == IF S.cell[c].kind = "matrix" THEN S.block[S.cell[c].block].data ELSE S.cell[c].val
Kind(S, h)    == S.cell[S.ref[h]].kind
Has(S, h)     == S.ref[h] # NoCell

AnyCell(S)  == CHOOSE c \in Cells : S.cell[c].kind = "free"
AnyBlock(S) == CHOOSE b \in Blocks : S.block[b].count = 0
Room(S) == (\E c \in Cells : S.cell[c].kind = "free") /\ (\E b \in Blocks : S.block[b].count = 0)

\* The copy constructor: h points to c too.
Take(S, h, c) == [S EXCEPT !.ref[h] = c, !.cell[c].count = @ + 1]

\* ~Array
DropBlock(S, b) ==
  [S EXCEPT !.block[b] = IF S.block[b].count > 1 THEN [S.block[b] EXCEPT !.count = @ - 1] ELSE FreeBlock]

\* ~octave_value
DropCell(S, c) ==
  IF S.cell[c].count > 1 THEN [S EXCEPT !.cell[c].count = @ - 1]
  ELSE [IF S.cell[c].kind = "matrix" THEN DropBlock(S, S.cell[c].block) ELSE S EXCEPT !.cell[c] = FreeCell]
Release(S, h) == IF Has(S, h) THEN [DropCell(S, S.ref[h]) EXCEPT !.ref[h] = NoCell] ELSE S

\* new octave_scalar, octave_range, octave_matrix
New(S, h, kind, x) ==
  LET c == AnyCell(S)
      b == AnyBlock(S)
  IN IF kind = "matrix"
     THEN [S EXCEPT !.ref[h] = c, !.block[b] = [count |-> 1, data |-> x],
                    !.cell[c] = [kind |-> kind, count |-> 1, val |-> <<>>, block |-> b]]
     ELSE [S EXCEPT !.ref[h] = c, !.cell[c] = [kind |-> kind, count |-> 1, val |-> x, block |-> NoBlock]]

\* clone (): a new rep, but the copy constructor of Array shares the ArrayRep.
Clone(S, h, c) ==
  LET n == AnyCell(S)
      T == [S EXCEPT !.ref[h] = n, !.cell[n] = [S.cell[c] EXCEPT !.count = 1]]
  IN IF S.cell[c].kind = "matrix" THEN [T EXCEPT !.block[S.cell[c].block].count = @ + 1] ELSE T

\* octave_value::make_unique ()
MakeUnique(S, h) == IF S.cell[S.ref[h]].count > 1 THEN Clone(Release(S, h), h, S.ref[h]) ELSE S

\* Mutant: the elements are written with xelem (), which never copies.
StoreXelem(S, h, x) ==
  LET c == S.ref[h]
      b == S.cell[c].block
      n == AnyBlock(S)
  IN IF S.cell[c].kind # "matrix" THEN [S EXCEPT !.cell[c].val = x]
     ELSE IF Len(S.block[b].data) = Len(x) THEN [S EXCEPT !.block[b].data = x]
     ELSE [DropBlock(S, b) EXCEPT !.block[n] = [count |-> 1, data |-> x], !.cell[c].block = n]

\* What a rep that h has alone does to its value: a scalar is overwritten; elem () and
\* fortran_vec () of a matrix first take a copy of a shared ArrayRep, and resize () and the
\* deletion of elements always take a new one.
Store(S, h, x) ==
  LET c == S.ref[h]
      b == S.cell[c].block
      n == AnyBlock(S)
  IN IF S.cell[c].kind # "matrix" THEN [S EXCEPT !.cell[c].val = x]
     ELSE IF S.block[b].count = 1 /\ Len(S.block[b].data) = Len(x) THEN [S EXCEPT !.block[b].data = x]
     ELSE [DropBlock(S, b) EXCEPT !.block[n] = [count |-> 1, data |-> x], !.cell[c].block = n]

\* h takes over the pointer of g.
Move(S, h, g) == [S EXCEPT !.ref[h] = S.ref[g], !.ref[g] = NoCell]

(******************************* the program ******************************)

\* The constructors of octave_value narrow: one element is a scalar, no elements a matrix.
Kinds(x) == IF Len(x) = 1 THEN {"scalar"} ELSE IF Len(x) = 0 THEN {"matrix"} ELSE {"matrix", "range"}

NoStatement == [v |-> None, t |-> None, rhs |-> None, p |-> 0]

Init == /\ mem = [ref |-> [h \in Holders |-> NoCell], cell |-> [c \in Cells |-> FreeCell],
                  block |-> [b \in Blocks |-> FreeBlock]]
        /\ pc = "idle" /\ stmt = NoStatement /\ lost = FALSE

Quiet == pc = "idle" /\ UNCHANGED <<pc, stmt, lost>>

\* The parser makes a tree_constant; a function returns a new value.
Appear(h) == /\ ~Has(mem, h) /\ Room(mem)
             /\ \E x \in Inputs : \E kind \in Kinds(x) : mem' = New(mem, h, kind, x)
Read    == Quiet /\ \E l \in Lits : Appear(l)
Compute == Quiet /\ \E t \in Temps : Appear(t)

\* tree_constant::value (), and arguments in an octave_value_list
Copy == Quiet /\ \E t \in Temps, h \in Users :
          ~Has(mem, t) /\ Has(mem, h) /\ mem' = Take(mem, t, mem.ref[h])

\* A function, or x (:, :), returns the Matrix that it has got from matrix_value ().
PassOn == Quiet /\ \E t \in Temps, h \in Users :
          /\ ~Has(mem, t) /\ Has(mem, h) /\ Room(mem)
          /\ Kind(mem, h) = "matrix" /\ mem' = Clone(mem, t, mem.ref[h])

Drop  == Quiet /\ \E t \in Temps : Has(mem, t) /\ mem' = Release(mem, t)
Clear == Quiet /\ \E v \in Vars : Has(mem, v) /\ mem' = Release(mem, v)

\* tree_identifier::assign (rhs): the definition is a copy of the right hand side.
Define == Quiet /\ \E v \in Vars, t \in Temps :
          Has(mem, t) /\ mem' = Take(Release(mem, v), v, mem.ref[t])

\* x++; a range has no increment () and is an error, after make_unique ().
Increment == Quiet /\ \E v \in Vars :
  LET own == MakeUnique(mem, v)
  IN /\ Has(mem, v) /\ Room(mem)
     /\ mem' = IF Kind(mem, v) = "range" \/ Content(mem, mem.ref[v]) = <<>> THEN own
               ELSE Store(own, v, Abstract!Incremented(Content(mem, mem.ref[v])))

(*************************** indexed assignment ***************************)

\* octave_value::assign () begins with make_unique (); the right hand side has been evaluated.
AssignBegin ==
  /\ pc = "idle" /\ Room(mem)
  /\ \E v \in Vars, t \in Temps, p \in Positions :
       /\ Has(mem, v) /\ Has(mem, t)
       /\ stmt' = [v |-> v, t |-> t, rhs |-> t, p |-> p]
       /\ mem' = MakeUnique(mem, v)
  /\ pc' = "try" /\ UNCHANGED lost

\* try_assignment () has a function for a matrix and a right hand side that is no range.
CanAssign == Kind(mem, stmt.v) = "matrix" /\ Kind(mem, stmt.rhs) # "range"
Operand   == Content(mem, mem.ref[stmt.rhs])
Target    == Content(mem, mem.ref[stmt.v])

\* It stores the elements, if any is named; then the conversions' leftovers are deleted.
TryAssignment ==
  /\ pc = "try" /\ CanAssign /\ ~Abstract!Wrong(Target, stmt.p, Operand) /\ Room(mem)
  /\ mem' = IF stmt.p = 0 THEN mem
            ELSE Store(mem, stmt.v, Abstract!Put(Target, stmt.p, Operand))
  /\ pc' = "drop" /\ UNCHANGED <<stmt, lost>>

\* Mutant: the old rep is put back and the new one forgotten.
TryFailsLeaky ==
  /\ pc = "try" /\ CanAssign /\ Abstract!Wrong(Target, stmt.p, Operand)
  /\ mem' = IF Has(mem, Old) THEN Move(mem, stmt.v, Old) ELSE mem
  /\ pc' = "undo" /\ UNCHANGED <<stmt, lost>>

\* An error: what the conversion has replaced is put back.
TryFails ==
  /\ pc = "try" /\ CanAssign /\ Abstract!Wrong(Target, stmt.p, Operand)
  /\ mem' = IF Has(mem, Old) THEN Move(Release(mem, stmt.v), stmt.v, Old) ELSE mem
  /\ pc' = "undo" /\ UNCHANGED <<stmt, lost>>

\* convert_and_assign () for a scalar; try_assignment_with_conversion () for a range on
\* the left: cf_this is applied when the right hand side has been seen to (tmp_rhs).
Widen ==
  /\ pc = "try" /\ ~CanAssign /\ Room(mem)
  /\ \/ Kind(mem, stmt.v) = "scalar" /\ Kind(mem, stmt.rhs) # "range"
     \/ Kind(mem, stmt.v) = "range" /\ stmt.rhs = Tmp
  /\ mem' = New(Move(mem, Old, stmt.v), stmt.v, "matrix", Content(mem, mem.ref[stmt.v]))
  /\ UNCHANGED <<pc, stmt, lost>>

\* tmp_rhs: a matrix for a range, or the right hand side itself.
ConvertRhs ==
  /\ pc = "try" /\ Room(mem) /\ stmt.rhs # Tmp
  /\ Kind(mem, stmt.v) = "range" \/ Kind(mem, stmt.rhs) = "range"
  /\ mem' = IF Kind(mem, stmt.t) = "range" THEN New(mem, Tmp, "matrix", Operand)
            ELSE Take(mem, Tmp, mem.ref[stmt.t])
  /\ stmt' = [stmt EXCEPT !.rhs = Tmp] /\ UNCHANGED <<pc, lost>>

\* The destructors at the end of the conversions.
DropOld ==
  /\ pc = "drop" /\ mem' = Release(mem, Old)
  /\ pc' = "mutate" /\ UNCHANGED <<stmt, lost>>

\* maybe_mutate (): a matrix of one element becomes a scalar.
MaybeMutate ==
  /\ pc = "mutate" /\ Room(mem)
  /\ LET x == Content(mem, mem.ref[stmt.v])
     IN mem' = IF Len(x) = 1 THEN New(Release(mem, stmt.v), stmt.v, "scalar", x) ELSE mem
  /\ pc' = "undo" /\ UNCHANGED <<stmt, lost>>

AssignEnd ==
  /\ pc = "undo" /\ mem' = Release(mem, Tmp)
  /\ pc' = "idle" /\ stmt' = NoStatement /\ UNCHANGED lost

\* jump_to_top_level () runs no destructors: temporaries and the locals of an assignment are
\* forgotten, and what they have counted stays counted.  (Bound: one interrupt.)
Interrupt ==
  /\ ~lost
  /\ mem' = [mem EXCEPT !.ref = [h \in Holders |-> IF h \in Temps \cup {Old, Tmp} THEN NoCell ELSE @[h]]]
  /\ pc' = "idle" /\ stmt' = NoStatement /\ lost' = TRUE

Next == \/ Read \/ Compute \/ Copy \/ PassOn \/ Drop \/ Clear \/ Define \/ Increment
        \/ AssignBegin \/ TryAssignment \/ TryFails \/ Widen \/ ConvertRhs
        \/ DropOld \/ MaybeMutate \/ AssignEnd \/ Interrupt

Spec == Init /\ [][Next]_vars

(******************************* properties *******************************)

RefsTo(S, c)  == {h \in Holders : S.ref[h] = c}
UsersOf(S, b) == {c \in Cells : S.cell[c].kind = "matrix" /\ S.cell[c].block = b}

\* Nothing that is in use is counted too low, so that nothing is freed or written in place
\* under somebody else; and unless an interrupt has lost some, the counts are exact, so that
\* nothing stays behind that nobody can free.
Covers(count, n, inexact) == count >= n /\ (inexact \/ count = n)
Counted == /\ \A c \in Cells : Covers(mem.cell[c].count, Cardinality(RefsTo(mem, c)), lost)
           /\ \A b \in Blocks : Covers(mem.block[b].count, Cardinality(UsersOf(mem, b)), lost)

\* Whatever is shared, converted, narrowed or put back, each holder has its value for itself.
ValueSemantics == Abstract!Spec
=============================================================================

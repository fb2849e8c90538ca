--------------------------- MODULE IndexedVariable ---------------------------
(***************************************************************************)
(* A variable of the interpreter under any sequence of indexed             *)
(* assignments and deletions: octave_matrix::assign () with Assign1 and    *)
(* Assign2 of module Indexing, and octave_value::assign () around it, for  *)
(* which a variable with one element is an octave_scalar that is converted *)
(* first and put back if the assignment fails.                             *)
(***************************************************************************)
EXTENDS Indexing

CONSTANTS Indices,    \* index vectors that statements use
          Operands,   \* right hand sides
          Preferences, \* values of the flags
          MaxSize     \* bound: elements of the variable

VARIABLES var,     \* the matrix
          stmt,    \* the statement at hand, its operands evaluated
          err      \* error_state: the last assignment has failed

vars == <<flags, var, stmt, err>>

NoStatement == [op |-> "none", i |-> Colon, j |-> Colon, x |-> Empty]

Init == flags \in Preferences /\ var = Empty /\ stmt = NoStatement /\ err = FALSE

\* x (i) = y and x (i, j) = y; y = [] deletes.
Evaluate ==
  /\ stmt.op = "none"
  /\ \E i \in Indices, x \in Operands :
       \/ stmt' = [op |-> "one", i |-> i, j |-> Colon, x |-> x]
       \/ \E j \in Indices : stmt' = [op |-> "two", i |-> i, j |-> j, x |-> x]
  /\ err' = FALSE /\ UNCHANGED <<flags, var>>

Result == IF stmt.op = "one" THEN Assign1(var, stmt.i, stmt.x) ELSE Assign2(var, stmt.i, stmt.j, stmt.x)

\* Mutant: octave_value::assign () does not put the old value back.
OutcomeNew(r) == r.m
\* The variable after the assignment: of a scalar the converted copy is thrown away if it failed.
Outcome(r) == IF r.err /\ Scalar(var) THEN var ELSE r.m

Assign ==
  /\ stmt.op # "none"
  /\ Outcome(Result).nr * Outcome(Result).nc <= MaxSize
  /\ var' = Outcome(Result) /\ err' = Result.err
  /\ stmt' = NoStatement /\ UNCHANGED flags

\* A statement whose result is beyond the bound is not run.
Skip ==
  /\ stmt.op # "none" /\ Outcome(Result).nr * Outcome(Result).nc > MaxSize
  /\ stmt' = NoStatement /\ UNCHANGED <<flags, var, err>>

\* The user assigns to one of the built-in variables.
Prefer ==
  /\ stmt.op = "none" /\ flags' \in Preferences
  /\ UNCHANGED <<var, stmt, err>>

Next == Evaluate \/ Assign \/ Skip \/ Prefer

Spec == Init /\ [][Next]_vars

(******************** what the manual says of indices *********************)

\* The positions that an index names along a dimension of that length: all of it, the
\* ones of a mask of that length, or its elements.  All ones are a mask only if
\* prefer_zero_one_indexing says so.
IsMask(i, len) == /\ ~i.colon /\ i.data # <<>> /\ Len(i.data) = len
                  /\ \A k \in 1 .. len : i.data[k] \in {-1, 0}
                  /\ pzo \/ \E k \in 1 .. len : i.data[k] = -1
Positions(i, len) ==
  IF i.colon THEN [k \in 1 .. len |-> k - 1]
  ELSE IF IsMask(i, len) THEN SetToSortSeq({k - 1 : k \in {h \in 1 .. len : i.data[h] = 0}}, <)
  ELSE i.data

\* A single index counts along the variable, column by column.
Flat(m) == m.nr * m.nc

(******************************* properties *******************************)

P == Positions(stmt.i, var.nr)
Q == Positions(stmt.j, var.nc)
LastAt(p, k) == Max({h \in DOMAIN p : p[h] = k})
Deletion == Size(stmt.x) = <<0, 0>>

\* A statement that fails leaves the variable as it was, and after any statement its
\* dimensions and its storage agree, although the code converts, resizes and stores
\* before it has looked at everything and sets the dimensions last.
FailureKeeps == [][(err' => var' = var) /\ Len(var'.data) = Flat(var')]_vars

\* What an assignment names: as above, but a colon over nothing names all that the right
\* hand side has along that dimension.
Named(i, len, size) == IF i.colon /\ len = 0 THEN [k \in 1 .. size |-> k - 1] ELSE Positions(i, len)

\* x (i, j) = y that succeeds gives every named element the value that y has for it, the
\* last one if it is named twice, keeps the others, fills up with zeros and grows no further
\* than to the highest position named (doc/interpreter/expr.tex:201-204).
Written ==
  LET p == Named(stmt.i, var.nr, stmt.x.nr)
      q == Named(stmt.j, var.nc, stmt.x.nc)
      new(a, b) == IF Scalar(stmt.x) THEN stmt.x.data[1] ELSE At(stmt.x, LastAt(p, a) - 1, LastAt(q, b) - 1)
  IN IF p = <<>> \/ q = <<>> THEN var' = var
     ELSE /\ var'.nr = Max(Range(p) \cup {var.nr - 1}) + 1
          /\ var'.nc = Max(Range(q) \cup {var.nc - 1}) + 1
          /\ \A r \in 0 .. var'.nr - 1, c \in 0 .. var'.nc - 1 :
               At(var', r, c) = IF r \in Range(p) /\ c \in Range(q) THEN new(r, c)
                                ELSE IF r < var.nr /\ c < var.nc THEN At(var, r, c) ELSE 0

\* x (i) = y does the same along the elements.  A matrix keeps its size and a vector its
\* orientation, whatever prefer_column_vectors says; what had no orientation gets the
\* preferred one if it was empty or i is one number (expr.tex:173-188), and is a vector.
Oriented ==
  CASE var.nr > 1 /\ var.nc > 1 -> Size(var') = Size(var)
    [] var.nr = 1 /\ var.nc > 1 -> var'.nr = 1
    [] var.nr > 1 /\ var.nc = 1 -> var'.nc = 1
    [] OTHER -> IF Flat(var) = 0 \/ <<stmt.i.nr, stmt.i.nc>> = <<1, 1>>
                THEN (IF pcv THEN var'.nc = 1 ELSE var'.nr = 1)
                ELSE 1 \in {var'.nr, var'.nc}
WrittenAlong ==
  LET p == Named(stmt.i, Flat(var), Flat(stmt.x))
      new(k) == IF Scalar(stmt.x) THEN stmt.x.data[1] ELSE stmt.x.data[LastAt(p, k)]
  IN IF p = <<>> THEN var' = var
     ELSE /\ Oriented
          /\ Flat(var') = Max(Range(p) \cup {Flat(var) - 1}) + 1
          /\ \A k \in 0 .. Flat(var') - 1 :
               var'.data[k + 1] = IF k \in Range(p) THEN new(k) ELSE IF k < Flat(var) THEN var.data[k + 1] ELSE 0

\* WritesNamed: whatever assignment succeeds writes what it names, as above, also to
\* variables with no element or one, and to matrices with one index.  The exception is
\* x (:, :) = y of an empty x when resize_on_range_error is off: x stays empty.
WritesNamed ==
  [][(Assign /\ ~err' /\ ~Deletion) =>
       /\ (stmt.op = "two" /\ (Flat(var) > 0 \/ rre)) => Written
       /\ stmt.op = "one" => WrittenAlong]_vars

\* x (i, j) = [] that succeeds removes the columns that j names if i names all rows, else the
\* rows that i names if j names all columns, and nothing else; x (i) = [] the elements of a
\* vector.  Two quirks of the code are left out: names that do not exist count when it
\* looks whether all elements of a vector go, and a vector of more than one 1 never is "all".
Rest(n, gone) == SetToSortSeq({k \in 0 .. n - 1 : k \notin gone}, <)
All(i, n) == Range(Positions(i, n)) = 0 .. n - 1 /\ ~(i.onezero /\ Len(i.data) > 1)
ColumnsGone == CASE stmt.op = "two" /\ All(stmt.i, var.nr) -> Range(Q)
                 [] stmt.op = "one" /\ var.nr = 1 /\ var.nc > 1 -> Range(Positions(stmt.i, var.nc))
                 [] OTHER -> {}
RowsGone    == CASE stmt.op = "two" /\ All(stmt.j, var.nc) /\ ~All(stmt.i, var.nr) -> Range(P)
                 [] stmt.op = "one" /\ var.nc = 1 -> Range(Positions(stmt.i, var.nr))
                 [] OTHER -> {}
Removed ==
  LET rows == Rest(var.nr, RowsGone)  cols == Rest(var.nc, ColumnsGone)
  IN (RowsGone \subseteq 0 .. var.nr - 1 /\ ColumnsGone \subseteq 0 .. var.nc - 1) =>
       IF rows = <<>> \/ cols = <<>> THEN Flat(var') = 0
       ELSE var' = Build(Len(rows), Len(cols), LAMBDA a, b : At(var, rows[a + 1], cols[b + 1]))
DeletesNamed == [][(Assign /\ ~err' /\ Deletion /\ Flat(var) > 0) => Removed]_vars

\* What the variable gives when it is read through the indices of the statement at hand: the
\* elements at the named positions, an error if one of them does not exist.  A single index
\* reads vectors, and matrices if it is a colon or do_fortran_indexing allows it.
ReadTwo ==
  LET r == Index2(var, stmt.i, stmt.j)
  IN (P # <<>> /\ Q # <<>>) =>
       /\ r.err <=> ~(Range(P) \subseteq 0 .. var.nr - 1 /\ Range(Q) \subseteq 0 .. var.nc - 1)
       /\ ~r.err => r.m = Build(Len(P), Len(Q), LAMBDA a, b : At(var, P[a + 1], Q[b + 1]))
ReadOne ==
  LET r == Index1(var, stmt.i)  p == Positions(stmt.i, Flat(var))
      sensible == var.nr = 1 \/ var.nc = 1 \/ stmt.i.colon \/ dfi
  IN /\ r.err <=> ~(sensible /\ Range(p) \subseteq 0 .. Flat(var) - 1)
     /\ ~r.err => r.m.data = [k \in DOMAIN p |-> var.data[p[k] + 1]]
     /\ (~r.err /\ Flat(var) > 1 /\ Flat(r.m) > 1 /\ var.nr = 1 /\ ~stmt.i.colon) => r.m.nr = 1
     /\ (~r.err /\ Flat(var) > 1 /\ Flat(r.m) > 1 /\ var.nc = 1) => r.m.nc = 1
ReadsNamed == Flat(var) > 0 => CASE stmt.op = "two" -> ReadTwo [] stmt.op = "one" -> ReadOne [] OTHER -> TRUE
=============================================================================

------------------------------ MODULE Indexing ------------------------------
(***************************************************************************)
(* Index vectors and what is done with them: idx_vector (idx-vector.cc)    *)
(* and the index, assign and delete functions of Array and Array2          *)
(* (Array-idx.h, Array2-idx.h), for real matrices in column-major storage. *)
(* Positions count from 0 as they do in the code.  A matrix has its        *)
(* dimensions and its data apart, because the code changes them apart.     *)
(***************************************************************************)
EXTENDS Integers, Sequences, FiniteSets, FiniteSetsExt, SequencesExt

VARIABLE flags   \* the flags of Array-flags.cc, which follow built-in variables:
                 \* prefer_zero_one_indexing, resize_on_range_error,
                 \* do_fortran_indexing and prefer_column_vectors
pzo == flags.pzo
rre == flags.rre
dfi == flags.dfi
pcv == flags.pcv

(******************************* matrices *********************************)

Mat(r, c, d) == [nr |-> r, nc |-> c, data |-> d]
Empty == Mat(0, 0, <<>>)
Size(m) == <<m.nr, m.nc>>

\* elem (i, j)
At(m, i, j) == m.data[i + m.nr * j + 1]

Build(r, c, E(_, _)) == Mat(r, c, [k \in 1 .. r * c |-> E((k - 1) % r, (k - 1) \div r)])

\* resize (r, c, 0.0), and resize (n, 0.0) of an Array.
Resize(m, r, c) == Build(r, c, LAMBDA i, j : IF i < m.nr /\ j < m.nc THEN At(m, i, j) ELSE 0)
Stretch(d, n) == [k \in 1 .. n |-> IF k <= Len(d) THEN d[k] ELSE 0]

(***************************** index vectors ******************************)

\* An index as the user writes it, a colon or a matrix of numbers from 1, becomes an
\* idx_vector_rep: data from 0, the dimensions of the matrix, and what init_state ()
\* counts.
Colon == [colon |-> TRUE, nr |-> 0, nc |-> 0, data |-> <<>>, onezero |-> FALSE, ones |-> 0]
Idx(r, c, d) == [colon |-> FALSE, nr |-> r, nc |-> c, data |-> [k \in DOMAIN d |-> d[k] - 1],
                 onezero |-> d # <<>> /\ Range(d) \subseteq {0, 1},
                 ones |-> Cardinality({k \in DOMAIN d : d[k] = 1})]

\* maybe_convert_one_zero_to_idx (): a mask as long as the dimension stands for the
\* positions of its ones; all ones do so only if the user prefers it.
Convert(i, len) ==
  IF i.onezero /\ Len(i.data) = len /\ (i.ones # len \/ pzo)
  THEN [i EXCEPT !.data = SelectSeq([k \in 1 .. len |-> IF i.data[k] = 0 THEN k - 1 ELSE -1],
                                    LAMBDA e : e >= 0)]
  ELSE i

Highest(i) == IF i.data = <<>> THEN 0 ELSE Max(Range(i.data))

\* freeze () for a dimension of that length.  A frozen index has its length n, or
\* is not ok; is_colon_equiv () is asked later, of the converted data.
Freeze(i, len, mayresize) ==
  LET f == Convert(i, len)
      bad == ~i.colon /\ f.data # <<>> /\ (Min(Range(f.data)) < 0 \/ (~mayresize /\ Highest(f) >= len))
  IN [colon |-> i.colon, nr |-> i.nr, nc |-> i.nc, data |-> f.data, onezero |-> i.onezero, ones |-> i.ones,
      ok |-> ~bad, n |-> IF bad THEN -1 ELSE IF i.colon THEN len ELSE Len(f.data)]

\* idx.elem (k)
Elem(i, k) == IF i.colon THEN k ELSE i.data[k + 1]

OrigEmpty(i) == ~i.colon /\ (i.nr = 0 \/ i.nc = 0)

\* Mutant: the comparison with 0, 1, ... is always made with the sorted data.
ColonEquivSorted(i, n, sortuniq) == i.colon \/ (i.data # <<>> /\ Range(i.data) = 0 .. n - 1 /\ Len(i.data) = n)
\* is_colon_equiv (n, sort_uniq).  The answer is kept in the rep, whoever asks next;
\* the callers ask a rep for one n only, and never after another sort_uniq.
ColonEquiv(i, n, sortuniq) ==
  \/ i.colon
  \/ /\ ~i.colon /\ Len(i.data) > 1 /\ ~i.onezero
     /\ IF sortuniq THEN Range(i.data) = 0 .. n - 1
        ELSE i.data = [k \in 1 .. n |-> k - 1]
  \/ /\ ~i.colon /\ (Len(i.data) <= 1 \/ i.onezero)
     /\ Len(i.data) = n /\ (n = 0 \/ (n = 1 /\ i.data[1] = 0))

(******************************** results *********************************)

Done(m) == [err |-> FALSE, m |-> m]
Fails(m) == [err |-> TRUE, m |-> m]

(******************************** indexing ********************************)

\* Array::index ()
IndexVector(d, i) ==
  LET f == Freeze(i, Len(d), FALSE)
  IN IF ~f.ok THEN Fails(Empty)
     ELSE Done(IF ColonEquiv(f, Len(d), FALSE) THEN d
               ELSE IF Len(d) = 1 /\ f.n > 1 /\ f.onezero /\ f.ones = f.n THEN [k \in 1 .. f.n |-> d[1]]
               ELSE [k \in 1 .. f.n |-> d[Elem(f, k - 1) + 1]])

\* Array2::index (idx)
Index1(m, i) ==
  IF m.nr = 1 \/ m.nc = 1
  THEN LET v == IndexVector(m.data, i)
           column == IF m.nr = 1 /\ m.nc = 1 THEN pcv ELSE m.nc = 1 \/ i.colon
       IN IF v.err THEN Fails(Empty)
          ELSE Done(IF v.m = <<>> THEN Empty
                    ELSE IF column THEN Mat(Len(v.m), 1, v.m) ELSE Mat(1, Len(v.m), v.m))
  ELSE IF ~dfi /\ ~i.colon THEN Fails(Empty)
  ELSE LET f == Freeze(i, m.nr * m.nc, FALSE)
           r == IF i.colon THEN m.nr * m.nc ELSE IF f.onezero THEN f.ones ELSE f.nr
           c == IF i.colon \/ f.onezero THEN (IF r > 0 THEN 1 ELSE 0) ELSE f.nc
       IN IF ~f.ok THEN Fails(Empty)
          ELSE Done(Mat(r, c, [k \in 1 .. r * c |-> m.data[Elem(f, k - 1) + 1]]))

\* Array2::index (idx_i, idx_j)
Index2(m, ii, jj) ==
  LET i == Freeze(ii, m.nr, FALSE)
      j == Freeze(jj, m.nc, FALSE)
      Zeros(r, c) == Done(Mat(r, c, <<>>))
  IN IF ~i.ok \/ ~j.ok THEN Fails(Empty)
     ELSE IF OrigEmpty(i) \/ OrigEmpty(j) THEN Zeros(i.n, j.n)
     ELSE IF i.n = 0 /\ j.n = 0 THEN Zeros(0, 0)
     ELSE IF i.n = 0
     THEN IF ColonEquiv(j, m.nc, TRUE) THEN Zeros(0, m.nc)
          ELSE IF ColonEquiv(i, m.nr, TRUE) THEN Zeros(0, j.n) ELSE Fails(Empty)
     ELSE IF j.n = 0
     THEN IF ColonEquiv(i, m.nr, TRUE) THEN Zeros(m.nr, 0)
          ELSE IF ColonEquiv(j, m.nc, TRUE) THEN Zeros(i.n, 0) ELSE Fails(Empty)
     ELSE IF ColonEquiv(i, m.nr, FALSE) /\ ColonEquiv(j, m.nc, FALSE) THEN Done(m)
     ELSE Done(Build(i.n, j.n, LAMBDA a, b : At(m, Elem(i, a), Elem(j, b))))

(******************************** deletion ********************************)

\* Mutant: data are copied from a place counted one too far.
KeepRowsNext(m, gone) ==
  LET kept == SetToSortSeq({r \in 0 .. m.nr - 1 : r \notin gone}, <)
  IN Build(Len(kept), m.nc, LAMBDA a, b : At(m, (kept[a + 1] + 1) % m.nr, b))
\* maybe_delete_elements (idx_i, idx_j), the rows or the columns that the index that
\* is not a colon names: sorted, the duplicates removed.
KeepColumns(m, gone) ==
  LET kept == SetToSortSeq({c \in 0 .. m.nc - 1 : c \notin gone}, <)
  IN Build(m.nr, Len(kept), LAMBDA a, b : At(m, a, kept[b + 1]))
KeepRows(m, gone) ==
  LET kept == SetToSortSeq({r \in 0 .. m.nr - 1 : r \notin gone}, <)
  IN Build(Len(kept), m.nc, LAMBDA a, b : At(m, kept[a + 1], b))

DeleteColumns(m, gone) ==
  IF gone = {} THEN Done(m)
  ELSE IF m.nr = 1 /\ Cardinality(gone) = m.nc THEN Done(Empty)
  ELSE IF 0 .. m.nc - 1 \subseteq gone THEN Fails(m)
  ELSE Done(KeepColumns(m, gone))
DeleteRows(m, gone) ==
  IF gone = {} THEN Done(m)
  ELSE IF m.nc = 1 /\ Cardinality(gone) = m.nr THEN Done(Empty)
  ELSE IF 0 .. m.nr - 1 \subseteq gone THEN Fails(m)
  ELSE Done(KeepRows(m, gone))

Delete(m, i, j) ==
  IF m.nr = 0 /\ m.nc = 0 THEN Done(m)
  ELSE IF ColonEquiv(i, m.nr, TRUE)
  THEN IF ColonEquiv(j, m.nc, TRUE) THEN Done(Empty) ELSE DeleteColumns(m, Range(j.data))
  ELSE IF ColonEquiv(j, m.nc, TRUE) THEN DeleteRows(m, Range(i.data))
  ELSE Done(m)

(******************************* assignment *******************************)

\* The loops that store: element k of the n that i names gets S(k), the later the
\* stronger.
Store(d, i, n, S(_)) ==
  [k \in DOMAIN d |-> LET hits == {h \in 0 .. n - 1 : Elem(i, h) = k - 1}
                      IN IF hits = {} THEN d[k] ELSE S(Max(hits))]

\* assign (Array, Array), whose index has been frozen by the caller for the same
\* length, so that freeze () returns what it has found then.  An error in A(:) = X does not
\* make it return 0, but nothing has been changed.
AssignVector(d, i, x) ==
  LET n == i.n
      longer == IF rre /\ Highest(i) >= Len(d) THEN Stretch(d, Highest(i) + 1) ELSE d
  IN IF n # 0
     THEN IF Len(x) = n \/ Len(x) = 1
          THEN Done(Store(longer, i, n, LAMBDA h : IF Len(x) = n THEN x[h + 1] ELSE x[1]))
          ELSE Fails(d)
     ELSE IF i.colon THEN (IF d = <<>> THEN Done(x) ELSE Fails(d))
     ELSE IF Len(x) \in {0, 1} THEN Done(d) ELSE Fails(d)

Scalar(x) == x.nr = 1 /\ x.nc = 1

\* A (I) = X for an empty matrix or one with one element: the shape of the result
\* depends on the shapes of I and X.
AssignSmall(m, idx, x) ==
  LET i == Freeze(idx, Len(m.data), rre)
      empty == m.nr = 0 \/ m.nc = 0
      v == AssignVector(m.data, i, x.data)
      len == Len(v.m)
      Line == IF pcv THEN Mat(len, 1, v.m) ELSE Mat(1, len, v.m)
      mixed == Mat(m.nr, m.nc, v.m)   \* new data in the old dimensions
  IN IF ~i.ok THEN Fails(m)
     ELSE IF Size(x) = <<0, 0>>
     THEN IF i.n # 0 /\ Size(m) # <<0, 0>> THEN Delete(m, i, Freeze(Colon, 0, FALSE)) ELSE Done(m)
     ELSE IF ~dfi /\ empty /\ i.colon /\ x.nr # 1 /\ x.nc # 1 THEN Fails(m)
     ELSE IF v.err THEN Fails(m)
     ELSE IF len = 0 THEN Done(Empty)
     ELSE IF dfi \/ (i.nr = 1 /\ i.nc = 1) \/ (Scalar(x) /\ Len(m.data) = 1) \/ m.data = <<>> THEN Done(Line)
     ELSE IF x.nr = 1 /\ i.nr = 1 THEN Done(Mat(1, len, v.m))
     ELSE IF x.nc = 1 /\ i.nc = 1 THEN Done(Mat(len, 1, v.m))
     ELSE IF i.nr = 0 /\ i.nc = 0 THEN (IF Scalar(x) THEN Done(mixed) ELSE Fails(mixed))
     ELSE Fails(mixed)

\* Mutant: lhs.d1 = lhs.length () is forgotten.
AssignColumnLong(m, idx, x) ==
  LET i == Freeze(idx, m.nr, rre)
      v == AssignVector(m.data, i, x.data)
  IN IF ~i.ok THEN Fails(m)
     ELSE IF Size(x) = <<0, 0>> THEN Delete(m, i, Freeze(Colon, 0, FALSE))
     ELSE IF v.err THEN Fails(m) ELSE Done(Mat(m.nr, 1, v.m))

\* A (I) = X for a row or a column.
AssignRow(m, idx, x) ==
  LET i == Freeze(idx, m.nc, rre)
      v == AssignVector(m.data, i, x.data)
  IN IF ~i.ok THEN Fails(m)
     ELSE IF Size(x) = <<0, 0>> THEN Delete(m, Freeze(Colon, 0, FALSE), i)
     ELSE IF v.err THEN Fails(m) ELSE Done(Mat(1, Len(v.m), v.m))
AssignColumn(m, idx, x) ==
  LET i == Freeze(idx, m.nr, rre)
      v == AssignVector(m.data, i, x.data)
  IN IF ~i.ok THEN Fails(m)
     ELSE IF Size(x) = <<0, 0>> THEN Delete(m, i, Freeze(Colon, 0, FALSE))
     ELSE IF v.err THEN Fails(m) ELSE Done(Mat(Len(v.m), 1, v.m))

\* A (I) = X for a matrix, if do_fortran_indexing allows it; such a matrix does not grow.
AssignFlat(m, idx, x) ==
  LET i == Freeze(idx, m.nr * m.nc, FALSE)
      all == Len(x.data)
  IN IF ~dfi \/ ~i.ok THEN Fails(m)
     ELSE IF i.n = 0 THEN (IF Scalar(x) \/ Size(x) = <<0, 0>> THEN Done(m) ELSE Fails(m))
     ELSE IF i.n = all THEN Done([m EXCEPT !.data = Store(@, i, i.n, LAMBDA h : x.data[h + 1])])
     ELSE IF Scalar(x) /\ i.n <= m.nr * m.nc THEN Done([m EXCEPT !.data = Store(@, i, i.n, LAMBDA h : x.data[1])])
     ELSE Fails(m)

Assign1(m, i, x) ==
  IF m.nr = 0 \/ m.nc = 0 \/ Scalar(m) THEN AssignSmall(m, i, x)
  ELSE IF m.nr = 1 THEN AssignRow(m, i, x)
  ELSE IF m.nc = 1 THEN AssignColumn(m, i, x)
  ELSE AssignFlat(m, i, x)

\* Mutant: the dimensions become the highest positions, also where they were larger.
MaybeResizeExactly(m, i, j, x) ==
  IF rre THEN Resize(m, IF i.colon THEN m.nr ELSE Highest(i) + 1, IF j.colon THEN m.nc ELSE Highest(j) + 1) ELSE m
\* MAYBE_RESIZE_LHS
MaybeResize(m, i, j, x) ==
  IF rre THEN Resize(m, Max({m.nr, IF i.colon THEN x.nr ELSE Highest(i) + 1}),
                        Max({m.nc, IF j.colon THEN x.nc ELSE Highest(j) + 1}))
  ELSE m

\* A (I, J) = X: n rows and m columns are named; a colon over nothing takes X's.
Assign2(a, ii, jj, x) ==
  LET i == Freeze(ii, a.nr, rre)
      j == Freeze(jj, a.nc, rre)
      n == IF i.colon THEN (IF a.nr > 0 THEN a.nr ELSE x.nr) ELSE i.n
      m == IF j.colon THEN (IF a.nc > 0 THEN a.nc ELSE x.nc) ELSE j.n
      big == MaybeResize(a, i, j, x)
      Put(X(_, _)) == Build(big.nr, big.nc, LAMBDA r, c :
         LET hr == {h \in 0 .. n - 1 : Elem(i, h) = r}
             hc == {h \in 0 .. m - 1 : Elem(j, h) = c}
         IN IF hr = {} \/ hc = {} THEN At(big, r, c) ELSE X(Max(hr), Max(hc)))
  IN IF ~i.ok \/ ~j.ok THEN Fails(a)
     ELSE IF Size(x) = <<0, 0>> THEN Delete(a, i, j)
     ELSE IF Scalar(x) /\ n > 0 /\ m > 0 THEN Done(Put(LAMBDA r, c : x.data[1]))
     ELSE IF n = x.nr /\ m = x.nc THEN Done(Put(LAMBDA r, c : At(x, r, c)))
     ELSE IF n = 0 /\ m = 0 /\ Scalar(x) THEN Done(a)
     ELSE Fails(a)
=============================================================================

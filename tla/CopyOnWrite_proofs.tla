------------------------- MODULE CopyOnWrite_proofs -------------------------
(***************************************************************************)
(* Reference counting implements value semantics, for every number of      *)
(* variables, constants, temporaries, cells and blocks, with conversions,  *)
(* errors and one interrupt anywhere.                                      *)
(*                                                                         *)
(* The invariant is that a count is at least the number of those who use   *)
(* what it counts (and exact until an interrupt), and what the stages of   *)
(* an indexed assignment know of the cells they work on.  Each operation   *)
(* on the heap has a lemma: it keeps the counts, and of all values it      *)
(* changes that of one holder.                                             *)
(***************************************************************************)
EXTENDS CopyOnWrite, FiniteSetTheorems, TLAPS

MemType == [ref   : [Holders -> Cells \cup {NoCell}],
            cell  : [Cells -> CellState],
            block : [Blocks -> BlockState]]

Shaped(S) == \A c \in Cells : /\ (S.cell[c].kind = "free") <=> (S.cell[c].count = 0)
                              /\ (S.cell[c].kind = "matrix") => (S.cell[c].block \in Blocks)

CellsCounted(S, l)  == \A c \in Cells : Covers(S.cell[c].count, Cardinality(RefsTo(S, c)), l)
BlocksCounted(S, l) == \A b \in Blocks : Covers(S.block[b].count, Cardinality(UsersOf(S, b)), l)

Heap(S, l) == S \in MemType /\ Shaped(S) /\ CellsCounted(S, l) /\ BlocksCounted(S, l)

\* The value of a holder.
Val(S, h) == IF Has(S, h) THEN Content(S, S.ref[h]) ELSE None

\* T has the values of S, but for h.
SameBut(S, T, h) == \A g \in Holders \ {h} : Val(T, g) = Val(S, g) /\ T.ref[g] = S.ref[g]

\* T differs from S in the value of h, which is x, and the counts are right again.
Gives(S, T, h, x, l) == Heap(T, l) /\ SameBut(S, T, h) /\ Val(T, h) = x

-----------------------------------------------------------------------------
(***************************************************************************)
(* Counting                                                                *)
(***************************************************************************)

Moved(n, m, out, in) == m = n - (IF out THEN 1 ELSE 0) + (IF in THEN 1 ELSE 0)

\* Two finite sets that agree on everything but h differ by one at most.
LEMMA CardChange ==
  ASSUME NEW A, NEW B, NEW h, IsFiniteSet(A), \A x : x # h => (x \in A <=> x \in B)
  PROVE  /\ IsFiniteSet(B)
         /\ Cardinality(A) \in Nat /\ Cardinality(B) \in Nat
         /\ Cardinality(B) = Cardinality(A) - (IF h \in A THEN 1 ELSE 0) + (IF h \in B THEN 1 ELSE 0)
<1>1. IsFiniteSet(A \ {h}) /\ Cardinality(A \ {h}) = IF h \in A THEN Cardinality(A) - 1 ELSE Cardinality(A)
  BY FS_RemoveElement
<1>2. B = A \ {h} \/ B = (A \ {h}) \cup {h}
  OBVIOUS
<1>3. IsFiniteSet((A \ {h}) \cup {h}) /\ Cardinality((A \ {h}) \cup {h}) = Cardinality(A \ {h}) + 1
  BY <1>1, FS_AddElement
<1>4. IsFiniteSet(B)
  BY <1>1, <1>2, <1>3
<1>5. Cardinality(A) \in Nat /\ Cardinality(B) \in Nat /\ Cardinality(A \ {h}) \in Nat
  BY <1>1, <1>4, FS_CardinalityType
<1>6. CASE h \in B
  <2>1. B = (A \ {h}) \cup {h}
    BY <1>6
  <2>. QED
    BY <1>1, <1>3, <1>4, <1>5, <1>6, <2>1
<1>7. CASE h \notin B
  <2>1. B = A \ {h}
    BY <1>7
  <2>. QED
    BY <1>1, <1>4, <1>5, <1>7, <2>1
<1>. QED
  BY <1>6, <1>7

\* There are finitely many holders.
LEMMA HoldersFinite == IsFiniteSet(Holders)
<1>1. IsFiniteSet(Users \cup {Old})
  BY HolderAssumption, FS_AddElement
<1>2. IsFiniteSet((Users \cup {Old}) \cup {Tmp})
  BY <1>1, FS_AddElement
<1>3. Holders = (Users \cup {Old}) \cup {Tmp}
  BY DEF Holders
<1>. QED
  BY <1>2, <1>3

LEMMA FiniteCounts ==
  ASSUME NEW S, NEW c, NEW b
  PROVE  /\ IsFiniteSet(RefsTo(S, c)) /\ Cardinality(RefsTo(S, c)) \in Nat
         /\ IsFiniteSet(UsersOf(S, b)) /\ Cardinality(UsersOf(S, b)) \in Nat
<1>1. RefsTo(S, c) \subseteq Holders /\ UsersOf(S, b) \subseteq Cells
  BY DEF RefsTo, UsersOf
<1>2. IsFiniteSet(RefsTo(S, c)) /\ IsFiniteSet(UsersOf(S, b))
  BY <1>1, HoldersFinite, HeapAssumption, FS_Subset
<1>. QED
  BY <1>2, FS_CardinalityType

\* Where h points to before and after is all that the counts of cells have to follow.
LEMMA RefsChange ==
  ASSUME NEW S, NEW T, NEW h \in Holders, NEW d, NEW c,
         S.ref \in [Holders -> Cells \cup {NoCell}], T.ref = [S.ref EXCEPT ![h] = d]
  PROVE  Moved(Cardinality(RefsTo(S, c)), Cardinality(RefsTo(T, c)), S.ref[h] = c, d = c)
<1>1. \A x : x # h => (x \in RefsTo(S, c) <=> x \in RefsTo(T, c))
  BY DEF RefsTo
<1>2. (h \in RefsTo(S, c) <=> S.ref[h] = c) /\ (h \in RefsTo(T, c) <=> d = c)
  BY DEF RefsTo
<1>3. IsFiniteSet(RefsTo(S, c))
  BY FiniteCounts
<1>. HIDE DEF RefsTo
<1>. QED
  BY <1>1, <1>2, <1>3, CardChange DEF Moved

\* The same of a cell and the counts of blocks.
LEMMA UsersChange ==
  ASSUME NEW S, NEW T, NEW c \in Cells, NEW r \in CellState, NEW b,
         S.cell \in [Cells -> CellState], T.cell = [S.cell EXCEPT ![c] = r]
  PROVE  Moved(Cardinality(UsersOf(S, b)), Cardinality(UsersOf(T, b)),
               S.cell[c].kind = "matrix" /\ S.cell[c].block = b, r.kind = "matrix" /\ r.block = b)
<1>1. \A x : x # c => (x \in UsersOf(S, b) <=> x \in UsersOf(T, b))
  BY DEF UsersOf
<1>2. /\ c \in UsersOf(S, b) <=> (S.cell[c].kind = "matrix" /\ S.cell[c].block = b)
      /\ c \in UsersOf(T, b) <=> (r.kind = "matrix" /\ r.block = b)
  BY DEF UsersOf
<1>3. IsFiniteSet(UsersOf(S, b))
  BY FiniteCounts
<1>. HIDE DEF UsersOf
<1>. QED
  BY <1>1, <1>2, <1>3, CardChange DEF Moved

\* What is not changed keeps its count.
LEMMA RefsSame ==
  ASSUME NEW S, NEW T, NEW c, T.ref = S.ref
  PROVE  RefsTo(T, c) = RefsTo(S, c)
BY DEF RefsTo
LEMMA UsersSame ==
  ASSUME NEW S, NEW T, NEW b, T.cell = S.cell
  PROVE  UsersOf(T, b) = UsersOf(S, b)
BY DEF UsersOf

\* A holder's cell is live, and so is a matrix's block; a count of one means one holder.
LEMMA LiveCell ==
  ASSUME NEW S, NEW l \in BOOLEAN, Heap(S, l), NEW h \in Holders, Has(S, h)
  PROVE  /\ S.ref[h] \in Cells /\ S.cell[S.ref[h]].count >= 1 /\ S.cell[S.ref[h]].kind # "free"
         /\ S.cell[S.ref[h]].count = 1 => \A g \in Holders : S.ref[g] = S.ref[h] => g = h
<1>. DEFINE c == S.ref[h]
<1>1. c \in Cells /\ S.cell[c].count \in Nat
  BY DEF Heap, MemType, Has, CellState
<1>2. S.cell[c].count >= Cardinality(RefsTo(S, c))
  BY <1>1 DEF Heap, CellsCounted, Covers
<1>3. /\ IsFiniteSet(RefsTo(S, c) \ {h})
      /\ Cardinality(RefsTo(S, c) \ {h}) = Cardinality(RefsTo(S, c)) - 1
  <2>1. h \in RefsTo(S, c)
    BY DEF RefsTo
  <2>. QED
    BY <2>1, FiniteCounts, FS_RemoveElement
<1>4. Cardinality(RefsTo(S, c)) \in Nat /\ Cardinality(RefsTo(S, c) \ {h}) \in Nat
  BY <1>3, FiniteCounts, FS_CardinalityType
<1>5. S.cell[c].count >= 1
  BY <1>1, <1>2, <1>3, <1>4
<1>6. S.cell[c].kind # "free"
  BY <1>1, <1>5 DEF Heap, Shaped
<1>7. ASSUME S.cell[c].count = 1, NEW g \in Holders, S.ref[g] = c PROVE g = h
  <2>1. Cardinality(RefsTo(S, c) \ {h}) = 0
    BY <1>2, <1>3, <1>4, <1>7
  <2>2. RefsTo(S, c) \ {h} = {}
    BY <1>3, <2>1, FS_EmptySet
  <2>. QED
    BY <1>7, <2>2 DEF RefsTo
<1>. QED
  BY <1>1, <1>5, <1>6, <1>7

LEMMA LiveBlock ==
  ASSUME NEW S, NEW l \in BOOLEAN, Heap(S, l), NEW c \in Cells, S.cell[c].kind = "matrix"
  PROVE  /\ S.cell[c].block \in Blocks /\ S.block[S.cell[c].block].count >= 1
         /\ S.block[S.cell[c].block].count = 1 =>
              \A d \in Cells : (S.cell[d].kind = "matrix" /\ S.cell[d].block = S.cell[c].block) => d = c
<1>. DEFINE b == S.cell[c].block
<1>1. b \in Blocks
  BY DEF Heap, Shaped
<1>2. S.block[b].count \in Nat
  BY <1>1 DEF Heap, MemType, BlockState
<1>3. S.block[b].count >= Cardinality(UsersOf(S, b))
  BY <1>1 DEF Heap, BlocksCounted, Covers
<1>4. /\ IsFiniteSet(UsersOf(S, b) \ {c})
      /\ Cardinality(UsersOf(S, b) \ {c}) = Cardinality(UsersOf(S, b)) - 1
  <2>1. c \in UsersOf(S, b)
    BY DEF UsersOf
  <2>. QED
    BY <2>1, FiniteCounts, FS_RemoveElement
<1>5. Cardinality(UsersOf(S, b)) \in Nat /\ Cardinality(UsersOf(S, b) \ {c}) \in Nat
  BY <1>4, FiniteCounts, FS_CardinalityType
<1>6. ASSUME S.block[b].count = 1, NEW d \in Cells, S.cell[d].kind = "matrix", S.cell[d].block = b
      PROVE  d = c
  <2>1. Cardinality(UsersOf(S, b) \ {c}) = 0
    BY <1>3, <1>4, <1>5, <1>6
  <2>2. UsersOf(S, b) \ {c} = {}
    BY <1>4, <2>1, FS_EmptySet
  <2>. QED
    BY <1>6, <2>2 DEF UsersOf
<1>. QED
  BY <1>1, <1>2, <1>3, <1>4, <1>5, <1>6

-----------------------------------------------------------------------------
(***************************************************************************)
(* The operations on the heap                                              *)
(***************************************************************************)

\* The copy constructor: one more holder, one more counted, all values as before.
LEMMA TakeKeeps ==
  ASSUME NEW S, NEW l \in BOOLEAN, Heap(S, l), NEW h \in Holders, ~Has(S, h),
         NEW c \in Cells, S.cell[c].kind # "free",
         NEW T \in MemType, T.ref = [S.ref EXCEPT ![h] = c], T.block = S.block,
         T.cell = [S.cell EXCEPT ![c].count = @ + 1]
  PROVE  Gives(S, T, h, Content(S, c), l)
<1>. DEFINE r == [S.cell[c] EXCEPT !.count = @ + 1]
<1>0. /\ S \in MemType /\ Shaped(S) /\ CellsCounted(S, l) /\ BlocksCounted(S, l)
      /\ NoCell \notin Cells /\ c # NoCell
  BY HeapAssumption DEF Heap
<1>1. /\ S.cell[c] \in CellState /\ r \in CellState /\ r.count = S.cell[c].count + 1
      /\ r.kind = S.cell[c].kind /\ r.block = S.cell[c].block /\ r.val = S.cell[c].val
  BY <1>0 DEF MemType, CellState
<1>2. T.cell = [S.cell EXCEPT ![c] = r]
  OBVIOUS
<1>. HIDE DEF r
<1>4. Shaped(T)
  BY <1>0, <1>1, <1>2 DEF MemType, Shaped, CellState
<1>5. CellsCounted(T, l)
  <2>. SUFFICES ASSUME NEW d \in Cells PROVE Covers(T.cell[d].count, Cardinality(RefsTo(T, d)), l)
    BY DEF CellsCounted
  <2>1. Cardinality(RefsTo(T, d)) = Cardinality(RefsTo(S, d)) + (IF c = d THEN 1 ELSE 0)
    <3>1. Moved(Cardinality(RefsTo(S, d)), Cardinality(RefsTo(T, d)), S.ref[h] = d, c = d)
      <4>1. S.ref \in [Holders -> Cells \cup {NoCell}] /\ T.ref = [S.ref EXCEPT ![h] = c]
        BY <1>0, <1>2 DEF MemType
      <4>. QED
        BY <4>1, RefsChange
    <3>. QED
      BY <1>0, <3>1, FiniteCounts DEF Has, Moved
  <2>2. Covers(S.cell[d].count, Cardinality(RefsTo(S, d)), l)
    BY <1>0 DEF CellsCounted
  <2>3. T.cell[d].count = S.cell[d].count + (IF c = d THEN 1 ELSE 0) /\ S.cell[d].count \in Nat
    BY <1>0, <1>1, <1>2 DEF MemType, CellState
  <2>4. Cardinality(RefsTo(S, d)) \in Nat
    BY FiniteCounts
  <2>. QED
    BY <2>1, <2>2, <2>3, <2>4 DEF Covers
<1>6. BlocksCounted(T, l)
  <2>. SUFFICES ASSUME NEW b \in Blocks PROVE Covers(T.block[b].count, Cardinality(UsersOf(T, b)), l)
    BY DEF BlocksCounted
  <2>1. UsersOf(T, b) = UsersOf(S, b)
    BY <1>0, <1>1, <1>2 DEF UsersOf, MemType
  <2>. QED
    BY <1>0, <1>2, <2>1 DEF BlocksCounted
<1>7. \A d \in Cells : Content(T, d) = Content(S, d)
  BY <1>0, <1>1, <1>2 DEF Content, MemType
<1>8. \A g \in Holders \ {h} : T.ref[g] = S.ref[g] /\ (Has(S, g) => S.ref[g] \in Cells)
  BY <1>0, <1>2 DEF MemType, Has
<1>9. SameBut(S, T, h)
  BY <1>7, <1>8 DEF SameBut, Val, Has
<1>10. T.ref[h] = c /\ Val(T, h) = Content(S, c)
  BY <1>0, <1>2, <1>7 DEF Val, Has, MemType
<1>. QED
  BY <1>4, <1>5, <1>6, <1>9, <1>10 DEF Heap, Gives

\* What the heap becomes when one of the blocks is used by one matrix less.
OneLess(S, b) == IF S.block[b].count > 1 THEN [S.block[b] EXCEPT !.count = @ - 1] ELSE FreeBlock

LEMMA OneLessType ==
  ASSUME NEW S, NEW b, S.block[b] \in BlockState, S.block[b].count >= 1
  PROVE  /\ OneLess(S, b) \in BlockState /\ OneLess(S, b).count = S.block[b].count - 1
         /\ S.block[b].count > 1 => OneLess(S, b).data = S.block[b].data
<1>1. <<>> \in Vectors
  BY DEF Vectors, Abstract!Vectors
<1>. QED
  BY <1>1 DEF BlockState, FreeBlock, OneLess

\* Cell c no longer uses its block: the others see the same data, free blocks stay free.
BlockDropped(S, T, c, l) ==
  /\ T.block \in [Blocks -> BlockState] /\ BlocksCounted(T, l)
  /\ \A d \in Cells \ {c} : Content(T, d) = Content(S, d)
  /\ \A a \in Blocks : S.block[a].count = 0 => T.block[a].count = 0

\* ~Array, when cell c ceases to be a matrix.
LEMMA DropBlockKeeps ==
  ASSUME NEW S, NEW l \in BOOLEAN, Heap(S, l), NEW c \in Cells, S.cell[c].kind = "matrix",
         NEW r \in CellState, r.kind # "matrix",
         NEW T, T.cell = [S.cell EXCEPT ![c] = r],
         T.block = [S.block EXCEPT ![S.cell[c].block] = OneLess(S, S.cell[c].block)]
  PROVE  BlockDropped(S, T, c, l)
<1>. DEFINE b == S.cell[c].block
            s == OneLess(S, b)
<1>0. S \in MemType /\ Shaped(S) /\ BlocksCounted(S, l)
  BY DEF Heap
<1>1. /\ b \in Blocks /\ S.block[b].count >= 1
      /\ S.block[b].count = 1 => \A d \in Cells : (S.cell[d].kind = "matrix" /\ S.cell[d].block = b) => d = c
  BY LiveBlock
<1>2. S.block[b] \in BlockState
  BY <1>0, <1>1 DEF MemType
<1>3. /\ s \in BlockState /\ s.count = S.block[b].count - 1
      /\ S.block[b].count > 1 => s.data = S.block[b].data
  BY <1>1, <1>2, OneLessType
<1>4. T.cell = [S.cell EXCEPT ![c] = r] /\ T.block = [S.block EXCEPT ![b] = s]
  OBVIOUS
<1>5. T.block \in [Blocks -> BlockState]
  BY <1>0, <1>3 DEF MemType
<1>. HIDE DEF s
<1>6. BlocksCounted(T, l)
  <2>. SUFFICES ASSUME NEW a \in Blocks PROVE Covers(T.block[a].count, Cardinality(UsersOf(T, a)), l)
    BY DEF BlocksCounted
  <2>1. Cardinality(UsersOf(T, a)) = Cardinality(UsersOf(S, a)) - (IF a = b THEN 1 ELSE 0)
    <3>1. Moved(Cardinality(UsersOf(S, a)), Cardinality(UsersOf(T, a)),
                S.cell[c].kind = "matrix" /\ S.cell[c].block = a, r.kind = "matrix" /\ r.block = a)
      BY <1>0, <1>4, UsersChange DEF MemType
    <3>. QED
      BY <3>1, FiniteCounts DEF Moved
  <2>2. Covers(S.block[a].count, Cardinality(UsersOf(S, a)), l)
    BY <1>0 DEF BlocksCounted
  <2>3. T.block[a].count = S.block[a].count - (IF a = b THEN 1 ELSE 0) /\ S.block[a].count \in Nat
    BY <1>0, <1>1, <1>3, <1>4 DEF MemType, BlockState
  <2>4. Cardinality(UsersOf(S, a)) \in Nat
    BY FiniteCounts
  <2>. QED
    BY <1>1, <2>1, <2>2, <2>3, <2>4 DEF Covers
<1>7. ASSUME NEW d \in Cells \ {c} PROVE Content(T, d) = Content(S, d)
  <2>1. T.cell[d] = S.cell[d]
    BY <1>0, <1>4 DEF MemType
  <2>2. S.cell[d].kind = "matrix" => T.block[S.cell[d].block].data = S.block[S.cell[d].block].data
    <3>1. S.cell[d].kind = "matrix" => S.cell[d].block \in Blocks
      BY <1>0 DEF Shaped
    <3>2. S.cell[d].kind = "matrix" /\ S.cell[d].block = b => S.block[b].count > 1
      BY <1>1, <1>2 DEF BlockState
    <3>. QED
      BY <1>0, <1>3, <1>4, <3>1, <3>2 DEF MemType
  <2>. QED
    BY <2>1, <2>2 DEF Content
<1>8. \A a \in Blocks : S.block[a].count = 0 => T.block[a].count = 0
  BY <1>0, <1>1, <1>4 DEF MemType
<1>. QED
  BY <1>4, <1>5, <1>6, <1>7, <1>8 DEF BlockDropped

\* ~octave_value: the cell loses a holder, and is freed, with its block, when it was the last.
CellDroppedBy(S, T, h, r, l) ==
  LET c == S.ref[h]
  IN /\ r.count = S.cell[c].count - 1 /\ (r.kind = "free" <=> r.count = 0)
     /\ r.kind = "matrix" => r.block \in Blocks
     /\ S.cell[c].count > 1 => (r = [S.cell[c] EXCEPT !.count = @ - 1] /\ T.block = S.block)
     /\ T \in MemType /\ T.ref = [S.ref EXCEPT ![h] = NoCell] /\ T.cell = [S.cell EXCEPT ![c] = r]
     /\ BlocksCounted(T, l)
     /\ \A d \in Cells : (d # c \/ S.cell[c].count > 1) => Content(T, d) = Content(S, d)
     /\ \A a \in Blocks : S.block[a].count = 0 => T.block[a].count = 0
CellDropped(S, T, h, l) == \E r \in CellState : CellDroppedBy(S, T, h, r, l)

LEMMA DropCellKeeps ==
  ASSUME NEW S, NEW l \in BOOLEAN, Heap(S, l), NEW h \in Holders, Has(S, h)
  PROVE  CellDropped(S, Release(S, h), h, l)
<1>. DEFINE c == S.ref[h]
            T == Release(S, h)
            D == DropCell(S, c)
<1>0. /\ S \in MemType /\ Shaped(S) /\ BlocksCounted(S, l)
      /\ c \in Cells /\ S.cell[c].count >= 1 /\ S.cell[c].kind # "free"
      /\ S.cell[c] \in CellState
  BY LiveCell DEF Heap, MemType
<1>1. T = [D EXCEPT !.ref[h] = NoCell]
  BY DEF Release
<1>2. FreeCell \in CellState /\ FreeCell.kind = "free" /\ FreeCell.count = 0
  BY DEF FreeCell, CellState, Vectors, Abstract!Vectors
<1>3. ASSUME NEW r \in CellState, r.count = S.cell[c].count - 1, r.kind = "free" <=> r.count = 0,
             r.kind = "matrix" => r.block \in Blocks,
             S.cell[c].count > 1 => (r = [S.cell[c] EXCEPT !.count = @ - 1] /\ D.block = S.block),
             D \in MemType, D.ref = S.ref, D.cell = [S.cell EXCEPT ![c] = r],
             BlocksCounted(D, l),
             \A d \in Cells : (d # c \/ S.cell[c].count > 1) => Content(D, d) = Content(S, d),
             \A a \in Blocks : S.block[a].count = 0 => D.block[a].count = 0
      PROVE  CellDroppedBy(S, T, h, r, l)
  <2>. HIDE DEF D
  <2>1. T.cell = D.cell /\ T.block = D.block /\ T.ref = [S.ref EXCEPT ![h] = NoCell] /\ T \in MemType
    BY <1>1, <1>3 DEF MemType
  <2>. HIDE DEF T
  <2>2. \A b : UsersOf(T, b) = UsersOf(D, b)
    BY <2>1, UsersSame
  <2>3. \A d : Content(T, d) = Content(D, d)
    BY <2>1 DEF Content
  <2>. QED
    BY <1>3, <2>1, <2>2, <2>3 DEF BlocksCounted, CellDroppedBy
<1>4. CASE S.cell[c].count > 1
  <2>. DEFINE r == [S.cell[c] EXCEPT !.count = @ - 1]
  <2>1. /\ r \in CellState /\ r.count = S.cell[c].count - 1 /\ r.kind = S.cell[c].kind
        /\ r.block = S.cell[c].block /\ r.val = S.cell[c].val
    BY <1>0, <1>4 DEF CellState
  <2>2. D.ref = S.ref /\ D.cell = [S.cell EXCEPT ![c] = r] /\ D.block = S.block /\ D \in MemType
    BY <1>0, <1>4, <2>1 DEF MemType, DropCell
  <2>. HIDE DEF D, r
  <2>3. \A b : UsersOf(D, b) = UsersOf(S, b)
    BY <1>0, <2>1, <2>2 DEF UsersOf, MemType
  <2>4. BlocksCounted(D, l)
    BY <1>0, <2>2, <2>3 DEF BlocksCounted
  <2>5. \A d \in Cells : Content(D, d) = Content(S, d)
    BY <1>0, <2>1, <2>2 DEF Content, MemType
  <2>6. (r.kind = "free" <=> r.count = 0) /\ (r.kind = "matrix" => r.block \in Blocks)
    BY <1>0, <1>4, <2>1 DEF Shaped, CellState
  <2>7. r = [S.cell[c] EXCEPT !.count = @ - 1]
    BY DEF r
  <2>8. CellDroppedBy(S, T, h, r, l)
    BY <1>3, <2>1, <2>2, <2>4, <2>5, <2>6, <2>7
  <2>. QED
    BY <2>1, <2>8 DEF CellDropped
<1>5. CASE S.cell[c].count = 1
  <2>1. D.ref = S.ref /\ D.cell = [S.cell EXCEPT ![c] = FreeCell] /\ D \in MemType /\ BlocksCounted(D, l)
        /\ (\A d \in Cells : d # c => Content(D, d) = Content(S, d))
        /\ (\A a \in Blocks : S.block[a].count = 0 => D.block[a].count = 0)
    <3>1. CASE S.cell[c].kind = "matrix"
      <4>1. D = [DropBlock(S, S.cell[c].block) EXCEPT !.cell[c] = FreeCell]
        BY <1>5, <3>1 DEF DropCell
      <4>2. /\ D.ref = S.ref /\ D.cell = [S.cell EXCEPT ![c] = FreeCell]
            /\ D.block = [S.block EXCEPT ![S.cell[c].block] = OneLess(S, S.cell[c].block)]
            /\ D \in [ref : {D.ref}, cell : {D.cell}, block : {D.block}]
        BY <1>0, <4>1 DEF MemType, DropBlock, OneLess
      <4>. HIDE DEF D, c
      <4>a. c \in Cells /\ FreeCell \in CellState /\ FreeCell.kind # "matrix"
        BY <1>0, <1>2
      <4>3. /\ D.block \in [Blocks -> BlockState] /\ BlocksCounted(D, l)
            /\ \A d \in Cells \ {c} : Content(D, d) = Content(S, d)
            /\ \A a \in Blocks : S.block[a].count = 0 => D.block[a].count = 0
        <5>1. BlockDropped(S, D, c, l)
          BY <3>1, <4>2, <4>a, DropBlockKeeps
        <5>. QED
          BY <5>1 DEF BlockDropped
      <4>4. D \in MemType
        BY <1>0, <1>2, <4>2, <4>3 DEF MemType
      <4>. QED
        BY <4>2, <4>3, <4>4
    <3>2. CASE S.cell[c].kind # "matrix"
      <4>1. D = [S EXCEPT !.cell[c] = FreeCell]
        BY <1>5, <3>2 DEF DropCell
      <4>2. D.ref = S.ref /\ D.cell = [S.cell EXCEPT ![c] = FreeCell] /\ D.block = S.block /\ D \in MemType
        BY <1>0, <1>2, <4>1 DEF MemType
      <4>. HIDE DEF D
      <4>3. \A b : UsersOf(D, b) = UsersOf(S, b)
        BY <1>0, <1>2, <3>2, <4>2 DEF UsersOf, MemType
      <4>4. \A d \in Cells : d # c => Content(D, d) = Content(S, d)
        BY <1>0, <4>2 DEF Content, MemType
      <4>. QED
        BY <1>0, <4>2, <4>3, <4>4 DEF BlocksCounted
    <3>. QED
      BY <3>1, <3>2
  <2>2. FreeCell.count = S.cell[c].count - 1 /\ FreeCell.kind # "matrix" /\ ~(S.cell[c].count > 1)
    BY <1>2, <1>5
  <2>. HIDE DEF D
  <2>3. CellDroppedBy(S, T, h, FreeCell, l)
    BY <1>2, <1>3, <2>1, <2>2
  <2>. QED
    BY <1>2, <2>3 DEF CellDropped
<1>6. S.cell[c].count = 1 \/ S.cell[c].count > 1
  BY <1>0 DEF CellState
<1>. QED
  BY <1>4, <1>5, <1>6

LEMMA ReleaseKeeps ==
  ASSUME NEW S, NEW l \in BOOLEAN, Heap(S, l), NEW h \in Holders
  PROVE  LET T == Release(S, h)
         IN Gives(S, T, h, None, l) /\ ~Has(T, h) /\ (Room(S) => Room(T))
<1>. DEFINE T == Release(S, h)
<1>1. CASE ~Has(S, h)
  <2>1. T = S
    BY <1>1 DEF Release
  <2>. QED
    BY <1>1, <2>1 DEF Gives, SameBut, Val
<1>2. CASE Has(S, h)
  <2>. DEFINE c == S.ref[h]
  <2>0. /\ S \in MemType /\ Shaped(S) /\ CellsCounted(S, l)
        /\ c \in Cells /\ S.cell[c].count >= 1 /\ S.cell[c].kind # "free" /\ S.cell[c].count \in Nat
        /\ S.cell[c].count = 1 => \A g \in Holders : S.ref[g] = S.ref[h] => g = h
    BY <1>2, LiveCell DEF Heap, MemType, CellState
  <2>a. CellDropped(S, T, h, l)
    BY <1>2, DropCellKeeps
  <2>. HIDE DEF T
  <2>b. PICK r \in CellState : CellDroppedBy(S, T, h, r, l)
    BY <2>a DEF CellDropped
  <2>1. /\ r.count = S.cell[c].count - 1 /\ (r.kind = "free" <=> r.count = 0)
        /\ r.kind = "matrix" => r.block \in Blocks
        /\ T \in MemType /\ T.ref = [S.ref EXCEPT ![h] = NoCell] /\ T.cell = [S.cell EXCEPT ![c] = r]
        /\ BlocksCounted(T, l)
        /\ \A d \in Cells : (d # c \/ S.cell[c].count > 1) => Content(T, d) = Content(S, d)
        /\ \A a \in Blocks : S.block[a].count = 0 => T.block[a].count = 0
    BY <2>b DEF CellDroppedBy
  <2>2. Shaped(T)
    BY <2>0, <2>1 DEF Shaped, MemType
  <2>3. CellsCounted(T, l)
    <3>. SUFFICES ASSUME NEW d \in Cells PROVE Covers(T.cell[d].count, Cardinality(RefsTo(T, d)), l)
      BY DEF CellsCounted
    <3>1. Moved(Cardinality(RefsTo(S, d)), Cardinality(RefsTo(T, d)), S.ref[h] = d, NoCell = d)
      <4>1. S.ref \in [Holders -> Cells \cup {NoCell}] /\ T.ref = [S.ref EXCEPT ![h] = NoCell]
        BY <2>0, <2>1 DEF MemType
      <4>. QED
        BY <4>1, RefsChange
    <3>2. Covers(S.cell[d].count, Cardinality(RefsTo(S, d)), l)
      BY <2>0 DEF CellsCounted
    <3>3. T.cell[d].count = S.cell[d].count - (IF c = d THEN 1 ELSE 0) /\ S.cell[d].count \in Nat
      BY <2>0, <2>1 DEF MemType, CellState
    <3>4. Cardinality(RefsTo(S, d)) \in Nat /\ NoCell # d
      BY FiniteCounts, HeapAssumption
    <3>. QED
      BY <3>1, <3>2, <3>3, <3>4 DEF Covers, Moved
  <2>4. ~Has(T, h)
    BY <2>0, <2>1 DEF Has, MemType
  <2>5. SameBut(S, T, h)
    <3>. SUFFICES ASSUME NEW g \in Holders \ {h} PROVE Val(T, g) = Val(S, g) /\ T.ref[g] = S.ref[g]
      BY DEF SameBut
    <3>1. T.ref[g] = S.ref[g]
      BY <2>0, <2>1 DEF MemType
    <3>2. Has(S, g) => Content(T, S.ref[g]) = Content(S, S.ref[g])
      <4>1. Has(S, g) => S.ref[g] \in Cells
        BY <2>0 DEF Has, MemType
      <4>2. S.ref[g] # c \/ S.cell[c].count > 1
        BY <2>0
      <4>. QED
        BY <2>1, <4>1, <4>2
    <3>. QED
      BY <3>1, <3>2 DEF Val, Has
  <2>6. Room(S) => Room(T)
    <3>1. ASSUME NEW d \in Cells, S.cell[d].kind = "free" PROVE T.cell[d].kind = "free"
      BY <2>0, <2>1, <3>1 DEF MemType
    <3>. QED
      BY <2>1, <3>1 DEF Room
  <2>. QED
    BY <2>1, <2>2, <2>3, <2>4, <2>5, <2>6 DEF Gives, Heap, Val, T
<1>. QED
  BY <1>1, <1>2

\* h has got a cell of its own, the cells of the others have not been touched.
Fresh(S, T, h) ==
  /\ T.ref[h] \in Cells /\ T.cell[T.ref[h]].count = 1
  /\ \A g \in Holders \ {h} : Has(S, g) => T.cell[S.ref[g]] = S.cell[S.ref[g]]

\* A block has one user more if the new cell r is a matrix that uses it.
OneMore(S, T, r) ==
  \A a \in Blocks : /\ T.block[a].count = S.block[a].count + (IF r.kind = "matrix" /\ r.block = a THEN 1 ELSE 0)
                    /\ S.block[a].count > 0 => T.block[a].data = S.block[a].data

\* A rep as new and clone () make it.
NewRep(r) == r \in CellState /\ r.count = 1 /\ r.kind # "free" /\ (r.kind = "matrix" => r.block \in Blocks)

Placed(S, T, h, x, l) == Gives(S, T, h, x, l) /\ Fresh(S, T, h)

\* A free cell becomes r, which only h points to.
LEMMA PlaceKeeps ==
  ASSUME NEW S, NEW l \in BOOLEAN, Heap(S, l), NEW h \in Holders, ~Has(S, h),
         NEW c \in Cells, S.cell[c].kind = "free",
         NEW r, NewRep(r),
         NEW T \in MemType, T.ref = [S.ref EXCEPT ![h] = c], T.cell = [S.cell EXCEPT ![c] = r],
         OneMore(S, T, r)
  PROVE  Placed(S, T, h, Content(T, c), l)
<1>. USE DEF NewRep
<1>0. /\ S \in MemType /\ Shaped(S) /\ CellsCounted(S, l) /\ BlocksCounted(S, l)
      /\ NoCell \notin Cells /\ c # NoCell /\ S.cell[c].count = 0
  BY HeapAssumption DEF Heap, Shaped
<1>1. Shaped(T)
  BY <1>0 DEF Shaped, MemType
<1>2. CellsCounted(T, l)
  <2>. SUFFICES ASSUME NEW d \in Cells PROVE Covers(T.cell[d].count, Cardinality(RefsTo(T, d)), l)
    BY DEF CellsCounted
  <2>1. Moved(Cardinality(RefsTo(S, d)), Cardinality(RefsTo(T, d)), S.ref[h] = d, c = d)
    <3>1. S.ref \in [Holders -> Cells \cup {NoCell}]
      BY <1>0 DEF MemType
    <3>. QED
      BY <3>1, RefsChange
  <2>2. Covers(S.cell[d].count, Cardinality(RefsTo(S, d)), l)
    BY <1>0 DEF CellsCounted
  <2>3. T.cell[d].count = S.cell[d].count + (IF c = d THEN 1 ELSE 0) /\ S.cell[d].count \in Nat
    BY <1>0 DEF MemType, CellState
  <2>4. Cardinality(RefsTo(S, d)) \in Nat /\ S.ref[h] # d
    BY <1>0, FiniteCounts DEF Has
  <2>. QED
    BY <2>1, <2>2, <2>3, <2>4 DEF Covers, Moved
<1>3. BlocksCounted(T, l)
  <2>. SUFFICES ASSUME NEW a \in Blocks PROVE Covers(T.block[a].count, Cardinality(UsersOf(T, a)), l)
    BY DEF BlocksCounted
  <2>1. Moved(Cardinality(UsersOf(S, a)), Cardinality(UsersOf(T, a)),
              S.cell[c].kind = "matrix" /\ S.cell[c].block = a, r.kind = "matrix" /\ r.block = a)
    BY <1>0, UsersChange DEF MemType
  <2>2. Covers(S.block[a].count, Cardinality(UsersOf(S, a)), l)
    BY <1>0 DEF BlocksCounted
  <2>3. T.block[a].count = S.block[a].count + (IF r.kind = "matrix" /\ r.block = a THEN 1 ELSE 0)
    BY DEF OneMore
  <2>4. Cardinality(UsersOf(S, a)) \in Nat /\ S.block[a].count \in Nat
    BY <1>0, FiniteCounts DEF MemType, BlockState
  <2>. QED
    BY <2>1, <2>2, <2>3, <2>4 DEF Covers, Moved
<1>4. ASSUME NEW d \in Cells \ {c} PROVE Content(T, d) = Content(S, d) /\ T.cell[d] = S.cell[d]
  <2>1. T.cell[d] = S.cell[d]
    BY <1>0 DEF MemType
  <2>2. S.cell[d].kind = "matrix" => S.cell[d].block \in Blocks /\ S.block[S.cell[d].block].count > 0
    <3>1. S.cell[d].kind = "matrix" => S.cell[d].block \in Blocks /\ S.block[S.cell[d].block].count >= 1
      BY LiveBlock
    <3>2. S.cell[d].block \in Blocks => S.block[S.cell[d].block].count \in Nat
      BY <1>0 DEF MemType, BlockState
    <3>. QED
      BY <3>1, <3>2
  <2>. QED
    BY <2>1, <2>2 DEF Content, OneMore
<1>5. ASSUME NEW g \in Holders \ {h}
      PROVE  T.ref[g] = S.ref[g] /\ (Has(S, g) => S.ref[g] \in Cells \ {c})
  <2>1. Has(S, g) => S.ref[g] \in Cells /\ S.cell[S.ref[g]].kind # "free"
    BY LiveCell
  <2>. QED
    BY <1>0, <2>1 DEF MemType
<1>6. SameBut(S, T, h)
  BY <1>4, <1>5 DEF SameBut, Val, Has
<1>7. T.ref[h] = c /\ Val(T, h) = Content(T, c) /\ T.cell[c] = r
  BY <1>0 DEF Val, Has, MemType
<1>8. Fresh(S, T, h)
  BY <1>4, <1>5, <1>7 DEF Fresh
<1>. QED
  BY <1>1, <1>2, <1>3, <1>6, <1>7, <1>8 DEF Gives, Heap, Placed

LEMMA FreePlaces ==
  ASSUME NEW S, Room(S)
  PROVE  /\ AnyCell(S) \in Cells /\ S.cell[AnyCell(S)].kind = "free"
         /\ AnyBlock(S) \in Blocks /\ S.block[AnyBlock(S)].count = 0
BY DEF Room, AnyCell, AnyBlock

\* new: the holder has the value, in a cell of that kind.
LEMMA NewKeeps ==
  ASSUME NEW S, NEW l \in BOOLEAN, Heap(S, l), NEW h \in Holders, ~Has(S, h), Room(S),
         NEW kind \in {"scalar", "range", "matrix"}, NEW x \in Vectors
  PROVE  LET T == New(S, h, kind, x)
         IN Placed(S, T, h, x, l) /\ Kind(T, h) = kind
<1>. DEFINE T == New(S, h, kind, x)
            c == AnyCell(S)
            b == AnyBlock(S)
            r == IF kind = "matrix" THEN [kind |-> kind, count |-> 1, val |-> <<>>, block |-> b]
                 ELSE [kind |-> kind, count |-> 1, val |-> x, block |-> NoBlock]
            n == [count |-> 1, data |-> x]
<1>0. S \in MemType /\ c \in Cells /\ S.cell[c].kind = "free" /\ b \in Blocks /\ S.block[b].count = 0
  BY FreePlaces DEF Heap
<1>1. /\ r \in CellState /\ r.count = 1 /\ r.kind = kind /\ r.kind # "free"
      /\ r.kind = "matrix" => (r.block = b /\ r.block \in Blocks)
      /\ r.kind # "matrix" => r.val = x
  <2>1. <<>> \in Vectors
    BY DEF Vectors, Abstract!Vectors
  <2>. QED
    BY <1>0, <2>1 DEF CellState
<1>2. n \in BlockState
  BY DEF BlockState
<1>3. /\ T.ref = [S.ref EXCEPT ![h] = c] /\ T.cell = [S.cell EXCEPT ![c] = r] /\ T \in MemType
      /\ T.block = IF kind = "matrix" THEN [S.block EXCEPT ![b] = n] ELSE S.block
  BY <1>0, <1>1, <1>2 DEF MemType, New
<1>. HIDE DEF T, c, b, r
<1>4. OneMore(S, T, r)
  <2>. SUFFICES ASSUME NEW a \in Blocks
                PROVE  /\ T.block[a].count = S.block[a].count + (IF r.kind = "matrix" /\ r.block = a THEN 1 ELSE 0)
                       /\ S.block[a].count > 0 => T.block[a].data = S.block[a].data
    BY DEF OneMore
  <2>1. S.block[a].count \in Nat
    BY <1>0 DEF MemType, BlockState
  <2>. QED
    BY <1>0, <1>1, <1>3, <2>1 DEF MemType
<1>5. Placed(S, T, h, Content(T, c), l)
  <2>1. NewRep(r)
    BY <1>1 DEF NewRep
  <2>. QED
    BY <1>0, <1>3, <1>4, <2>1, PlaceKeeps
<1>6. T.ref[h] = c /\ T.cell[c] = r /\ Content(T, c) = x
  BY <1>0, <1>1, <1>3 DEF MemType, Content
<1>7. Placed(S, T, h, x, l) /\ Kind(T, h) = kind
  BY <1>1, <1>5, <1>6 DEF Kind
<1>. QED
  BY <1>7 DEF T

\* clone (): the holder has the value of the cell, and shares its block.
LEMMA CloneKeeps ==
  ASSUME NEW S, NEW l \in BOOLEAN, Heap(S, l), NEW h \in Holders, ~Has(S, h), Room(S),
         NEW c \in Cells, S.cell[c].kind # "free"
  PROVE  LET T == Clone(S, h, c)
         IN Placed(S, T, h, Content(S, c), l) /\ Kind(T, h) = S.cell[c].kind
<1>. DEFINE T == Clone(S, h, c)
            n == AnyCell(S)
            b == S.cell[c].block
            r == [S.cell[c] EXCEPT !.count = 1]
            m == [S.block[b] EXCEPT !.count = @ + 1]
<1>0. /\ S \in MemType /\ Shaped(S) /\ n \in Cells /\ S.cell[n].kind = "free" /\ S.cell[c] \in CellState
      /\ n # c
  BY FreePlaces DEF Heap, MemType
<1>1. /\ r \in CellState /\ r.count = 1 /\ r.kind = S.cell[c].kind /\ r.block = b /\ r.val = S.cell[c].val
  BY <1>0 DEF CellState
<1>2. r.kind = "matrix" => /\ b \in Blocks /\ S.block[b] \in BlockState /\ m \in BlockState
                           /\ m.count = S.block[b].count + 1 /\ m.data = S.block[b].data
  BY <1>0, <1>1 DEF Shaped, MemType, BlockState
<1>3. /\ T.ref = [S.ref EXCEPT ![h] = n] /\ T.cell = [S.cell EXCEPT ![n] = r] /\ T \in MemType
      /\ T.block = IF r.kind = "matrix" THEN [S.block EXCEPT ![b] = m] ELSE S.block
  BY <1>0, <1>1, <1>2 DEF MemType, Clone
<1>. HIDE DEF T, n, b, r, m
<1>4. OneMore(S, T, r)
  <2>. SUFFICES ASSUME NEW a \in Blocks
                PROVE  /\ T.block[a].count = S.block[a].count + (IF r.kind = "matrix" /\ r.block = a THEN 1 ELSE 0)
                       /\ S.block[a].count > 0 => T.block[a].data = S.block[a].data
    BY DEF OneMore
  <2>1. S.block[a].count \in Nat
    BY <1>0 DEF MemType, BlockState
  <2>. QED
    BY <1>0, <1>1, <1>2, <1>3, <2>1 DEF MemType
<1>5. Placed(S, T, h, Content(T, n), l)
  <2>1. NewRep(r)
    BY <1>0, <1>1, <1>2 DEF NewRep
  <2>. QED
    BY <1>0, <1>3, <1>4, <2>1, PlaceKeeps
<1>6. T.ref[h] = n /\ T.cell[n] = r
  BY <1>0, <1>3 DEF MemType
<1>7. Content(T, n) = Content(S, c)
  <2>1. b = S.cell[c].block
    BY DEF b
  <2>. QED
    BY <1>0, <1>1, <1>2, <1>3, <1>6, <2>1 DEF Content, MemType
<1>8. Placed(S, T, h, Content(S, c), l) /\ Kind(T, h) = S.cell[c].kind
  BY <1>1, <1>5, <1>6, <1>7 DEF Kind
<1>. QED
  BY <1>8 DEF T

\* Passing a pointer on: h has what g had, g nothing, and no count changes.
Passed(S, T, h, g, l) ==
  /\ Heap(T, l) /\ ~Has(T, g) /\ T.ref[h] = S.ref[g] /\ T.cell = S.cell
  /\ Val(T, h) = Val(S, g) /\ \A k \in Holders \ {h, g} : Val(T, k) = Val(S, k) /\ T.ref[k] = S.ref[k]

LEMMA MoveKeeps ==
  ASSUME NEW S, NEW l \in BOOLEAN, Heap(S, l), NEW h \in Holders, NEW g \in Holders, h # g, ~Has(S, h)
  PROVE  Passed(S, Move(S, h, g), h, g, l) /\ (Room(S) => Room(Move(S, h, g)))
<1>. DEFINE T == Move(S, h, g)
            U == [S EXCEPT !.ref[h] = S.ref[g]]
<1>0. S \in MemType /\ Shaped(S) /\ CellsCounted(S, l) /\ BlocksCounted(S, l)
  BY DEF Heap
<1>1. /\ U.ref = [S.ref EXCEPT ![h] = S.ref[g]] /\ U.ref \in [Holders -> Cells \cup {NoCell}]
      /\ T.ref = [U.ref EXCEPT ![g] = NoCell] /\ T.cell = S.cell /\ T.block = S.block /\ T \in MemType
  BY <1>0 DEF Move, MemType
<1>. HIDE DEF T, U
<1>2. CellsCounted(T, l)
  <2>. SUFFICES ASSUME NEW d \in Cells PROVE Cardinality(RefsTo(T, d)) = Cardinality(RefsTo(S, d))
    BY <1>0, <1>1 DEF CellsCounted
  <2>1. Moved(Cardinality(RefsTo(S, d)), Cardinality(RefsTo(U, d)), S.ref[h] = d, S.ref[g] = d)
    <3>1. S.ref \in [Holders -> Cells \cup {NoCell}] /\ U.ref = [S.ref EXCEPT ![h] = S.ref[g]]
      BY <1>0, <1>1 DEF MemType
    <3>. QED
      BY <3>1, RefsChange
  <2>2. Moved(Cardinality(RefsTo(U, d)), Cardinality(RefsTo(T, d)), U.ref[g] = d, NoCell = d)
    <3>1. U.ref \in [Holders -> Cells \cup {NoCell}] /\ T.ref = [U.ref EXCEPT ![g] = NoCell]
      BY <1>1
    <3>. QED
      BY <3>1, RefsChange
  <2>3. U.ref[g] = S.ref[g] /\ S.ref[h] # d /\ NoCell # d
    BY <1>0, <1>1, HeapAssumption DEF MemType, Has
  <2>4. Cardinality(RefsTo(S, d)) \in Nat /\ Cardinality(RefsTo(U, d)) \in Nat /\ Cardinality(RefsTo(T, d)) \in Nat
    BY FiniteCounts
  <2>. QED
    BY <2>1, <2>2, <2>3, <2>4 DEF Moved
<1>3. BlocksCounted(T, l)
  <2>1. \A b : UsersOf(T, b) = UsersOf(S, b)
    BY <1>1, UsersSame
  <2>. QED
    BY <1>0, <1>1, <2>1 DEF BlocksCounted
<1>4. Shaped(T) /\ \A c : Content(T, c) = Content(S, c)
  BY <1>0, <1>1 DEF Shaped, Content
<1>5. T.ref[h] = S.ref[g] /\ ~Has(T, g)
  BY <1>0, <1>1 DEF MemType, Has
<1>6. \A k \in Holders \ {h, g} : T.ref[k] = S.ref[k]
  BY <1>0, <1>1 DEF MemType
<1>7. Val(T, h) = Val(S, g) /\ \A k \in Holders \ {h, g} : Val(T, k) = Val(S, k)
  BY <1>4, <1>5, <1>6 DEF Val, Has
<1>8. Room(S) => Room(T)
  BY <1>1 DEF Room
<1>9. Passed(S, T, h, g, l) /\ (Room(S) => Room(T))
  BY <1>1, <1>2, <1>3, <1>4, <1>5, <1>6, <1>7, <1>8 DEF Passed, Heap
<1>. QED
  BY <1>9 DEF T

\* Writing: the cell that h has alone keeps its kind, no other cell changes.
Stored(S, T, h, x, l) ==
  /\ Gives(S, T, h, x, l) /\ T.ref = S.ref /\ T.cell[S.ref[h]].count = 1 /\ Kind(T, h) = Kind(S, h)
  /\ \A d \in Cells \ {S.ref[h]} : T.cell[d] = S.cell[d]

LEMMA WriteKeeps ==
  ASSUME NEW S, NEW l \in BOOLEAN, Heap(S, l), NEW h \in Holders, Has(S, h), S.cell[S.ref[h]].count = 1,
         NEW r \in CellState, r.count = 1, r.kind = S.cell[S.ref[h]].kind, r.kind = "matrix" => r.block \in Blocks,
         NEW T \in MemType, T.ref = S.ref, T.cell = [S.cell EXCEPT ![S.ref[h]] = r],
         BlocksCounted(T, l),
         \A d \in Cells \ {S.ref[h]} : Content(T, d) = Content(S, d)
  PROVE  Stored(S, T, h, Content(T, S.ref[h]), l)
<1>. DEFINE c == S.ref[h]
<1>0. /\ S \in MemType /\ Shaped(S) /\ CellsCounted(S, l) /\ c \in Cells /\ S.cell[c].kind # "free"
      /\ \A g \in Holders : S.ref[g] = c => g = h
  BY LiveCell DEF Heap
<1>1. T.cell[c] = r /\ \A d \in Cells \ {c} : T.cell[d] = S.cell[d]
  BY <1>0 DEF MemType
<1>2. Shaped(T)
  BY <1>0, <1>1 DEF Shaped
<1>3. CellsCounted(T, l)
  <2>1. \A d : RefsTo(T, d) = RefsTo(S, d)
    BY RefsSame
  <2>. QED
    BY <1>0, <1>1, <2>1 DEF CellsCounted
<1>4. \A g \in Holders \ {h} : Has(S, g) => S.ref[g] \in Cells \ {c}
  BY <1>0 DEF Has, MemType
<1>5. SameBut(S, T, h)
  BY <1>4 DEF SameBut, Val, Has
<1>6. Val(T, h) = Content(T, c)
  BY DEF Val, Has
<1>. QED
  BY <1>1, <1>2, <1>3, <1>5, <1>6 DEF Stored, Gives, Heap, Kind

LEMMA StoreKeeps ==
  ASSUME NEW S, NEW l \in BOOLEAN, Heap(S, l), NEW h \in Holders, Has(S, h), S.cell[S.ref[h]].count = 1,
         NEW f \in Blocks, S.block[f].count = 0, NEW x \in Vectors
  PROVE  Stored(S, Store(S, h, x), h, x, l)
<1>. DEFINE T == Store(S, h, x)
            c == S.ref[h]
            b == S.cell[c].block
            n == AnyBlock(S)
<1>0. /\ S \in MemType /\ Shaped(S) /\ BlocksCounted(S, l) /\ c \in Cells /\ S.cell[c] \in CellState
      /\ n \in Blocks /\ S.block[n].count = 0
  BY LiveCell DEF Heap, MemType, AnyBlock
<1>1. CASE S.cell[c].kind # "matrix"
  <2>. DEFINE r == [S.cell[c] EXCEPT !.val = x]
  <2>1. r \in CellState /\ r.count = 1 /\ r.kind = S.cell[c].kind /\ r.val = x
    BY <1>0 DEF CellState
  <2>2. T.ref = S.ref /\ T.cell = [S.cell EXCEPT ![c] = r] /\ T.block = S.block /\ T \in MemType
    BY <1>0, <1>1, <2>1 DEF Store, MemType
  <2>. HIDE DEF T, c, r
  <2>3. \A a : UsersOf(T, a) = UsersOf(S, a)
    BY <1>0, <1>1, <2>1, <2>2 DEF UsersOf, MemType
  <2>4. BlocksCounted(T, l)
    BY <1>0, <2>2, <2>3 DEF BlocksCounted
  <2>5. \A d \in Cells \ {c} : Content(T, d) = Content(S, d)
    BY <1>0, <2>2 DEF Content, MemType
  <2>6. Content(T, c) = x
    BY <1>0, <1>1, <2>1, <2>2 DEF Content, MemType
  <2>7. Stored(S, T, h, Content(T, c), l)
    BY <1>1, <2>1, <2>2, <2>4, <2>5, WriteKeeps DEF c
  <2>. QED
    BY <2>6, <2>7 DEF T
<1>2. CASE S.cell[c].kind = "matrix" /\ S.block[b].count = 1 /\ Len(S.block[b].data) = Len(x)
  <2>. DEFINE r == S.cell[c]
              m == [S.block[b] EXCEPT !.data = x]
  <2>1. /\ b \in Blocks /\ S.block[b] \in BlockState /\ m \in BlockState /\ m.count = S.block[b].count /\ m.data = x
        /\ \A d \in Cells : (S.cell[d].kind = "matrix" /\ S.cell[d].block = b) => d = c
    <3>1. b \in Blocks /\ \A d \in Cells : (S.cell[d].kind = "matrix" /\ S.cell[d].block = b) => d = c
      BY <1>0, <1>2, LiveBlock
    <3>. QED
      BY <1>0, <3>1 DEF MemType, BlockState
  <2>2. T.ref = S.ref /\ T.cell = S.cell /\ T.block = [S.block EXCEPT ![b] = m] /\ T \in MemType
    BY <1>0, <1>2, <2>1 DEF Store, MemType
  <2>3. T.cell = [S.cell EXCEPT ![c] = r]
    BY <1>0, <2>2 DEF MemType
  <2>. HIDE DEF T, c, b, m
  <2>4. BlocksCounted(T, l)
    <3>1. \A a : UsersOf(T, a) = UsersOf(S, a)
      BY <2>2, UsersSame
    <3>2. \A a \in Blocks : T.block[a].count = S.block[a].count
      BY <1>0, <2>1, <2>2 DEF MemType
    <3>. QED
      BY <1>0, <3>1, <3>2 DEF BlocksCounted
  <2>5. \A d \in Cells \ {c} : Content(T, d) = Content(S, d)
    BY <1>0, <2>1, <2>2 DEF Content, MemType, Shaped
  <2>6. Content(T, c) = x
    BY <1>0, <1>2, <2>1, <2>2 DEF Content, MemType, b
  <2>7. Stored(S, T, h, Content(T, c), l)
    <3>1. S.cell[c].kind = "matrix" => S.cell[c].block \in Blocks
      BY <1>0 DEF Shaped
    <3>. QED
      BY <1>0, <2>2, <2>3, <2>4, <2>5, <3>1, WriteKeeps DEF c
  <2>. QED
    BY <2>6, <2>7 DEF T
<1>3. CASE S.cell[c].kind = "matrix" /\ ~(S.block[b].count = 1 /\ Len(S.block[b].data) = Len(x))
  <2>. DEFINE r == [S.cell[c] EXCEPT !.block = n]
              m == [count |-> 1, data |-> x]
              s == OneLess(S, b)
  <2>1. b \in Blocks /\ S.block[b] \in BlockState /\ S.block[b].count >= 1 /\ b # n
    <3>1. b \in Blocks /\ S.block[b].count >= 1
      BY <1>0, <1>3, LiveBlock
    <3>. QED
      BY <1>0, <3>1 DEF MemType
  <2>2. s \in BlockState /\ s.count = S.block[b].count - 1 /\ (S.block[b].count > 1 => s.data = S.block[b].data)
    BY <2>1, OneLessType
  <2>3. r \in CellState /\ r.count = 1 /\ r.kind = S.cell[c].kind /\ r.block = n /\ m \in BlockState /\ m.count = 1 /\ m.data = x
    BY <1>0 DEF CellState, BlockState
  <2>4. /\ T.ref = S.ref /\ T.cell = [S.cell EXCEPT ![c] = r]
        /\ T.block = [[S.block EXCEPT ![b] = s] EXCEPT ![n] = m] /\ T \in MemType
    <3>1. T = [DropBlock(S, b) EXCEPT !.block[n] = m, !.cell[c].block = n]
      BY <1>3 DEF Store
    <3>. HIDE DEF T, m
    <3>2. DropBlock(S, b) = [S EXCEPT !.block[b] = s]
      BY DEF DropBlock, OneLess
    <3>. HIDE DEF s, b, n, c
    <3>3. /\ T.ref = S.ref /\ T.cell = [S.cell EXCEPT ![c].block = n]
          /\ T.block = [[S.block EXCEPT ![b] = s] EXCEPT ![n] = m]
          /\ T \in [ref : {T.ref}, cell : {T.cell}, block : {T.block}]
      BY <1>0, <2>1, <3>1, <3>2 DEF MemType
    <3>4. T.cell = [S.cell EXCEPT ![c] = r]
      BY <3>3
    <3>5. T.cell \in [Cells -> CellState] /\ T.block \in [Blocks -> BlockState]
      BY <1>0, <2>2, <2>3, <3>3, <3>4 DEF MemType
    <3>. QED
      BY <1>0, <3>3, <3>4, <3>5 DEF MemType
  <2>5. \A d \in Cells \ {c} : S.cell[d].kind = "matrix" =>
          S.cell[d].block \in Blocks \ {n} /\ (S.cell[d].block = b => S.block[b].count > 1)
    <3>. SUFFICES ASSUME NEW d \in Cells \ {c}, S.cell[d].kind = "matrix"
                  PROVE  S.cell[d].block \in Blocks \ {n} /\ (S.cell[d].block = b => S.block[b].count > 1)
      OBVIOUS
    <3>1. S.cell[d].block \in Blocks /\ S.block[S.cell[d].block].count >= 1
      BY LiveBlock
    <3>2. S.block[b].count = 1 => S.cell[d].block # b
      BY <1>0, <1>3, LiveBlock
    <3>. QED
      BY <1>0, <2>1, <3>1, <3>2 DEF BlockState
  <2>. HIDE DEF T, c, b, n, r, m, s
  <2>6. ASSUME NEW a
        PROVE  Moved(Cardinality(UsersOf(S, a)), Cardinality(UsersOf(T, a)),
                     S.cell[c].kind = "matrix" /\ S.cell[c].block = a, r.kind = "matrix" /\ r.block = a)
    <3>1. c \in Cells /\ r \in CellState /\ S.cell \in [Cells -> CellState] /\ T.cell = [S.cell EXCEPT ![c] = r]
      BY <1>0, <2>3, <2>4 DEF MemType
    <3>. QED
      BY <3>1, UsersChange
  <2>7. BlocksCounted(T, l)
    <3>. SUFFICES ASSUME NEW a \in Blocks PROVE Covers(T.block[a].count, Cardinality(UsersOf(T, a)), l)
      BY DEF BlocksCounted
    <3>1. Cardinality(UsersOf(T, a)) = Cardinality(UsersOf(S, a)) - (IF a = b THEN 1 ELSE 0) + (IF a = n THEN 1 ELSE 0)
      BY <1>3, <2>3, <2>6 DEF Moved, b
    <3>2. Covers(S.block[a].count, Cardinality(UsersOf(S, a)), l)
      BY <1>0 DEF BlocksCounted
    <3>3. T.block[a].count = S.block[a].count - (IF a = b THEN 1 ELSE 0) + (IF a = n THEN 1 ELSE 0) /\ S.block[a].count \in Nat
      BY <1>0, <2>1, <2>2, <2>3, <2>4 DEF MemType, BlockState
    <3>4. Cardinality(UsersOf(S, a)) \in Nat
      BY FiniteCounts
    <3>. QED
      BY <3>1, <3>2, <3>3, <3>4 DEF Covers
  <2>8. \A d \in Cells \ {c} : Content(T, d) = Content(S, d)
    <3>. SUFFICES ASSUME NEW d \in Cells \ {c} PROVE Content(T, d) = Content(S, d)
      OBVIOUS
    <3>1. T.cell[d] = S.cell[d]
      BY <1>0, <2>4 DEF MemType
    <3>2. S.cell[d].kind = "matrix" => T.block[S.cell[d].block].data = S.block[S.cell[d].block].data
      BY <1>0, <2>1, <2>2, <2>4, <2>5 DEF MemType
    <3>. QED
      BY <3>1, <3>2 DEF Content
  <2>9. Content(T, c) = x
    BY <1>0, <1>3, <2>3, <2>4 DEF Content, MemType
  <2>10. Stored(S, T, h, Content(T, c), l)
    BY <1>0, <2>3, <2>4, <2>7, <2>8, WriteKeeps DEF c
  <2>. QED
    BY <2>9, <2>10 DEF T
<1>. QED
  BY <1>1, <1>2, <1>3

\* make_unique (): the same value and kind, in a cell that nobody else has.
Unshared(S, T, h, l) ==
  /\ Gives(S, T, h, Val(S, h), l) /\ Has(T, h) /\ T.cell[T.ref[h]].count = 1 /\ Kind(T, h) = Kind(S, h)
  /\ \A a \in Blocks : S.block[a].count = 0 => T.block[a].count = 0

LEMMA MakeUniqueKeeps ==
  ASSUME NEW S, NEW l \in BOOLEAN, Heap(S, l), NEW h \in Holders, Has(S, h), Room(S)
  PROVE  Unshared(S, MakeUnique(S, h), h, l)
<1>. DEFINE c == S.ref[h]
            R == Release(S, h)
            T == Clone(R, h, c)
<1>0. S \in MemType /\ c \in Cells /\ S.cell[c].count \in Nat /\ S.cell[c].count >= 1 /\ S.cell[c].kind # "free"
  BY LiveCell DEF Heap, MemType, CellState
<1>1. CASE S.cell[c].count > 1
  <2>1. Gives(S, R, h, None, l) /\ ~Has(R, h) /\ Room(R)
    BY ReleaseKeeps
  <2>2. CellDropped(S, R, h, l)
    BY DropCellKeeps
  <2>. HIDE DEF R
  <2>3. R.cell[c].kind = S.cell[c].kind /\ Content(R, c) = Content(S, c) /\ R.block = S.block
    <3>1. PICK r \in CellState : CellDroppedBy(S, R, h, r, l)
      BY <2>2 DEF CellDropped
    <3>2. r = [S.cell[c] EXCEPT !.count = @ - 1] /\ R.cell = [S.cell EXCEPT ![c] = r]
          /\ Content(R, c) = Content(S, c) /\ R.block = S.block
      BY <1>0, <1>1, <3>1 DEF CellDroppedBy
    <3>3. S.cell[c] \in CellState /\ R.cell[c] = r
      BY <1>0, <3>2 DEF MemType
    <3>. QED
      BY <3>2, <3>3 DEF CellState
  <2>4. Placed(R, T, h, Content(R, c), l) /\ Kind(T, h) = R.cell[c].kind
    BY <1>0, <2>1, <2>3, CloneKeeps DEF Gives
  <2>5. MakeUnique(S, h) = T
    BY <1>1 DEF MakeUnique, R
  <2>a. \A a \in Blocks : S.block[a].count = 0 => T.block[a].count = 0
    <3>1. R.cell[c].kind = "matrix" => R.block[R.cell[c].block].count >= 1
      BY <1>0, <2>1, LiveBlock DEF Gives
    <3>2. T.block = IF R.cell[c].kind = "matrix" THEN [R.block EXCEPT ![R.cell[c].block].count = @ + 1] ELSE R.block
      BY DEF Clone
    <3>3. R.block \in [Blocks -> BlockState]
      BY <2>1 DEF Gives, Heap, MemType
    <3>4. ASSUME NEW a \in Blocks, R.block[a].count = 0 PROVE T.block[a] = R.block[a]
      <4>1. R.cell[c].kind = "matrix" => a # R.cell[c].block
        BY <3>1, <3>4
      <4>. QED
        BY <3>2, <3>3, <4>1
    <3>. QED
      BY <2>3, <3>4
  <2>. HIDE DEF T
  <2>6. SameBut(S, T, h)
    BY <2>1, <2>4 DEF Gives, SameBut, Placed
  <2>7. Val(S, h) = Content(S, c) /\ Kind(S, h) = S.cell[c].kind
    BY DEF Val, Kind
  <2>8. Has(T, h)
    BY <2>4, HeapAssumption DEF Placed, Fresh, Has
  <2>. QED
    BY <2>3, <2>4, <2>5, <2>a, <2>6, <2>7, <2>8 DEF Unshared, Placed, Gives, Fresh
<1>2. CASE S.cell[c].count = 1
  <2>1. MakeUnique(S, h) = S
    BY <1>2 DEF MakeUnique
  <2>. QED
    BY <1>2, <2>1 DEF Unshared, Gives, SameBut
<1>. QED
  BY <1>0, <1>1, <1>2

-----------------------------------------------------------------------------
(***************************************************************************)
(* Values                                                                  *)
(***************************************************************************)

\* Vectors are closed under what statements do to them.
LEMMA VectorIs ==
  ASSUME NEW n \in Nat, NEW f, f \in [1 .. n -> Abstract!Elem]
  PROVE  f \in Vectors
BY DEF Vectors, Abstract!Vectors

LEMMA PutVector ==
  ASSUME NEW x \in Vectors, NEW r \in Vectors, NEW p \in Positions
  PROVE  Abstract!Put(x, p, r) \in Vectors
<1>1. x \in Seq(Abstract!Elem) /\ r \in Seq(Abstract!Elem) /\ p \in Nat /\ 0 \in Abstract!Elem
  BY DataAssumption DEF Vectors, Abstract!Vectors, Abstract!Elem
<1>2. Len(x) \in Nat /\ \A k \in 1 .. Len(x) : x[k] \in Abstract!Elem
  BY <1>1
<1>3. r # <<>> => r[1] \in Abstract!Elem
  BY <1>1
<1>4. CASE p # 0 /\ r # <<>>
  <2>. DEFINE n == IF p > Len(x) THEN p ELSE Len(x)
              f == [k \in 1 .. n |-> IF k = p THEN r[1] ELSE IF k <= Len(x) THEN x[k] ELSE 0]
  <2>1. n \in Nat /\ f \in [1 .. n -> Abstract!Elem]
    BY <1>1, <1>2, <1>3, <1>4
  <2>2. Abstract!Put(x, p, r) = f
    BY <1>4 DEF Abstract!Put
  <2>. HIDE DEF n, f
  <2>. QED
    BY <2>1, <2>2, VectorIs
<1>5. CASE p # 0 /\ r = <<>> /\ Len(x) = 1
  BY <1>5 DEF Abstract!Put, Vectors, Abstract!Vectors
<1>6. CASE p # 0 /\ r = <<>> /\ Len(x) # 1 /\ p > Len(x)
  BY <1>6 DEF Abstract!Put
<1>7. CASE p # 0 /\ r = <<>> /\ Len(x) # 1 /\ ~(p > Len(x))
  <2>. DEFINE n == Len(x) - 1
              f == [k \in 1 .. n |-> IF k < p THEN x[k] ELSE x[k + 1]]
  <2>1. n \in Nat /\ f \in [1 .. n -> Abstract!Elem]
    BY <1>1, <1>2, <1>7
  <2>2. Abstract!Put(x, p, r) = f
    BY <1>7 DEF Abstract!Put
  <2>. HIDE DEF n, f
  <2>. QED
    BY <2>1, <2>2, VectorIs
<1>8. CASE p = 0
  BY <1>8 DEF Abstract!Put
<1>. QED
  BY <1>4, <1>5, <1>6, <1>7, <1>8

LEMMA IncrementedVector ==
  ASSUME NEW x \in Vectors
  PROVE  Abstract!Incremented(x) \in Vectors
<1>1. Len(x) \in Nat /\ \A k \in 1 .. Len(x) : x[k] \in Nat
  BY DataAssumption DEF Vectors, Abstract!Vectors, Abstract!Elem
<1>2. \A i \in Nat : i % Radix \in Abstract!Elem
  BY DataAssumption DEF Abstract!Elem
<1>3. Abstract!Incremented(x) \in [1 .. Len(x) -> Abstract!Elem]
  BY <1>1, <1>2 DEF Abstract!Incremented
<1>. QED
  BY <1>1, <1>3, VectorIs

LEMMA ContentVector ==
  ASSUME NEW S, NEW l \in BOOLEAN, Heap(S, l), NEW h \in Holders, Has(S, h)
  PROVE  /\ Content(S, S.ref[h]) \in Vectors /\ Val(S, h) = Content(S, S.ref[h])
         /\ Val(S, h) # None
<1>1. S.ref[h] \in Cells
  BY LiveCell
<1>2. S \in MemType /\ Shaped(S)
  BY DEF Heap
<1>3. Content(S, S.ref[h]) \in Vectors
  BY <1>1, <1>2 DEF Content, MemType, Shaped, CellState, BlockState
<1>. QED
  BY <1>3, DataAssumption DEF Val

\* What the abstract specification sees.
Values(S) == [h \in Users |-> Val(S, h)]

LEMMA ValueIs == value = Values(mem) /\ value' = Values(mem')
BY DEF value, Values, Val, Has, Content, Users, Abstract!Users

LEMMA UsersHold == Users \subseteq Holders /\ Vars \subseteq Users /\ Lits \subseteq Users /\ Temps \subseteq Users
                   /\ Old \in Holders /\ Tmp \in Holders
BY DEF Holders, Users, Abstract!Users

\* One value changes, or none that a user has.
OneValue(S, T, h, x) == Values(T) = [Values(S) EXCEPT ![h] = x]

LEMMA ValuesChange ==
  ASSUME NEW S, NEW T, NEW h \in Users, NEW x, NEW l, Gives(S, T, h, x, l)
  PROVE  OneValue(S, T, h, x)
BY UsersHold DEF Gives, SameBut, Values, OneValue

LEMMA ValuesStay ==
  ASSUME NEW S, NEW T, NEW h \in Holders, NEW x, NEW l, Gives(S, T, h, x, l), h \notin Users \/ x = Val(S, h)
  PROVE  Values(T) = Values(S)
BY UsersHold DEF Gives, SameBut, Values

LEMMA GivesTwice ==
  ASSUME NEW S, NEW T, NEW U, NEW h, NEW x, NEW y, NEW l, Gives(S, T, h, x, l), Gives(T, U, h, y, l)
  PROVE  Gives(S, U, h, y, l)
BY DEF Gives, SameBut

\* Sharing: h gets the value of g, and only the count of the cell of g changes.
Shared(S, T, h, g, l) ==
  /\ Gives(S, T, h, Val(S, g), l) /\ Has(T, h)
  /\ \A d \in Cells : d # S.ref[g] => T.cell[d] = S.cell[d]
  /\ \A d \in Cells : T.cell[d].kind = S.cell[d].kind

LEMMA ShareKeeps ==
  ASSUME NEW S, NEW l \in BOOLEAN, Heap(S, l), NEW h \in Holders, ~Has(S, h), NEW g \in Holders, Has(S, g)
  PROVE  Shared(S, Take(S, h, S.ref[g]), h, g, l)
<1>. DEFINE c == S.ref[g]
            T == Take(S, h, c)
            r == [S.cell[c] EXCEPT !.count = @ + 1]
<1>0. /\ S \in MemType /\ c \in Cells /\ S.cell[c].kind # "free" /\ S.cell[c] \in CellState
      /\ Val(S, g) = Content(S, c)
  BY LiveCell, ContentVector DEF Heap, MemType
<1>a. r \in CellState /\ r.kind = S.cell[c].kind
  BY <1>0 DEF CellState
<1>. HIDE DEF c
<1>b. T.ref = [S.ref EXCEPT ![h] = c] /\ T.block = S.block
  BY <1>0 DEF Take, MemType
<1>c. T.cell = [S.cell EXCEPT ![c].count = @ + 1]
  BY <1>0 DEF Take, MemType
<1>d. T.cell = [S.cell EXCEPT ![c] = r]
  BY <1>c
<1>e. T \in [ref : {T.ref}, cell : {T.cell}, block : {T.block}]
  BY <1>0 DEF Take, MemType
<1>1. /\ T.ref = [S.ref EXCEPT ![h] = c] /\ T.block = S.block
      /\ T.cell = [S.cell EXCEPT ![c].count = @ + 1] /\ T.cell = [S.cell EXCEPT ![c] = r]
      /\ r \in CellState /\ r.kind = S.cell[c].kind
      /\ T \in [ref : {T.ref}, cell : {T.cell}, block : {T.block}]
  BY <1>a, <1>b, <1>c, <1>d, <1>e
<1>2. T \in MemType
  BY <1>0, <1>1 DEF MemType
<1>. HIDE DEF T, r
<1>3. Gives(S, T, h, Content(S, c), l)
  BY <1>0, <1>1, <1>2, TakeKeeps
<1>4. Has(T, h)
  BY <1>0, <1>1, HeapAssumption DEF Has, MemType
<1>5. \A d \in Cells : (d # c => T.cell[d] = S.cell[d]) /\ T.cell[d].kind = S.cell[d].kind
  BY <1>0, <1>1 DEF MemType
<1>. QED
  BY <1>0, <1>3, <1>4, <1>5 DEF Shared, T, c

-----------------------------------------------------------------------------
(***************************************************************************)
(* The invariant                                                           *)
(***************************************************************************)

\* An assignment has its variable and its right hand side ...
Assigning == /\ stmt.v \in Vars /\ stmt.t \in Temps /\ stmt.p \in Positions /\ stmt.rhs \in {stmt.t, Tmp}
             /\ Has(mem, stmt.v) /\ Has(mem, stmt.t)

\* ... and, until it is tried, the variable has its cell alone, tmp_rhs the value of the
\* right hand side, and old_rep the value that the variable has in its converted form.
Trying == /\ mem.cell[mem.ref[stmt.v]].count = 1
          /\ stmt.rhs = Tmp => (Has(mem, Tmp) /\ Val(mem, Tmp) = Val(mem, stmt.t))
          /\ stmt.rhs # Tmp => ~Has(mem, Tmp)
          /\ Has(mem, Old) => (Kind(mem, stmt.v) = "matrix" /\ Val(mem, Old) = Val(mem, stmt.v))

Ready == /\ lost \in BOOLEAN /\ pc \in {"idle", "try", "drop", "mutate", "undo"}
         /\ pc = "idle" => (~Has(mem, Old) /\ ~Has(mem, Tmp))
         /\ pc # "idle" => Assigning
         /\ pc = "try" => Trying
         /\ pc \in {"mutate", "undo"} => ~Has(mem, Old)

IInv == Heap(mem, lost) /\ Ready

Step == [Abstract!Next]_value

LEMMA Constants == /\ Vars \cap Temps = {} /\ Vars \cap Lits = {} /\ Lits \cap Temps = {}
                   /\ Old \notin Users /\ Tmp \notin Users /\ Old # Tmp
                   /\ \A v \in Vars : v \in Users /\ v \in Holders /\ v \notin Temps /\ v # Old /\ v # Tmp
                   /\ \A t \in Temps : t \in Users /\ t \in Holders /\ t \notin Vars /\ t # Old /\ t # Tmp
                   /\ \A h \in Users : h \in Holders /\ h # Old /\ h # Tmp
                   /\ Old \in Holders /\ Tmp \in Holders
BY HolderAssumption, UsersHold

LEMMA InitOK == Init => IInv /\ Abstract!Init
<1>. SUFFICES ASSUME Init PROVE IInv /\ Abstract!Init
  OBVIOUS
<1>1. /\ mem.ref = [h \in Holders |-> NoCell] /\ mem.cell = [c \in Cells |-> FreeCell]
      /\ mem.block = [b \in Blocks |-> FreeBlock]
      /\ mem \in [ref : {mem.ref}, cell : {mem.cell}, block : {mem.block}]
      /\ pc = "idle" /\ lost = FALSE
  BY DEF Init
<1>2. FreeCell \in CellState /\ FreeCell.kind = "free" /\ FreeCell.count = 0
      /\ FreeBlock \in BlockState /\ FreeBlock.count = 0
  BY DEF FreeCell, FreeBlock, CellState, BlockState, Vectors, Abstract!Vectors
<1>3. mem \in MemType /\ Shaped(mem)
  BY <1>1, <1>2 DEF MemType, Shaped
<1>4. CellsCounted(mem, lost)
  <2>. SUFFICES ASSUME NEW c \in Cells PROVE Covers(mem.cell[c].count, Cardinality(RefsTo(mem, c)), lost)
    BY DEF CellsCounted
  <2>1. RefsTo(mem, c) = {}
    BY <1>1, HeapAssumption DEF RefsTo
  <2>2. Cardinality(RefsTo(mem, c)) = 0
    BY <2>1, FS_EmptySet
  <2>. QED
    BY <1>1, <1>2, <2>2 DEF Covers
<1>5. BlocksCounted(mem, lost)
  <2>. SUFFICES ASSUME NEW b \in Blocks PROVE Covers(mem.block[b].count, Cardinality(UsersOf(mem, b)), lost)
    BY DEF BlocksCounted
  <2>1. UsersOf(mem, b) = {}
    BY <1>1, <1>2 DEF UsersOf
  <2>2. Cardinality(UsersOf(mem, b)) = 0
    BY <2>1, FS_EmptySet
  <2>. QED
    BY <1>1, <1>2, <2>2 DEF Covers
<1>6. \A h \in Holders : ~Has(mem, h)
  BY <1>1 DEF Has
<1>7. Ready
  BY <1>1, <1>6, Constants DEF Ready
<1>8. Abstract!Init
  <2>1. value = [h \in Users |-> None]
    BY <1>6, ValueIs, Constants DEF Values, Val
  <2>. QED
    BY <2>1 DEF Abstract!Init, Users
<1>. QED
  BY <1>3, <1>4, <1>5, <1>7, <1>8 DEF IInv, Heap

\* A statement that is no indexed assignment changes the value of one user.
Changed(h, x) == IInv' /\ value' = [value EXCEPT ![h] = x]

LEMMA QuietKeeps ==
  ASSUME IInv, Quiet, NEW h \in Users, NEW x, Gives(mem, mem', h, x, lost)
  PROVE  Changed(h, x)
<1>1. Heap(mem', lost') /\ SameBut(mem, mem', h) /\ pc = "idle" /\ pc' = "idle" /\ lost' \in BOOLEAN
  BY DEF Gives, Quiet, IInv, Ready
<1>2. ~Has(mem', Old) /\ ~Has(mem', Tmp)
  BY <1>1, Constants DEF SameBut, Has, IInv, Ready
<1>3. value' = [value EXCEPT ![h] = x]
  <2>1. OneValue(mem, mem', h, x)
    BY ValuesChange
  <2>. QED
    BY <2>1, ValueIs DEF OneValue
<1>. QED
  BY <1>1, <1>2, <1>3 DEF Changed, IInv, Ready

LEMMA LostIs == IInv => lost \in BOOLEAN /\ Heap(mem, lost)
BY DEF IInv, Ready

LEMMA ValueOf ==
  ASSUME IInv, NEW h \in Users
  PROVE  value[h] = Val(mem, h) /\ (value[h] = None <=> ~Has(mem, h)) /\ (Has(mem, h) => value[h] \in Vectors)
<1>1. value[h] = Val(mem, h)
  BY ValueIs DEF Values
<1>2. Has(mem, h) => Val(mem, h) # None /\ Val(mem, h) \in Vectors
  BY LostIs, ContentVector, Constants
<1>. QED
  BY <1>1, <1>2 DEF Val

-----------------------------------------------------------------------------
(***************************************************************************)
(* One lemma per action: the invariant is kept, and what the user sees is  *)
(* a step of the abstract specification, or nothing                        *)
(***************************************************************************)

Good == IInv' /\ Step

LEMMA AppearStep ==
  ASSUME IInv, Quiet, NEW h \in Lits \cup Temps, Appear(h)
  PROVE  Good
<1>1. h \in Users /\ h \in Holders /\ ~Has(mem, h) /\ Room(mem)
  BY UsersHold DEF Appear
<1>2. PICK x \in Inputs : \E kind \in Kinds(x) : mem' = New(mem, h, kind, x)
  BY DEF Appear
<1>3. PICK kind \in Kinds(x) : mem' = New(mem, h, kind, x)
  BY <1>2
<1>4. x \in Vectors /\ kind \in {"scalar", "range", "matrix"}
  BY DataAssumption DEF Kinds
<1>5. Gives(mem, New(mem, h, kind, x), h, x, lost)
  BY <1>1, <1>4, LostIs, NewKeeps DEF Placed
<1>6. Changed(h, x)
  BY <1>1, <1>3, <1>5, QuietKeeps
<1>7. value[h] = None /\ value'[h] = x /\ value' = [value EXCEPT ![h] = value'[h]]
  <2>1. value[h] = None
    BY <1>1, ValueOf
  <2>2. value' = [value EXCEPT ![h] = x] /\ value \in [Users -> {value[u] : u \in Users}]
    BY <1>6, ValueIs DEF Changed, Values
  <2>. QED
    BY <1>1, <2>1, <2>2
<1>8. Abstract!Appear(h)
  BY <1>4, <1>7 DEF Abstract!Appear, Abstract!Set, Vectors
<1>9. Abstract!Read \/ Abstract!Compute
  BY <1>8 DEF Abstract!Read, Abstract!Compute
<1>. QED
  BY <1>6, <1>9 DEF Good, Step, Changed, Abstract!Next

LEMMA ReadStep ==
  ASSUME IInv, Read
  PROVE  Good
BY AppearStep DEF Read

LEMMA ComputeStep ==
  ASSUME IInv, Compute
  PROVE  Good
BY AppearStep DEF Compute

LEMMA CopyOK ==
  ASSUME IInv, Quiet, NEW t \in Temps, NEW h \in Users, ~Has(mem, t),
         Gives(mem, mem', t, Val(mem, h), lost)
  PROVE  Good
<1>1. Changed(t, Val(mem, h))
  BY QuietKeeps, Constants
<1>2. value[t] = None /\ Val(mem, h) = value[h]
  BY ValueOf, Constants
<1>3. Abstract!Copy
  BY <1>1, <1>2 DEF Changed, Abstract!Copy, Abstract!Set, Users
<1>. QED
  BY <1>1, <1>3 DEF Good, Step, Changed, Abstract!Next

LEMMA CopyStep ==
  ASSUME IInv, Copy
  PROVE  Good
<1>1. PICK t \in Temps, h \in Users : ~Has(mem, t) /\ Has(mem, h) /\ mem' = Take(mem, t, mem.ref[h])
  BY DEF Copy
<1>2. Gives(mem, Take(mem, t, mem.ref[h]), t, Val(mem, h), lost)
  BY <1>1, LostIs, ShareKeeps, Constants DEF Shared
<1>. QED
  BY <1>1, <1>2, CopyOK DEF Copy

LEMMA PassOnStep ==
  ASSUME IInv, PassOn
  PROVE  Good
<1>1. PICK t \in Temps, h \in Users : /\ ~Has(mem, t) /\ Has(mem, h) /\ Room(mem)
                                     /\ mem' = Clone(mem, t, mem.ref[h])
  BY DEF PassOn
<1>2. mem.ref[h] \in Cells /\ mem.cell[mem.ref[h]].kind # "free" /\ Val(mem, h) = Content(mem, mem.ref[h])
  BY <1>1, LostIs, LiveCell, ContentVector, Constants
<1>3. Gives(mem, Clone(mem, t, mem.ref[h]), t, Content(mem, mem.ref[h]), lost)
  BY <1>1, <1>2, LostIs, CloneKeeps, Constants DEF Placed
<1>. QED
  BY <1>1, <1>2, <1>3, CopyOK DEF PassOn

LEMMA ReleaseOK ==
  ASSUME IInv, Quiet, NEW h \in Vars \cup Temps, mem' = Release(mem, h)
  PROVE  Good
<1>1. Gives(mem, Release(mem, h), h, None, lost)
  BY LostIs, ReleaseKeeps, Constants
<1>2. Changed(h, None)
  BY <1>1, QuietKeeps, Constants
<1>3. Abstract!Drop \/ Abstract!Clear
  BY <1>2 DEF Changed, Abstract!Drop, Abstract!Clear, Abstract!Set
<1>. QED
  BY <1>2, <1>3 DEF Good, Step, Changed, Abstract!Next

LEMMA DropStep ==
  ASSUME IInv, Drop
  PROVE  Good
BY ReleaseOK DEF Drop

LEMMA ClearStep ==
  ASSUME IInv, Clear
  PROVE  Good
BY ReleaseOK DEF Clear

LEMMA DefineStep ==
  ASSUME IInv, Define
  PROVE  Good
<1>1. PICK v \in Vars, t \in Temps : Has(mem, t) /\ mem' = Take(Release(mem, v), v, mem.ref[t])
  BY DEF Define
<1>. DEFINE R == Release(mem, v)
<1>2. Gives(mem, R, v, None, lost) /\ ~Has(R, v)
  BY LostIs, ReleaseKeeps, Constants
<1>. HIDE DEF R
<1>3. R.ref[t] = mem.ref[t] /\ Has(R, t) /\ Val(R, t) = Val(mem, t) /\ Heap(R, lost)
  BY <1>1, <1>2, Constants DEF Gives, SameBut, Has
<1>4. Gives(R, Take(R, v, R.ref[t]), v, Val(R, t), lost)
  BY <1>2, <1>3, LostIs, ShareKeeps, Constants DEF Shared
<1>5. Gives(mem, mem', v, Val(mem, t), lost)
  BY <1>1, <1>2, <1>3, <1>4, GivesTwice DEF R
<1>6. Changed(v, Val(mem, t))
  BY <1>5, QuietKeeps, Constants DEF Define
<1>7. value[t] # None /\ Val(mem, t) = value[t]
  BY <1>1, ValueOf, Constants
<1>8. Abstract!Define
  BY <1>6, <1>7 DEF Changed, Abstract!Define, Abstract!Set
<1>. QED
  BY <1>6, <1>8 DEF Good, Step, Changed, Abstract!Next

\* What leaves the value of every user alone is a stutter.
LEMMA SameValues ==
  ASSUME \A h \in Users : Val(mem', h) = Val(mem, h)
  PROVE  value' = value
<1>1. Values(mem') = Values(mem)
  BY DEF Values
<1>. QED
  BY <1>1, ValueIs

LEMMA Stutter ==
  ASSUME NEW h \in Holders, NEW x, NEW l, Gives(mem, mem', h, x, l), h \notin Users \/ x = Val(mem, h)
  PROVE  value' = value
<1>1. Values(mem') = Values(mem)
  BY ValuesStay
<1>. QED
  BY <1>1, ValueIs

LEMMA IncrementStep ==
  ASSUME IInv, Increment
  PROVE  Good
<1>1. PICK v \in Vars :
        /\ Has(mem, v) /\ Room(mem)
        /\ mem' = IF Kind(mem, v) = "range" \/ Content(mem, mem.ref[v]) = <<>> THEN MakeUnique(mem, v)
                  ELSE Store(MakeUnique(mem, v), v, Abstract!Incremented(Content(mem, mem.ref[v])))
  BY DEF Increment
<1>. DEFINE own == MakeUnique(mem, v)
            x   == Content(mem, mem.ref[v])
            y   == Abstract!Incremented(x)
<1>2. Unshared(mem, own, v, lost)
  BY <1>1, LostIs, MakeUniqueKeeps, Constants
<1>3. x \in Vectors /\ Val(mem, v) = x /\ y \in Vectors
  BY <1>1, LostIs, ContentVector, IncrementedVector, Constants
<1>. HIDE DEF own, x, y
<1>4. CASE mem' = own
  <2>1. Gives(mem, mem', v, Val(mem, v), lost)
    BY <1>2, <1>4 DEF Unshared
  <2>2. IInv'
    BY <2>1, QuietKeeps, Constants DEF Changed, Increment
  <2>3. value' = value
    BY <2>1, Stutter, Constants
  <2>. QED
    BY <2>2, <2>3 DEF Good, Step
<1>5. CASE mem' = Store(own, v, y)
  <2>1. PICK b \in Blocks : own.block[b].count = 0
    BY <1>1, <1>2 DEF Room, Unshared
  <2>2. Gives(mem, own, v, Val(mem, v), lost) /\ Has(own, v) /\ own.cell[own.ref[v]].count = 1 /\ Heap(own, lost)
    BY <1>2 DEF Unshared, Gives
  <2>3. Gives(own, mem', v, y, lost)
    BY <1>3, <1>5, <2>1, <2>2, LostIs, StoreKeeps, Constants DEF Stored
  <2>4. Gives(mem, mem', v, y, lost)
    BY <2>2, <2>3, GivesTwice
  <2>5. Changed(v, y)
    BY <2>4, QuietKeeps, Constants DEF Increment
  <2>6. value[v] # None /\ value[v] = x
    BY <1>1, <1>3, ValueOf, Constants
  <2>7. Abstract!Increment
    BY <2>5, <2>6 DEF Changed, Abstract!Increment, Abstract!Set, y
  <2>. QED
    BY <2>5, <2>7 DEF Good, Step, Changed, Abstract!Next
<1>. QED
  BY <1>1, <1>4, <1>5 DEF own, x, y

LEMMA AssignBeginStep ==
  ASSUME IInv, AssignBegin
  PROVE  Good
<1>1. PICK v \in Vars, t \in Temps, p \in Positions :
        /\ Has(mem, v) /\ Has(mem, t) /\ mem' = MakeUnique(mem, v)
        /\ stmt' = [v |-> v, t |-> t, rhs |-> t, p |-> p]
  BY DEF AssignBegin
<1>2. pc = "idle" /\ pc' = "try" /\ lost' = lost /\ Room(mem)
  BY DEF AssignBegin
<1>3. Unshared(mem, MakeUnique(mem, v), v, lost)
  BY <1>1, <1>2, LostIs, MakeUniqueKeeps, Constants
<1>4. /\ Gives(mem, mem', v, Val(mem, v), lost) /\ Has(mem', v) /\ mem'.cell[mem'.ref[v]].count = 1
      /\ SameBut(mem, mem', v) /\ Heap(mem', lost)
  BY <1>1, <1>3 DEF Unshared, Gives
<1>5. ~Has(mem', Old) /\ ~Has(mem', Tmp) /\ Has(mem', t)
  BY <1>1, <1>2, <1>4, Constants DEF SameBut, Has, IInv, Ready
<1>6. Assigning' /\ Trying'
  BY <1>1, <1>4, <1>5, Constants DEF Assigning, Trying
<1>7. IInv'
  BY <1>2, <1>4, <1>6, LostIs DEF IInv, Ready
<1>8. value' = value
  BY <1>4, Stutter, Constants
<1>. QED
  BY <1>7, <1>8 DEF Good, Step

\* A stage of an assignment works on the variable, on old_rep or on tmp_rhs.
LEMMA Stage ==
  ASSUME IInv, pc # "idle"
  PROVE  /\ stmt.v \in Vars /\ stmt.t \in Temps /\ stmt.p \in Positions /\ stmt.rhs \in {stmt.t, Tmp}
         /\ Has(mem, stmt.v) /\ Has(mem, stmt.t)
         /\ stmt.v \in Users /\ stmt.v \in Holders /\ stmt.t \in Users /\ stmt.t \in Holders
         /\ stmt.v # stmt.t /\ stmt.v # Old /\ stmt.v # Tmp /\ stmt.t # Old /\ stmt.t # Tmp
BY Constants DEF IInv, Ready, Assigning

LEMMA TheOperand ==
  ASSUME IInv, pc = "try"
  PROVE  Operand = Val(mem, stmt.t) /\ Operand \in Vectors /\ Val(mem, stmt.t) = value[stmt.t] /\ value[stmt.t] # None
<1>1. Trying
  BY DEF IInv, Ready
<1>2. Operand = Val(mem, stmt.rhs)
  BY <1>1, Stage DEF Operand, Val, Trying
<1>3. Val(mem, stmt.rhs) = Val(mem, stmt.t)
  BY <1>1, Stage DEF Trying
<1>. QED
  BY <1>2, <1>3, Stage, ValueOf

LEMMA TryAssignmentStep ==
  ASSUME IInv, TryAssignment
  PROVE  Good
<1>. DEFINE v == stmt.v
            x == Target
            y == Abstract!Put(x, stmt.p, Operand)
<1>1. /\ pc = "try" /\ pc' = "drop" /\ stmt' = stmt /\ lost' = lost /\ Room(mem)
      /\ ~Abstract!Wrong(x, stmt.p, Operand)
      /\ mem' = IF stmt.p = 0 THEN mem ELSE Store(mem, v, y)
  BY DEF TryAssignment
<1>2. x \in Vectors /\ Val(mem, v) = x /\ value[v] = x /\ value[v] # None
  BY <1>1, Stage, LostIs, ContentVector, ValueOf DEF Target
<1>3. y \in Vectors
  BY <1>1, <1>2, Stage, TheOperand, PutVector
<1>4. stmt.p = 0 => y = x
  BY DEF Abstract!Put
<1>. HIDE DEF x, y
<1>5. ASSUME stmt.p # 0 PROVE Stored(mem, mem', v, y, lost)
  <2>1. mem.cell[mem.ref[v]].count = 1
    BY <1>1 DEF IInv, Ready, Trying
  <2>2. PICK b \in Blocks : mem.block[b].count = 0
    BY <1>1 DEF Room
  <2>3. v \in Holders /\ Has(mem, v) /\ lost \in BOOLEAN /\ Heap(mem, lost)
    BY <1>1, Stage, LostIs
  <2>4. mem' = Store(mem, v, y)
    BY <1>1, <1>5
  <2>. HIDE DEF v
  <2>. QED
    BY <1>3, <2>1, <2>2, <2>3, <2>4, StoreKeeps
<1>6. IInv' /\ value' = [value EXCEPT ![v] = y]
  <2>1. CASE stmt.p = 0
    <3>1. mem' = mem
      BY <1>1, <2>1
    <3>2. Assigning'
      BY <1>1, <3>1, Stage DEF Assigning, Has
    <3>3. IInv'
      BY <1>1, <3>1, <3>2, LostIs DEF IInv, Ready
    <3>4. value' = value
      BY <3>1 DEF value
    <3>5. value = [value EXCEPT ![v] = y]
      <4>1. value[v] = y
        BY <1>2, <1>4, <2>1
      <4>2. value = [h \in Users |-> value[h]]
        BY ValueIs DEF Values
      <4>. HIDE DEF v
      <4>. QED
        BY <4>1, <4>2
    <3>. QED
      BY <3>3, <3>4, <3>5
  <2>2. CASE stmt.p # 0
    <3>1. Stored(mem, mem', v, y, lost)
      BY <1>5, <2>2
    <3>2. Assigning'
      BY <1>1, <3>1, Stage DEF Stored, Assigning, Has
    <3>3. IInv'
      BY <1>1, <3>1, <3>2, LostIs DEF Stored, Gives, IInv, Ready
    <3>4. OneValue(mem, mem', v, y)
      BY <1>1, <3>1, Stage, ValuesChange DEF Stored
    <3>. QED
      BY <3>3, <3>4, ValueIs DEF OneValue
  <2>. QED
    BY <2>1, <2>2
<1>7. Abstract!Assign
  <2>1. /\ value[stmt.t] # None /\ Operand = value[stmt.t]
        /\ ~Abstract!Wrong(value[v], stmt.p, value[stmt.t])
        /\ value' = [value EXCEPT ![v] = Abstract!Put(value[v], stmt.p, value[stmt.t])]
    BY <1>1, <1>2, <1>6, TheOperand DEF y
  <2>2. v \in Vars /\ stmt.t \in Temps /\ stmt.p \in Positions /\ value[v] # None
    BY <1>1, <1>2, Stage
  <2>. HIDE DEF v
  <2>. QED
    BY <2>1, <2>2 DEF Abstract!Assign, Abstract!Set
<1>. QED
  BY <1>6, <1>7 DEF Good, Step, Abstract!Next

LEMMA TryFailsStep ==
  ASSUME IInv, TryFails
  PROVE  Good
<1>. DEFINE v == stmt.v
            R == Release(mem, v)
<1>1. /\ pc = "try" /\ pc' = "undo" /\ stmt' = stmt /\ lost' = lost
      /\ mem' = IF Has(mem, Old) THEN Move(R, v, Old) ELSE mem
  BY DEF TryFails
<1>2. Trying
  BY <1>1 DEF IInv, Ready
<1>3. CASE Has(mem, Old)
  <2>1. Gives(mem, R, v, None, lost) /\ ~Has(R, v) /\ Heap(R, lost) /\ SameBut(mem, R, v)
    BY <1>1, Stage, LostIs, ReleaseKeeps DEF Gives
  <2>. HIDE DEF R
  <2>2. Passed(R, mem', v, Old, lost)
    BY <1>1, <1>3, <2>1, Stage, LostIs, MoveKeeps, Constants
  <2>3. R.ref[Old] = mem.ref[Old] /\ Val(R, Old) = Val(mem, Old)
    BY <1>1, <2>1, Stage, Constants DEF SameBut
  <2>4. Has(mem', v) /\ ~Has(mem', Old) /\ Val(mem', v) = Val(mem, v)
    BY <1>2, <1>3, <2>2, <2>3 DEF Passed, Has, Trying
  <2>5. \A k \in Holders \ {v, Old} : Val(mem', k) = Val(mem, k) /\ mem'.ref[k] = mem.ref[k]
    BY <2>1, <2>2 DEF SameBut, Passed
  <2>6. Has(mem', stmt.t)
    BY <1>1, <2>5, Stage DEF Has
  <2>7. IInv'
    BY <1>1, <2>2, <2>4, <2>6, Stage, LostIs DEF Passed, IInv, Ready, Assigning
  <2>8. value' = value
    BY <2>4, <2>5, Constants, SameValues
  <2>. QED
    BY <2>7, <2>8 DEF Good, Step
<1>4. CASE ~Has(mem, Old)
  <2>1. IInv'
    BY <1>1, <1>4 DEF IInv, Ready, Assigning
  <2>2. value' = value
    BY <1>1, <1>4, SameValues
  <2>. QED
    BY <2>1, <2>2 DEF Good, Step
<1>. QED
  BY <1>3, <1>4

LEMMA WidenStep ==
  ASSUME IInv, Widen
  PROVE  Good
<1>. DEFINE v == stmt.v
            x == Content(mem, mem.ref[v])
            M == Move(mem, Old, v)
<1>1. /\ pc = "try" /\ pc' = "try" /\ stmt' = stmt /\ lost' = lost /\ Room(mem)
      /\ Kind(mem, v) # "matrix" /\ mem' = New(M, v, "matrix", x)
  BY DEF Widen
<1>2. Trying /\ ~Has(mem, Old)
  BY <1>1 DEF IInv, Ready, Trying
<1>3. x \in Vectors /\ Val(mem, v) = x
  BY <1>1, Stage, LostIs, ContentVector
<1>4. Passed(mem, M, Old, v, lost) /\ Room(M)
  BY <1>1, <1>2, Stage, LostIs, MoveKeeps, Constants
<1>. HIDE DEF x, M
<1>5. Heap(M, lost) /\ ~Has(M, v) /\ Val(M, Old) = x
      /\ \A k \in Holders \ {Old, v} : Val(M, k) = Val(mem, k) /\ M.ref[k] = mem.ref[k]
  BY <1>3, <1>4 DEF Passed
<1>6. Placed(M, New(M, v, "matrix", x), v, x, lost) /\ Kind(New(M, v, "matrix", x), v) = "matrix"
  <2>1. v \in Holders /\ lost \in BOOLEAN
    BY <1>1, Stage, LostIs
  <2>. HIDE DEF v
  <2>. QED
    BY <1>3, <1>4, <1>5, <2>1, NewKeeps
<1>7. /\ Heap(mem', lost) /\ Val(mem', v) = x /\ Kind(mem', v) = "matrix" /\ SameBut(M, mem', v)
      /\ mem'.ref[v] \in Cells /\ mem'.cell[mem'.ref[v]].count = 1
  BY <1>1, <1>6 DEF Placed, Gives, Fresh
<1>8. Has(mem', v) /\ Val(mem', Old) = x
  BY <1>1, <1>5, <1>7, Stage, Constants, HeapAssumption DEF SameBut, Has
<1>9. \A k \in Holders \ {Old, v} : Val(mem', k) = Val(mem, k) /\ mem'.ref[k] = mem.ref[k]
  BY <1>5, <1>7 DEF SameBut
<1>10. Val(mem', stmt.t) = Val(mem, stmt.t) /\ Has(mem', stmt.t) /\ Val(mem', Tmp) = Val(mem, Tmp)
       /\ (Has(mem', Tmp) <=> Has(mem, Tmp))
  BY <1>1, <1>9, Stage, Constants DEF Has
<1>11. Assigning' /\ Trying'
  BY <1>1, <1>2, <1>7, <1>8, <1>10, Stage DEF Assigning, Trying
<1>12. IInv'
  BY <1>1, <1>7, <1>11, LostIs DEF IInv, Ready
<1>13. value' = value
  BY <1>3, <1>7, <1>9, Constants, SameValues
<1>. QED
  BY <1>12, <1>13 DEF Good, Step

LEMMA ConvertRhsStep ==
  ASSUME IInv, ConvertRhs
  PROVE  Good
<1>. DEFINE v == stmt.v
            t == stmt.t
<1>1. /\ pc = "try" /\ pc' = "try" /\ stmt' = [stmt EXCEPT !.rhs = Tmp] /\ lost' = lost /\ Room(mem)
      /\ stmt.rhs # Tmp
      /\ mem' = IF Kind(mem, t) = "range" THEN New(mem, Tmp, "matrix", Operand) ELSE Take(mem, Tmp, mem.ref[t])
  BY DEF ConvertRhs
<1>2. Trying /\ ~Has(mem, Tmp)
  BY <1>1 DEF IInv, Ready, Trying
<1>3. Operand = Val(mem, t) /\ Operand \in Vectors
  BY <1>1, TheOperand
<1>a. /\ v \in Users /\ v \in Holders /\ t \in Holders /\ v # t /\ v # Old /\ v # Tmp /\ t # Old /\ t # Tmp
      /\ Has(mem, v) /\ Has(mem, t) /\ lost \in BOOLEAN /\ Heap(mem, lost)
  BY <1>1, Stage, LostIs
<1>. HIDE DEF v, t
<1>4. Gives(mem, mem', Tmp, Val(mem, t), lost) /\ Has(mem', Tmp) /\ mem'.cell[mem.ref[v]] = mem.cell[mem.ref[v]]
  <2>1. CASE Kind(mem, t) = "range"
    <3>1. Placed(mem, New(mem, Tmp, "matrix", Operand), Tmp, Operand, lost)
      BY <1>1, <1>2, <1>3, <1>a, NewKeeps, Constants
    <3>. QED
      BY <1>1, <1>3, <1>a, <2>1, <3>1, HeapAssumption DEF Placed, Fresh, Has
  <2>2. CASE Kind(mem, t) # "range"
    <3>1. Shared(mem, Take(mem, Tmp, mem.ref[t]), Tmp, t, lost)
      BY <1>2, <1>a, ShareKeeps, Constants
    <3>2. mem.ref[v] \in Cells /\ mem.ref[v] # mem.ref[t]
      <4>1. mem.cell[mem.ref[v]].count = 1
        BY <1>2 DEF Trying, v
      <4>. QED
        BY <1>a, <4>1, LiveCell
    <3>. QED
      BY <1>1, <2>2, <3>1, <3>2 DEF Shared
  <2>. QED
    BY <2>1, <2>2
<1>5. SameBut(mem, mem', Tmp) /\ Val(mem', Tmp) = Val(mem, t) /\ Heap(mem', lost)
  BY <1>4 DEF Gives
<1>6. /\ mem'.ref[v] = mem.ref[v] /\ Val(mem', v) = Val(mem, v) /\ mem'.ref[t] = mem.ref[t] /\ Val(mem', t) = Val(mem, t)
      /\ mem'.ref[Old] = mem.ref[Old] /\ Val(mem', Old) = Val(mem, Old)
  BY <1>5, <1>a, Constants DEF SameBut
<1>7. /\ stmt'.v = v /\ stmt'.t = t /\ stmt'.p \in Positions /\ stmt'.rhs = Tmp /\ v \in Vars /\ t \in Temps
  <2>. QED
    BY <1>1, Stage DEF v, t
<1>8. Assigning'
  BY <1>a, <1>6, <1>7 DEF Assigning, Has
<1>9. Trying'
  BY <1>2, <1>4, <1>5, <1>6, <1>7 DEF Trying, Kind, Has, v
<1>10. IInv'
  BY <1>1, <1>5, <1>8, <1>9, LostIs DEF IInv, Ready
<1>11. value' = value
  BY <1>4, Stutter, Constants
<1>. QED
  BY <1>10, <1>11 DEF Good, Step

LEMMA DropOldStep ==
  ASSUME IInv, DropOld
  PROVE  Good
<1>1. pc = "drop" /\ pc' = "mutate" /\ stmt' = stmt /\ lost' = lost /\ mem' = Release(mem, Old)
  BY DEF DropOld
<1>2. Gives(mem, Release(mem, Old), Old, None, lost) /\ ~Has(Release(mem, Old), Old)
  BY LostIs, ReleaseKeeps, Constants
<1>3. Heap(mem', lost) /\ SameBut(mem, mem', Old) /\ ~Has(mem', Old)
  BY <1>1, <1>2 DEF Gives
<1>4. Assigning'
  BY <1>1, <1>3, Stage DEF Assigning, SameBut, Has
<1>5. IInv'
  BY <1>1, <1>3, <1>4, LostIs DEF IInv, Ready
<1>6. value' = value
  BY <1>1, <1>2, Stutter, Constants
<1>. QED
  BY <1>5, <1>6 DEF Good, Step

LEMMA MaybeMutateStep ==
  ASSUME IInv, MaybeMutate
  PROVE  Good
<1>. DEFINE v == stmt.v
            x == Content(mem, mem.ref[v])
            R == Release(mem, v)
<1>1. /\ pc = "mutate" /\ pc' = "undo" /\ stmt' = stmt /\ lost' = lost /\ Room(mem)
      /\ mem' = IF Len(x) = 1 THEN New(R, v, "scalar", x) ELSE mem
  BY DEF MaybeMutate
<1>2. ~Has(mem, Old)
  BY <1>1 DEF IInv, Ready
<1>3. CASE mem' = New(R, v, "scalar", x)
  <2>1. Gives(mem, R, v, None, lost) /\ ~Has(R, v) /\ Room(R) /\ Heap(R, lost)
    BY <1>1, Stage, LostIs, ReleaseKeeps DEF Gives
  <2>2. x \in Vectors /\ Val(mem, v) = x
    BY <1>1, Stage, LostIs, ContentVector
  <2>a. v \in Users /\ v \in Holders /\ v # Old /\ lost \in BOOLEAN
    BY <1>1, Stage, LostIs
  <2>. HIDE DEF R, x, v
  <2>3. Placed(R, mem', v, x, lost)
    <3>1. Placed(R, New(R, v, "scalar", x), v, x, lost)
      BY <2>1, <2>2, <2>a, NewKeeps
    <3>. QED
      BY <1>3, <3>1
  <2>4. Gives(mem, mem', v, x, lost) /\ Has(mem', v)
    BY <2>1, <2>3, GivesTwice, HeapAssumption DEF Placed, Fresh, Has
  <2>5. Heap(mem', lost) /\ SameBut(mem, mem', v)
    BY <2>4 DEF Gives
  <2>6. Assigning' /\ ~Has(mem', Old)
    BY <1>1, <1>2, <2>4, <2>5, <2>a, Stage, Constants DEF Assigning, SameBut, Has, v
  <2>7. IInv'
    BY <1>1, <2>5, <2>6, LostIs DEF IInv, Ready
  <2>8. value' = value
    BY <2>2, <2>4, <2>a, Stutter
  <2>. QED
    BY <2>7, <2>8 DEF Good, Step
<1>4. CASE mem' = mem
  <2>1. IInv'
    BY <1>1, <1>2, <1>4 DEF IInv, Ready, Assigning
  <2>2. value' = value
    BY <1>4, SameValues
  <2>. QED
    BY <2>1, <2>2 DEF Good, Step
<1>. QED
  BY <1>1, <1>3, <1>4

LEMMA AssignEndStep ==
  ASSUME IInv, AssignEnd
  PROVE  Good
<1>1. pc = "undo" /\ pc' = "idle" /\ lost' = lost /\ mem' = Release(mem, Tmp)
  BY DEF AssignEnd
<1>2. Gives(mem, Release(mem, Tmp), Tmp, None, lost) /\ ~Has(Release(mem, Tmp), Tmp)
  BY LostIs, ReleaseKeeps, Constants
<1>3. Heap(mem', lost) /\ SameBut(mem, mem', Tmp) /\ ~Has(mem', Tmp)
  BY <1>1, <1>2 DEF Gives
<1>4. ~Has(mem', Old)
  BY <1>1, <1>3, Constants DEF SameBut, Has, IInv, Ready
<1>5. IInv'
  BY <1>1, <1>3, <1>4, LostIs DEF IInv, Ready
<1>6. value' = value
  BY <1>1, <1>2, Stutter, Constants
<1>. QED
  BY <1>5, <1>6 DEF Good, Step

LEMMA InterruptStep ==
  ASSUME IInv, Interrupt
  PROVE  Good
<1>. DEFINE Gone == Temps \cup {Old, Tmp}
<1>1. /\ mem' = [mem EXCEPT !.ref = [h \in Holders |-> IF h \in Gone THEN NoCell ELSE mem.ref[h]]]
      /\ pc' = "idle" /\ lost' = TRUE
  BY DEF Interrupt
<1>2. mem \in MemType /\ Shaped(mem) /\ CellsCounted(mem, lost) /\ BlocksCounted(mem, lost)
  BY LostIs DEF Heap
<1>3. /\ mem'.ref = [h \in Holders |-> IF h \in Gone THEN NoCell ELSE mem.ref[h]]
      /\ mem'.cell = mem.cell /\ mem'.block = mem.block /\ mem' \in MemType
  BY <1>1, <1>2 DEF MemType
<1>4. Shaped(mem') /\ \A c : Content(mem', c) = Content(mem, c)
  BY <1>2, <1>3 DEF Shaped, Content
<1>5. CellsCounted(mem', TRUE)
  <2>. SUFFICES ASSUME NEW c \in Cells PROVE Covers(mem'.cell[c].count, Cardinality(RefsTo(mem', c)), TRUE)
    BY DEF CellsCounted
  <2>1. RefsTo(mem', c) \subseteq RefsTo(mem, c)
    BY <1>3, HeapAssumption DEF RefsTo
  <2>2. Cardinality(RefsTo(mem', c)) <= Cardinality(RefsTo(mem, c))
    BY <2>1, FiniteCounts, FS_Subset
  <2>3. mem.cell[c].count >= Cardinality(RefsTo(mem, c)) /\ mem.cell[c].count \in Nat
    BY <1>2 DEF CellsCounted, Covers, MemType, CellState
  <2>4. Cardinality(RefsTo(mem, c)) \in Nat /\ Cardinality(RefsTo(mem', c)) \in Nat
    BY FiniteCounts
  <2>. QED
    BY <1>3, <2>2, <2>3, <2>4 DEF Covers
<1>6. BlocksCounted(mem', TRUE)
  <2>1. \A b : UsersOf(mem', b) = UsersOf(mem, b)
    BY <1>3, UsersSame
  <2>. QED
    BY <1>2, <1>3, <2>1 DEF BlocksCounted, Covers
<1>7. ~Has(mem', Old) /\ ~Has(mem', Tmp)
  BY <1>3, Constants DEF Has
<1>8. IInv'
  BY <1>1, <1>3, <1>4, <1>5, <1>6, <1>7 DEF IInv, Heap, Ready
<1>9. \A h \in Users : Val(mem', h) = IF h \in Temps THEN None ELSE Val(mem, h)
  BY <1>3, <1>4, Constants DEF Val, Has
<1>10. Abstract!Interrupt
  <2>1. value' = [h \in Users |-> IF h \in Temps THEN None ELSE value[h]]
    BY <1>9, ValueIs DEF Values
  <2>. QED
    BY <2>1 DEF Abstract!Interrupt, Users
<1>. QED
  BY <1>8, <1>10 DEF Good, Step, Abstract!Next

LEMMA NothingStep ==
  ASSUME IInv, UNCHANGED vars
  PROVE  Good
<1>1. IInv'
  BY DEF IInv, Ready, Assigning, Trying, vars
<1>2. value' = value
  BY SameValues DEF vars
<1>. QED
  BY <1>1, <1>2 DEF Good, Step

LEMMA EveryStep == IInv /\ [Next]_vars => IInv' /\ [Abstract!Next]_value
<1>. SUFFICES ASSUME IInv, [Next]_vars PROVE Good
  BY DEF Good, Step
<1>. QED
  BY ReadStep, ComputeStep, CopyStep, PassOnStep, DropStep, ClearStep, DefineStep, IncrementStep,
     AssignBeginStep, TryAssignmentStep, TryFailsStep, WidenStep, ConvertRhsStep, DropOldStep,
     MaybeMutateStep, AssignEndStep, InterruptStep, NothingStep DEF Next

-----------------------------------------------------------------------------
\* In every state the counts cover their users, and until an interrupt they are exact.
THEOREM CountsRight == Spec => []Counted
<1>1. IInv => Counted
  BY DEF IInv, Heap, CellsCounted, BlocksCounted, Counted
<1>. QED
  BY <1>1, InitOK, EveryStep, PTL DEF Spec

\* Shared storage behaves as if each holder had a copy: CopyOnWrite implements Values.
THEOREM Implements == Spec => ValueSemantics
BY InitOK, EveryStep, PTL DEF Spec, ValueSemantics, Abstract!Spec
=============================================================================

------------------------- MODULE SymbolTable_proofs -------------------------
(***************************************************************************)
(* Scoping: an activation has x for itself or shares the global one, and   *)
(* every symbol_def is counted, unless x is a global and a function at the *)
(* same time.                                                              *)
(***************************************************************************)
EXTENDS SymbolTable, FiniteSetTheorems, SequenceTheorems, WellFoundedInduction, TLAPS

-----------------------------------------------------------------------------
(***************************************************************************)
(* Stores                                                                  *)
(***************************************************************************)

\* Nothing hides anything, and a count is a number.
Definition == [type : Types, val : Values \cup {NoValue}, fn : Self \cup {NoFn},
               count : Nat, next : {Nil}]
Shape(S) ==
  /\ S \in [heap : [Cell -> Definition], rec : [Table -> Record]]
  /\ \A c \in Cell : S.heap[c].type = "ufn" => S.heap[c].fn \in Self

\* A slot <<t, i>> is a place that may refer to a definition: 0 is the record of t,
\* others are what push_context has saved.
Slots(S, t) == 0 .. Len(S.rec[t].ctx)
At(S, t, i) == IF i = 0 THEN S.rec[t].def ELSE S.rec[t].ctx[i].def
ToGlobal(S, t, i) == IF i = 0 THEN S.rec[t].linked ELSE S.rec[t].ctx[i].linked
RefsIn(S, c) == {p \in Table \X Nat : p[2] \in Slots(S, p[1]) /\ At(S, p[1], p[2]) = c}

\* Everybody who refers to a definition is counted.
Counted(S) ==
  \A c \in Cell :
    /\ IsFiniteSet(RefsIn(S, c)) /\ Cardinality(RefsIn(S, c)) <= S.heap[c].count
    /\ S.heap[c].type \in {"free", "deleted"} => S.heap[c].count = 0

\* A variable that is not linked to a global has one place that refers to it.
Private(S) ==
  \A t \in Table \ {"Global"} : \A i \in Slots(S, t) : \A c \in Cell :
    At(S, t, i) = c /\ ~ ToGlobal(S, t, i) =>
      /\ S.heap[c].type # "unknown"
      /\ S.heap[c].type = "uvar" => RefsIn(S, c) \subseteq {<<t, i>>}

GlobalAlone(S) == S.rec["Global"].linked = FALSE /\ S.rec["Global"].ctx = <<>>

\* A parameter is a variable of the function, always.
ParamsOwn(S) ==
  \A t \in Formal : \A i \in Slots(S, t) :
    /\ ~ ToGlobal(S, t, i)
    /\ \A c \in Cell : At(S, t, i) = c => S.heap[c].type = "uvar"

\* Links to a user function: there is one in the global symbol table.
FnGlobal(S) ==
  \A t \in Table : \A i \in Slots(S, t) : \A c \in Cell :
    At(S, t, i) = c /\ S.heap[c].type = "ufn" => TypeOf(S, "Global") = "ufn"

Sound(S) == Shape(S) /\ Counted(S) /\ Private(S) /\ GlobalAlone(S) /\ ParamsOwn(S)
Good(S) == Sound(S) /\ FnGlobal(S)

-----------------------------------------------------------------------------
(***************************************************************************)
(* Activations                                                             *)
(***************************************************************************)

Last(A, i) == \A j \in i + 1 .. Len(A) : A[j].t # A[i].t
Acts(A) == /\ A \in Seq(Activation) /\ A # <<>> /\ A[1].t = "Top"
           /\ \A i \in 2 .. Len(A) : A[i].t \in Fn

\* m says in which slot of its table each activation has x: the last one of a
\* function in the record, the others in what was pushed, in order, or nowhere
\* (-1) if the record did not exist then.
Placed(S, A, m) ==
  /\ m \in [1 .. Len(A) -> Int]
  /\ \A i \in 1 .. Len(A) :
       IF Last(A, i) THEN m[i] = 0 ELSE m[i] = -1 \/ m[i] \in 1 .. Len(S.rec[A[i].t].ctx)
  /\ \A i, j \in 1 .. Len(A) :
       i < j /\ A[i].t = A[j].t /\ m[i] > 0 => m[j] = 0 \/ m[i] < m[j]
  /\ \A t \in Table : \A k \in 1 .. Len(S.rec[t].ctx) :
       \E i \in 1 .. Len(A) : A[i].t = t /\ m[i] = k

\* What the properties say of an activation, of any slot.
OwnOK(S, o, t, k) ==
  LET c == At(S, t, k)
  IN IF o = "global"
     THEN /\ ToGlobal(S, t, k) /\ c = DefOf(S, "Global") /\ c # Nil
          /\ S.heap[c].type \notin {"ufn", "bfn"}
     ELSE ~ ToGlobal(S, t, k) /\ c # Nil /\ S.heap[c].type = "uvar" /\ S.heap[c].val = o

Owned(S, A, m) ==
  \A i \in 1 .. Len(A) : A[i].own # NoValue => m[i] >= 0 /\ OwnOK(S, A[i].own, A[i].t, m[i])

\* A record that does not exist has nothing pushed, and nobody has x in it.
Absent(S, A) ==
  \A t \in Table : ~ S.rec[t].here =>
    /\ S.rec[t].ctx = <<>>
    /\ \A i \in 1 .. Len(A) : A[i].t = t => A[i].own = NoValue

Runs(A, t) == \E i \in 1 .. Len(A) : A[i].t = t
\* Functions that do not run refer to no user function.
Resting(S, A) ==
  \A t \in Table \ {"Global"} : ~ Runs(A, t) => TypeOf(S, t) # "ufn"
SelfRuns(S, A) ==
  (\E t \in Self : Runs(A, t)) => TypeOf(S, "Global") = "ufn"

\* The inductive invariant, of a store and its activations.
Scoped(S, A) ==
  /\ Good(S) /\ Acts(A)
  /\ \E m \in [1 .. Len(A) -> Int] : Placed(S, A, m) /\ Owned(S, A, m)
  /\ Absent(S, A) /\ Resting(S, A) /\ SelfRuns(S, A)

ScopeInv == Scoped(Store, act)

-----------------------------------------------------------------------------
(***************************************************************************)
(* What is reached                                                         *)
(***************************************************************************)

LEMMA Least ==
  ASSUME NEW N \in SUBSET Nat, N # {}
  PROVE  \E x \in N : \A y \in N : x <= y
<1>1. PICK x \in N : \A y \in N : ~ (<<y, x>> \in OpToRel(<, Nat))
  BY NatLessThanWellFounded, WFMin
<1>2. ASSUME NEW y \in N PROVE x <= y
  <2>1. ~ (y < x)
    BY <1>1 DEF OpToRel
  <2> QED
    BY <2>1
<1> QED
  BY <1>2

\* Nothing hides anything, so no more is reached than is referred to.
LEMMA ReachedAll ==
  ASSUME NEW S, Shape(S), NEW D, D \subseteq Cell \cup {Nil}
  PROVE  Reached(S, D) = D \ {Nil}
<1> DEFINE body(r, n) == IF n = 0 THEN D \ {Nil}
                         ELSE LET R == r[n - 1]
                              IN R \cup ({S.heap[d].next : d \in R} \ {Nil})
           reach == CHOOSE r : r = [n \in 0 .. Cells |-> body(r, n)]
           all == [n \in 0 .. Cells |-> D \ {Nil}]
<1>1. Reached(S, D) = reach[Cells]
  BY DEF Reached
<1>2. all = [n \in 0 .. Cells |-> body(all, n)]
  <2>1. \A d \in D \ {Nil} : S.heap[d].next = Nil
    BY DEF Shape, Definition
  <2>2. ASSUME NEW n \in 0 .. Cells PROVE body(all, n) = D \ {Nil}
    <3>1. CASE n = 0
      BY <3>1
    <3>2. CASE n # 0
      <4>1. n - 1 \in 0 .. Cells
        BY <3>2, BoundAssumption
      <4>2. all[n - 1] = D \ {Nil}
        BY <4>1
      <4> QED
        BY <2>1, <3>2, <4>2
    <3> QED
      BY <3>1, <3>2
  <2> QED
    BY <2>2
<1>3. reach = [n \in 0 .. Cells |-> body(reach, n)]
  BY <1>2
<1> HIDE DEF reach
<1>4. ASSUME NEW N, N = {n \in 0 .. Cells : reach[n] # D \ {Nil}}, N # {}
      PROVE  FALSE
  <2>1. N \in SUBSET Nat
    BY <1>4
  <2>2. PICK x \in N : \A y \in N : x <= y
    BY <1>4, <2>1, Least
  <2>3. x \in 0 .. Cells /\ reach[x] # D \ {Nil}
    BY <1>4, <2>2
  <2>4. x # 0
    BY <1>3, <2>3
  <2>5. x - 1 \in 0 .. Cells /\ ~ (x <= x - 1)
    BY <2>3, <2>4, BoundAssumption
  <2>6. reach[x - 1] = D \ {Nil}
    BY <1>4, <2>2, <2>5
  <2>7. reach[x] = reach[x - 1] \cup ({S.heap[d].next : d \in reach[x - 1]} \ {Nil})
    BY <1>3, <2>3, <2>4
  <2>8. \A d \in D \ {Nil} : S.heap[d].next = Nil
    BY DEF Shape, Definition
  <2> QED
    BY <2>3, <2>6, <2>7, <2>8
<1>5. \A n \in 0 .. Cells : reach[n] = D \ {Nil}
  <2>1. PICK N : N = {n \in 0 .. Cells : reach[n] # D \ {Nil}}
    OBVIOUS
  <2>2. N = {}
    BY <1>4, <2>1
  <2> QED
    BY <2>1, <2>2
<1>6. Cells \in 0 .. Cells
  BY BoundAssumption
<1>7. reach[Cells] = D \ {Nil}
  BY <1>5, <1>6
<1> QED
  BY <1>1, <1>7

-----------------------------------------------------------------------------
(***************************************************************************)
(* How many                                                                *)
(***************************************************************************)

LEMMA CountLess ==
  ASSUME NEW A, NEW B, IsFiniteSet(A), B \subseteq A
  PROVE  IsFiniteSet(B) /\ Cardinality(B) \in Nat /\ Cardinality(A) \in Nat
         /\ Cardinality(B) <= Cardinality(A)
  BY FS_Subset, FS_CardinalityType

LEMMA CountMore ==
  ASSUME NEW A, NEW B, NEW y, IsFiniteSet(A), B \subseteq A \cup {y}
  PROVE  IsFiniteSet(B) /\ Cardinality(B) \in Nat /\ Cardinality(A) \in Nat
         /\ Cardinality(B) <= Cardinality(A) + 1
<1>1. /\ IsFiniteSet(A \cup {y}) /\ Cardinality(A) \in Nat
      /\ Cardinality(A \cup {y}) = Cardinality(A) \/ Cardinality(A \cup {y}) = Cardinality(A) + 1
  BY FS_AddElement, FS_CardinalityType
<1>2. IsFiniteSet(B) /\ Cardinality(B) \in Nat /\ Cardinality(B) <= Cardinality(A \cup {y})
  BY <1>1, CountLess
<1> QED
  BY <1>1, <1>2

LEMMA CountCut ==
  ASSUME NEW A, NEW B, NEW x, IsFiniteSet(A), x \in A, B \subseteq A \ {x}
  PROVE  IsFiniteSet(B) /\ Cardinality(B) \in Nat /\ Cardinality(A) \in Nat
         /\ Cardinality(B) + 1 <= Cardinality(A)
<1>1. /\ IsFiniteSet(A \ {x}) /\ Cardinality(A) \in Nat /\ Cardinality(A \ {x}) \in Nat
      /\ Cardinality(A \ {x}) = Cardinality(A) - 1
  BY FS_RemoveElement, FS_CardinalityType
<1>2. IsFiniteSet(B) /\ Cardinality(B) \in Nat /\ Cardinality(B) <= Cardinality(A \ {x})
  BY <1>1, CountLess
<1> QED
  BY <1>1, <1>2

LEMMA CountMoved ==
  ASSUME NEW A, NEW B, NEW x, NEW y, IsFiniteSet(A), x \in A, B \subseteq (A \ {x}) \cup {y}
  PROVE  IsFiniteSet(B) /\ Cardinality(B) \in Nat /\ Cardinality(A) \in Nat
         /\ Cardinality(B) <= Cardinality(A)
<1>1. /\ IsFiniteSet(A \ {x}) /\ Cardinality(A) \in Nat /\ Cardinality(A \ {x}) \in Nat
      /\ Cardinality(A \ {x}) = Cardinality(A) - 1
  BY FS_RemoveElement, FS_CardinalityType
<1>2. IsFiniteSet(B) /\ Cardinality(B) \in Nat /\ Cardinality(B) <= Cardinality(A \ {x}) + 1
  BY <1>1, CountMore
<1> QED
  BY <1>1, <1>2

LEMMA CountNone ==
  ASSUME NEW A, IsFiniteSet(A), Cardinality(A) <= 0
  PROVE  A = {}
  BY FS_EmptySet, FS_CardinalityType

-----------------------------------------------------------------------------
(***************************************************************************)
(* A record is given another definition                                    *)
(***************************************************************************)

\* The record of t refers to d, with flag l; S and T do not differ in other records.
Puts(S, T, t, d, l) ==
  /\ \A u \in Table \ {t} : T.rec[u] = S.rec[u]
  /\ T.rec[t].def = d /\ T.rec[t].linked = l
  /\ T.rec[t].ctx = S.rec[t].ctx /\ T.rec[t].here = S.rec[t].here

LEMMA ShapeFacts ==
  ASSUME NEW S, Shape(S)
  PROVE  /\ \A t \in Table : /\ S.rec[t] \in Record /\ S.rec[t].def \in Cell \cup {Nil}
                             /\ S.rec[t].linked \in BOOLEAN /\ S.rec[t].here \in BOOLEAN
                             /\ S.rec[t].ctx \in Seq(Link)
                             /\ Len(S.rec[t].ctx) \in Nat /\ 0 \in Slots(S, t)
         /\ \A c \in Cell : S.heap[c] \in Definition /\ S.heap[c].count \in Nat
         /\ {"Global", "Top"} \subseteq Table /\ Nil \notin Cell /\ Self \subseteq Table
         /\ Formal \subseteq Table \ {"Global", "Top"} /\ Caller \subseteq Table
<1>1. ASSUME NEW t \in Table
      PROVE  /\ S.rec[t] \in Record /\ S.rec[t].def \in Cell \cup {Nil}
             /\ S.rec[t].linked \in BOOLEAN /\ S.rec[t].here \in BOOLEAN
             /\ S.rec[t].ctx \in Seq(Link)
  BY DEF Shape, Record
<1>2. ASSUME NEW t \in Table PROVE Len(S.rec[t].ctx) \in Nat /\ 0 \in Slots(S, t)
  BY <1>1 DEF Slots
<1>3. ASSUME NEW c \in Cell PROVE S.heap[c] \in Definition /\ S.heap[c].count \in Nat
  BY DEF Shape, Definition
<1>4. Nil \notin Cell
  BY DEF Nil, Cell
<1>5. {"Global", "Top"} \subseteq Table /\ Self \subseteq Table /\ Caller \subseteq Table
      /\ Formal \subseteq Table \ {"Global", "Top"}
  BY ScopeAssumption DEF Table, Fn
<1> QED
  BY <1>1, <1>2, <1>3, <1>4, <1>5

LEMMA PutsElsewhere ==
  ASSUME NEW S, NEW T, NEW t \in Table, NEW d, NEW l, Puts(S, T, t, d, l),
         NEW u \in Table
  PROVE  /\ Slots(T, u) = Slots(S, u)
         /\ \A i \in Slots(S, u) : u # t \/ i # 0 =>
              At(T, u, i) = At(S, u, i) /\ ToGlobal(T, u, i) = ToGlobal(S, u, i)
<1>1. Slots(T, u) = Slots(S, u)
  BY DEF Puts, Slots
<1>2. ASSUME NEW i \in Slots(S, u), u # t \/ i # 0
      PROVE  At(T, u, i) = At(S, u, i) /\ ToGlobal(T, u, i) = ToGlobal(S, u, i)
  BY <1>2 DEF Puts, At, ToGlobal
<1> QED
  BY <1>1, <1>2

LEMMA PutsThere ==
  ASSUME NEW S, NEW T, NEW t \in Table, NEW d, NEW l, Puts(S, T, t, d, l)
  PROVE  At(T, t, 0) = d /\ ToGlobal(T, t, 0) = l /\ DefOf(T, t) = d
         /\ At(S, t, 0) = DefOf(S, t)
  BY DEF Puts, At, ToGlobal, DefOf

LEMMA PutsRefs ==
  ASSUME NEW S, NEW T, NEW t \in Table, NEW d, NEW l, Puts(S, T, t, d, l), Shape(S),
         NEW c
  PROVE  /\ RefsIn(T, c) \ {<<t, 0>>} = RefsIn(S, c) \ {<<t, 0>>}
         /\ <<t, 0>> \in RefsIn(T, c) <=> c = d
         /\ <<t, 0>> \in RefsIn(S, c) <=> c = DefOf(S, t)
<1>1. 0 \in Slots(S, t) /\ 0 \in Slots(T, t)
  <2>1. 0 \in Slots(S, t)
    BY ShapeFacts
  <2>2. Slots(T, t) = Slots(S, t)
    BY PutsElsewhere
  <2> QED
    BY <2>1, <2>2
<1>2. RefsIn(T, c) \ {<<t, 0>>} = RefsIn(S, c) \ {<<t, 0>>}
  <2>1. SUFFICES ASSUME NEW p \in Table \X Nat, p # <<t, 0>>
                 PROVE  p \in RefsIn(T, c) <=> p \in RefsIn(S, c)
    BY DEF RefsIn
  <2>2. p = <<p[1], p[2]>> /\ p[1] \in Table /\ (p[1] # t \/ p[2] # 0)
    BY <2>1
  <2>3. Slots(T, p[1]) = Slots(S, p[1])
        /\ (p[2] \in Slots(S, p[1]) => At(T, p[1], p[2]) = At(S, p[1], p[2]))
    BY <2>2, PutsElsewhere
  <2> QED
    BY <2>3 DEF RefsIn
<1>3. <<t, 0>> \in RefsIn(T, c) <=> c = d
  BY <1>1, PutsThere DEF RefsIn
<1>4. <<t, 0>> \in RefsIn(S, c) <=> c = DefOf(S, t)
  BY <1>1, PutsThere DEF RefsIn
<1> QED
  BY <1>2, <1>3, <1>4

\* Who refers to a definition, in a slot.
LEMMA InRefs ==
  ASSUME NEW S, NEW u \in Table, NEW i \in Slots(S, u), Shape(S)
  PROVE  <<u, i>> \in RefsIn(S, At(S, u, i)) /\ i \in Nat
<1>1. i \in Nat
  BY ShapeFacts DEF Slots
<1> QED
  BY <1>1 DEF RefsIn

\* What is referred to is not free.
LEMMA ReferredTo ==
  ASSUME NEW S, Shape(S), Counted(S), NEW c \in Cell, NEW p \in RefsIn(S, c)
  PROVE  S.heap[c].count > 0 /\ S.heap[c].type \notin {"free", "deleted"}
<1>1. IsFiniteSet(RefsIn(S, c)) /\ Cardinality(RefsIn(S, c)) <= S.heap[c].count
  BY DEF Counted
<1>2. S.heap[c].count \in Nat /\ Cardinality(RefsIn(S, c)) \in Nat
  BY <1>1, ShapeFacts, FS_CardinalityType
<1>3. Cardinality(RefsIn(S, c)) # 0
  BY <1>1, FS_EmptySet
<1>4. S.heap[c].count > 0
  BY <1>1, <1>2, <1>3
<1> QED
  BY <1>4 DEF Counted

\* Free cells are referred to by nobody.
LEMMA NobodyRefers ==
  ASSUME NEW S, Shape(S), Counted(S), NEW c \in Cell, S.heap[c].type \in {"free", "deleted"}
  PROVE  RefsIn(S, c) = {}
  BY ReferredTo

-----------------------------------------------------------------------------
(***************************************************************************)
(* The four things that are done to definitions                            *)
(***************************************************************************)

SameMeaning(S, T, c) ==
  T.heap[c].type = S.heap[c].type /\ T.heap[c].val = S.heap[c].val

\* The record of t gives up its definition d.
Released(S, T, t, l) ==
  /\ DefOf(S, t) \in Cell /\ Puts(S, T, t, Nil, l)
  /\ \A c \in Cell \ {DefOf(S, t)} : T.heap[c] = S.heap[c]
  /\ IF S.heap[DefOf(S, t)].count = 1
     THEN T.heap[DefOf(S, t)].type = "deleted" /\ T.heap[DefOf(S, t)].count = 0
     ELSE /\ T.heap[DefOf(S, t)].count = S.heap[DefOf(S, t)].count - 1
          /\ SameMeaning(S, T, DefOf(S, t))

LEMMA ReleasedRefs ==
  ASSUME NEW S, NEW T, NEW t \in Table, NEW l, Shape(S), Shape(T), Counted(S),
         Released(S, T, t, l)
  PROVE  /\ Counted(T)
         /\ \A c \in Cell : RefsIn(T, c) = RefsIn(S, c) \ {<<t, 0>>}
         /\ \A c \in Cell : RefsIn(T, c) # {} => SameMeaning(S, T, c)
         /\ \A c \in Cell : T.heap[c].type = "free" <=> S.heap[c].type = "free"
<1> DEFINE d == DefOf(S, t)
<1>1. d \in Cell /\ Nil \notin Cell
  BY ShapeFacts DEF Released
<1>2. Puts(S, T, t, Nil, l)
  BY DEF Released
<1>3. ASSUME NEW c \in Cell PROVE RefsIn(T, c) = RefsIn(S, c) \ {<<t, 0>>}
  <2>1. RefsIn(T, c) \ {<<t, 0>>} = RefsIn(S, c) \ {<<t, 0>>}
    BY <1>2, PutsRefs
  <2>2. <<t, 0>> \notin RefsIn(T, c)
    BY <1>1, <1>2, PutsRefs
  <2> QED
    BY <2>1, <2>2
<1>4. <<t, 0>> \in RefsIn(S, d)
  BY <1>2, PutsRefs
<1>5. S.heap[d].count > 0 /\ S.heap[d].type \notin {"free", "deleted"}
  BY <1>1, <1>4, ReferredTo
<1>6. \A c \in Cell \ {d} : T.heap[c] = S.heap[c]
  BY DEF Released
<1>7. CASE S.heap[d].count = 1
  <2>1. T.heap[d].type = "deleted" /\ T.heap[d].count = 0
    BY <1>7 DEF Released
  <2>2. IsFiniteSet(RefsIn(S, d)) /\ Cardinality(RefsIn(S, d)) <= 1
    BY <1>1, <1>7 DEF Counted
  <2>3. /\ IsFiniteSet(RefsIn(T, d)) /\ Cardinality(RefsIn(T, d)) \in Nat
        /\ Cardinality(RefsIn(S, d)) \in Nat
        /\ Cardinality(RefsIn(T, d)) + 1 <= Cardinality(RefsIn(S, d))
    BY <1>1, <1>3, <1>4, <2>2, CountCut
  <2>4. Cardinality(RefsIn(T, d)) <= 0
    BY <2>2, <2>3
  <2>5. RefsIn(T, d) = {}
    BY <2>3, <2>4, CountNone
  <2>6. ASSUME NEW c \in Cell
        PROVE  /\ IsFiniteSet(RefsIn(T, c)) /\ Cardinality(RefsIn(T, c)) <= T.heap[c].count
               /\ T.heap[c].type \in {"free", "deleted"} => T.heap[c].count = 0
    <3>1. CASE c = d
      BY <2>1, <2>3, <2>4, <3>1
    <3>2. CASE c # d
      <4>1. IsFiniteSet(RefsIn(S, c)) /\ Cardinality(RefsIn(S, c)) <= S.heap[c].count
            /\ (S.heap[c].type \in {"free", "deleted"} => S.heap[c].count = 0)
            /\ S.heap[c].count \in Nat
        BY ShapeFacts DEF Counted
      <4>2. /\ IsFiniteSet(RefsIn(T, c)) /\ Cardinality(RefsIn(T, c)) \in Nat
            /\ Cardinality(RefsIn(S, c)) \in Nat
            /\ Cardinality(RefsIn(T, c)) <= Cardinality(RefsIn(S, c))
        BY <1>3, <4>1, CountLess
      <4>3. T.heap[c] = S.heap[c]
        BY <1>6, <3>2
      <4> QED
        BY <4>1, <4>2, <4>3
    <3> QED
      BY <3>1, <3>2
  <2>7. Counted(T)
    BY <2>6 DEF Counted
  <2>8. \A c \in Cell : RefsIn(T, c) # {} => SameMeaning(S, T, c)
    BY <1>6, <2>5 DEF SameMeaning
  <2>9. \A c \in Cell : T.heap[c].type = "free" <=> S.heap[c].type = "free"
    BY <1>5, <1>6, <2>1
  <2> QED
    BY <1>3, <2>7, <2>8, <2>9
<1>8. CASE S.heap[d].count # 1
  <2>1. T.heap[d].count = S.heap[d].count - 1 /\ SameMeaning(S, T, d)
    BY <1>8 DEF Released
  <2>2. ASSUME NEW c \in Cell
        PROVE  /\ IsFiniteSet(RefsIn(T, c)) /\ Cardinality(RefsIn(T, c)) <= T.heap[c].count
               /\ T.heap[c].type \in {"free", "deleted"} => T.heap[c].count = 0
    <3>1. /\ IsFiniteSet(RefsIn(S, c)) /\ Cardinality(RefsIn(S, c)) <= S.heap[c].count
          /\ S.heap[c].type \in {"free", "deleted"} => S.heap[c].count = 0
          /\ S.heap[c].count \in Nat
      BY ShapeFacts DEF Counted
    <3>2. CASE c = d
      <4>1. /\ IsFiniteSet(RefsIn(T, d)) /\ Cardinality(RefsIn(T, d)) \in Nat
            /\ Cardinality(RefsIn(S, d)) \in Nat
            /\ Cardinality(RefsIn(T, d)) + 1 <= Cardinality(RefsIn(S, d))
        BY <1>1, <1>3, <1>4, <3>1, <3>2, CountCut
      <4>2. Cardinality(RefsIn(T, d)) <= T.heap[d].count
        BY <2>1, <3>1, <3>2, <4>1
      <4>3. T.heap[d].type \notin {"free", "deleted"}
        BY <1>5, <2>1 DEF SameMeaning
      <4> QED
        BY <3>2, <4>1, <4>2, <4>3
    <3>3. CASE c # d
      <4>2. /\ IsFiniteSet(RefsIn(T, c)) /\ Cardinality(RefsIn(T, c)) \in Nat
            /\ Cardinality(RefsIn(S, c)) \in Nat
            /\ Cardinality(RefsIn(T, c)) <= Cardinality(RefsIn(S, c))
        BY <1>3, <3>1, CountLess
      <4>3. T.heap[c] = S.heap[c]
        BY <1>6, <3>3
      <4> QED
        BY <3>1, <4>2, <4>3
    <3> QED
      BY <3>2, <3>3
  <2>3. Counted(T)
    BY <2>2 DEF Counted
  <2>4. \A c \in Cell : SameMeaning(S, T, c)
    BY <1>6, <2>1 DEF SameMeaning
  <2> QED
    BY <1>3, <2>3, <2>4 DEF SameMeaning
<1> QED
  BY <1>7, <1>8

\* A definition without references is the same for all that Private, ParamsOwn and
\* FnGlobal say: they are kept when references only go.
LEMMA FewerRefs ==
  ASSUME NEW S, NEW T, NEW t \in Table, NEW l, Sound(S), Shape(T), Counted(T),
         Puts(S, T, t, Nil, l), t = "Global" \/ t \in Formal => ~ l, l \in BOOLEAN,
         \A c \in Cell : RefsIn(T, c) = RefsIn(S, c) \ {<<t, 0>>},
         \A c \in Cell : RefsIn(T, c) # {} => SameMeaning(S, T, c)
  PROVE  /\ Sound(T)
         /\ t # "Global" /\ FnGlobal(S) => FnGlobal(T)
         /\ t # "Global" => TypeOf(T, "Global") = TypeOf(S, "Global")
<1>1. Shape(S) /\ Nil \notin Cell /\ "Global" \in Table /\ Formal \subseteq Table
  BY ShapeFacts DEF Sound
<1>2. \A u \in Table : Slots(T, u) = Slots(S, u)
  BY PutsElsewhere
<1>3. ASSUME NEW u \in Table, NEW i \in Slots(T, u), NEW c \in Cell, At(T, u, i) = c
      PROVE  /\ u # t \/ i # 0
             /\ i \in Slots(S, u) /\ At(S, u, i) = c /\ ToGlobal(T, u, i) = ToGlobal(S, u, i)
             /\ SameMeaning(S, T, c) /\ RefsIn(T, c) \subseteq RefsIn(S, c)
  <2>1. u # t \/ i # 0
    BY <1>1, <1>3, PutsThere
  <2>2. i \in Slots(S, u) /\ At(S, u, i) = c /\ ToGlobal(T, u, i) = ToGlobal(S, u, i)
    <3>1. i \in Slots(S, u)
      BY <1>2
    <3>2. At(T, u, i) = At(S, u, i) /\ ToGlobal(T, u, i) = ToGlobal(S, u, i)
      BY <2>1, <3>1, PutsElsewhere
    <3> QED
      BY <1>3, <3>1, <3>2
  <2>3. <<u, i>> \in RefsIn(T, c)
    BY <1>3, InRefs
  <2> QED
    BY <2>1, <2>2, <2>3
<1>4. Private(T)
  <2>1. SUFFICES ASSUME NEW u \in Table \ {"Global"}, NEW i \in Slots(T, u), NEW c \in Cell,
                        At(T, u, i) = c, ~ ToGlobal(T, u, i)
                 PROVE  /\ T.heap[c].type # "unknown"
                        /\ T.heap[c].type = "uvar" => RefsIn(T, c) \subseteq {<<u, i>>}
    BY DEF Private
  <2>2. /\ i \in Slots(S, u) /\ At(S, u, i) = c /\ ~ ToGlobal(S, u, i)
        /\ SameMeaning(S, T, c) /\ RefsIn(T, c) \subseteq RefsIn(S, c)
    BY <1>3, <2>1
  <2>3. /\ S.heap[c].type # "unknown"
        /\ S.heap[c].type = "uvar" => RefsIn(S, c) \subseteq {<<u, i>>}
    BY <2>2 DEF Sound, Private
  <2> QED
    BY <2>2, <2>3 DEF SameMeaning
<1>5. GlobalAlone(T)
  <2>1. S.rec["Global"].linked = FALSE /\ S.rec["Global"].ctx = <<>>
    BY DEF Sound, GlobalAlone
  <2>2. CASE t = "Global"
    BY <2>1, <2>2 DEF Puts, GlobalAlone
  <2>3. CASE t # "Global"
    BY <1>1, <2>1, <2>3 DEF Puts, GlobalAlone
  <2> QED
    BY <2>2, <2>3
<1>6. ParamsOwn(T)
  <2>1. SUFFICES ASSUME NEW u \in Formal, NEW i \in Slots(T, u)
                 PROVE  /\ ~ ToGlobal(T, u, i)
                        /\ \A c \in Cell : At(T, u, i) = c => T.heap[c].type = "uvar"
    BY DEF ParamsOwn
  <2>2. i \in Slots(S, u) /\ u \in Table
    BY <1>1, <1>2
  <2>3. /\ ~ ToGlobal(S, u, i)
        /\ \A c \in Cell : At(S, u, i) = c => S.heap[c].type = "uvar"
    BY <2>2 DEF Sound, ParamsOwn
  <2>4. ~ ToGlobal(T, u, i)
    <3>1. CASE u = t /\ i = 0
      BY <3>1 DEF Puts, ToGlobal
    <3>2. CASE u # t \/ i # 0
      <4>1. ToGlobal(T, u, i) = ToGlobal(S, u, i)
        BY <2>2, <3>2, PutsElsewhere
      <4> QED
        BY <2>3, <4>1
    <3> QED
      BY <3>1, <3>2
  <2>5. \A c \in Cell : At(T, u, i) = c => T.heap[c].type = "uvar"
    BY <1>3, <2>2, <2>3 DEF SameMeaning
  <2> QED
    BY <2>4, <2>5
<1>7. Sound(T)
  BY <1>4, <1>5, <1>6 DEF Sound
<1>8. ASSUME t # "Global" PROVE TypeOf(T, "Global") = TypeOf(S, "Global")
  <2>1. DefOf(T, "Global") = DefOf(S, "Global")
    BY <1>1, <1>8 DEF Puts, DefOf
  <2>2. DefOf(T, "Global") = At(T, "Global", 0) /\ 0 \in Slots(T, "Global")
    BY <1>1, ShapeFacts DEF DefOf, At
  <2>3. CASE DefOf(T, "Global") = Nil
    BY <2>1, <2>3 DEF TypeOf
  <2>4. CASE DefOf(T, "Global") # Nil
    <3>1. DefOf(T, "Global") \in Cell
      BY <1>1, <2>4, ShapeFacts DEF DefOf
    <3>2. SameMeaning(S, T, DefOf(T, "Global"))
      BY <1>1, <1>3, <2>2, <3>1
    <3> QED
      BY <2>1, <2>4, <3>2 DEF TypeOf, SameMeaning
  <2> QED
    BY <2>3, <2>4
<1>9. ASSUME t # "Global", FnGlobal(S) PROVE FnGlobal(T)
  <2>1. SUFFICES ASSUME NEW u \in Table, NEW i \in Slots(T, u), NEW c \in Cell,
                        At(T, u, i) = c, T.heap[c].type = "ufn"
                 PROVE  TypeOf(T, "Global") = "ufn"
    BY DEF FnGlobal
  <2>2. i \in Slots(S, u) /\ At(S, u, i) = c /\ S.heap[c].type = "ufn"
    BY <1>3, <2>1 DEF SameMeaning
  <2>3. TypeOf(S, "Global") = "ufn"
    BY <1>9, <2>2 DEF FnGlobal
  <2> QED
    BY <1>8, <1>9, <2>3
<1> QED
  BY <1>7, <1>8, <1>9

\* A new definition, c, for a record that has none.
Pushed(S, T, t, c) ==
  /\ DefOf(S, t) = Nil /\ Puts(S, T, t, c, S.rec[t].linked)
  /\ c \in Cell /\ S.heap[c].type = "free"
  /\ \A e \in Cell \ {c} : T.heap[e] = S.heap[e]
  /\ T.heap[c].count = 1 /\ T.heap[c].type \in {"uvar", "bvar", "ufn", "bfn", "unknown"}
  /\ t # "Global" => T.heap[c].type = "uvar"

LEMMA PushedKeeps ==
  ASSUME NEW S, NEW T, NEW t \in Table, NEW c, Sound(S), Shape(T), Pushed(S, T, t, c)
  PROVE  /\ Sound(T)
         /\ FnGlobal(S) => FnGlobal(T)
         /\ t # "Global" => TypeOf(T, "Global") = TypeOf(S, "Global")
<1>1. Shape(S) /\ Counted(S) /\ Nil \notin Cell /\ "Global" \in Table /\ Formal \subseteq Table \ {"Global"}
  BY ShapeFacts DEF Sound
<1>2. /\ Puts(S, T, t, c, S.rec[t].linked) /\ DefOf(S, t) = Nil /\ c \in Cell
      /\ S.heap[c].type = "free" /\ \A e \in Cell \ {c} : T.heap[e] = S.heap[e]
      /\ T.heap[c].count = 1 /\ T.heap[c].type \in {"uvar", "bvar", "ufn", "bfn", "unknown"}
      /\ t # "Global" => T.heap[c].type = "uvar"
  BY DEF Pushed
<1>3. RefsIn(S, c) = {}
  BY <1>1, <1>2, NobodyRefers
<1>4. RefsIn(T, c) = {<<t, 0>>}
  <2>1. RefsIn(T, c) \ {<<t, 0>>} = RefsIn(S, c) \ {<<t, 0>>} /\ <<t, 0>> \in RefsIn(T, c)
    BY <1>1, <1>2, PutsRefs
  <2> QED
    BY <1>3, <2>1
<1>5. ASSUME NEW e \in Cell \ {c} PROVE RefsIn(T, e) = RefsIn(S, e)
  <2>1. /\ RefsIn(T, e) \ {<<t, 0>>} = RefsIn(S, e) \ {<<t, 0>>}
        /\ <<t, 0>> \in RefsIn(T, e) <=> e = c
        /\ <<t, 0>> \in RefsIn(S, e) <=> e = DefOf(S, t)
    BY <1>1, <1>2, PutsRefs
  <2> QED
    BY <1>1, <1>2, <2>1
<1>6. Counted(T)
  <2>1. ASSUME NEW e \in Cell
        PROVE  /\ IsFiniteSet(RefsIn(T, e)) /\ Cardinality(RefsIn(T, e)) <= T.heap[e].count
               /\ T.heap[e].type \in {"free", "deleted"} => T.heap[e].count = 0
    <3>1. CASE e = c
      <4>1. IsFiniteSet({<<t, 0>>}) /\ Cardinality({<<t, 0>>}) = 1
        BY FS_Singleton
      <4>2. IsFiniteSet(RefsIn(T, c)) /\ Cardinality(RefsIn(T, c)) = 1
        BY <1>4, <4>1
      <4>3. T.heap[c].count = 1 /\ T.heap[c].type \notin {"free", "deleted"}
        BY <1>2
      <4> QED
        BY <3>1, <4>2, <4>3
    <3>2. CASE e # c
      BY <1>1, <1>2, <1>5, <3>2 DEF Counted
    <3> QED
      BY <3>1, <3>2
  <2> QED
    BY <2>1 DEF Counted
<1>7. \A u \in Table : Slots(T, u) = Slots(S, u)
  BY <1>2, PutsElsewhere
<1>8. ASSUME NEW u \in Table, NEW i \in Slots(T, u), NEW e \in Cell, At(T, u, i) = e
      PROVE  \/ u = t /\ i = 0 /\ e = c /\ ToGlobal(T, u, i) = S.rec[t].linked
             \/ /\ e # c /\ T.heap[e] = S.heap[e] /\ RefsIn(T, e) = RefsIn(S, e)
                /\ i \in Slots(S, u) /\ At(S, u, i) = e
                /\ ToGlobal(T, u, i) = ToGlobal(S, u, i)
  <2>1. CASE u = t /\ i = 0
    <3>1. At(T, t, 0) = c /\ ToGlobal(T, t, 0) = S.rec[t].linked
      <4>1. Puts(S, T, t, c, S.rec[t].linked)
        BY <1>2
      <4> QED
        BY ONLY <4>1, t \in Table, PutsThere
    <3> QED
      BY <1>8, <2>1, <3>1
  <2>2. CASE u # t \/ i # 0
    <3>1. i \in Slots(S, u)
      BY <1>7
    <3>2. At(T, u, i) = At(S, u, i) /\ ToGlobal(T, u, i) = ToGlobal(S, u, i)
      BY <1>2, <2>2, <3>1, PutsElsewhere
    <3>3. <<u, i>> \in RefsIn(S, e)
      BY <1>1, <1>8, <3>1, <3>2, InRefs
    <3>4. e # c
      BY <1>3, <3>3
    <3> QED
      BY <1>2, <1>5, <1>8, <3>1, <3>2, <3>4
  <2> QED
    BY <2>1, <2>2
<1>9. Private(T)
  <2>1. SUFFICES ASSUME NEW u \in Table \ {"Global"}, NEW i \in Slots(T, u), NEW e \in Cell,
                        At(T, u, i) = e, ~ ToGlobal(T, u, i)
                 PROVE  /\ T.heap[e].type # "unknown"
                        /\ T.heap[e].type = "uvar" => RefsIn(T, e) \subseteq {<<u, i>>}
    BY DEF Private
  <2>2. CASE u = t /\ i = 0 /\ e = c
    BY <1>2, <1>4, <2>2
  <2>3. CASE /\ T.heap[e] = S.heap[e] /\ RefsIn(T, e) = RefsIn(S, e)
             /\ i \in Slots(S, u) /\ At(S, u, i) = e
             /\ ToGlobal(T, u, i) = ToGlobal(S, u, i)
    BY <2>1, <2>3 DEF Sound, Private
  <2> QED
    BY <1>8, <2>1, <2>2, <2>3
<1>10. GlobalAlone(T)
  <2>1. S.rec["Global"].linked = FALSE /\ S.rec["Global"].ctx = <<>>
    BY DEF Sound, GlobalAlone
  <2>2. T.rec["Global"].linked = S.rec["Global"].linked /\ T.rec["Global"].ctx = S.rec["Global"].ctx
    BY <1>1, <1>2 DEF Puts
  <2> QED
    BY <2>1, <2>2 DEF GlobalAlone
<1>11. ParamsOwn(T)
  <2>1. SUFFICES ASSUME NEW u \in Formal, NEW i \in Slots(T, u)
                 PROVE  /\ ~ ToGlobal(T, u, i)
                        /\ \A e \in Cell : At(T, u, i) = e => T.heap[e].type = "uvar"
    BY DEF ParamsOwn
  <2>2. i \in Slots(S, u) /\ u \in Table /\ u # "Global"
    BY <1>1, <1>7
  <2>3. /\ ~ ToGlobal(S, u, i)
        /\ \A e \in Cell : At(S, u, i) = e => S.heap[e].type = "uvar"
    BY <2>2 DEF Sound, ParamsOwn
  <2>4. ~ ToGlobal(T, u, i)
    <3>1. CASE u = t /\ i = 0
      BY <1>2, <2>3, <3>1 DEF Puts, ToGlobal
    <3>2. CASE u # t \/ i # 0
      <4>1. ToGlobal(T, u, i) = ToGlobal(S, u, i)
        BY <1>2, <2>2, <3>2, PutsElsewhere
      <4> QED
        BY <2>3, <4>1
    <3> QED
      BY <3>1, <3>2
  <2>5. ASSUME NEW e \in Cell, At(T, u, i) = e PROVE T.heap[e].type = "uvar"
    BY <1>2, <1>8, <2>2, <2>3, <2>5
  <2> QED
    BY <2>4, <2>5
<1>12. Sound(T)
  BY <1>6, <1>9, <1>10, <1>11 DEF Sound
<1>13. ASSUME t # "Global" PROVE TypeOf(T, "Global") = TypeOf(S, "Global")
  <2>1. DefOf(T, "Global") = DefOf(S, "Global")
    BY <1>1, <1>2, <1>13 DEF Puts, DefOf
  <2>2. CASE DefOf(T, "Global") = Nil
    BY <2>1, <2>2 DEF TypeOf
  <2>3. CASE DefOf(T, "Global") # Nil
    <3>1. DefOf(T, "Global") \in Cell
      BY <1>1, <2>3, ShapeFacts DEF DefOf
    <3>2. DefOf(T, "Global") = At(T, "Global", 0) /\ 0 \in Slots(T, "Global")
      BY <1>1, ShapeFacts DEF DefOf, At
    <3>3. T.heap[DefOf(T, "Global")] = S.heap[DefOf(T, "Global")]
      BY <1>1, <1>8, <1>13, <3>1, <3>2
    <3> QED
      BY <2>1, <2>3, <3>3 DEF TypeOf
  <2> QED
    BY <2>2, <2>3
<1>14. ASSUME FnGlobal(S) PROVE FnGlobal(T)
  <2>1. SUFFICES ASSUME NEW u \in Table, NEW i \in Slots(T, u), NEW e \in Cell,
                        At(T, u, i) = e, T.heap[e].type = "ufn"
                 PROVE  TypeOf(T, "Global") = "ufn"
    BY DEF FnGlobal
  <2>2. CASE u = t /\ i = 0 /\ e = c
    <3>1. t = "Global" /\ DefOf(T, "Global") = c
      BY <1>2, <2>1, <2>2 DEF Puts, DefOf
    <3> QED
      BY <1>1, <1>2, <2>1, <2>2, <3>1 DEF TypeOf
  <2>3. CASE /\ T.heap[e] = S.heap[e] /\ i \in Slots(S, u) /\ At(S, u, i) = e
    <3>1. TypeOf(S, "Global") = "ufn"
      BY <1>14, <2>1, <2>3 DEF FnGlobal
    <3>2. t # "Global"
      BY <1>2, <3>1 DEF TypeOf
    <3> QED
      BY <1>13, <3>1, <3>2
  <2> QED
    BY <1>8, <2>1, <2>2, <2>3
<1> QED
  BY <1>12, <1>13, <1>14

\* The variable d is given a value.
ValueSet(S, T, d) ==
  /\ T.rec = S.rec /\ d \in Cell /\ S.heap[d].type \in {"uvar", "bvar", "unknown"}
  /\ \A e \in Cell \ {d} : T.heap[e] = S.heap[e]
  /\ T.heap[d].count = S.heap[d].count
  /\ T.heap[d].type = IF S.heap[d].type = "bvar" THEN "bvar" ELSE "uvar"

LEMMA ValueSetKeeps ==
  ASSUME NEW S, NEW T, NEW d, Sound(S), Shape(T), ValueSet(S, T, d)
  PROVE  /\ Sound(T)
         /\ FnGlobal(S) => FnGlobal(T)
         /\ TypeOf(S, "Global") = "ufn" => TypeOf(T, "Global") = "ufn"
<1>1. /\ T.rec = S.rec /\ d \in Cell /\ S.heap[d].type \in {"uvar", "bvar", "unknown"}
      /\ \A e \in Cell \ {d} : T.heap[e] = S.heap[e]
      /\ T.heap[d].count = S.heap[d].count
      /\ T.heap[d].type = IF S.heap[d].type = "bvar" THEN "bvar" ELSE "uvar"
  BY DEF ValueSet
<1>2. /\ \A u : Slots(T, u) = Slots(S, u)
      /\ \A u, i : At(T, u, i) = At(S, u, i) /\ ToGlobal(T, u, i) = ToGlobal(S, u, i)
  BY <1>1 DEF Slots, At, ToGlobal
<1>3. \A c : RefsIn(T, c) = RefsIn(S, c)
  BY <1>2 DEF RefsIn
<1>4. \A c \in Cell : T.heap[c].count = S.heap[c].count
  BY <1>1
<1>5. \A c \in Cell : \/ T.heap[c].type = S.heap[c].type
                      \/ S.heap[c].type = "unknown" /\ T.heap[c].type = "uvar"
  BY <1>1
<1>6. Counted(T)
  BY <1>3, <1>4, <1>5 DEF Sound, Counted
<1>7. Private(T)
  BY <1>2, <1>3, <1>5 DEF Sound, Private
<1>8. GlobalAlone(T)
  BY <1>1 DEF Sound, GlobalAlone
<1>9. ParamsOwn(T)
  BY <1>2, <1>5 DEF Sound, ParamsOwn
<1>10. TypeOf(S, "Global") = "ufn" => TypeOf(T, "Global") = "ufn"
  <2>1. SUFFICES ASSUME TypeOf(S, "Global") = "ufn" PROVE TypeOf(T, "Global") = "ufn"
    OBVIOUS
  <2>2. DefOf(S, "Global") \in Cell /\ S.heap[DefOf(S, "Global")].type = "ufn"
        /\ DefOf(S, "Global") # Nil
    BY <2>1, ShapeFacts DEF TypeOf, DefOf, Sound
  <2>3. T.heap[DefOf(S, "Global")] = S.heap[DefOf(S, "Global")]
    BY <1>1, <2>2
  <2>4. DefOf(T, "Global") = DefOf(S, "Global")
    BY <1>1 DEF DefOf
  <2> QED
    BY <2>2, <2>3, <2>4 DEF TypeOf
<1>11. FnGlobal(S) => FnGlobal(T)
  <2>1. SUFFICES ASSUME FnGlobal(S), NEW u \in Table, NEW i \in Slots(T, u), NEW e \in Cell,
                        At(T, u, i) = e, T.heap[e].type = "ufn"
                 PROVE  TypeOf(T, "Global") = "ufn"
    BY DEF FnGlobal
  <2>2. i \in Slots(S, u) /\ At(S, u, i) = e /\ S.heap[e].type = "ufn"
    BY <1>2, <1>5, <2>1
  <2> QED
    BY <1>10, <2>1, <2>2 DEF FnGlobal
<1> QED
  BY <1>6, <1>7, <1>8, <1>9, <1>10, <1>11 DEF Sound

\* The record of t refers to the definition of the global symbol table, too.
Aliased(S, T, t, l) ==
  /\ t \in Table \ {"Global"} /\ t \notin Formal /\ l \in BOOLEAN
  /\ DefOf(S, "Global") \in Cell /\ Puts(S, T, t, DefOf(S, "Global"), l)
  /\ \A c \in Cell \ {DefOf(S, "Global")} : T.heap[c] = S.heap[c]
  /\ T.heap[DefOf(S, "Global")].count = S.heap[DefOf(S, "Global")].count + 1
  /\ SameMeaning(S, T, DefOf(S, "Global"))
  /\ l \/ S.heap[DefOf(S, "Global")].type \notin {"uvar", "unknown"}

LEMMA AliasedRefs ==
  ASSUME NEW S, NEW T, NEW t \in Table, NEW l, Shape(S), Shape(T), Counted(S),
         Aliased(S, T, t, l)
  PROVE  /\ Counted(T)
         /\ \A c \in Cell : c # DefOf(S, "Global") => RefsIn(T, c) \subseteq RefsIn(S, c)
         /\ \A c \in Cell : SameMeaning(S, T, c)
<1> DEFINE g == DefOf(S, "Global")
<1>1. g \in Cell /\ Puts(S, T, t, g, l)
  BY DEF Aliased
<1>2. ASSUME NEW c \in Cell, c # g PROVE RefsIn(T, c) \subseteq RefsIn(S, c)
  <2>1. RefsIn(T, c) \ {<<t, 0>>} = RefsIn(S, c) \ {<<t, 0>>}
        /\ (<<t, 0>> \in RefsIn(T, c) <=> c = g)
    BY <1>1, PutsRefs
  <2> QED
    BY <1>2, <2>1
<1>3. RefsIn(T, g) \subseteq RefsIn(S, g) \cup {<<t, 0>>}
  <2>1. RefsIn(T, g) \ {<<t, 0>>} = RefsIn(S, g) \ {<<t, 0>>}
    BY <1>1, PutsRefs
  <2> QED
    BY <2>1
<1>4. \A c \in Cell : SameMeaning(S, T, c)
  BY DEF Aliased, SameMeaning
<1>5. <<"Global", 0>> \in RefsIn(S, g)
  <2>1. "Global" \in Table /\ 0 \in Slots(S, "Global") /\ At(S, "Global", 0) = g
    BY ShapeFacts DEF At, DefOf
  <2> QED
    BY <2>1, InRefs
<1>6. S.heap[g].type \notin {"free", "deleted"}
  BY <1>1, <1>5, ReferredTo
<1>7. ASSUME NEW c \in Cell
      PROVE  /\ IsFiniteSet(RefsIn(T, c)) /\ Cardinality(RefsIn(T, c)) <= T.heap[c].count
             /\ T.heap[c].type \in {"free", "deleted"} => T.heap[c].count = 0
  <2>1. /\ IsFiniteSet(RefsIn(S, c)) /\ Cardinality(RefsIn(S, c)) <= S.heap[c].count
        /\ S.heap[c].type \in {"free", "deleted"} => S.heap[c].count = 0
        /\ S.heap[c].count \in Nat
    BY ShapeFacts DEF Counted
  <2>2. CASE c = g
    <3>1. /\ IsFiniteSet(RefsIn(T, g)) /\ Cardinality(RefsIn(T, g)) \in Nat
          /\ Cardinality(RefsIn(S, g)) \in Nat
          /\ Cardinality(RefsIn(T, g)) <= Cardinality(RefsIn(S, g)) + 1
      BY <1>3, <2>1, <2>2, CountMore
    <3>2. T.heap[g].count = S.heap[g].count + 1 /\ T.heap[g].type = S.heap[g].type
      BY DEF Aliased, SameMeaning
    <3> QED
      BY <1>6, <2>1, <2>2, <3>1, <3>2
  <2>3. CASE c # g
    <3>1. /\ IsFiniteSet(RefsIn(T, c)) /\ Cardinality(RefsIn(T, c)) \in Nat
          /\ Cardinality(RefsIn(S, c)) \in Nat
          /\ Cardinality(RefsIn(T, c)) <= Cardinality(RefsIn(S, c))
      BY <1>2, <2>1, <2>3, CountLess
    <3>2. T.heap[c] = S.heap[c]
      BY <2>3 DEF Aliased
    <3> QED
      BY <2>1, <3>1, <3>2
  <2> QED
    BY <2>2, <2>3
<1>8. Counted(T)
  BY <1>7 DEF Counted
<1> QED
  BY <1>2, <1>4, <1>8

LEMMA AliasedKeeps ==
  ASSUME NEW S, NEW T, NEW t \in Table, NEW l, Sound(S), Shape(T), Aliased(S, T, t, l)
  PROVE  /\ Sound(T)
         /\ FnGlobal(S) => FnGlobal(T)
         /\ DefOf(T, "Global") = DefOf(S, "Global")
         /\ TypeOf(T, "Global") = TypeOf(S, "Global")
<1> DEFINE g == DefOf(S, "Global")
<1>1. Shape(S) /\ Counted(S) /\ Nil \notin Cell /\ "Global" \in Table
      /\ Formal \subseteq Table \ {"Global"}
  BY ShapeFacts DEF Sound
<1>2. /\ g \in Cell /\ Puts(S, T, t, g, l) /\ t # "Global" /\ t \notin Formal
      /\ l \/ S.heap[g].type \notin {"uvar", "unknown"}
  BY DEF Aliased
<1>3. Counted(T)
  BY <1>1, AliasedRefs
<1>4. \A c \in Cell : c # g => RefsIn(T, c) \subseteq RefsIn(S, c)
  BY <1>1, AliasedRefs
<1>5. \A c \in Cell : T.heap[c].type = S.heap[c].type
  BY <1>1, AliasedRefs DEF SameMeaning
<1>6. \A u \in Table : Slots(T, u) = Slots(S, u)
  BY <1>2, PutsElsewhere
<1>7. ASSUME NEW u \in Table, NEW i \in Slots(T, u)
      PROVE  \/ u = t /\ i = 0 /\ At(T, u, i) = g /\ ToGlobal(T, u, i) = l
             \/ /\ i \in Slots(S, u) /\ At(T, u, i) = At(S, u, i)
                /\ ToGlobal(T, u, i) = ToGlobal(S, u, i)
  <2>1. CASE u = t /\ i = 0
    <3>1. At(T, t, 0) = g /\ ToGlobal(T, t, 0) = l
      BY <1>2, PutsThere
    <3> QED
      BY <2>1, <3>1
  <2>2. CASE u # t \/ i # 0
    <3>1. i \in Slots(S, u)
      BY <1>6
    <3>2. At(T, u, i) = At(S, u, i) /\ ToGlobal(T, u, i) = ToGlobal(S, u, i)
      BY <1>2, <2>2, <3>1, PutsElsewhere
    <3> QED
      BY <3>1, <3>2
  <2> QED
    BY <2>1, <2>2
<1>8. <<"Global", 0>> \in RefsIn(S, g)
  <2>1. 0 \in Slots(S, "Global") /\ At(S, "Global", 0) = g
    BY <1>1, ShapeFacts DEF At, DefOf
  <2> QED
    BY <1>1, <2>1, InRefs
<1>9. Private(T)
  <2>1. SUFFICES ASSUME NEW u \in Table \ {"Global"}, NEW i \in Slots(T, u), NEW e \in Cell,
                        At(T, u, i) = e, ~ ToGlobal(T, u, i)
                 PROVE  /\ T.heap[e].type # "unknown"
                        /\ T.heap[e].type = "uvar" => RefsIn(T, e) \subseteq {<<u, i>>}
    BY DEF Private
  <2>2. CASE u = t /\ i = 0 /\ At(T, u, i) = g /\ ToGlobal(T, u, i) = l
    BY <1>2, <1>5, <2>1, <2>2
  <2>3. CASE /\ i \in Slots(S, u) /\ At(T, u, i) = At(S, u, i)
             /\ ToGlobal(T, u, i) = ToGlobal(S, u, i)
    <3>1. /\ S.heap[e].type # "unknown"
          /\ S.heap[e].type = "uvar" => RefsIn(S, e) \subseteq {<<u, i>>}
      BY <2>1, <2>3 DEF Sound, Private
    <3>2. CASE e = g
      <4>1. S.heap[e].type # "uvar"
        BY <1>8, <3>1, <3>2
      <4> QED
        BY <1>5, <3>1, <4>1
    <3>3. CASE e # g
      BY <1>4, <1>5, <3>1, <3>3
    <3> QED
      BY <3>2, <3>3
  <2> QED
    BY <1>7, <2>2, <2>3
<1>10. T.rec["Global"] = S.rec["Global"]
  BY <1>1, <1>2 DEF Puts
<1>11. GlobalAlone(T)
  BY <1>10 DEF Sound, GlobalAlone
<1>12. ParamsOwn(T)
  <2>1. SUFFICES ASSUME NEW u \in Formal, NEW i \in Slots(T, u)
                 PROVE  /\ ~ ToGlobal(T, u, i)
                        /\ \A e \in Cell : At(T, u, i) = e => T.heap[e].type = "uvar"
    BY DEF ParamsOwn
  <2>2. /\ i \in Slots(S, u) /\ At(T, u, i) = At(S, u, i)
        /\ ToGlobal(T, u, i) = ToGlobal(S, u, i)
    BY <1>1, <1>2, <1>7, <2>1
  <2> QED
    BY <1>5, <2>2 DEF Sound, ParamsOwn
<1>13. Sound(T)
  BY <1>3, <1>9, <1>11, <1>12 DEF Sound
<1>14. DefOf(T, "Global") = g
  BY <1>10 DEF DefOf
<1>15. TypeOf(T, "Global") = TypeOf(S, "Global")
  BY <1>1, <1>2, <1>5, <1>14 DEF TypeOf
<1>16. ASSUME FnGlobal(S) PROVE FnGlobal(T)
  <2>1. SUFFICES ASSUME NEW u \in Table, NEW i \in Slots(T, u), NEW c \in Cell,
                        At(T, u, i) = c, T.heap[c].type = "ufn"
                 PROVE  TypeOf(S, "Global") = "ufn"
    BY <1>15 DEF FnGlobal
  <2>2. CASE c = g
    BY <1>1, <1>2, <1>5, <2>1, <2>2 DEF TypeOf
  <2>3. CASE c # g
    <3>1. i \in Slots(S, u) /\ At(S, u, i) = c /\ S.heap[c].type = "ufn"
      BY <1>5, <1>7, <2>1, <2>3
    <3> QED
      BY <1>16, <3>1 DEF FnGlobal
  <2> QED
    BY <2>2, <2>3
<1> QED
  BY <1>13, <1>14, <1>15, <1>16

\* What t had in slot a it has in slot b, and nothing in a.
Moved(S, T, t, a, b) ==
  /\ t \in Table \ {"Global"} /\ T.heap = S.heap
  /\ \A u \in Table \ {t} : T.rec[u] = S.rec[u]
  /\ a \in Slots(S, t) /\ b \in Slots(T, t)
  /\ At(T, t, b) = At(S, t, a) /\ ToGlobal(T, t, b) = ToGlobal(S, t, a)
  /\ \A i \in Slots(T, t) \ {b} :
       \/ At(T, t, i) = Nil /\ ~ ToGlobal(T, t, i)
       \/ /\ i \in Slots(S, t) \ {a}
          /\ At(T, t, i) = At(S, t, i) /\ ToGlobal(T, t, i) = ToGlobal(S, t, i)

LEMMA MovedKeeps ==
  ASSUME NEW S, NEW T, NEW t, NEW a, NEW b, Sound(S), Shape(T), Moved(S, T, t, a, b)
  PROVE  /\ Sound(T)
         /\ FnGlobal(S) => FnGlobal(T)
         /\ T.rec["Global"] = S.rec["Global"]
         /\ TypeOf(T, "Global") = TypeOf(S, "Global")
<1>1. Shape(S) /\ Counted(S) /\ Nil \notin Cell /\ "Global" \in Table
      /\ Formal \subseteq Table \ {"Global"}
  BY ShapeFacts DEF Sound
<1>2. /\ t \in Table /\ t # "Global" /\ T.heap = S.heap
      /\ a \in Slots(S, t) /\ b \in Slots(T, t)
      /\ At(T, t, b) = At(S, t, a) /\ ToGlobal(T, t, b) = ToGlobal(S, t, a)
  BY DEF Moved
\* From where a slot has what it has.
<1>3. ASSUME NEW u \in Table, NEW i \in Slots(T, u)
      PROVE  \/ u = t /\ i = b
             \/ At(T, u, i) = Nil /\ ~ ToGlobal(T, u, i) /\ u # "Global"
             \/ /\ i \in Slots(S, u) /\ ~ (u = t /\ i = a)
                /\ At(T, u, i) = At(S, u, i) /\ ToGlobal(T, u, i) = ToGlobal(S, u, i)
  <2>1. CASE u = t
    BY <1>2, <2>1 DEF Moved
  <2>2. CASE u # t
    <3>1. T.rec[u] = S.rec[u]
      BY <2>2 DEF Moved
    <3> QED
      BY <2>2, <3>1 DEF Slots, At, ToGlobal
  <2> QED
    BY <2>1, <2>2
<1>4. ASSUME NEW c \in Cell
      PROVE  RefsIn(T, c) \subseteq
               (RefsIn(S, c) \ {<<t, a>>}) \cup (IF c = At(S, t, a) THEN {<<t, b>>} ELSE {})
  <2>1. SUFFICES ASSUME NEW p \in RefsIn(T, c)
                 PROVE  p \in (RefsIn(S, c) \ {<<t, a>>})
                              \cup (IF c = At(S, t, a) THEN {<<t, b>>} ELSE {})
    OBVIOUS
  <2>2. /\ p = <<p[1], p[2]>> /\ p[1] \in Table /\ p[2] \in Nat /\ p \in Table \X Nat
        /\ p[2] \in Slots(T, p[1]) /\ At(T, p[1], p[2]) = c
    BY DEF RefsIn
  <2>3. CASE p[1] = t /\ p[2] = b
    BY <1>2, <2>2, <2>3
  <2>4. CASE /\ p[2] \in Slots(S, p[1]) /\ ~ (p[1] = t /\ p[2] = a)
             /\ At(T, p[1], p[2]) = At(S, p[1], p[2])
    <3>1. p \in RefsIn(S, c)
      BY <2>2, <2>4 DEF RefsIn
    <3>2. p # <<t, a>>
      BY <2>4
    <3> QED
      BY <3>1, <3>2
  <2> QED
    BY <1>1, <1>3, <2>2, <2>3, <2>4
<1>5. At(S, t, a) \in Cell => <<t, a>> \in RefsIn(S, At(S, t, a))
  BY <1>1, <1>2, InRefs
<1>6. Counted(T)
  <2>1. SUFFICES ASSUME NEW c \in Cell
                 PROVE  IsFiniteSet(RefsIn(T, c)) /\ Cardinality(RefsIn(T, c)) <= T.heap[c].count
    BY <1>1, <1>2 DEF Counted
  <2>2. /\ IsFiniteSet(RefsIn(S, c)) /\ Cardinality(RefsIn(S, c)) <= S.heap[c].count
        /\ S.heap[c].count \in Nat
    BY <1>1, ShapeFacts DEF Counted
  <2>3. CASE c = At(S, t, a)
    <3>1. /\ IsFiniteSet(RefsIn(T, c)) /\ Cardinality(RefsIn(T, c)) \in Nat
          /\ Cardinality(RefsIn(S, c)) \in Nat
          /\ Cardinality(RefsIn(T, c)) <= Cardinality(RefsIn(S, c))
      <4>1. RefsIn(T, c) \subseteq (RefsIn(S, c) \ {<<t, a>>}) \cup {<<t, b>>}
            /\ <<t, a>> \in RefsIn(S, c)
        BY <1>4, <1>5, <2>3
      <4> QED
        BY <2>2, <4>1, CountMoved
    <3> QED
      BY <1>2, <2>2, <3>1
  <2>4. CASE c # At(S, t, a)
    <3>1. RefsIn(T, c) \subseteq RefsIn(S, c)
      BY <1>4, <2>4
    <3>2. /\ IsFiniteSet(RefsIn(T, c)) /\ Cardinality(RefsIn(T, c)) \in Nat
          /\ Cardinality(RefsIn(S, c)) \in Nat
          /\ Cardinality(RefsIn(T, c)) <= Cardinality(RefsIn(S, c))
      BY <2>2, <3>1, CountLess
    <3> QED
      BY <1>2, <2>2, <3>2
  <2> QED
    BY <2>3, <2>4
<1>7. Private(T)
  <2>1. SUFFICES ASSUME NEW u \in Table \ {"Global"}, NEW i \in Slots(T, u), NEW e \in Cell,
                        At(T, u, i) = e, ~ ToGlobal(T, u, i)
                 PROVE  /\ S.heap[e].type # "unknown"
                        /\ S.heap[e].type = "uvar" => RefsIn(T, e) \subseteq {<<u, i>>}
    BY <1>2 DEF Private
  <2>2. CASE u = t /\ i = b
    <3>1. At(S, t, a) = e /\ ~ ToGlobal(S, t, a)
      BY <1>2, <2>1, <2>2
    <3>2. /\ S.heap[e].type # "unknown"
          /\ S.heap[e].type = "uvar" => RefsIn(S, e) \subseteq {<<t, a>>}
      BY <1>2, <3>1 DEF Sound, Private
    <3>3. RefsIn(T, e) \subseteq (RefsIn(S, e) \ {<<t, a>>}) \cup {<<t, b>>}
      BY <1>4, <3>1
    <3> QED
      BY <2>2, <3>2, <3>3
  <2>3. CASE /\ i \in Slots(S, u) /\ ~ (u = t /\ i = a)
             /\ At(T, u, i) = At(S, u, i) /\ ToGlobal(T, u, i) = ToGlobal(S, u, i)
    <3>1. /\ S.heap[e].type # "unknown"
          /\ S.heap[e].type = "uvar" => RefsIn(S, e) \subseteq {<<u, i>>}
      BY <2>1, <2>3 DEF Sound, Private
    <3>2. S.heap[e].type = "uvar" => e # At(S, t, a)
      BY <1>5, <2>3, <3>1
    <3>3. S.heap[e].type = "uvar" => RefsIn(T, e) \subseteq RefsIn(S, e)
      BY <1>4, <3>2
    <3> QED
      BY <3>1, <3>3
  <2> QED
    BY <1>1, <1>3, <2>1, <2>2, <2>3
<1>8. T.rec["Global"] = S.rec["Global"]
  BY <1>1, <1>2 DEF Moved
<1>9. GlobalAlone(T)
  BY <1>8 DEF Sound, GlobalAlone
<1>10. ParamsOwn(T)
  <2>1. SUFFICES ASSUME NEW u \in Formal, NEW i \in Slots(T, u)
                 PROVE  /\ ~ ToGlobal(T, u, i)
                        /\ \A e \in Cell : At(T, u, i) = e => S.heap[e].type = "uvar"
    BY <1>2 DEF ParamsOwn
  <2>2. ParamsOwn(S) /\ u \in Table
    BY <1>1 DEF Sound
  <2>3. CASE u = t /\ i = b
    BY <1>2, <2>2, <2>3 DEF ParamsOwn
  <2>4. CASE /\ i \in Slots(S, u)
             /\ At(T, u, i) = At(S, u, i) /\ ToGlobal(T, u, i) = ToGlobal(S, u, i)
    BY <2>2, <2>4 DEF ParamsOwn
  <2> QED
    BY <1>1, <1>3, <2>2, <2>3, <2>4
<1>11. Sound(T)
  BY <1>6, <1>7, <1>9, <1>10 DEF Sound
<1>12. TypeOf(T, "Global") = TypeOf(S, "Global")
  BY <1>2, <1>8 DEF TypeOf, DefOf
<1>13. ASSUME FnGlobal(S) PROVE FnGlobal(T)
  <2>1. SUFFICES ASSUME NEW u \in Table, NEW i \in Slots(T, u), NEW c \in Cell,
                        At(T, u, i) = c, S.heap[c].type = "ufn"
                 PROVE  TypeOf(S, "Global") = "ufn"
    BY <1>2, <1>12 DEF FnGlobal
  <2>2. CASE u = t /\ i = b
    BY <1>2, <1>13, <2>1, <2>2 DEF FnGlobal
  <2>3. CASE i \in Slots(S, u) /\ At(T, u, i) = At(S, u, i)
    BY <1>13, <2>1, <2>3 DEF FnGlobal
  <2> QED
    BY <1>1, <1>3, <2>1, <2>2, <2>3
<1> QED
  BY <1>8, <1>11, <1>12, <1>13

\* Records are forgotten, with the memory that nobody refers to.
Dropped(S, T) ==
  /\ \A u \in Table : \/ T.rec[u] = S.rec[u]
                      \/ /\ u # "Global" /\ T.rec[u].def = Nil /\ T.rec[u].linked = FALSE
                         /\ T.rec[u].ctx = <<>>
  /\ \A c \in Cell : T.heap[c] = S.heap[c] \/ (T.heap[c] = Unused /\ RefsIn(T, c) = {})

LEMMA DroppedSlots ==
  ASSUME NEW S, NEW T, Shape(S), Shape(T), Dropped(S, T),
         NEW u \in Table, NEW i \in Slots(T, u)
  PROVE  \/ /\ i \in Slots(S, u) /\ At(T, u, i) = At(S, u, i)
            /\ ToGlobal(T, u, i) = ToGlobal(S, u, i)
         \/ At(T, u, i) = Nil /\ ~ ToGlobal(T, u, i) /\ u # "Global"
<1>1. CASE T.rec[u] = S.rec[u]
  BY <1>1 DEF Slots, At, ToGlobal
<1>2. CASE u # "Global" /\ T.rec[u].def = Nil /\ T.rec[u].linked = FALSE /\ T.rec[u].ctx = <<>>
  <2>1. i = 0
    BY <1>2 DEF Slots
  <2> QED
    BY <1>2, <2>1 DEF At, ToGlobal
<1> QED
  BY <1>1, <1>2 DEF Dropped

LEMMA DroppedKeeps ==
  ASSUME NEW S, NEW T, Good(S), Shape(T), Dropped(S, T)
  PROVE  /\ Good(T)
         /\ T.rec["Global"] = S.rec["Global"]
         /\ TypeOf(T, "Global") = TypeOf(S, "Global")
<1>1. Shape(S) /\ Counted(S) /\ Nil \notin Cell /\ "Global" \in Table
      /\ Formal \subseteq Table \ {"Global"}
  BY ShapeFacts DEF Good, Sound
<1>2. ASSUME NEW u \in Table, NEW i \in Slots(T, u)
      PROVE  \/ /\ i \in Slots(S, u) /\ At(T, u, i) = At(S, u, i)
                /\ ToGlobal(T, u, i) = ToGlobal(S, u, i)
             \/ At(T, u, i) = Nil /\ ~ ToGlobal(T, u, i) /\ u # "Global"
  BY <1>1, DroppedSlots
<1>3. ASSUME NEW c \in Cell PROVE RefsIn(T, c) \subseteq RefsIn(S, c)
  <2>1. SUFFICES ASSUME NEW p \in RefsIn(T, c) PROVE p \in RefsIn(S, c)
    OBVIOUS
  <2>2. /\ p[1] \in Table /\ p \in Table \X Nat
        /\ p[2] \in Slots(T, p[1]) /\ At(T, p[1], p[2]) = c
    BY DEF RefsIn
  <2>3. p[2] \in Slots(S, p[1]) /\ At(S, p[1], p[2]) = c
    BY <1>1, <1>2, <2>2
  <2> QED
    BY <2>2, <2>3 DEF RefsIn
<1>4. ASSUME NEW u \in Table, NEW i \in Slots(T, u), NEW c \in Cell, At(T, u, i) = c
      PROVE  T.heap[c] = S.heap[c] /\ i \in Slots(S, u) /\ At(S, u, i) = c
             /\ ToGlobal(T, u, i) = ToGlobal(S, u, i)
  <2>1. <<u, i>> \in RefsIn(T, c)
    BY <1>4, InRefs
  <2>2. T.heap[c] = S.heap[c]
    BY <2>1 DEF Dropped
  <2> QED
    BY <1>1, <1>2, <1>4, <2>2
<1>5. Counted(T)
  <2>1. SUFFICES ASSUME NEW c \in Cell
                 PROVE  /\ IsFiniteSet(RefsIn(T, c)) /\ Cardinality(RefsIn(T, c)) <= T.heap[c].count
                        /\ T.heap[c].type \in {"free", "deleted"} => T.heap[c].count = 0
    BY DEF Counted
  <2>2. /\ IsFiniteSet(RefsIn(S, c)) /\ Cardinality(RefsIn(S, c)) <= S.heap[c].count
        /\ S.heap[c].type \in {"free", "deleted"} => S.heap[c].count = 0
        /\ S.heap[c].count \in Nat
    BY <1>1, ShapeFacts DEF Counted
  <2>3. /\ IsFiniteSet(RefsIn(T, c)) /\ Cardinality(RefsIn(T, c)) \in Nat
        /\ Cardinality(RefsIn(S, c)) \in Nat
        /\ Cardinality(RefsIn(T, c)) <= Cardinality(RefsIn(S, c))
    BY <1>3, <2>2, CountLess
  <2>4. CASE T.heap[c] = S.heap[c]
    BY <2>2, <2>3, <2>4
  <2>5. CASE T.heap[c] = Unused /\ RefsIn(T, c) = {}
    <3>1. Cardinality(RefsIn(T, c)) = 0 /\ T.heap[c].count = 0
      BY <2>5, FS_EmptySet DEF Unused
    <3> QED
      BY <2>3, <3>1
  <2> QED
    BY <2>4, <2>5 DEF Dropped
<1>6. Private(T)
  <2>1. SUFFICES ASSUME NEW u \in Table \ {"Global"}, NEW i \in Slots(T, u), NEW e \in Cell,
                        At(T, u, i) = e, ~ ToGlobal(T, u, i)
                 PROVE  /\ T.heap[e].type # "unknown"
                        /\ T.heap[e].type = "uvar" => RefsIn(T, e) \subseteq {<<u, i>>}
    BY DEF Private
  <2>2. T.heap[e] = S.heap[e] /\ i \in Slots(S, u) /\ At(S, u, i) = e /\ ~ ToGlobal(S, u, i)
    BY <1>4, <2>1
  <2>3. /\ S.heap[e].type # "unknown"
        /\ S.heap[e].type = "uvar" => RefsIn(S, e) \subseteq {<<u, i>>}
    BY <2>2 DEF Good, Sound, Private
  <2> QED
    BY <1>3, <2>2, <2>3
<1>7. T.rec["Global"] = S.rec["Global"]
  BY <1>1 DEF Dropped
<1>8. GlobalAlone(T)
  BY <1>7 DEF Good, Sound, GlobalAlone
<1>9. ParamsOwn(T)
  <2>1. SUFFICES ASSUME NEW u \in Formal, NEW i \in Slots(T, u)
                 PROVE  /\ ~ ToGlobal(T, u, i)
                        /\ \A e \in Cell : At(T, u, i) = e => T.heap[e].type = "uvar"
    BY DEF ParamsOwn
  <2>2. ParamsOwn(S) /\ u \in Table
    BY <1>1 DEF Good, Sound
  <2>3. ~ ToGlobal(T, u, i)
    BY <1>2, <2>2 DEF ParamsOwn
  <2>4. \A e \in Cell : At(T, u, i) = e => T.heap[e].type = "uvar"
    BY <1>4, <2>2 DEF ParamsOwn
  <2> QED
    BY <2>3, <2>4
<1>10. TypeOf(T, "Global") = TypeOf(S, "Global")
  <2>1. DefOf(T, "Global") = DefOf(S, "Global")
    BY <1>7 DEF DefOf
  <2>2. CASE DefOf(T, "Global") = Nil
    BY <2>1, <2>2 DEF TypeOf
  <2>3. CASE DefOf(T, "Global") # Nil
    <3>1. DefOf(T, "Global") \in Cell /\ 0 \in Slots(T, "Global")
          /\ At(T, "Global", 0) = DefOf(T, "Global")
      BY <1>1, <2>3, ShapeFacts DEF DefOf, At
    <3>2. T.heap[DefOf(T, "Global")] = S.heap[DefOf(T, "Global")]
      BY <1>1, <1>4, <3>1
    <3> QED
      BY <2>1, <2>3, <3>2 DEF TypeOf
  <2> QED
    BY <2>2, <2>3
<1>11. FnGlobal(T)
  <2>1. SUFFICES ASSUME NEW u \in Table, NEW i \in Slots(T, u), NEW c \in Cell,
                        At(T, u, i) = c, T.heap[c].type = "ufn"
                 PROVE  TypeOf(S, "Global") = "ufn"
    BY <1>10 DEF FnGlobal
  <2>2. i \in Slots(S, u) /\ At(S, u, i) = c /\ S.heap[c].type = "ufn"
    BY <1>4, <2>1
  <2> QED
    BY <2>2 DEF Good, FnGlobal
<1>12. Sound(T)
  BY <1>5, <1>6, <1>8, <1>9 DEF Sound
<1> QED
  BY <1>7, <1>10, <1>11, <1>12 DEF Good

-----------------------------------------------------------------------------
(***************************************************************************)
(* What a statement in t can change: the definitions that t and the global *)
(* symbol table have, and memory that is free                              *)
(***************************************************************************)

Near(S, t) ==
  {c \in Cell : c = DefOf(S, t) \/ c = DefOf(S, "Global") \/ S.heap[c].type = "free"}

Frame(S, T, t) ==
  /\ \A u \in Table \ {t, "Global"} : T.rec[u] = S.rec[u]
  /\ T.rec[t].ctx = S.rec[t].ctx
  /\ S.rec[t].here => T.rec[t].here
  /\ S.rec["Global"].here => T.rec["Global"].here
  /\ Near(T, t) \subseteq Near(S, t)
  /\ \A c \in Cell : T.heap[c].type = "free" => S.heap[c].type = "free"
  /\ \A c \in Cell \ Near(S, t) : SameMeaning(S, T, c)
  /\ \A c \in Cell : T.heap[c].type = "ufn" => S.heap[c].type \in {"ufn", "free"}

\* The global definition stays, and is a function or not as it was.
Variables == {"uvar", "bvar", "unknown"}
GlobalKept(S, T) ==
  DefOf(S, "Global") # Nil =>
    /\ DefOf(T, "Global") = DefOf(S, "Global")
    /\ \/ TypeOf(T, "Global") = TypeOf(S, "Global")
       \/ {TypeOf(S, "Global"), TypeOf(T, "Global")} \subseteq Variables

Follows(S, T, t) == Good(T) /\ Frame(S, T, t) /\ GlobalKept(S, T)

LEMMA FrameTrans ==
  ASSUME NEW S, NEW T, NEW U, NEW t \in Table, Frame(S, T, t), Frame(T, U, t)
  PROVE  Frame(S, U, t)
<1>1. \A u \in Table \ {t, "Global"} : U.rec[u] = S.rec[u]
  BY DEF Frame
<1>2. /\ U.rec[t].ctx = S.rec[t].ctx
      /\ S.rec[t].here => U.rec[t].here
      /\ S.rec["Global"].here => U.rec["Global"].here
      /\ Near(U, t) \subseteq Near(S, t)
      /\ \A c \in Cell : U.heap[c].type = "free" => S.heap[c].type = "free"
  BY DEF Frame
<1>3. \A c \in Cell \ Near(S, t) : SameMeaning(S, U, c)
  <2>1. SUFFICES ASSUME NEW c \in Cell \ Near(S, t) PROVE SameMeaning(S, U, c)
    OBVIOUS
  <2>2. SameMeaning(S, T, c) /\ SameMeaning(T, U, c)
    BY DEF Frame
  <2> QED
    BY <2>2 DEF SameMeaning
<1>4. \A c \in Cell : U.heap[c].type = "ufn" => S.heap[c].type \in {"ufn", "free"}
  BY DEF Frame
<1> QED
  BY <1>1, <1>2, <1>3, <1>4 DEF Frame

LEMMA FollowsTrans ==
  ASSUME NEW S, NEW T, NEW U, NEW t \in Table, Follows(S, T, t), Follows(T, U, t)
  PROVE  Follows(S, U, t)
<1>1. Frame(S, U, t)
  BY FrameTrans DEF Follows
<1>2. GlobalKept(S, U)
  BY DEF Follows, GlobalKept
<1> QED
  BY <1>1, <1>2 DEF Follows

LEMMA FollowsSelf ==
  ASSUME NEW S, NEW t \in Table, Good(S)
  PROVE  Follows(S, S, t)
<1>1. Frame(S, S, t)
  BY DEF Frame, SameMeaning
<1>2. GlobalKept(S, S)
  BY DEF GlobalKept
<1> QED
  BY <1>1, <1>2 DEF Follows

\* One record, that of t or the global one, is given something near.
LEMMA PutsFrame ==
  ASSUME NEW S, NEW T, NEW t \in Table, NEW r \in {t, "Global"}, NEW d, NEW l, Shape(S),
         Puts(S, T, r, d, l), d \in Near(S, t) \cup {Nil},
         \A c \in Cell : T.heap[c].type = "free" => S.heap[c].type = "free",
         \A c \in Cell \ Near(S, t) : SameMeaning(S, T, c),
         \A c \in Cell : T.heap[c].type = "ufn" => S.heap[c].type \in {"ufn", "free"}
  PROVE  Frame(S, T, t)
<1>1. r \in Table /\ "Global" \in Table /\ Nil \notin Cell
  BY ShapeFacts
<1>2. \A u \in Table \ {t, "Global"} : T.rec[u] = S.rec[u]
  BY DEF Puts
<1>3. T.rec[t].ctx = S.rec[t].ctx /\ T.rec[t].here = S.rec[t].here
      /\ T.rec["Global"].here = S.rec["Global"].here
  BY <1>1 DEF Puts
<1>4. /\ DefOf(T, t) = DefOf(S, t) \/ DefOf(T, t) = d
      /\ DefOf(T, "Global") = DefOf(S, "Global") \/ DefOf(T, "Global") = d
  BY <1>1 DEF Puts, DefOf
<1>5. Near(T, t) \subseteq Near(S, t)
  BY <1>1, <1>4 DEF Near
<1> QED
  BY <1>2, <1>3, <1>5 DEF Frame

LEMMA ReleasedFollows ==
  ASSUME NEW S, NEW T, NEW t \in Table \ {"Global"}, NEW l \in BOOLEAN, Good(S), Shape(T),
         Released(S, T, t, l), t \in Formal => ~ l
  PROVE  /\ Follows(S, T, t) /\ TypeOf(T, "Global") = TypeOf(S, "Global")
         /\ \A c \in Cell : T.heap[c].type = "free" <=> S.heap[c].type = "free"
<1>1. Shape(S) /\ Counted(S) /\ Sound(S) /\ FnGlobal(S) /\ "Global" \in Table
  BY ShapeFacts DEF Good, Sound
<1>2. /\ Counted(T)
      /\ \A c \in Cell : RefsIn(T, c) = RefsIn(S, c) \ {<<t, 0>>}
      /\ \A c \in Cell : RefsIn(T, c) # {} => SameMeaning(S, T, c)
  BY <1>1, ReleasedRefs
<1>3. \A c \in Cell : T.heap[c].type = "free" <=> S.heap[c].type = "free"
  BY <1>1, ReleasedRefs
<1>4. Puts(S, T, t, Nil, l)
  BY DEF Released
<1>5. Sound(T) /\ FnGlobal(T) /\ TypeOf(T, "Global") = TypeOf(S, "Global")
  BY <1>1, <1>2, <1>4, FewerRefs
<1>6. ASSUME NEW c \in Cell
      PROVE  SameMeaning(S, T, c) \/ (c = DefOf(S, t) /\ T.heap[c].type = "deleted")
  BY DEF Released, SameMeaning
<1>7. Frame(S, T, t)
  <2>1. \A c \in Cell \ Near(S, t) : SameMeaning(S, T, c)
    BY <1>6 DEF Near
  <2>2. \A c \in Cell : T.heap[c].type = "ufn" => S.heap[c].type \in {"ufn", "free"}
    BY <1>6 DEF SameMeaning
  <2> QED
    BY <1>1, <1>3, <1>4, <2>1, <2>2, PutsFrame
<1>8. DefOf(T, "Global") = DefOf(S, "Global")
  BY <1>1, <1>4 DEF Puts, DefOf
<1>9. GlobalKept(S, T)
  BY <1>5, <1>8 DEF GlobalKept
<1> QED
  BY <1>3, <1>5, <1>7, <1>9 DEF Follows, Good

\* The global symbol table gives up its definition; nobody else has a user function.
LEMMA GlobalReleased ==
  ASSUME NEW S, NEW T, NEW t \in Table \ {"Global"}, NEW l \in BOOLEAN, Sound(S), Shape(T),
         Released(S, T, "Global", l), ~ l
  PROVE  /\ Sound(T) /\ Frame(S, T, t) /\ DefOf(T, "Global") = Nil
         /\ \A c \in Cell : T.heap[c].type = "free" <=> S.heap[c].type = "free"
<1>1. Shape(S) /\ Counted(S) /\ "Global" \in Table
  BY ShapeFacts DEF Sound
<1>2. /\ Counted(T)
      /\ \A c \in Cell : RefsIn(T, c) = RefsIn(S, c) \ {<<"Global", 0>>}
      /\ \A c \in Cell : RefsIn(T, c) # {} => SameMeaning(S, T, c)
  BY <1>1, ReleasedRefs
<1>3. \A c \in Cell : T.heap[c].type = "free" <=> S.heap[c].type = "free"
  BY <1>1, ReleasedRefs
<1>4. Puts(S, T, "Global", Nil, l)
  BY DEF Released
<1>5. Sound(T)
  BY <1>1, <1>2, <1>4, FewerRefs
<1>6. ASSUME NEW c \in Cell
      PROVE  SameMeaning(S, T, c) \/ (c = DefOf(S, "Global") /\ T.heap[c].type = "deleted")
  BY DEF Released, SameMeaning
<1>7. Frame(S, T, t)
  <2>1. \A c \in Cell \ Near(S, t) : SameMeaning(S, T, c)
    BY <1>6 DEF Near
  <2>2. \A c \in Cell : T.heap[c].type = "ufn" => S.heap[c].type \in {"ufn", "free"}
    BY <1>6 DEF SameMeaning
  <2> QED
    BY <1>1, <1>3, <1>4, <2>1, <2>2, PutsFrame
<1>8. DefOf(T, "Global") = Nil
  BY <1>4 DEF Puts, DefOf
<1> QED
  BY <1>3, <1>5, <1>7, <1>8

LEMMA GlobalReleasedRefs ==
  ASSUME NEW S, NEW T, NEW l \in BOOLEAN, Sound(S), Shape(T), Released(S, T, "Global", l),
         NEW c \in Cell, RefsIn(T, c) # {}
  PROVE  RefsIn(T, c) \subseteq RefsIn(S, c) /\ T.heap[c].type = S.heap[c].type
<1>1. Shape(S) /\ Counted(S) /\ "Global" \in Table
  BY ShapeFacts DEF Sound
<1>2. /\ RefsIn(T, c) = RefsIn(S, c) \ {<<"Global", 0>>}
      /\ SameMeaning(S, T, c)
  BY <1>1, ReleasedRefs
<1> QED
  BY <1>2 DEF SameMeaning

LEMMA PushedFrame ==
  ASSUME NEW S, NEW T, NEW t \in Table \ {"Global"}, NEW r \in {t, "Global"}, NEW c,
         Shape(S), Pushed(S, T, r, c)
  PROVE  Frame(S, T, t)
<1>1. "Global" \in Table /\ t \in Table
  BY ShapeFacts
<1>2. /\ DefOf(S, r) = Nil /\ Puts(S, T, r, c, S.rec[r].linked)
      /\ c \in Cell /\ S.heap[c].type = "free"
      /\ \A e \in Cell \ {c} : T.heap[e] = S.heap[e]
      /\ T.heap[c].type # "free"
  BY DEF Pushed
<1>3. c \in Near(S, t)
  BY <1>2 DEF Near
<1>4. \A e \in Cell \ Near(S, t) : SameMeaning(S, T, e)
  BY <1>2, <1>3 DEF SameMeaning
<1>5. \A e \in Cell : T.heap[e].type = "ufn" => S.heap[e].type \in {"ufn", "free"}
  BY <1>2
<1>6. \A e \in Cell : T.heap[e].type = "free" => S.heap[e].type = "free"
  BY <1>2
<1> QED
  BY <1>1, <1>2, <1>3, <1>4, <1>5, <1>6, PutsFrame

LEMMA PushedFollows ==
  ASSUME NEW S, NEW T, NEW t \in Table \ {"Global"}, NEW r \in {t, "Global"}, NEW c,
         Good(S), Shape(T), Pushed(S, T, r, c)
  PROVE  Follows(S, T, t)
<1>1. Shape(S) /\ Sound(S) /\ FnGlobal(S) /\ "Global" \in Table
  BY ShapeFacts DEF Good, Sound
<1>2. r \in Table
  BY <1>1
<1>3. Sound(T) /\ FnGlobal(T)
      /\ (r # "Global" => TypeOf(T, "Global") = TypeOf(S, "Global"))
  BY <1>1, <1>2, PushedKeeps
<1>4. Frame(S, T, t)
  BY <1>1, PushedFrame
<1>5. DefOf(S, r) = Nil /\ Puts(S, T, r, c, S.rec[r].linked)
  BY DEF Pushed
<1>6. GlobalKept(S, T)
  <2>1. CASE r = "Global"
    BY <1>5, <2>1 DEF GlobalKept
  <2>2. CASE r # "Global"
    <3>1. DefOf(T, "Global") = DefOf(S, "Global")
      BY <1>1, <1>5, <2>2 DEF Puts, DefOf
    <3> QED
      BY <1>3, <2>2, <3>1 DEF GlobalKept
  <2> QED
    BY <2>1, <2>2
<1> QED
  BY <1>3, <1>4, <1>6 DEF Follows, Good

LEMMA ValueSetFollows ==
  ASSUME NEW S, NEW T, NEW t \in Table \ {"Global"}, NEW d, Good(S), Shape(T),
         ValueSet(S, T, d), d \in {DefOf(S, t), DefOf(S, "Global")}
  PROVE  Follows(S, T, t)
<1>1. Shape(S) /\ Sound(S) /\ FnGlobal(S) /\ "Global" \in Table
  BY ShapeFacts DEF Good, Sound
<1>2. Sound(T) /\ FnGlobal(T)
  BY <1>1, ValueSetKeeps
<1>3. /\ T.rec = S.rec /\ d \in Cell /\ S.heap[d].type \in Variables
      /\ \A e \in Cell \ {d} : T.heap[e] = S.heap[e]
      /\ T.heap[d].type = IF S.heap[d].type = "bvar" THEN "bvar" ELSE "uvar"
  BY DEF ValueSet, Variables
<1>4. T.heap[d].type \in {"uvar", "bvar"}
  BY <1>3
<1>5. Frame(S, T, t)
  <2>1. d \in Near(S, t)
    BY <1>3 DEF Near
  <2>2. \A e \in Cell \ Near(S, t) : SameMeaning(S, T, e)
    BY <1>3, <2>1 DEF SameMeaning
  <2>3. \A e \in Cell : T.heap[e].type = "free" => S.heap[e].type = "free"
    BY <1>3, <1>4
  <2>4. \A e \in Cell : T.heap[e].type = "ufn" => S.heap[e].type \in {"ufn", "free"}
    BY <1>3, <1>4
  <2>5. Near(T, t) \subseteq Near(S, t)
    BY <1>3, <2>3 DEF Near, DefOf
  <2> QED
    BY <1>3, <2>2, <2>3, <2>4, <2>5 DEF Frame
<1>6. GlobalKept(S, T)
  <2>1. SUFFICES ASSUME DefOf(S, "Global") # Nil
                 PROVE  \/ TypeOf(T, "Global") = TypeOf(S, "Global")
                        \/ {TypeOf(S, "Global"), TypeOf(T, "Global")} \subseteq Variables
    BY <1>3 DEF GlobalKept, DefOf
  <2>2. DefOf(S, "Global") \in Cell /\ DefOf(T, "Global") = DefOf(S, "Global")
    BY <1>1, <1>3, <2>1, ShapeFacts DEF DefOf
  <2>3. CASE DefOf(S, "Global") = d
    BY <1>3, <1>4, <2>1, <2>2, <2>3 DEF TypeOf, Variables
  <2>4. CASE DefOf(S, "Global") # d
    BY <1>3, <2>1, <2>2, <2>4 DEF TypeOf
  <2> QED
    BY <2>3, <2>4
<1> QED
  BY <1>2, <1>5, <1>6 DEF Follows, Good

LEMMA AliasedFollows ==
  ASSUME NEW S, NEW T, NEW t, NEW l, Good(S), Shape(T), Aliased(S, T, t, l)
  PROVE  Follows(S, T, t)
<1>1. Shape(S) /\ Counted(S) /\ Sound(S) /\ FnGlobal(S) /\ "Global" \in Table
  BY ShapeFacts DEF Good, Sound
<1>2. t \in Table \ {"Global"} /\ DefOf(S, "Global") \in Cell
      /\ Puts(S, T, t, DefOf(S, "Global"), l)
  BY DEF Aliased
<1>3. Sound(T) /\ FnGlobal(T) /\ DefOf(T, "Global") = DefOf(S, "Global")
      /\ TypeOf(T, "Global") = TypeOf(S, "Global")
  BY <1>1, <1>2, AliasedKeeps
<1>4. \A c \in Cell : SameMeaning(S, T, c)
  BY <1>1, <1>2, AliasedRefs
<1>5. Frame(S, T, t)
  <2>1. DefOf(S, "Global") \in Near(S, t)
    BY <1>2 DEF Near
  <2>2. \A c \in Cell : T.heap[c].type = "free" => S.heap[c].type = "free"
    BY <1>4 DEF SameMeaning
  <2>3. \A c \in Cell : T.heap[c].type = "ufn" => S.heap[c].type \in {"ufn", "free"}
    BY <1>4 DEF SameMeaning
  <2> QED
    BY <1>1, <1>2, <1>4, <2>1, <2>2, <2>3, PutsFrame
<1>6. GlobalKept(S, T)
  BY <1>3 DEF GlobalKept
<1> QED
  BY <1>3, <1>5, <1>6 DEF Follows, Good

-----------------------------------------------------------------------------
(***************************************************************************)
(* The member functions                                                    *)
(***************************************************************************)

\* A store from its parts.
LEMMA StoreParts ==
  ASSUME NEW S, Shape(S)
  PROVE  S = [heap |-> S.heap, rec |-> S.rec] /\ S.heap \in [Cell -> Definition]
         /\ S.rec \in [Table -> Record]
  BY DEF Shape

\* One record, or one definition, is another one.
GetsRecord(S, T, t, r) == T = [S EXCEPT !.rec[t] = r]
GetsCell(S, T, c, d) == T = [S EXCEPT !.heap[c] = d]
GetsFlag(S, T, t, l) == T = [S EXCEPT !.rec[t].linked = l]
WithDef(r, d) == [r EXCEPT !.def = d]
WithFlag(r, l) == [r EXCEPT !.linked = l]

LEMMA RecordSet ==
  ASSUME NEW S, Shape(S), NEW t \in Table, NEW r \in Record, NEW T,
         GetsRecord(S, T, t, r)
  PROVE  /\ Shape(T) /\ T.heap = S.heap /\ T.rec[t] = r
         /\ \A u \in Table \ {t} : T.rec[u] = S.rec[u]
<1>1. S = [heap |-> S.heap, rec |-> S.rec] /\ S.heap \in [Cell -> Definition]
      /\ S.rec \in [Table -> Record]
  BY StoreParts
<1>2. T = [heap |-> S.heap, rec |-> [S.rec EXCEPT ![t] = r]]
  BY <1>1 DEF GetsRecord
<1>3. T.heap = S.heap /\ T.rec = [S.rec EXCEPT ![t] = r]
  BY <1>2
<1>4. T.rec \in [Table -> Record] /\ T.rec[t] = r
      /\ \A u \in Table \ {t} : T.rec[u] = S.rec[u]
  BY <1>1, <1>3
<1>5. Shape(T)
  BY <1>1, <1>2, <1>3, <1>4 DEF Shape
<1> QED
  BY <1>3, <1>4, <1>5

LEMMA CellSet ==
  ASSUME NEW S, Shape(S), NEW c \in Cell, NEW d \in Definition, NEW T,
         GetsCell(S, T, c, d), d.type = "ufn" => d.fn \in Self
  PROVE  /\ Shape(T) /\ T.rec = S.rec /\ T.heap[c] = d
         /\ \A e \in Cell \ {c} : T.heap[e] = S.heap[e]
<1>1. S = [heap |-> S.heap, rec |-> S.rec] /\ S.heap \in [Cell -> Definition]
      /\ S.rec \in [Table -> Record]
  BY StoreParts
<1>2. T = [heap |-> [S.heap EXCEPT ![c] = d], rec |-> S.rec]
  BY <1>1 DEF GetsCell
<1>3. T.rec = S.rec /\ T.heap = [S.heap EXCEPT ![c] = d]
  BY <1>2
<1>4. T.heap \in [Cell -> Definition] /\ T.heap[c] = d
      /\ \A e \in Cell \ {c} : T.heap[e] = S.heap[e]
  BY <1>1, <1>3
<1>5. \A e \in Cell : T.heap[e].type = "ufn" => T.heap[e].fn \in Self
  <2>1. SUFFICES ASSUME NEW e \in Cell, T.heap[e].type = "ufn" PROVE T.heap[e].fn \in Self
    OBVIOUS
  <2>2. CASE e = c
    BY <1>4, <2>1, <2>2
  <2>3. CASE e # c
    <3>1. T.heap[e] = S.heap[e]
      BY <1>4, <2>3
    <3> QED
      BY <2>1, <3>1 DEF Shape
  <2> QED
    BY <2>2, <2>3
<1>6. Shape(T)
  BY <1>1, <1>2, <1>3, <1>4, <1>5 DEF Shape
<1> QED
  BY <1>3, <1>4, <1>6

\* A record with another definition, and with another flag.
LEMMA RecordParts ==
  ASSUME NEW r \in Record, NEW d \in Cell \cup {Nil}, NEW l \in BOOLEAN
  PROVE  /\ WithDef(r, d) \in Record
         /\ WithDef(r, d).def = d /\ WithDef(r, d).linked = r.linked
         /\ WithDef(r, d).ctx = r.ctx /\ WithDef(r, d).here = r.here
         /\ WithFlag(r, l) \in Record
         /\ WithFlag(r, l).def = r.def /\ WithFlag(r, l).linked = l
         /\ WithFlag(r, l).ctx = r.ctx /\ WithFlag(r, l).here = r.here
  BY Zenon DEF Record, WithDef, WithFlag

LEMMA PointsPuts ==
  ASSUME NEW S, Shape(S), NEW t \in Table, NEW d \in Cell \cup {Nil}
  PROVE  /\ Shape(Points(S, t, d)) /\ Points(S, t, d).heap = S.heap
         /\ Puts(S, Points(S, t, d), t, d, S.rec[t].linked)
<1>1. PICK T : T = Points(S, t, d)
  OBVIOUS
<1>2. PICK r : r = WithDef(S.rec[t], d)
  OBVIOUS
<1>3. S.rec[t] \in Record /\ TRUE \in BOOLEAN
  BY ShapeFacts
<1>4. r \in Record /\ r.def = d /\ r.linked = S.rec[t].linked
      /\ r.ctx = S.rec[t].ctx /\ r.here = S.rec[t].here
  BY <1>2, <1>3, RecordParts
<1>5. GetsRecord(S, T, t, r)
  BY <1>1, <1>2 DEF Points, GetsRecord, WithDef
<1>6. Shape(T) /\ T.heap = S.heap /\ T.rec[t] = r
      /\ \A u \in Table \ {t} : T.rec[u] = S.rec[u]
  BY <1>4, <1>5, RecordSet
<1>7. Puts(S, T, t, d, S.rec[t].linked)
  BY <1>4, <1>6 DEF Puts
<1> QED
  BY <1>1, <1>6, <1>7

LEMMA FlagPuts ==
  ASSUME NEW S, Shape(S), NEW t \in Table, NEW l \in BOOLEAN, NEW T,
         GetsFlag(S, T, t, l)
  PROVE  Shape(T) /\ T.heap = S.heap /\ Puts(S, T, t, DefOf(S, t), l)
<1>2. PICK r : r = WithFlag(S.rec[t], l)
  OBVIOUS
<1>3. S.rec[t] \in Record /\ S.rec[t].def \in Cell \cup {Nil}
  BY ShapeFacts
<1>4. r \in Record /\ r.def = S.rec[t].def /\ r.linked = l
      /\ r.ctx = S.rec[t].ctx /\ r.here = S.rec[t].here
  BY <1>2, <1>3, RecordParts
<1>5. GetsRecord(S, T, t, r)
  BY <1>2 DEF GetsRecord, GetsFlag, WithFlag
<1>6. Shape(T) /\ T.heap = S.heap /\ T.rec[t] = r
      /\ \A u \in Table \ {t} : T.rec[u] = S.rec[u]
  BY <1>4, <1>5, RecordSet
<1> QED
  BY <1>4, <1>6 DEF Puts, DefOf

LEMMA PutsTwice ==
  ASSUME NEW S, NEW T, NEW U, NEW t \in Table, NEW d, NEW l, NEW d2, NEW l2,
         Puts(S, T, t, d, l), Puts(T, U, t, d2, l2)
  PROVE  Puts(S, U, t, d2, l2)
  BY DEF Puts

\* What maybe_delete does to a definition that is counted.
LEMMA DeletedOrLess ==
  ASSUME NEW S, Shape(S), NEW d \in Cell, S.heap[d].count > 0, NEW T, T = MaybeDelete(S, d)
  PROVE  /\ Shape(T) /\ T.rec = S.rec
         /\ \A c \in Cell \ {d} : T.heap[c] = S.heap[c]
         /\ IF S.heap[d].count = 1
            THEN T.heap[d].type = "deleted" /\ T.heap[d].count = 0
            ELSE T.heap[d].count = S.heap[d].count - 1 /\ SameMeaning(S, T, d)
<1>1. d # Nil /\ S.heap[d].count \in Nat /\ S.heap[d] \in Definition
  BY ShapeFacts
<1>2. CASE S.heap[d].count = 1
  <2>1. PICK u : u = [Unused EXCEPT !.type = "deleted"]
    OBVIOUS
  <2>2. u \in Definition /\ u.type = "deleted" /\ u.count = 0
    BY <2>1 DEF Unused, Definition, Types, Nil
  <2>3. GetsCell(S, T, d, u)
    BY <1>1, <1>2, <2>1 DEF MaybeDelete, GetsCell
  <2>4. Shape(T) /\ T.rec = S.rec /\ T.heap[d] = u
        /\ \A e \in Cell \ {d} : T.heap[e] = S.heap[e]
    BY <2>2, <2>3, CellSet
  <2> QED
    BY <1>2, <2>2, <2>4
<1>3. CASE S.heap[d].count # 1
  <2>1. PICK u : u = [S.heap[d] EXCEPT !.count = S.heap[d].count - 1]
    OBVIOUS
  <2>2. S.heap[d].count - 1 \in Nat
    BY <1>1
  <2>3. u \in Definition /\ u.type = S.heap[d].type /\ u.val = S.heap[d].val
        /\ u.fn = S.heap[d].fn /\ u.count = S.heap[d].count - 1
    BY <1>1, <2>1, <2>2 DEF Definition
  <2>4. GetsCell(S, T, d, u)
    BY <1>1, <1>3, <2>1 DEF MaybeDelete, GetsCell
  <2>5. u.type = "ufn" => u.fn \in Self
    BY <2>3 DEF Shape
  <2>6. Shape(T) /\ T.rec = S.rec /\ T.heap[d] = u
        /\ \A e \in Cell \ {d} : T.heap[e] = S.heap[e]
    BY <2>3, <2>4, <2>5, CellSet
  <2> QED
    BY <1>3, <2>3, <2>6 DEF SameMeaning
<1> QED
  BY <1>2, <1>3

LEMMA Holder ==
  ASSUME NEW S, Shape(S), Counted(S), NEW t \in Table, DefOf(S, t) # Nil
  PROVE  /\ DefOf(S, t) \in Cell /\ <<t, 0>> \in RefsIn(S, DefOf(S, t))
         /\ S.heap[DefOf(S, t)].count > 0
         /\ S.heap[DefOf(S, t)].type \notin {"free", "deleted"}
         /\ S.heap[DefOf(S, t)] \in Definition /\ S.heap[DefOf(S, t)].next = Nil
<1>1. DefOf(S, t) \in Cell /\ 0 \in Slots(S, t) /\ At(S, t, 0) = DefOf(S, t)
  BY ShapeFacts DEF DefOf, At
<1>2. <<t, 0>> \in RefsIn(S, DefOf(S, t))
  BY <1>1, InRefs
<1>3. S.heap[DefOf(S, t)].count > 0 /\ S.heap[DefOf(S, t)].type \notin {"free", "deleted"}
  BY <1>1, <1>2, ReferredTo
<1>4. S.heap[DefOf(S, t)] \in Definition
  BY <1>1, ShapeFacts
<1> QED
  BY <1>1, <1>2, <1>3, <1>4 DEF Definition

LEMMA PopDefReleases ==
  ASSUME NEW S, Shape(S), Counted(S), NEW t \in Table, DefOf(S, t) # Nil, NEW T, T = PopDef(S, t)
  PROVE  Shape(T) /\ Released(S, T, t, S.rec[t].linked)
<1> DEFINE d == DefOf(S, t)
<1>1. d \in Cell /\ S.heap[d].count > 0 /\ S.heap[d].next = Nil
  BY Holder
<1>2. PICK U : U = Points(S, t, Nil)
  OBVIOUS
<1>3. Shape(U) /\ U.heap = S.heap /\ Puts(S, U, t, Nil, S.rec[t].linked)
  BY <1>2, PointsPuts
<1>4. T = MaybeDelete(U, d)
  BY <1>1, <1>2 DEF PopDef
<1>5. /\ Shape(T) /\ T.rec = U.rec
      /\ \A c \in Cell \ {d} : T.heap[c] = U.heap[c]
      /\ IF U.heap[d].count = 1
         THEN T.heap[d].type = "deleted" /\ T.heap[d].count = 0
         ELSE T.heap[d].count = U.heap[d].count - 1 /\ SameMeaning(U, T, d)
  BY <1>1, <1>3, <1>4, DeletedOrLess
<1>6. Puts(S, T, t, Nil, S.rec[t].linked)
  BY <1>3, <1>5 DEF Puts
<1>7. Released(S, T, t, S.rec[t].linked)
  BY <1>1, <1>3, <1>5, <1>6 DEF Released, SameMeaning
<1> QED
  BY <1>5, <1>7

LEMMA ClearRecordReleases ==
  ASSUME NEW S, Shape(S), Counted(S), NEW t \in Table, DefOf(S, t) # Nil,
         NEW T, T = ClearRecord(S, t)
  PROVE  Shape(T) /\ \E l \in BOOLEAN : ~ l /\ Released(S, T, t, l)
<1> DEFINE d == DefOf(S, t)
<1>1. d \in Cell /\ S.heap[d].count > 0 /\ d # Nil
  BY Holder
<1>2. CASE Linked(S, t)
  <2>1. PICK l \in BOOLEAN : l = FALSE
    OBVIOUS
  <2>2. PICK U : U = MaybeDelete(S, d)
    OBVIOUS
  <2>3. PICK V : V = Points(U, t, Nil)
    OBVIOUS
  <2>4. GetsFlag(V, T, t, l)
    BY <1>2, <2>1, <2>2, <2>3 DEF ClearRecord, GetsFlag
  <2>5. /\ Shape(U) /\ U.rec = S.rec
        /\ \A c \in Cell \ {d} : U.heap[c] = S.heap[c]
        /\ IF S.heap[d].count = 1
           THEN U.heap[d].type = "deleted" /\ U.heap[d].count = 0
           ELSE U.heap[d].count = S.heap[d].count - 1 /\ SameMeaning(S, U, d)
    BY <1>1, <2>2, DeletedOrLess
  <2>6. Shape(V) /\ V.heap = U.heap /\ Puts(U, V, t, Nil, U.rec[t].linked)
    BY <2>3, <2>5, PointsPuts
  <2>7. Shape(T) /\ T.heap = V.heap /\ Puts(V, T, t, DefOf(V, t), l)
    BY <2>4, <2>6, FlagPuts
  <2>8. DefOf(V, t) = Nil
    BY <2>6 DEF Puts, DefOf
  <2>9. Puts(S, T, t, Nil, l)
    BY <2>5, <2>6, <2>7, <2>8 DEF Puts
  <2>10. Released(S, T, t, l)
    BY <1>1, <2>5, <2>6, <2>7, <2>9 DEF Released, SameMeaning
  <2> QED
    BY <2>1, <2>7, <2>10
<1>3. CASE ~ Linked(S, t)
  <2>1. T = PopDef(S, t)
    BY <1>3 DEF ClearRecord
  <2>2. Shape(T) /\ Released(S, T, t, S.rec[t].linked)
    BY <2>1, PopDefReleases
  <2>3. S.rec[t].linked \in BOOLEAN /\ ~ S.rec[t].linked
    BY <1>3, ShapeFacts DEF Linked
  <2> QED
    BY <2>2, <2>3
<1> QED
  BY <1>2, <1>3

\* A parameter is not linked.
LEMMA ParameterUnlinked ==
  ASSUME NEW S, Shape(S), ParamsOwn(S), NEW t \in Formal
  PROVE  /\ ~ S.rec[t].linked /\ t \in Table
         /\ DefOf(S, t) # Nil => TypeOf(S, t) = "uvar"
<1>1. t \in Table /\ 0 \in Slots(S, t)
  BY ShapeFacts
<1>2. ~ ToGlobal(S, t, 0) /\ \A c \in Cell : At(S, t, 0) = c => S.heap[c].type = "uvar"
  BY <1>1 DEF ParamsOwn
<1>3. ToGlobal(S, t, 0) = S.rec[t].linked /\ At(S, t, 0) = DefOf(S, t)
  BY DEF ToGlobal, At, DefOf
<1>4. DefOf(S, t) \in Cell \cup {Nil}
  BY <1>1, ShapeFacts DEF DefOf
<1> QED
  BY <1>1, <1>2, <1>3, <1>4 DEF TypeOf

LEMMA PopDefFollows ==
  ASSUME NEW S, Good(S), NEW t \in Table \ {"Global"}, NEW T, T = PopDef(S, t)
  PROVE  /\ Follows(S, T, t) /\ TypeOf(T, "Global") = TypeOf(S, "Global")
         /\ DefOf(T, t) = Nil
<1>1. Shape(S) /\ Counted(S) /\ ParamsOwn(S)
  BY DEF Good, Sound
<1>2. CASE DefOf(S, t) = Nil
  <2>1. T = S
    BY <1>2 DEF PopDef
  <2> QED
    BY <1>2, <2>1, FollowsSelf
<1>3. CASE DefOf(S, t) # Nil
  <2>1. Shape(T) /\ Released(S, T, t, S.rec[t].linked)
    BY <1>1, <1>3, PopDefReleases
  <2>2. S.rec[t].linked \in BOOLEAN /\ (t \in Formal => ~ S.rec[t].linked)
    BY <1>1, ShapeFacts, ParameterUnlinked
  <2>3. Follows(S, T, t) /\ TypeOf(T, "Global") = TypeOf(S, "Global")
    BY <2>1, <2>2, ReleasedFollows
  <2>4. DefOf(T, t) = Nil
    BY <2>1 DEF Released, Puts, DefOf
  <2> QED
    BY <2>3, <2>4
<1> QED
  BY <1>2, <1>3

LEMMA ClearRecordFollows ==
  ASSUME NEW S, Good(S), NEW t \in Table \ {"Global"}, DefOf(S, t) # Nil,
         NEW T, T = ClearRecord(S, t)
  PROVE  /\ Follows(S, T, t) /\ TypeOf(T, "Global") = TypeOf(S, "Global")
         /\ DefOf(T, t) = Nil /\ ~ T.rec[t].linked
         /\ \A c \in Cell : T.heap[c].type = "free" <=> S.heap[c].type = "free"
<1>1. Shape(S) /\ Counted(S)
  BY DEF Good, Sound
<1>2. PICK l \in BOOLEAN : ~ l /\ Released(S, T, t, l)
  BY <1>1, ClearRecordReleases
<1>3. Shape(T)
  BY <1>1, ClearRecordReleases
<1>4. Follows(S, T, t) /\ TypeOf(T, "Global") = TypeOf(S, "Global")
  BY <1>2, <1>3, ReleasedFollows
<1>5. \A c \in Cell : T.heap[c].type = "free" <=> S.heap[c].type = "free"
  BY <1>2, <1>3, ReleasedFollows
<1>6. DefOf(T, t) = Nil /\ ~ T.rec[t].linked
  BY <1>2 DEF Released, Puts, DefOf
<1> QED
  BY <1>4, <1>5, <1>6

HasFree(S) == \E c \in Cell : S.heap[c].type = "free"

LEMMA FreshIsFree ==
  ASSUME NEW S, HasFree(S)
  PROVE  Fresh(S) \in Cell /\ S.heap[Fresh(S)].type = "free"
<1>1. PICK N : N = {c \in Cell : S.heap[c].type = "free"}
  OBVIOUS
<1>2. N \in SUBSET Nat /\ N # {}
  BY <1>1 DEF HasFree, Cell
<1>3. PICK x \in N : \A y \in N : x <= y
  BY <1>2, Least
<1>4. \E c \in Cell : S.heap[c].type = "free" /\ \A b \in Cell : S.heap[b].type = "free" => c <= b
  BY <1>1, <1>3
<1> QED
  BY <1>4 DEF Fresh

\* What push_def makes of a definition.
Single(def) == [def EXCEPT !.count = 1, !.next = Nil]

LEMMA PushDefPushes ==
  ASSUME NEW S, Shape(S), NEW t \in Table, DefOf(S, t) = Nil, HasFree(S),
         NEW def \in Definition, def.type \in {"uvar", "bvar", "ufn", "bfn", "unknown"},
         t # "Global" => def.type = "uvar", def.type = "ufn" => def.fn \in Self,
         NEW T, T = PushDef(S, t, def)
  PROVE  /\ Shape(T)
         /\ \E c \in Cell : /\ Pushed(S, T, t, c) /\ T.heap[c].type = def.type
                            /\ T.heap[c].val = def.val /\ T.heap[c].fn = def.fn
<1>1. PICK c : c = Fresh(S)
  OBVIOUS
<1>2. c \in Cell /\ S.heap[c].type = "free"
  BY <1>1, FreshIsFree
<1>3. PICK u : u = Single(def)
  OBVIOUS
<1>4. u \in Definition /\ u.type = def.type /\ u.val = def.val /\ u.fn = def.fn /\ u.count = 1
  BY <1>3 DEF Single, Definition
<1>5. PICK X : X = [S EXCEPT !.heap[c] = u]
  OBVIOUS
<1>6. GetsCell(S, X, c, u)
  BY <1>5 DEF GetsCell
<1>7. /\ Shape(X) /\ X.rec = S.rec /\ X.heap[c] = u
      /\ \A e \in Cell \ {c} : X.heap[e] = S.heap[e]
  BY <1>2, <1>4, <1>6, CellSet
<1>8. T = Points(X, t, c)
  BY <1>1, <1>3, <1>5 DEF PushDef, Single
<1>9. Shape(T) /\ T.heap = X.heap /\ Puts(X, T, t, c, X.rec[t].linked)
  BY <1>2, <1>7, <1>8, PointsPuts
<1>10. Puts(S, T, t, c, S.rec[t].linked)
  BY <1>7, <1>9 DEF Puts
<1>11. T.heap[c] = u /\ \A e \in Cell \ {c} : T.heap[e] = S.heap[e]
  BY <1>7, <1>9
<1>12. Pushed(S, T, t, c)
  BY <1>2, <1>4, <1>10, <1>11 DEF Pushed
<1> QED
  BY <1>2, <1>4, <1>9, <1>11, <1>12

LEMMA NewDefinitions ==
  /\ \A v \in Values \cup {NoValue} :
       /\ VarDef(v) \in Definition /\ VarDef(v).type = "uvar" /\ VarDef(v).val = v
  /\ \A f \in Self :
       /\ FnDef(f) \in Definition /\ FnDef(f).type = "ufn" /\ FnDef(f).fn = f
  /\ [Unused EXCEPT !.type = "unknown"] \in Definition
  /\ [Unused EXCEPT !.type = "unknown"].type = "unknown"
  BY DEF Definition, VarDef, FnDef, Unused, Types, Nil

\* A value for a definition that is there already.
Revalued(def, v) ==
  [def EXCEPT !.val = v, !.type = IF def.type = "bvar" THEN "bvar" ELSE "uvar"]

LEMMA DefineSets ==
  ASSUME NEW S, Shape(S), NEW t \in Table, DefOf(S, t) # Nil, TypeOf(S, t) \in Variables,
         NEW v \in Values \cup {NoValue}, NEW T, T = Define(S, t, v)
  PROVE  /\ Shape(T) /\ ValueSet(S, T, DefOf(S, t)) /\ T.heap[DefOf(S, t)].val = v
<1> DEFINE d == DefOf(S, t)
<1>1. d \in Cell /\ S.heap[d].type \in Variables
  BY ShapeFacts DEF DefOf, TypeOf
<1>2. S.heap[d] \in Definition /\ S.heap \in [Cell -> Definition]
      /\ S = [heap |-> S.heap, rec |-> S.rec]
  BY <1>1, ShapeFacts, StoreParts
<1>3. ~ IsFunction(S, t)
  BY DEF IsFunction, Variables
<1>4. T = [S EXCEPT !.heap[d].val = v,
                    !.heap[d].type = IF @ = "bvar" THEN @ ELSE "uvar"]
  BY <1>3 DEF Define
<1>5. PICK u : u = Revalued(S.heap[d], v)
  OBVIOUS
<1>6. u \in Definition /\ u.type = (IF S.heap[d].type = "bvar" THEN "bvar" ELSE "uvar")
      /\ u.val = v /\ u.count = S.heap[d].count
  BY <1>2, <1>5 DEF Revalued, Definition, Types
<1>7. GetsCell(S, T, d, u)
  BY <1>1, <1>2, <1>4, <1>5 DEF GetsCell, Revalued
<1>8. u.type = "ufn" => u.fn \in Self
  BY <1>6
<1>9. /\ Shape(T) /\ T.rec = S.rec /\ T.heap[d] = u
      /\ \A e \in Cell \ {d} : T.heap[e] = S.heap[e]
  BY <1>1, <1>6, <1>7, <1>8, CellSet
<1>10. ValueSet(S, T, d)
  BY <1>1, <1>6, <1>9 DEF ValueSet, Variables
<1> QED
  BY <1>6, <1>9, <1>10

\* define of a variable where there is no function.
LEMMA DefineFollows ==
  ASSUME NEW S, Good(S), NEW t \in Table \ {"Global"}, NEW r \in {t, "Global"},
         ~ IsFunction(S, r), HasFree(S) \/ DefOf(S, r) # Nil,
         NEW v \in Values \cup {NoValue}, NEW T, T = Define(S, r, v)
  PROVE  /\ Follows(S, T, t)
         /\ DefOf(T, r) # Nil /\ T.heap[DefOf(T, r)].val = v
         /\ TypeOf(T, r) \in {"uvar", "bvar"}
         /\ TypeOf(T, r) = "bvar" => TypeOf(S, r) = "bvar"
         /\ \A u \in Table : T.rec[u].linked = S.rec[u].linked
         /\ DefOf(S, r) # Nil => T.rec = S.rec
         /\ \A u \in Table \ {r} : DefOf(T, u) = DefOf(S, u)
<1>1. Shape(S) /\ Counted(S) /\ "Global" \in Table /\ Nil \notin Cell
  BY ShapeFacts DEF Good, Sound
<1>2. r \in Table
  BY <1>1
<1>3. CASE DefOf(S, r) = Nil
  <2>1. T = PushDef(S, r, VarDef(v)) /\ HasFree(S)
    BY <1>3 DEF Define
  <2>2. VarDef(v) \in Definition /\ VarDef(v).type = "uvar" /\ VarDef(v).val = v
    BY NewDefinitions
  <2>3. PICK e : e = VarDef(v)
    OBVIOUS
  <2>4. Shape(T) /\ \E c \in Cell : Pushed(S, T, r, c) /\ T.heap[c].type = "uvar"
                                    /\ T.heap[c].val = v
    BY <1>1, <1>2, <1>3, <2>1, <2>2, <2>3, PushDefPushes
  <2>5. PICK c \in Cell : Pushed(S, T, r, c) /\ T.heap[c].type = "uvar"
                          /\ T.heap[c].val = v
    BY <2>4
  <2>6. Follows(S, T, t)
    BY <2>4, <2>5, PushedFollows
  <2>7. Puts(S, T, r, c, S.rec[r].linked)
    BY <2>5 DEF Pushed
  <2>8. DefOf(T, r) = c /\ \A u \in Table : T.rec[u].linked = S.rec[u].linked
    BY <2>7 DEF Puts, DefOf
  <2>9. TypeOf(T, r) = "uvar"
    BY <1>1, <2>5, <2>8 DEF TypeOf
  <2>10. \A u \in Table \ {r} : DefOf(T, u) = DefOf(S, u)
    BY <2>7 DEF Puts, DefOf
  <2> QED
    BY <1>1, <1>3, <2>5, <2>6, <2>8, <2>9, <2>10
<1>4. CASE DefOf(S, r) # Nil
  <2>1. S.heap[DefOf(S, r)].type \notin {"free", "deleted"} /\ DefOf(S, r) \in Cell
        /\ S.heap[DefOf(S, r)] \in Definition
    BY <1>1, <1>2, <1>4, Holder
  <2>2. TypeOf(S, r) \in Variables
    BY <1>4, <2>1 DEF Definition, Types, TypeOf, IsFunction, Variables
  <2>3. Shape(T) /\ ValueSet(S, T, DefOf(S, r)) /\ T.heap[DefOf(S, r)].val = v
    BY <1>1, <1>2, <1>4, <2>2, DefineSets
  <2>4. DefOf(S, r) \in {DefOf(S, t), DefOf(S, "Global")}
    OBVIOUS
  <2>5. Follows(S, T, t)
    BY <2>3, <2>4, ValueSetFollows
  <2>6. T.rec = S.rec
        /\ T.heap[DefOf(S, r)].type
             = IF S.heap[DefOf(S, r)].type = "bvar" THEN "bvar" ELSE "uvar"
    BY <2>3 DEF ValueSet
  <2>7. DefOf(T, r) = DefOf(S, r)
    BY <2>6 DEF DefOf
  <2>8. TypeOf(T, r) \in {"uvar", "bvar"} /\ (TypeOf(T, r) = "bvar" => TypeOf(S, r) = "bvar")
    BY <1>4, <2>6, <2>7 DEF TypeOf
  <2>9. \A u \in Table \ {r} : DefOf(T, u) = DefOf(S, u)
    BY <2>6 DEF DefOf
  <2> QED
    BY <1>4, <2>3, <2>5, <2>6, <2>7, <2>8, <2>9
<1> QED
  BY <1>3, <1>4

\* A definition with one more reference.
Recounted(def) == [def EXCEPT !.count = def.count + 1]

LEMMA AliasPuts ==
  ASSUME NEW S, Shape(S), NEW t \in Table, DefOf(S, "Global") # Nil,
         NEW T, T = Alias(S, t, "Global")
  PROVE  /\ Shape(T) /\ Puts(S, T, t, DefOf(S, "Global"), S.rec[t].linked)
         /\ DefOf(S, "Global") \in Cell
         /\ \A c \in Cell \ {DefOf(S, "Global")} : T.heap[c] = S.heap[c]
         /\ T.heap[DefOf(S, "Global")].count = S.heap[DefOf(S, "Global")].count + 1
         /\ SameMeaning(S, T, DefOf(S, "Global"))
<1> DEFINE g == DefOf(S, "Global")
<1>1. g \in Cell
  BY ShapeFacts DEF DefOf
<1>2. S.heap[g] \in Definition /\ S.heap[g].count + 1 \in Nat
  BY <1>1, ShapeFacts
<1>3. PICK u : u = Recounted(S.heap[g])
  OBVIOUS
<1>4. u \in Definition /\ u.type = S.heap[g].type /\ u.val = S.heap[g].val
      /\ u.fn = S.heap[g].fn /\ u.count = S.heap[g].count + 1
  BY <1>2, <1>3 DEF Recounted, Definition
<1>5. PICK X : X = [S EXCEPT !.heap[g] = u]
  OBVIOUS
<1>6. GetsCell(S, X, g, u)
  BY <1>5 DEF GetsCell
<1>7. u.type = "ufn" => u.fn \in Self
  BY <1>1, <1>4 DEF Shape
<1>8. /\ Shape(X) /\ X.rec = S.rec /\ X.heap[g] = u
      /\ \A e \in Cell \ {g} : X.heap[e] = S.heap[e]
  BY <1>1, <1>4, <1>6, <1>7, CellSet
<1>9. T = Points(X, t, g)
  BY <1>3, <1>5 DEF Alias, Recounted
<1>10. Shape(T) /\ T.heap = X.heap /\ Puts(X, T, t, g, X.rec[t].linked)
  BY <1>1, <1>8, <1>9, PointsPuts
<1>11. Puts(S, T, t, g, S.rec[t].linked)
  BY <1>8, <1>10 DEF Puts
<1> QED
  BY <1>1, <1>4, <1>8, <1>10, <1>11 DEF SameMeaning

\* A link to a builtin or to a function.
LEMMA AliasFollows ==
  ASSUME NEW S, Good(S), NEW t \in Table \ {"Global"}, t \notin Formal, ~ Linked(S, t),
         TypeOf(S, "Global") \in {"bvar", "ufn", "bfn"}, NEW T, T = Alias(S, t, "Global")
  PROVE  /\ Follows(S, T, t) /\ ~ T.rec[t].linked
         /\ DefOf(T, t) = DefOf(S, "Global") /\ DefOf(T, t) # Nil
         /\ TypeOf(T, t) = TypeOf(S, "Global") /\ TypeOf(T, "Global") = TypeOf(S, "Global")
         /\ \A c \in Cell : T.heap[c].type = S.heap[c].type /\ T.heap[c].val = S.heap[c].val
<1>1. Shape(S) /\ Counted(S) /\ DefOf(S, "Global") # Nil /\ Nil \notin Cell
  BY ShapeFacts DEF Good, Sound, TypeOf
<1>2. /\ Shape(T) /\ Puts(S, T, t, DefOf(S, "Global"), S.rec[t].linked)
      /\ DefOf(S, "Global") \in Cell
      /\ \A c \in Cell \ {DefOf(S, "Global")} : T.heap[c] = S.heap[c]
      /\ T.heap[DefOf(S, "Global")].count = S.heap[DefOf(S, "Global")].count + 1
      /\ SameMeaning(S, T, DefOf(S, "Global"))
  BY <1>1, AliasPuts
<1>3. S.rec[t].linked \in BOOLEAN /\ ~ S.rec[t].linked
  BY <1>1, ShapeFacts DEF Linked
<1>4. S.heap[DefOf(S, "Global")].type \notin {"uvar", "unknown"}
  BY <1>1 DEF TypeOf
<1>5. Aliased(S, T, t, S.rec[t].linked)
  BY <1>2, <1>3, <1>4 DEF Aliased
<1>6. Follows(S, T, t)
  BY <1>2, <1>5, AliasedFollows
<1>7. \A c \in Cell : T.heap[c].type = S.heap[c].type /\ T.heap[c].val = S.heap[c].val
  BY <1>2 DEF SameMeaning
<1>8. DefOf(T, t) = DefOf(S, "Global") /\ ~ T.rec[t].linked
  BY <1>2, <1>3 DEF Puts, DefOf
<1>9. DefOf(T, "Global") = DefOf(S, "Global")
  BY <1>1, <1>6 DEF Follows, GlobalKept
<1>10. TypeOf(T, t) = TypeOf(S, "Global") /\ TypeOf(T, "Global") = TypeOf(S, "Global")
  BY <1>1, <1>2, <1>7, <1>8, <1>9 DEF TypeOf
<1> QED
  BY <1>1, <1>6, <1>7, <1>8, <1>10

\* A link to the global variable.
LEMMA GlobalLinked ==
  ASSUME NEW S, Good(S), NEW t \in Table \ {"Global"}, t \notin Formal,
         DefOf(S, "Global") # Nil, ~ IsFunction(S, "Global"),
         NEW X, X = Alias(S, t, "Global"), NEW T, NEW l \in BOOLEAN, l, GetsFlag(X, T, t, l)
  PROVE  /\ Follows(S, T, t) /\ T.rec[t].linked
         /\ DefOf(T, t) = DefOf(T, "Global") /\ DefOf(T, "Global") # Nil
         /\ ~ IsFunction(T, "Global")
<1>1. Shape(S) /\ Counted(S) /\ "Global" \in Table
  BY ShapeFacts DEF Good, Sound
<1>2. /\ Shape(X) /\ Puts(S, X, t, DefOf(S, "Global"), S.rec[t].linked)
      /\ DefOf(S, "Global") \in Cell
      /\ \A c \in Cell \ {DefOf(S, "Global")} : X.heap[c] = S.heap[c]
      /\ X.heap[DefOf(S, "Global")].count = S.heap[DefOf(S, "Global")].count + 1
      /\ SameMeaning(S, X, DefOf(S, "Global"))
  BY <1>1, AliasPuts
<1>3. Shape(T) /\ T.heap = X.heap /\ Puts(X, T, t, DefOf(X, t), l)
  BY <1>2, FlagPuts
<1>4. DefOf(X, t) = DefOf(S, "Global")
  BY <1>2 DEF Puts, DefOf
<1>5. Puts(S, T, t, DefOf(S, "Global"), l)
  BY <1>2, <1>3, <1>4 DEF Puts
<1>6. Aliased(S, T, t, l)
  BY <1>2, <1>3, <1>5 DEF Aliased, SameMeaning
<1>7. Follows(S, T, t)
  BY <1>3, <1>6, AliasedFollows
<1>8. T.rec[t].linked /\ DefOf(T, t) = DefOf(S, "Global")
  BY <1>5 DEF Puts, DefOf
<1>9. DefOf(T, "Global") = DefOf(S, "Global")
  BY <1>7 DEF Follows, GlobalKept
<1>10. ~ IsFunction(T, "Global")
  BY <1>7 DEF Follows, GlobalKept, IsFunction, Variables
<1> QED
  BY <1>7, <1>8, <1>9, <1>10

NoFns(S) == \A c \in Cell : S.heap[c].type \notin {"ufn", "bfn"}

\* The first half of link_to_global: what t has is given to the global, or up.
GivenUp(S, t) ==
  IF IsVariable(S, t) THEN Define(S, "Global", S.heap[DefOf(S, t)].val) ELSE ClearRecord(S, t)

LEMMA GivenUpFollows ==
  ASSUME NEW S, Good(S), NEW t \in Table \ {"Global"}, ~ Linked(S, t), HasFree(S), NoFns(S),
         NEW T, T = GivenUp(S, t)
  PROVE  /\ Follows(S, T, t) /\ ~ IsFunction(T, "Global")
         /\ DefOf(T, "Global") # Nil \/ HasFree(T)
<1>1. Shape(S) /\ Counted(S) /\ "Global" \in Table
  BY ShapeFacts DEF Good, Sound
<1>2. ~ IsFunction(S, "Global")
  <2>1. DefOf(S, "Global") = Nil \/ DefOf(S, "Global") \in Cell
    BY <1>1, ShapeFacts DEF DefOf
  <2> QED
    BY <2>1 DEF NoFns, IsFunction, TypeOf
<1>3. CASE IsVariable(S, t)
  <2>1. DefOf(S, t) # Nil
    BY <1>3 DEF IsVariable, TypeOf
  <2>2. S.heap[DefOf(S, t)].val \in Values \cup {NoValue}
    <3>1. S.heap[DefOf(S, t)] \in Definition
      BY <1>1, <2>1, Holder
    <3> QED
      BY <3>1 DEF Definition
  <2>3. PICK v \in Values \cup {NoValue} : v = S.heap[DefOf(S, t)].val
    BY <2>2
  <2>4. T = Define(S, "Global", v)
    BY <1>3, <2>3 DEF GivenUp
  <2>5. Follows(S, T, t) /\ DefOf(T, "Global") # Nil
        /\ TypeOf(T, "Global") \in {"uvar", "bvar"}
    BY <1>2, <2>4, DefineFollows
  <2> QED
    BY <2>5 DEF IsFunction
<1>4. CASE ~ IsVariable(S, t) /\ DefOf(S, t) = Nil
  <2>1. T = S
    BY <1>4 DEF GivenUp, ClearRecord, PopDef
  <2> QED
    BY <1>2, <2>1, FollowsSelf
<1>5. CASE ~ IsVariable(S, t) /\ DefOf(S, t) # Nil
  <2>1. T = ClearRecord(S, t)
    BY <1>5 DEF GivenUp
  <2>2. /\ Follows(S, T, t) /\ TypeOf(T, "Global") = TypeOf(S, "Global")
        /\ \A c \in Cell : T.heap[c].type = "free" <=> S.heap[c].type = "free"
    BY <1>5, <2>1, ClearRecordFollows
  <2> QED
    BY <1>2, <2>2 DEF IsFunction, HasFree
<1> QED
  BY <1>3, <1>4, <1>5

LEMMA LinkToGlobalFollows ==
  ASSUME NEW S, Good(S), NEW t \in Table \ {"Global"}, HasFree(S), NoFns(S),
         NEW T, T = LinkToGlobal(S, t)
  PROVE  /\ Follows(S, T, t)
         /\ IF Linked(S, t) \/ t \in Formal THEN T = S
            ELSE /\ T.rec[t].linked /\ DefOf(T, t) = DefOf(T, "Global")
                 /\ DefOf(T, "Global") # Nil /\ ~ IsFunction(T, "Global")
<1>1. CASE Linked(S, t) \/ t \in Formal
  <2>1. T = S
    BY <1>1 DEF LinkToGlobal
  <2> QED
    BY <1>1, <2>1, FollowsSelf
<1>2. CASE ~ (Linked(S, t) \/ t \in Formal)
  <2>1. PICK S1 : S1 = GivenUp(S, t)
    OBVIOUS
  <2>2. Follows(S, S1, t) /\ ~ IsFunction(S1, "Global")
        /\ (DefOf(S1, "Global") # Nil \/ HasFree(S1))
    BY <1>2, <2>1, GivenUpFollows
  <2>3. T = [ForceAlias(S1, t, "Global") EXCEPT !.rec[t].linked = TRUE]
    BY <1>2, <2>1, <2>2 DEF LinkToGlobal, GivenUp
  <2>4. PICK l \in BOOLEAN : l = TRUE
    OBVIOUS
  <2>5. PICK S2 : /\ Follows(S1, S2, t) /\ ~ IsFunction(S2, "Global")
                  /\ DefOf(S2, "Global") # Nil
                  /\ ForceAlias(S1, t, "Global") = Alias(S2, t, "Global")
    <3>1. Good(S1) /\ Shape(S1) /\ "Global" \in Table
      BY <2>2, ShapeFacts DEF Follows, Good, Sound
    <3>2. CASE DefOf(S1, "Global") # Nil
      <4>1. Follows(S1, S1, t)
        BY <3>1, FollowsSelf
      <4> QED
        BY <2>2, <3>2, <4>1 DEF ForceAlias
    <3>3. CASE DefOf(S1, "Global") = Nil
      <4>1. PICK e : e = [Unused EXCEPT !.type = "unknown"]
        OBVIOUS
      <4>2. e \in Definition /\ e.type = "unknown"
        BY <4>1, NewDefinitions
      <4>3. PICK S2 : S2 = PushDef(S1, "Global", e)
        OBVIOUS
      <4>4. /\ Shape(S2)
            /\ \E c \in Cell : Pushed(S1, S2, "Global", c) /\ S2.heap[c].type = "unknown"
        BY <2>2, <3>1, <3>3, <4>2, <4>3, PushDefPushes
      <4>5. PICK c \in Cell : Pushed(S1, S2, "Global", c) /\ S2.heap[c].type = "unknown"
        BY <4>4
      <4>6. Follows(S1, S2, t)
        BY <3>1, <4>4, <4>5, PushedFollows
      <4>7. DefOf(S2, "Global") = c /\ c # Nil
        BY <3>1, <4>5, ShapeFacts DEF Pushed, Puts, DefOf
      <4>8. ~ IsFunction(S2, "Global")
        BY <4>5, <4>7 DEF IsFunction, TypeOf
      <4>9. ForceAlias(S1, t, "Global") = Alias(S2, t, "Global")
        BY <3>3, <4>1, <4>3 DEF ForceAlias
      <4> QED
        BY <4>6, <4>7, <4>8, <4>9
    <3> QED
      BY <3>2, <3>3
  <2>6. PICK X : X = Alias(S2, t, "Global")
    OBVIOUS
  <2>7. GetsFlag(X, T, t, l)
    BY <2>3, <2>4, <2>5, <2>6 DEF GetsFlag
  <2>8. Good(S2)
    BY <2>5 DEF Follows
  <2>9. /\ Follows(S2, T, t) /\ T.rec[t].linked
        /\ DefOf(T, t) = DefOf(T, "Global") /\ DefOf(T, "Global") # Nil
        /\ ~ IsFunction(T, "Global")
    BY <1>2, <2>4, <2>5, <2>6, <2>7, <2>8, GlobalLinked
  <2>10. Follows(S, T, t)
    BY <2>2, <2>5, <2>9, FollowsTrans
  <2> QED
    BY <1>2, <2>9, <2>10
<1> QED
  BY <1>1, <1>2

LEMMA AssignFollows ==
  ASSUME NEW S, Good(S), NEW t \in Table \ {"Global"}, HasFree(S), NEW v \in Values,
         NEW T, T = Assign(S, t, v)
  PROVE  /\ Follows(S, T, t) /\ DefOf(T, t) # Nil /\ T.heap[DefOf(T, t)].val = v
         /\ IsVariable(S, t) /\ (Linked(S, t) \/ IsDefined(S, t)) =>
              T.rec = S.rec /\ (TypeOf(T, t) = "bvar" => TypeOf(S, t) = "bvar")
         /\ TypeOf(S, t) = "unknown" /\ Linked(S, t) => T.rec = S.rec
         /\ IsVariable(T, t)
<1> DEFINE S1 == IF ~ IsDefined(S, t)
                 THEN IF t \in Formal \/ Linked(S, t) THEN S
                      ELSE LinkToBuiltinVariable(S, t)
                 ELSE IF IsFunction(S, t) THEN ClearRecord(S, t) ELSE S
<1>1. PICK U : U = S1
  OBVIOUS
<1>2. T = Define(U, t, v)
  BY <1>1 DEF Assign
<1>3. Shape(S) /\ Counted(S)
  BY DEF Good, Sound
<1>4. /\ Follows(S, U, t) /\ HasFree(U) /\ ~ IsFunction(U, t)
      /\ U = S \/ ~ IsVariable(S, t) \/ ~ (Linked(S, t) \/ IsDefined(S, t))
      /\ U = S \/ ~ Linked(S, t) \/ IsFunction(S, t)
  <2>1. CASE ~ IsDefined(S, t) /\ ~ (t \in Formal \/ Linked(S, t))
             /\ TypeOf(S, "Global") = "bvar"
    <3>1. U = Alias(S, t, "Global")
      BY <1>1, <2>1 DEF LinkToBuiltinVariable
    <3>2. /\ Follows(S, U, t) /\ TypeOf(U, t) = "bvar"
          /\ \A c \in Cell : U.heap[c].type = S.heap[c].type
      BY <2>1, <3>1, AliasFollows
    <3> QED
      BY <2>1, <3>2 DEF IsFunction, HasFree
  <2>2. CASE IsFunction(S, t)
    <3>1. U = ClearRecord(S, t) /\ DefOf(S, t) # Nil
      BY <1>1, <2>2 DEF IsDefined, IsFunction, TypeOf
    <3>2. /\ Follows(S, U, t) /\ DefOf(U, t) = Nil
          /\ \A c \in Cell : U.heap[c].type = "free" <=> S.heap[c].type = "free"
      BY <3>1, ClearRecordFollows
    <3> QED
      BY <2>2, <3>2 DEF IsFunction, IsVariable, TypeOf, HasFree
  <2>3. CASE ~ IsFunction(S, t) /\ U = S
    BY <2>3, FollowsSelf
  <2> QED
    BY <1>1, <2>1, <2>2, <2>3 DEF LinkToBuiltinVariable
<1>5. Good(U)
  BY <1>4 DEF Follows
<1>6. /\ Follows(U, T, t) /\ DefOf(T, t) # Nil /\ T.heap[DefOf(T, t)].val = v
      /\ TypeOf(T, t) \in {"uvar", "bvar"}
      /\ TypeOf(T, t) = "bvar" => TypeOf(U, t) = "bvar"
      /\ DefOf(U, t) # Nil => T.rec = U.rec
  BY <1>2, <1>4, <1>5, DefineFollows
<1>7. Follows(S, T, t)
  BY <1>4, <1>6, FollowsTrans
<1>8. IsVariable(S, t) /\ (Linked(S, t) \/ IsDefined(S, t)) =>
        T.rec = S.rec /\ (TypeOf(T, t) = "bvar" => TypeOf(S, t) = "bvar")
  BY <1>4, <1>6 DEF IsVariable, TypeOf
<1>9. TypeOf(S, t) = "unknown" /\ Linked(S, t) => T.rec = S.rec
  BY <1>4, <1>6 DEF IsFunction, TypeOf
<1> QED
  BY <1>6, <1>7, <1>8, <1>9 DEF IsVariable

LEMMA LookupFollows ==
  ASSUME NEW S, Good(S), NEW t \in Table \ {"Global"}, NEW T, T = Lookup(S, t)
  PROVE  /\ Follows(S, T, t)
         /\ HasFree(S) => HasFree(T)
         /\ Linked(S, t) \/ IsDefined(S, t) => T = S
<1>1. CASE Linked(S, t) \/ IsDefined(S, t) \/ t \in Formal
  <2>1. T = S
    BY <1>1 DEF Lookup
  <2> QED
    BY <2>1, FollowsSelf
<1>2. CASE ~ (Linked(S, t) \/ IsDefined(S, t) \/ t \in Formal)
  <2>1. CASE TypeOf(S, "Global") \in {"bvar", "ufn", "bfn"}
    <3>1. T = Alias(S, t, "Global")
      BY <1>2, <2>1 DEF Lookup, LinkToBuiltinOrFunction, IsFunction
    <3>2. Follows(S, T, t) /\ \A c \in Cell : T.heap[c].type = S.heap[c].type
      BY <1>2, <2>1, <3>1, AliasFollows
    <3> QED
      BY <1>2, <3>2 DEF HasFree
  <2>2. CASE ~ (TypeOf(S, "Global") \in {"bvar", "ufn", "bfn"})
    <3>1. T = S
      BY <1>2, <2>2 DEF Lookup, LinkToBuiltinOrFunction, IsFunction
    <3> QED
      BY <3>1, FollowsSelf
  <2> QED
    BY <2>1, <2>2
<1> QED
  BY <1>1, <1>2

-----------------------------------------------------------------------------
(***************************************************************************)
(* Activations that a statement in t does not concern                      *)
(***************************************************************************)

LEMMA SlotKept ==
  ASSUME NEW S, NEW T, NEW t \in Table, NEW u \in Table \ {"Global"}, Shape(S),
         Frame(S, T, t), NEW k \in Slots(S, u), u # t \/ k # 0
  PROVE  /\ k \in Slots(T, u)
         /\ At(T, u, k) = At(S, u, k) /\ ToGlobal(T, u, k) = ToGlobal(S, u, k)
         /\ At(S, u, k) \in Cell \cup {Nil}
<1>1. u # t => T.rec[u] = S.rec[u]
  BY DEF Frame
<1>2. u = t => T.rec[u].ctx = S.rec[u].ctx
  BY DEF Frame
<1>3. At(S, u, k) \in Cell \cup {Nil}
  <2>1. CASE k = 0
    BY <2>1, ShapeFacts DEF At
  <2>2. CASE k # 0
    <3>1. S.rec[u].ctx \in Seq(Link) /\ k \in 1 .. Len(S.rec[u].ctx)
      BY <2>2, ShapeFacts DEF Slots
    <3>2. S.rec[u].ctx[k] \in Link
      BY <3>1
    <3> QED
      BY <2>2, <3>2 DEF At, Link
  <2> QED
    BY <2>1, <2>2
<1>4. k \in Slots(T, u)
  BY <1>1, <1>2 DEF Slots
<1>5. At(T, u, k) = At(S, u, k) /\ ToGlobal(T, u, k) = ToGlobal(S, u, k)
  BY <1>1, <1>2 DEF At, ToGlobal
<1> QED
  BY <1>3, <1>4, <1>5

LEMMA OwnKept ==
  ASSUME NEW S, NEW T, NEW t \in Table \ {"Global"}, NEW u \in Table \ {"Global"}, Sound(S),
         Frame(S, T, t), NEW k \in Slots(S, u), u # t \/ k # 0,
         NEW o \in Values, OwnOK(S, o, u, k)
  PROVE  OwnOK(T, o, u, k)
<1>1. Shape(S) /\ Counted(S) /\ Private(S) /\ "Global" \in Table
  BY ShapeFacts DEF Sound
<1>2. /\ k \in Slots(T, u)
      /\ At(T, u, k) = At(S, u, k) /\ ToGlobal(T, u, k) = ToGlobal(S, u, k)
      /\ At(S, u, k) \in Cell \cup {Nil}
  BY <1>1, SlotKept
<1>3. PICK c : c = At(S, u, k)
  OBVIOUS
<1>4. o # "global"
  BY ScopeAssumption
<1>5. /\ ~ ToGlobal(S, u, k) /\ c # Nil /\ S.heap[c].type = "uvar" /\ S.heap[c].val = o
  BY <1>3, <1>4 DEF OwnOK
<1>6. c \in Cell
  BY <1>2, <1>3, <1>5
<1>7. RefsIn(S, c) \subseteq {<<u, k>>}
  BY <1>1, <1>3, <1>5, <1>6 DEF Private
<1>8. c # DefOf(S, t)
  <2>1. c = DefOf(S, t) => <<t, 0>> \in RefsIn(S, c)
    BY <1>1, <1>5, Holder
  <2> QED
    BY <1>7, <2>1
<1>9. c # DefOf(S, "Global")
  <2>1. c = DefOf(S, "Global") => <<"Global", 0>> \in RefsIn(S, c)
    BY <1>1, <1>5, Holder
  <2> QED
    BY <1>7, <2>1
<1>10. SameMeaning(S, T, c)
  BY <1>5, <1>6, <1>8, <1>9 DEF Frame, Near
<1> QED
  BY <1>2, <1>3, <1>4, <1>5, <1>10 DEF OwnOK, SameMeaning

LEMMA SharedKept ==
  ASSUME NEW S, NEW T, NEW t \in Table \ {"Global"}, NEW u \in Table \ {"Global"}, Sound(S),
         Frame(S, T, t), GlobalKept(S, T), NEW k \in Slots(S, u), u # t \/ k # 0,
         OwnOK(S, "global", u, k)
  PROVE  OwnOK(T, "global", u, k)
<1>1. Shape(S)
  BY DEF Sound
<1>2. /\ At(T, u, k) = At(S, u, k) /\ ToGlobal(T, u, k) = ToGlobal(S, u, k)
  BY <1>1, SlotKept
<1>3. /\ ToGlobal(S, u, k) /\ At(S, u, k) = DefOf(S, "Global") /\ DefOf(S, "Global") # Nil
      /\ S.heap[DefOf(S, "Global")].type \notin {"ufn", "bfn"}
  BY DEF OwnOK
<1>4. DefOf(T, "Global") = DefOf(S, "Global") /\ TypeOf(T, "Global") \notin {"ufn", "bfn"}
  BY <1>3 DEF GlobalKept, TypeOf, Variables
<1> QED
  BY <1>2, <1>3, <1>4 DEF OwnOK, TypeOf

LEMMA ActsFacts ==
  ASSUME NEW A, Acts(A)
  PROVE  /\ A \in Seq(Activation) /\ Len(A) \in Nat \ {0} /\ 1 \in 1 .. Len(A)
         /\ \A i \in 1 .. Len(A) :
              /\ A[i] \in Activation /\ A[i].t \in Table \ {"Global"}
              /\ A[i].own \in Values \cup {"global", NoValue}
              /\ A[i].t = "Top" <=> i = 1
<1>1. A \in Seq(Activation) /\ A # <<>> /\ A[1].t = "Top"
      /\ \A i \in 2 .. Len(A) : A[i].t \in Fn
  BY DEF Acts
<1>2. Len(A) \in Nat \ {0} /\ 1 \in 1 .. Len(A)
  BY <1>1
<1>3. ASSUME NEW i \in 1 .. Len(A)
      PROVE  /\ A[i] \in Activation /\ A[i].t \in Table \ {"Global"}
             /\ A[i].own \in Values \cup {"global", NoValue}
             /\ A[i].t = "Top" <=> i = 1
  <2>1. A[i] \in Activation
    BY <1>1
  <2>2. A[i].own \in Values \cup {"global", NoValue}
    BY <2>1 DEF Activation
  <2>3. CASE i = 1
    BY <1>1, <2>1, <2>2, <2>3 DEF Table
  <2>4. CASE i # 1
    <3>1. A[i].t \in Fn
      BY <1>1, <2>4
    <3> QED
      BY <2>1, <2>2, <2>4, <3>1, ScopeAssumption DEF Table, Fn
  <2> QED
    BY <2>3, <2>4
<1> QED
  BY <1>1, <1>2, <1>3

\* Where an activation may be.
LEMMA PlacedFacts ==
  ASSUME NEW S, NEW A, NEW m, Placed(S, A, m), NEW i \in 1 .. Len(A)
  PROVE  /\ m[i] \in Int /\ (m[i] = 0 <=> Last(A, i))
         /\ m[i] = -1 \/ m[i] \in Slots(S, A[i].t)
<1>1. /\ m \in [1 .. Len(A) -> Int]
      /\ IF Last(A, i) THEN m[i] = 0 ELSE m[i] = -1 \/ m[i] \in 1 .. Len(S.rec[A[i].t].ctx)
  BY DEF Placed
<1>2. m[i] = -1 \/ m[i] \in Slots(S, A[i].t)
  BY <1>1 DEF Slots
<1> QED
  BY <1>1, <1>2

LEMMA LastOnce ==
  ASSUME NEW A, Acts(A), NEW i \in 1 .. Len(A), NEW n \in 1 .. Len(A),
         Last(A, n), Last(A, i), A[n].t = A[i].t
  PROVE  n = i
<1>1. n \in Int /\ i \in Int /\ Len(A) \in Int
  BY ActsFacts
<1>2. ~ (i \in n + 1 .. Len(A)) /\ ~ (n \in i + 1 .. Len(A))
  BY DEF Last
<1> QED
  BY <1>1, <1>2

\* The members that the properties add may change, the tables not.
SameTables(A, B) ==
  /\ Acts(B) /\ Len(B) = Len(A) /\ \A i \in 1 .. Len(A) : B[i].t = A[i].t

LEMMA PlacedKept ==
  ASSUME NEW S, NEW T, NEW A, NEW B, NEW m, Acts(A), Placed(S, A, m), SameTables(A, B),
         \A u \in Table : T.rec[u].ctx = S.rec[u].ctx
  PROVE  Placed(T, B, m) /\ \A i \in 1 .. Len(A) : Last(B, i) <=> Last(A, i)
<1>1. Len(B) = Len(A) /\ \A i \in 1 .. Len(A) : B[i].t = A[i].t
  BY DEF SameTables
<1>2. Len(A) \in Nat /\ \A i \in 1 .. Len(A) : A[i].t \in Table
  BY ActsFacts
<1>3. ASSUME NEW i \in 1 .. Len(A) PROVE Last(B, i) <=> Last(A, i)
  <2>1. \A j \in i + 1 .. Len(A) : j \in 1 .. Len(A)
    BY <1>2
  <2> QED
    BY <1>1, <2>1 DEF Last
<1>4. m \in [1 .. Len(B) -> Int]
  BY <1>1 DEF Placed
<1>5. \A i \in 1 .. Len(B) :
        IF Last(B, i) THEN m[i] = 0 ELSE m[i] = -1 \/ m[i] \in 1 .. Len(T.rec[B[i].t].ctx)
  <2>1. SUFFICES ASSUME NEW i \in 1 .. Len(A)
                 PROVE  IF Last(A, i) THEN m[i] = 0
                        ELSE m[i] = -1 \/ m[i] \in 1 .. Len(T.rec[A[i].t].ctx)
    BY <1>1, <1>3
  <2>2. T.rec[A[i].t].ctx = S.rec[A[i].t].ctx
    BY <1>2
  <2> QED
    BY <2>2 DEF Placed
<1>6. \A i, j \in 1 .. Len(B) :
        i < j /\ B[i].t = B[j].t /\ m[i] > 0 => m[j] = 0 \/ m[i] < m[j]
  BY <1>1 DEF Placed
<1>7. \A u \in Table : \A k \in 1 .. Len(T.rec[u].ctx) :
        \E i \in 1 .. Len(B) : B[i].t = u /\ m[i] = k
  <2>1. SUFFICES ASSUME NEW u \in Table, NEW k \in 1 .. Len(S.rec[u].ctx)
                 PROVE  \E i \in 1 .. Len(B) : B[i].t = u /\ m[i] = k
    OBVIOUS
  <2>2. PICK i \in 1 .. Len(A) : A[i].t = u /\ m[i] = k
    BY DEF Placed
  <2> QED
    BY <1>1, <2>2
<1> QED
  BY <1>3, <1>4, <1>5, <1>6, <1>7 DEF Placed

\* A statement in the last activation of t, the n-th.
LEMMA StatementScoped ==
  ASSUME NEW S, NEW A, Scoped(S, A), NEW t \in Table \ {"Global"}, NEW T, Good(T),
         Frame(S, T, t), NEW n \in 1 .. Len(A), A[n].t = t, Last(A, n),
         NEW B, SameTables(A, B),
         \A i \in 1 .. Len(A) : i # n => B[i].own \in {A[i].own, NoValue},
         GlobalKept(S, T) \/ \A i \in 1 .. Len(A) : i # n => B[i].own # "global",
         B[n].own # NoValue => T.rec[t].here /\ OwnOK(T, B[n].own, t, 0),
         SelfRuns(T, B)
  PROVE  Scoped(T, B)
<1>1. Good(S) /\ Sound(S) /\ Shape(S) /\ Counted(S) /\ GlobalAlone(S) /\ Acts(A)
      /\ GlobalAlone(T) /\ "Global" \in Table /\ Shape(T)
  BY ShapeFacts DEF Scoped, Good, Sound
<1>2. PICK m \in [1 .. Len(A) -> Int] : Placed(S, A, m) /\ Owned(S, A, m)
  BY DEF Scoped
<1>3. \A u \in Table : T.rec[u].ctx = S.rec[u].ctx
  BY <1>1 DEF Frame, GlobalAlone
<1>4. Placed(T, B, m) /\ \A i \in 1 .. Len(A) : Last(B, i) <=> Last(A, i)
  BY <1>1, <1>2, <1>3, PlacedKept
<1>5. Acts(B) /\ Len(B) = Len(A) /\ \A i \in 1 .. Len(A) : B[i].t = A[i].t
  BY DEF SameTables
<1>6. Owned(T, B, m)
  <2>1. SUFFICES ASSUME NEW i \in 1 .. Len(A), B[i].own # NoValue
                 PROVE  m[i] >= 0 /\ OwnOK(T, B[i].own, A[i].t, m[i])
    BY <1>5 DEF Owned
  <2>2. CASE i = n
    <3>1. m[n] = 0
      BY <1>2, PlacedFacts
    <3> QED
      BY <2>1, <2>2, <3>1
  <2>3. CASE i # n
    <3>1. B[i].own = A[i].own /\ A[i].own # NoValue
      BY <2>1, <2>3
    <3>2. m[i] >= 0 /\ OwnOK(S, A[i].own, A[i].t, m[i])
      BY <1>2, <3>1 DEF Owned
    <3>3. /\ m[i] \in Int /\ (m[i] = 0 <=> Last(A, i))
          /\ m[i] = -1 \/ m[i] \in Slots(S, A[i].t)
      BY <1>2, PlacedFacts
    <3>8. Last(A, i) /\ A[n].t = A[i].t => n = i
      BY <1>1, LastOnce
    <3>4. m[i] \in Slots(S, A[i].t) /\ (A[i].t # t \/ m[i] # 0)
      BY <2>3, <3>2, <3>3, <3>8
    <3>5. A[i].t \in Table \ {"Global"} /\ A[i].own \in Values \cup {"global", NoValue}
      BY <1>1, ActsFacts
    <3>6. CASE A[i].own \in Values
      <4>1. OwnOK(T, A[i].own, A[i].t, m[i])
        BY <1>1, <3>2, <3>4, <3>5, <3>6, OwnKept
      <4> QED
        BY <3>1, <3>2, <4>1
    <3>7. CASE A[i].own = "global"
      <4>1. GlobalKept(S, T) /\ OwnOK(S, "global", A[i].t, m[i])
        BY <2>3, <3>1, <3>2, <3>7
      <4>2. OwnOK(T, "global", A[i].t, m[i])
        BY <1>1, <3>4, <3>5, <4>1, SharedKept
      <4> QED
        BY <3>1, <3>2, <3>7, <4>2
    <3> QED
      BY <3>1, <3>5, <3>6, <3>7
  <2> QED
    BY <2>2, <2>3
<1>7. Absent(T, B)
  <2>1. SUFFICES ASSUME NEW u \in Table, ~ T.rec[u].here
                 PROVE  /\ T.rec[u].ctx = <<>>
                        /\ \A i \in 1 .. Len(A) : A[i].t = u => B[i].own = NoValue
    BY <1>5 DEF Absent
  <2>2. Absent(S, A)
    BY DEF Scoped
  <2>3. CASE u = "Global"
    <3>1. \A i \in 1 .. Len(A) : A[i].t # u
      BY <1>1, <2>3, ActsFacts
    <3> QED
      BY <1>1, <2>3, <3>1 DEF GlobalAlone
  <2>4. CASE u # "Global"
    <3>1. ~ S.rec[u].here
      BY <2>1, <2>4 DEF Frame
    <3>2. /\ S.rec[u].ctx = <<>>
          /\ \A i \in 1 .. Len(A) : A[i].t = u => A[i].own = NoValue
      BY <2>2, <3>1 DEF Absent
    <3>3. ASSUME NEW i \in 1 .. Len(A), A[i].t = u PROVE B[i].own = NoValue
      <4>1. CASE i = n
        BY <2>1, <3>3, <4>1
      <4>2. CASE i # n
        BY <3>2, <3>3, <4>2
      <4> QED
        BY <4>1, <4>2
    <3> QED
      BY <1>3, <3>2, <3>3
  <2> QED
    BY <2>3, <2>4
<1>8. Resting(T, B)
  <2>1. SUFFICES ASSUME NEW u \in Table \ {"Global"}, ~ Runs(B, u) PROVE TypeOf(T, u) # "ufn"
    BY DEF Resting
  <2>2. ~ Runs(A, u)
    BY <1>5, <2>1 DEF Runs
  <2>3. TypeOf(S, u) # "ufn"
    BY <2>2 DEF Scoped, Resting
  <2>4. u # t
    BY <2>2 DEF Runs
  <2>5. DefOf(T, u) = DefOf(S, u)
    BY <2>4 DEF Frame, DefOf
  <2>6. CASE DefOf(S, u) = Nil
    BY <2>5, <2>6 DEF TypeOf
  <2>7. CASE DefOf(S, u) # Nil
    <3>1. DefOf(S, u) \in Cell /\ S.heap[DefOf(S, u)].type # "free"
      BY <1>1, <2>7, Holder
    <3>2. T.heap[DefOf(S, u)].type = "ufn" => S.heap[DefOf(S, u)].type \in {"ufn", "free"}
      BY <3>1 DEF Frame
    <3> QED
      BY <2>3, <2>5, <2>7, <3>1, <3>2 DEF TypeOf
  <2> QED
    BY <2>6, <2>7
<1> QED
  BY <1>2, <1>4, <1>5, <1>6, <1>7, <1>8 DEF Scoped

-----------------------------------------------------------------------------
(***************************************************************************)
(* Activations come and go                                                 *)
(***************************************************************************)

RunsUpTo(A, n, f) == \E i \in 1 .. n : A[i].t = f

LEMMA LastOf ==
  ASSUME NEW A, NEW f, NEW n \in Nat, RunsUpTo(A, n, f)
  PROVE  \E i \in 1 .. n : A[i].t = f /\ \A j \in i + 1 .. n : A[j].t # f
<1>1. PICK N : N = {k \in 0 .. n : k < n /\ A[n - k].t = f}
  OBVIOUS
<1>2. N \in SUBSET Nat
  BY <1>1
<1>3. N # {}
  <2>1. PICK i \in 1 .. n : A[i].t = f
    BY DEF RunsUpTo
  <2>2. n - i \in 0 .. n /\ n - i < n /\ n - (n - i) = i
    BY <2>1
  <2>3. n - i \in N
    BY <1>1, <2>1, <2>2
  <2> QED
    BY <2>3
<1>4. PICK k \in N : \A y \in N : k <= y
  BY <1>2, <1>3, Least
<1>5. k \in 0 .. n /\ k < n /\ A[n - k].t = f
  BY <1>1, <1>4
<1>6. n - k \in 1 .. n
  BY <1>5
<1>7. ASSUME NEW j \in n - k + 1 .. n PROVE A[j].t # f
  <2>1. n - j \in 0 .. n /\ n - j < n /\ n - (n - j) = j /\ ~ (k <= n - j)
    BY <1>5
  <2> QED
    BY <1>1, <1>4, <2>1
<1> QED
  BY <1>5, <1>6, <1>7

\* The same place, possibly in another slot.
LEMMA OwnMoved ==
  ASSUME NEW S, NEW T, NEW o, NEW t, NEW k, NEW k2, OwnOK(S, o, t, k),
         At(T, t, k2) = At(S, t, k), ToGlobal(T, t, k2) = ToGlobal(S, t, k),
         T.heap[At(S, t, k)] = S.heap[At(S, t, k)], DefOf(T, "Global") = DefOf(S, "Global")
  PROVE  OwnOK(T, o, t, k2)
  BY DEF OwnOK

\* A call pushes the record of a function that runs already.
AfterPush(S, A, f) == IF Runs(A, f) THEN PushContext(S, f) ELSE S
Called(A, f) == Append(A, [t |-> f, own |-> NoValue])

LEMMA CalledActs ==
  ASSUME NEW A, Acts(A), NEW f \in Fn
  PROVE  /\ Acts(Called(A, f)) /\ Len(Called(A, f)) = Len(A) + 1
         /\ Called(A, f)[Len(A) + 1].t = f /\ Called(A, f)[Len(A) + 1].own = NoValue
         /\ \A i \in 1 .. Len(A) : Called(A, f)[i] = A[i]
         /\ \A u : Runs(Called(A, f), u) <=> Runs(A, u) \/ u = f
<1>1. A \in Seq(Activation) /\ Len(A) \in Nat \ {0}
  BY ActsFacts
<1>2. PICK e : e = [t |-> f, own |-> NoValue]
  OBVIOUS
<1>3. e \in Activation /\ e.t = f /\ e.own = NoValue
  BY <1>2 DEF Activation, Table
<1>4. PICK B : B = Append(A, e)
  OBVIOUS
<1>5. B \in Seq(Activation) /\ Len(B) = Len(A) + 1 /\ B[Len(A) + 1] = e
      /\ \A i \in 1 .. Len(A) : B[i] = A[i]
  BY <1>1, <1>3, <1>4
<1>6. B # <<>> /\ B[1].t = "Top"
  BY <1>1, <1>5 DEF Acts
<1>7. ASSUME NEW i \in 2 .. Len(B) PROVE B[i].t \in Fn
  <2>1. CASE i = Len(A) + 1
    BY <1>3, <1>5, <2>1
  <2>2. CASE i # Len(A) + 1
    <3>1. i \in 2 .. Len(A) /\ i \in 1 .. Len(A)
      BY <1>1, <1>5, <2>2
    <3> QED
      BY <1>5, <3>1 DEF Acts
  <2> QED
    BY <2>1, <2>2
<1>8. Acts(B)
  BY <1>5, <1>6, <1>7 DEF Acts
<1>9. ASSUME NEW u PROVE Runs(B, u) <=> Runs(A, u) \/ u = f
  <2>1. Len(A) + 1 \in 1 .. Len(B) /\ \A i \in 1 .. Len(A) : i \in 1 .. Len(B)
    BY <1>1, <1>5
  <2>2. \A i \in 1 .. Len(B) : i \in 1 .. Len(A) \/ i = Len(A) + 1
    BY <1>1, <1>5
  <2> QED
    BY <1>3, <1>5, <2>1, <2>2 DEF Runs
<1>10. B = Called(A, f)
  BY <1>2, <1>4 DEF Called
<1> QED
  BY <1>3, <1>5, <1>8, <1>9, <1>10

\* The record that push_context leaves.
PushedRecord(r) ==
  [here |-> TRUE, def |-> Nil, linked |-> FALSE,
   ctx |-> Append(r.ctx, [def |-> r.def, linked |-> r.linked])]

LEMMA PushContextMoves ==
  ASSUME NEW S, Shape(S), NEW f \in Table \ {"Global"}, S.rec[f].here,
         NEW T, T = PushContext(S, f)
  PROVE  /\ Shape(T) /\ T.heap = S.heap /\ \A u \in Table \ {f} : T.rec[u] = S.rec[u]
         /\ Moved(S, T, f, 0, Len(S.rec[f].ctx) + 1) /\ T.rec[f].here
         /\ Len(T.rec[f].ctx) = Len(S.rec[f].ctx) + 1
         /\ \A k \in 1 .. Len(S.rec[f].ctx) : T.rec[f].ctx[k] = S.rec[f].ctx[k]
<1>1. /\ S.rec[f].ctx \in Seq(Link) /\ Len(S.rec[f].ctx) \in Nat
      /\ S.rec[f].def \in Cell \cup {Nil} /\ S.rec[f].linked \in BOOLEAN
      /\ 0 \in Slots(S, f)
  BY ShapeFacts
<1>2. PICK e : e = [def |-> S.rec[f].def, linked |-> S.rec[f].linked]
  OBVIOUS
<1>3. e \in Link /\ e.def = S.rec[f].def /\ e.linked = S.rec[f].linked
  BY <1>1, <1>2 DEF Link
<1>4. PICK c : c = Append(S.rec[f].ctx, e)
  OBVIOUS
<1>5. c \in Seq(Link) /\ Len(c) = Len(S.rec[f].ctx) + 1 /\ c[Len(S.rec[f].ctx) + 1] = e
      /\ \A k \in 1 .. Len(S.rec[f].ctx) : c[k] = S.rec[f].ctx[k]
  BY <1>1, <1>3, <1>4
<1>6. PICK r : r = [here |-> TRUE, def |-> Nil, linked |-> FALSE, ctx |-> c]
  OBVIOUS
<1>7. r \in Record /\ r.here /\ r.def = Nil /\ ~ r.linked /\ r.ctx = c
  BY <1>5, <1>6 DEF Record
<1>8. GetsRecord(S, T, f, r)
  BY <1>2, <1>4, <1>6 DEF PushContext, GetsRecord
<1>9. Shape(T) /\ T.heap = S.heap /\ T.rec[f] = r
      /\ \A u \in Table \ {f} : T.rec[u] = S.rec[u]
  BY <1>7, <1>8, RecordSet
<1>10. Moved(S, T, f, 0, Len(S.rec[f].ctx) + 1)
  <2>1. PICK n : n = Len(S.rec[f].ctx)
    OBVIOUS
  <2>2. n \in Nat /\ n + 1 # 0 /\ n + 1 \in 0 .. n + 1
    BY <1>1, <2>1
  <2>3. n + 1 \in Slots(T, f)
    BY <1>5, <1>7, <1>9, <2>1, <2>2 DEF Slots
  <2>4. At(T, f, n + 1) = At(S, f, 0) /\ ToGlobal(T, f, n + 1) = ToGlobal(S, f, 0)
    BY <1>3, <1>5, <1>7, <1>9, <2>1, <2>2 DEF At, ToGlobal
  <2>5. ASSUME NEW i \in Slots(T, f) \ {n + 1}
        PROVE  \/ At(T, f, i) = Nil /\ ~ ToGlobal(T, f, i)
               \/ /\ i \in Slots(S, f) \ {0}
                  /\ At(T, f, i) = At(S, f, i) /\ ToGlobal(T, f, i) = ToGlobal(S, f, i)
    <3>1. CASE i = 0
      BY <1>7, <1>9, <3>1 DEF At, ToGlobal
    <3>2. CASE i # 0
      <4>1. i \in 0 .. n + 1
        BY <1>5, <1>7, <1>9, <2>1 DEF Slots
      <4>2. i \in 1 .. n
        BY <2>2, <2>5, <3>2, <4>1
      <4>3. T.rec[f].ctx[i] = S.rec[f].ctx[i]
        BY <1>5, <1>7, <1>9, <2>1, <4>2
      <4>4. i \in Slots(S, f)
        BY <2>1, <2>2, <4>2 DEF Slots
      <4> QED
        BY <3>2, <4>3, <4>4 DEF At, ToGlobal
    <3> QED
      BY <3>1, <3>2
  <2> QED
    BY <1>1, <1>9, <2>1, <2>3, <2>4, <2>5 DEF Moved
<1> QED
  BY <1>5, <1>7, <1>9, <1>10

\* What a push leaves: all as it was, or the record in slot n + 1.
PushedTo(S, T, A, f) ==
  /\ Good(T) /\ T.heap = S.heap /\ \A u \in Table \ {f} : T.rec[u] = S.rec[u]
  /\ T.rec["Global"] = S.rec["Global"] /\ TypeOf(T, "Global") = TypeOf(S, "Global")
  /\ \A k \in 1 .. Len(S.rec[f].ctx) : T.rec[f].ctx[k] = S.rec[f].ctx[k]
  /\ T.rec[f].here <=> S.rec[f].here
  /\ IF Runs(A, f) /\ S.rec[f].here
     THEN /\ Len(T.rec[f].ctx) = Len(S.rec[f].ctx) + 1
          /\ At(T, f, Len(S.rec[f].ctx) + 1) = At(S, f, 0)
          /\ ToGlobal(T, f, Len(S.rec[f].ctx) + 1) = ToGlobal(S, f, 0)
     ELSE T = S

LEMMA AfterPushFacts ==
  ASSUME NEW S, NEW A, Good(S), NEW f \in Fn, NEW T, T = AfterPush(S, A, f)
  PROVE  PushedTo(S, T, A, f)
<1>1. Shape(S) /\ Sound(S) /\ f \in Table \ {"Global"} /\ "Global" \in Table
  BY ScopeAssumption, ShapeFacts DEF Good, Sound, Table, Fn
<1>2. CASE Runs(A, f) /\ S.rec[f].here
  <2>1. T = PushContext(S, f)
    BY <1>2 DEF AfterPush
  <2>2. /\ Shape(T) /\ T.heap = S.heap /\ \A u \in Table \ {f} : T.rec[u] = S.rec[u]
        /\ Moved(S, T, f, 0, Len(S.rec[f].ctx) + 1) /\ T.rec[f].here
        /\ Len(T.rec[f].ctx) = Len(S.rec[f].ctx) + 1
        /\ \A k \in 1 .. Len(S.rec[f].ctx) : T.rec[f].ctx[k] = S.rec[f].ctx[k]
    BY <1>1, <1>2, <2>1, PushContextMoves
  <2>3. PICK n : n = Len(S.rec[f].ctx) + 1
    OBVIOUS
  <2>4. Moved(S, T, f, 0, n)
    BY <2>2, <2>3
  <2>5. Sound(T) /\ (FnGlobal(S) => FnGlobal(T))
        /\ T.rec["Global"] = S.rec["Global"] /\ TypeOf(T, "Global") = TypeOf(S, "Global")
    BY <1>1, <2>2, <2>4, MovedKeeps
  <2>6. Good(T)
    BY <2>5 DEF Good
  <2>7. At(T, f, n) = At(S, f, 0) /\ ToGlobal(T, f, n) = ToGlobal(S, f, 0)
    BY <2>4 DEF Moved
  <2> QED
    BY <1>2, <2>2, <2>3, <2>5, <2>6, <2>7 DEF PushedTo
<1>3. CASE ~ (Runs(A, f) /\ S.rec[f].here)
  <2>1. T = S
    BY <1>3 DEF AfterPush, PushContext
  <2> QED
    BY <1>3, <2>1 DEF PushedTo
<1> QED
  BY <1>2, <1>3

\* The place of the activation that was the last one of f, and of the new one.
PlaceOfCall(S, A, f, m) ==
  [i \in 1 .. Len(A) + 1 |->
     IF i = Len(A) + 1 THEN 0
     ELSE IF A[i].t = f /\ m[i] = 0
          THEN IF S.rec[f].here THEN Len(S.rec[f].ctx) + 1 ELSE -1
          ELSE m[i]]

LEMMA CalledPlaced ==
  ASSUME NEW S, NEW A, NEW m, Shape(S), Acts(A), Placed(S, A, m), Absent(S, A), NEW f \in Fn,
         NEW T, Good(T), \A u \in Table \ {f} : T.rec[u] = S.rec[u],
         IF Runs(A, f) /\ S.rec[f].here
         THEN Len(T.rec[f].ctx) = Len(S.rec[f].ctx) + 1 ELSE T = S,
         NEW m2, m2 = PlaceOfCall(S, A, f, m), NEW B, B = Called(A, f)
  PROVE  Placed(T, B, m2)
<1> DEFINE N == Len(S.rec[f].ctx)
<1>1. /\ Len(A) \in Nat \ {0} /\ N \in Nat /\ f \in Table
      /\ \A i \in 1 .. Len(A) : A[i].t \in Table
  BY ActsFacts, ShapeFacts DEF Table, Fn
<1>2. /\ Acts(B) /\ Len(B) = Len(A) + 1 /\ B[Len(A) + 1].t = f
      /\ \A i \in 1 .. Len(A) : B[i] = A[i]
  BY ONLY Acts(A), f \in Fn, B = Called(A, f), CalledActs
<1>3. /\ m2[Len(A) + 1] = 0
      /\ \A i \in 1 .. Len(A) :
           m2[i] = IF A[i].t = f /\ m[i] = 0 THEN IF S.rec[f].here THEN N + 1 ELSE -1
                   ELSE m[i]
  BY <1>1 DEF PlaceOfCall
<1>4. \A i \in 1 .. Len(A) : m[i] \in Int /\ (m[i] = 0 <=> Last(A, i))
        /\ (m[i] # 0 => m[i] = -1 \/ m[i] \in 1 .. Len(S.rec[A[i].t].ctx))
  <2>1. SUFFICES ASSUME NEW i \in 1 .. Len(A)
                 PROVE  m[i] \in Int /\ (m[i] = 0 <=> Last(A, i))
                        /\ (m[i] # 0 => m[i] = -1 \/ m[i] \in 1 .. Len(S.rec[A[i].t].ctx))
    OBVIOUS
  <2>2. m[i] \in Int /\ (m[i] = 0 <=> Last(A, i))
    <3>1. m \in [1 .. Len(A) -> Int]
          /\ IF Last(A, i) THEN m[i] = 0
             ELSE m[i] = -1 \/ m[i] \in 1 .. Len(S.rec[A[i].t].ctx)
      BY <2>1 DEF Placed
    <3> QED
      BY <2>1, <3>1
  <2> QED
    BY <2>1, <2>2 DEF Placed
<1>5. \A i \in 1 .. Len(A) : A[i].t = f => Runs(A, f)
  BY DEF Runs
<1>6. ~ S.rec[f].here => N = 0
  <2>1. ~ S.rec[f].here => S.rec[f].ctx = <<>>
    BY <1>1 DEF Absent
  <2> QED
    BY <2>1
<1>7. m2 \in [1 .. Len(B) -> Int]
  <2>1. m2 = [i \in 1 .. Len(B) |-> m2[i]]
    BY <1>2 DEF PlaceOfCall
  <2>2. \A i \in 1 .. Len(B) : i = Len(A) + 1 \/ i \in 1 .. Len(A)
    BY <1>1, <1>2
  <2>3. \A i \in 1 .. Len(B) : m2[i] \in Int
    BY <1>1, <1>3, <1>4, <2>2
  <2> QED
    BY <2>1, <2>3
<1>8. \A u \in Table : 1 .. Len(S.rec[u].ctx) \subseteq 1 .. Len(T.rec[u].ctx)
  <2>1. SUFFICES ASSUME NEW u \in Table
                 PROVE  1 .. Len(S.rec[u].ctx) \subseteq 1 .. Len(T.rec[u].ctx)
    OBVIOUS
  <2>2. CASE u = f
    BY <1>1, <2>2
  <2>3. CASE u # f
    BY <2>3
  <2> QED
    BY <2>2, <2>3
<1>9. ASSUME NEW i \in 1 .. Len(B)
      PROVE  IF Last(B, i) THEN m2[i] = 0
             ELSE m2[i] = -1 \/ m2[i] \in 1 .. Len(T.rec[B[i].t].ctx)
  <2>1. CASE i = Len(A) + 1
    <3>1. Last(B, i)
      BY <1>1, <1>2, <2>1 DEF Last
    <3> QED
      BY <1>3, <2>1, <3>1
  <2>2. CASE i # Len(A) + 1
    <3>1. i \in 1 .. Len(A)
      BY <1>1, <1>2, <2>2
    <3>2. Last(B, i) <=> Last(A, i) /\ A[i].t # f
      <4>1. Len(A) + 1 \in i + 1 .. Len(B) /\ i + 1 .. Len(A) \subseteq i + 1 .. Len(B)
            /\ i + 1 .. Len(A) \subseteq 1 .. Len(A)
        BY <1>1, <1>2, <3>1
      <4>2. \A j \in i + 1 .. Len(B) : j = Len(A) + 1 \/ j \in i + 1 .. Len(A)
        <5>1. i \in Nat /\ Len(A) \in Nat /\ Len(B) = Len(A) + 1
          BY <1>1, <1>2, <3>1
        <5> QED
          BY ONLY <5>1
      <4> QED
        BY <1>2, <3>1, <4>1, <4>2 DEF Last
    <3>3. B[i].t = A[i].t /\ A[i].t \in Table
      BY <1>1, <1>2, <3>1
    <3>4. CASE A[i].t = f /\ m[i] = 0
      <4>1. m2[i] = IF S.rec[f].here THEN N + 1 ELSE -1
        BY <1>3, <3>1, <3>4
      <4>2. S.rec[f].here => N + 1 \in 1 .. Len(T.rec[f].ctx)
        BY <1>1, <1>5, <3>1, <3>4
      <4> QED
        BY <3>2, <3>3, <3>4, <4>1, <4>2
    <3>5. CASE ~ (A[i].t = f /\ m[i] = 0)
      <4>1. m2[i] = m[i] /\ (m[i] = 0 <=> Last(A, i))
            /\ (m[i] # 0 => m[i] = -1 \/ m[i] \in 1 .. Len(S.rec[A[i].t].ctx))
        BY <1>3, <1>4, <3>1, <3>5
      <4>2. 1 .. Len(S.rec[A[i].t].ctx) \subseteq 1 .. Len(T.rec[A[i].t].ctx)
        BY <1>8, <3>3
      <4> QED
        BY <3>2, <3>3, <3>5, <4>1, <4>2
    <3> QED
      BY <3>4, <3>5
  <2> QED
    BY <2>1, <2>2
<1>10. ASSUME NEW i \in 1 .. Len(B), NEW j \in 1 .. Len(B),
              i < j, B[i].t = B[j].t, m2[i] > 0
       PROVE  m2[j] = 0 \/ m2[i] < m2[j]
  <2>1. CASE j = Len(A) + 1
    BY <1>3, <2>1
  <2>2. CASE j # Len(A) + 1
    <3>1. i \in 1 .. Len(A) /\ j \in 1 .. Len(A) /\ j \in i + 1 .. Len(A)
      BY <1>1, <1>2, <1>10, <2>2
    <3>2. A[i].t = A[j].t
      BY <1>2, <1>10, <3>1
    <3>3. m[i] # 0
      BY <1>4, <3>1, <3>2 DEF Last
    <3>4. m2[i] = m[i] /\ m[i] > 0
      BY <1>3, <1>10, <3>1, <3>3
    <3>5. m[j] = 0 \/ m[i] < m[j]
      BY <1>10, <3>1, <3>2, <3>4 DEF Placed
    <3>6. CASE A[j].t = f /\ m[j] = 0
      <4>1. m[i] \in 1 .. N
        <5>1. m[i] \in 1 .. Len(S.rec[A[i].t].ctx)
          BY <1>4, <3>1, <3>3, <3>4
        <5>2. A[i].t = f
          BY <3>2, <3>6
        <5> QED
          BY <5>1, <5>2
      <4>2. S.rec[f].here
        BY <1>6, <4>1
      <4>3. m2[j] = N + 1
        BY <1>3, <3>1, <3>6, <4>2
      <4> QED
        BY <1>1, <3>4, <4>1, <4>3
    <3>7. CASE ~ (A[j].t = f /\ m[j] = 0)
      BY <1>3, <3>1, <3>4, <3>5, <3>7
    <3> QED
      BY <3>6, <3>7
  <2> QED
    BY <2>1, <2>2
<1>11. ASSUME NEW u \in Table, NEW k \in 1 .. Len(T.rec[u].ctx)
       PROVE  \E i \in 1 .. Len(B) : B[i].t = u /\ m2[i] = k
  <2>1. CASE k \in 1 .. Len(S.rec[u].ctx)
    <3>1. PICK i \in 1 .. Len(A) : A[i].t = u /\ m[i] = k
      BY <2>1 DEF Placed
    <3>2. i \in 1 .. Len(B) /\ B[i].t = u
      BY <1>1, <1>2, <3>1
    <3>3. m[i] # 0
      BY <2>1, <3>1
    <3>4. m2[i] = k
      BY <1>3, <3>1, <3>3
    <3> QED
      BY <3>2, <3>4
  <2>2. CASE k \notin 1 .. Len(S.rec[u].ctx)
    <3>1. u = f /\ Runs(A, f) /\ S.rec[f].here
      BY <2>2
    <3>2. k = N + 1
      BY <1>1, <2>2, <3>1
    <3>3. \E i \in 1 .. Len(A) : A[i].t = f
      BY <3>1 DEF Runs
    <3>4. PICK i \in 1 .. Len(A) : A[i].t = f /\ \A j \in i + 1 .. Len(A) : A[j].t # f
      <4>1. PICK n \in Nat : n = Len(A)
        BY <1>1
      <4>2. \E i \in 1 .. n : A[i].t = f /\ \A j \in i + 1 .. n : A[j].t # f
        <5>1. RunsUpTo(A, n, f)
          BY <3>3, <4>1 DEF RunsUpTo
        <5> QED
          BY <5>1, LastOf
      <4> QED
        BY <4>1, <4>2
    <3>5. m[i] = 0
      BY <1>4, <3>4 DEF Last
    <3>6. m2[i] = k /\ B[i].t = u /\ i \in 1 .. Len(B)
      BY <1>1, <1>2, <1>3, <3>1, <3>2, <3>4, <3>5
    <3> QED
      BY <3>6
  <2> QED
    BY <2>1, <2>2
<1> QED
  BY <1>7, <1>9, <1>10, <1>11 DEF Placed

LEMMA CalledScoped ==
  ASSUME NEW S, NEW A, Scoped(S, A), NEW f \in Fn, f \in Self => TypeOf(S, "Global") = "ufn",
         NEW T, T = AfterPush(S, A, f), NEW B, B = Called(A, f)
  PROVE  /\ Scoped(T, B) /\ T.heap = S.heap /\ TypeOf(T, "Global") = TypeOf(S, "Global")
         /\ T.rec["Global"] = S.rec["Global"]
<1> DEFINE N == Len(S.rec[f].ctx)
<1>1. Good(S) /\ Shape(S) /\ Acts(A) /\ Absent(S, A)
  BY DEF Scoped, Good, Sound
<1>16. PushedTo(S, T, A, f)
  BY <1>1, AfterPushFacts
<1>2. /\ Good(T) /\ T.heap = S.heap /\ \A u \in Table \ {f} : T.rec[u] = S.rec[u]
      /\ T.rec["Global"] = S.rec["Global"] /\ TypeOf(T, "Global") = TypeOf(S, "Global")
  BY <1>16 DEF PushedTo
<1>3. /\ \A k \in 1 .. N : T.rec[f].ctx[k] = S.rec[f].ctx[k]
      /\ T.rec[f].here <=> S.rec[f].here
      /\ IF Runs(A, f) /\ S.rec[f].here
         THEN /\ Len(T.rec[f].ctx) = N + 1
              /\ At(T, f, N + 1) = At(S, f, 0) /\ ToGlobal(T, f, N + 1) = ToGlobal(S, f, 0)
         ELSE T = S
  BY <1>16 DEF PushedTo
<1>4. PICK m \in [1 .. Len(A) -> Int] : Placed(S, A, m) /\ Owned(S, A, m)
  BY DEF Scoped
<1>5. PICK m2 : m2 = PlaceOfCall(S, A, f, m)
  OBVIOUS
<1>6. Placed(T, B, m2)
  BY <1>1, <1>2, <1>3, <1>4, <1>5, CalledPlaced
<1>7. /\ Acts(B) /\ Len(B) = Len(A) + 1 /\ B[Len(A) + 1].t = f /\ B[Len(A) + 1].own = NoValue
      /\ \A i \in 1 .. Len(A) : B[i] = A[i]
  BY <1>1, CalledActs
<1>8. \A u : Runs(B, u) <=> Runs(A, u) \/ u = f
  BY <1>1, CalledActs
<1>9. Len(A) \in Nat \ {0} /\ N \in Nat /\ f \in Table \ {"Global"}
      /\ \A i \in 1 .. Len(A) : A[i].t \in Table
  <2>1. Len(A) \in Nat \ {0} /\ \A i \in 1 .. Len(A) : A[i].t \in Table
    BY <1>1, ActsFacts
  <2>2. N \in Nat /\ f \in Table \ {"Global"}
    BY <1>1, ShapeFacts, ScopeAssumption DEF Table, Fn
  <2> QED
    BY <2>1, <2>2
<1>10. Owned(T, B, m2)
  <2>1. SUFFICES ASSUME NEW i \in 1 .. Len(B), B[i].own # NoValue
                 PROVE  m2[i] >= 0 /\ OwnOK(T, B[i].own, B[i].t, m2[i])
    BY DEF Owned
  <2>2. i \in 1 .. Len(A) /\ i # Len(A) + 1
    BY <1>7, <1>9, <2>1
  <2>3. B[i] = A[i] /\ A[i].own # NoValue
    BY <1>7, <2>1, <2>2
  <2>4. m[i] >= 0 /\ OwnOK(S, A[i].own, A[i].t, m[i])
    BY <1>4, <2>2, <2>3 DEF Owned
  <2>5. m[i] \in Int /\ m[i] \in Slots(S, A[i].t)
    <3>1. m[i] \in Int /\ (m[i] = -1 \/ m[i] \in Slots(S, A[i].t))
      BY <1>4, <2>2, PlacedFacts
    <3> QED
      BY <2>4, <3>1
  <2>6. m2[i] = IF A[i].t = f /\ m[i] = 0 THEN IF S.rec[f].here THEN N + 1 ELSE -1
                ELSE m[i]
    BY <1>5, <1>9, <2>2 DEF PlaceOfCall
  <2>7. DefOf(T, "Global") = DefOf(S, "Global")
    BY <1>2 DEF DefOf
  <2>8. CASE A[i].t = f /\ m[i] = 0
    <3>1. S.rec[f].here /\ Runs(A, f)
      BY <1>1, <1>9, <2>2, <2>3, <2>8 DEF Absent, Runs
    <3>2. m2[i] = N + 1
      BY <2>6, <2>8, <3>1
    <3>3. At(T, f, N + 1) = At(S, f, 0) /\ ToGlobal(T, f, N + 1) = ToGlobal(S, f, 0)
      BY <1>3, <3>1
    <3>4. OwnOK(S, A[i].own, f, 0)
      BY <2>4, <2>8
    <3>5. OwnOK(T, A[i].own, f, N + 1)
      BY <1>2, <2>7, <3>3, <3>4, OwnMoved
    <3> QED
      BY <1>9, <2>3, <2>8, <3>2, <3>5
  <2>9. CASE ~ (A[i].t = f /\ m[i] = 0)
    <3>1. m2[i] = m[i]
      BY <2>6, <2>9
    <3>2. At(T, A[i].t, m[i]) = At(S, A[i].t, m[i])
          /\ ToGlobal(T, A[i].t, m[i]) = ToGlobal(S, A[i].t, m[i])
      <4>1. CASE A[i].t = f
        <5>1. m[i] # 0 /\ m[i] \in 1 .. N
          BY <1>9, <2>4, <2>5, <2>9, <4>1 DEF Slots
        <5>2. T.rec[f].ctx[m[i]] = S.rec[f].ctx[m[i]]
          BY <1>3, <5>1
        <5> QED
          BY <4>1, <5>1, <5>2 DEF At, ToGlobal
      <4>2. CASE A[i].t # f
        <5>1. T.rec[A[i].t] = S.rec[A[i].t]
          BY <1>2, <1>9, <2>2, <4>2
        <5> QED
          BY <5>1 DEF At, ToGlobal
      <4> QED
        BY <4>1, <4>2
    <3>3. OwnOK(T, A[i].own, A[i].t, m[i])
      BY <1>2, <2>4, <2>7, <3>2, OwnMoved
    <3> QED
      BY <2>3, <2>4, <3>1, <3>3
  <2> QED
    BY <2>8, <2>9
<1>11. Absent(T, B)
  <2>1. SUFFICES ASSUME NEW u \in Table, ~ T.rec[u].here
                 PROVE  /\ T.rec[u].ctx = <<>>
                        /\ \A i \in 1 .. Len(B) : B[i].t = u => B[i].own = NoValue
    BY DEF Absent
  <2>2. ~ S.rec[u].here /\ T.rec[u] = S.rec[u]
    BY <1>2, <1>3, <2>1
  <2>3. /\ S.rec[u].ctx = <<>>
        /\ \A i \in 1 .. Len(A) : A[i].t = u => A[i].own = NoValue
    BY <1>1, <2>2 DEF Absent
  <2>4. \A i \in 1 .. Len(B) : i = Len(A) + 1 \/ i \in 1 .. Len(A)
    BY <1>7, <1>9
  <2> QED
    BY <1>7, <2>2, <2>3, <2>4
<1>12. Resting(T, B)
  <2>1. SUFFICES ASSUME NEW u \in Table \ {"Global"}, ~ Runs(B, u) PROVE TypeOf(T, u) # "ufn"
    BY DEF Resting
  <2>2. ~ Runs(A, u) /\ u # f
    BY <1>8, <2>1
  <2>3. TypeOf(S, u) # "ufn"
    BY <2>2 DEF Scoped, Resting
  <2>4. T.rec[u] = S.rec[u]
    BY <1>2, <2>2
  <2> QED
    BY <1>2, <2>3, <2>4 DEF TypeOf, DefOf
<1>13. SelfRuns(T, B)
  <2>1. SelfRuns(S, A)
    BY DEF Scoped
  <2> QED
    BY <1>2, <1>8, <2>1 DEF SelfRuns
<1>14. m2 \in [1 .. Len(B) -> Int]
  BY <1>6 DEF Placed
<1>15. Scoped(T, B)
  BY <1>2, <1>6, <1>7, <1>10, <1>11, <1>12, <1>13, <1>14 DEF Scoped
<1> QED
  BY <1>2, <1>15

\* The last part of pop_context.
Popped(S, f) ==
  LET n == Len(S.rec[f].ctx)
  IN [S EXCEPT !.rec[f] = [@ EXCEPT !.def = S.rec[f].ctx[n].def,
                                    !.linked = S.rec[f].ctx[n].linked,
                                    !.ctx = SubSeq(S.rec[f].ctx, 1, n - 1)]]

PoppedRecord(r, d, l, c) == [r EXCEPT !.def = d, !.linked = l, !.ctx = c]

PoppedTo(S, T, f) ==
  /\ Shape(T) /\ T.heap = S.heap /\ \A u \in Table \ {f} : T.rec[u] = S.rec[u]
  /\ T.rec[f].here <=> S.rec[f].here
  /\ Moved(S, T, f, Len(S.rec[f].ctx), 0)
  /\ Len(T.rec[f].ctx) = Len(S.rec[f].ctx) - 1
  /\ \A k \in 1 .. Len(S.rec[f].ctx) - 1 : T.rec[f].ctx[k] = S.rec[f].ctx[k]

LEMMA PoppedMoves ==
  ASSUME NEW S, Shape(S), NEW f \in Table \ {"Global"}, Len(S.rec[f].ctx) # 0,
         NEW T, T = Popped(S, f)
  PROVE  PoppedTo(S, T, f)
<1>1. /\ S.rec[f].ctx \in Seq(Link) /\ S.rec[f] \in Record
      /\ S.rec[f].ctx # <<>> /\ Len(S.rec[f].ctx) \in Nat
  BY ShapeFacts
<1>2. PICK n : n = Len(S.rec[f].ctx)
  OBVIOUS
<1>3. n \in Nat \ {0} /\ n \in 1 .. n
  BY <1>1, <1>2
<1>4. S.rec[f].ctx[n] \in Link
  BY <1>1, <1>2, <1>3
<1>5. PICK d : d = S.rec[f].ctx[n].def
  OBVIOUS
<1>6. PICK l \in BOOLEAN : l = S.rec[f].ctx[n].linked
  BY <1>4 DEF Link
<1>7. PICK c : c = SubSeq(S.rec[f].ctx, 1, n - 1)
  OBVIOUS
<1>8. c \in Seq(Link) /\ Len(c) = n - 1 /\ \A k \in 1 .. n - 1 : c[k] = S.rec[f].ctx[k]
  BY <1>1, <1>2, <1>3, <1>7
<1>9. d \in Cell \cup {Nil}
  BY <1>4, <1>5 DEF Link
<1>10. PICK r : r = PoppedRecord(S.rec[f], d, l, c)
  OBVIOUS
<1>11. r \in Record /\ r.def = d /\ (r.linked <=> l) /\ r.ctx = c /\ (r.here <=> S.rec[f].here)
  BY <1>1, <1>8, <1>9, <1>10, Zenon DEF PoppedRecord, Record
<1>12. GetsRecord(S, T, f, r)
  BY <1>2, <1>5, <1>6, <1>7, <1>10 DEF Popped, GetsRecord, PoppedRecord
<1>13. Shape(T) /\ T.heap = S.heap /\ T.rec[f] = r
       /\ \A u \in Table \ {f} : T.rec[u] = S.rec[u]
  BY <1>11, <1>12, RecordSet
<1>14. n \in Slots(S, f) /\ 0 \in Slots(T, f)
  BY <1>2, <1>3, <1>13, ShapeFacts DEF Slots
<1>15. At(T, f, 0) = At(S, f, n)
  BY <1>3, <1>5, <1>11, <1>13 DEF At
<1>16. ToGlobal(T, f, 0) = ToGlobal(S, f, n)
  <2>1. r \in Record /\ r.linked \in BOOLEAN
    BY <1>11 DEF Record
  <2>2. r.linked = l
    BY <1>11, <2>1
  <2> QED
    BY <1>3, <1>6, <1>13, <2>2 DEF ToGlobal
<1>17. ASSUME NEW i \in Slots(T, f) \ {0}
       PROVE  /\ i \in Slots(S, f) \ {n}
              /\ At(T, f, i) = At(S, f, i) /\ ToGlobal(T, f, i) = ToGlobal(S, f, i)
  <2>1. i \in 1 .. n - 1
    BY <1>3, <1>8, <1>11, <1>13, <1>17 DEF Slots
  <2>2. i \in Slots(S, f) \ {n} /\ i # 0
    BY <1>2, <1>3, <2>1 DEF Slots
  <2>3. T.rec[f].ctx[i] = S.rec[f].ctx[i]
    BY <1>8, <1>11, <1>13, <2>1
  <2> QED
    BY <2>2, <2>3 DEF At, ToGlobal
<1>18. Moved(S, T, f, n, 0)
  BY <1>13, <1>14, <1>15, <1>16, <1>17 DEF Moved
<1> QED
  BY <1>2, <1>8, <1>11, <1>13, <1>18 DEF PoppedTo

\* The place, in the callers, of the one that is the last activation of f now.
PlaceOfReturn(A, B, f, m) ==
  [i \in 1 .. Len(B) |-> IF A[i].t = f /\ Last(B, i) THEN 0 ELSE m[i]]

Returned(A) == SubSeq(A, 1, Len(A) - 1)

LEMMA ReturnedActs ==
  ASSUME NEW A, Acts(A), Len(A) > 1, NEW B, B = Returned(A)
  PROVE  /\ Acts(B) /\ Len(B) = Len(A) - 1 /\ Len(A) \in Nat
         /\ \A i \in 1 .. Len(B) : B[i] = A[i] /\ i \in 1 .. Len(A) /\ i # Len(A)
         /\ \A i \in 1 .. Len(A) : i = Len(A) \/ i \in 1 .. Len(B)
         /\ Last(A, Len(A)) /\ Len(A) \in 1 .. Len(A)
         /\ A[Len(A)].t \in Fn
<1>1. A \in Seq(Activation) /\ Len(A) \in Nat \ {0}
  BY ActsFacts
<1>2. PICK n \in Nat : n = Len(A)
  BY <1>1
<1>3. B = SubSeq(A, 1, n - 1) /\ n > 1
  BY <1>2 DEF Returned
<1>4. B \in Seq(Activation) /\ Len(B) = n - 1 /\ \A i \in 1 .. n - 1 : B[i] = A[i]
  BY <1>1, <1>2, <1>3
<1>5. B # <<>> /\ B[1].t = "Top"
  BY <1>3, <1>4 DEF Acts
<1>6. \A i \in 2 .. Len(B) : B[i].t \in Fn
  <2>1. SUFFICES ASSUME NEW i \in 2 .. Len(B) PROVE B[i].t \in Fn
    OBVIOUS
  <2>2. i \in 2 .. Len(A) /\ B[i] = A[i]
    BY <1>2, <1>3, <1>4, <2>1
  <2> QED
    BY <2>2 DEF Acts
<1>7. Acts(B)
  BY <1>4, <1>5, <1>6 DEF Acts
<1>8. Last(A, Len(A))
  BY <1>2 DEF Last
<1>9. Len(A) \in 2 .. Len(A)
  BY <1>2, <1>3
<1>10. A[Len(A)].t \in Fn
  BY <1>9 DEF Acts
<1> QED
  BY <1>2, <1>3, <1>4, <1>7, <1>8, <1>10

LEMMA LastBefore ==
  ASSUME NEW A, Acts(A), Len(A) > 1, NEW B, B = Returned(A), NEW i \in 1 .. Len(B)
  PROVE  Last(A, i) <=> Last(B, i) /\ A[i].t # A[Len(A)].t
<1>1. /\ Len(B) = Len(A) - 1 /\ Len(A) \in Nat
      /\ \A j \in 1 .. Len(B) : B[j] = A[j] /\ j \in 1 .. Len(A) /\ j # Len(A)
  BY ReturnedActs
<1>2. /\ Len(A) \in i + 1 .. Len(A) /\ i + 1 .. Len(B) \subseteq i + 1 .. Len(A)
      /\ i + 1 .. Len(B) \subseteq 1 .. Len(B)
  BY <1>1
<1>3. \A j \in i + 1 .. Len(A) : j = Len(A) \/ j \in i + 1 .. Len(B)
  BY <1>1
<1> QED
  BY <1>1, <1>2, <1>3 DEF Last

\* Whoever has been in the last slot is the last activation of f now.
LEMMA LastSlot ==
  ASSUME NEW S, NEW A, NEW m, Acts(A), Placed(S, A, m), Len(A) > 1, NEW f, f = A[Len(A)].t,
         Shape(S), NEW B, B = Returned(A), NEW i \in 1 .. Len(B), A[i].t = f,
         Len(S.rec[f].ctx) # 0, m[i] \in 1 .. Len(S.rec[f].ctx)
  PROVE  Last(B, i) <=> m[i] = Len(S.rec[f].ctx)
<1>1. /\ Len(B) = Len(A) - 1 /\ Len(A) \in Nat
      /\ \A j \in 1 .. Len(B) : B[j] = A[j] /\ j \in 1 .. Len(A) /\ j # Len(A)
      /\ \A j \in 1 .. Len(A) : j = Len(A) \/ j \in 1 .. Len(B)
      /\ Last(A, Len(A)) /\ Len(A) \in 1 .. Len(A) /\ f \in Fn
  BY ReturnedActs
<1>2. PICK K \in Nat : K = Len(S.rec[f].ctx) /\ K # 0
  <2>1. f \in Table
    BY <1>1 DEF Table
  <2> QED
    BY <2>1, ShapeFacts
<1>3. ASSUME NEW j \in 1 .. Len(B), A[j].t = f
      PROVE  m[j] \in Int /\ m[j] # 0 /\ (m[j] = -1 \/ m[j] \in 1 .. K)
  <2>1. ~ Last(A, j)
    BY <1>3, LastBefore
  <2>2. j \in 1 .. Len(A)
    BY <1>1
  <2>3. m[j] \in Int /\ (IF Last(A, j) THEN m[j] = 0
                         ELSE m[j] = -1 \/ m[j] \in 1 .. Len(S.rec[A[j].t].ctx))
    BY <2>2 DEF Placed
  <2> QED
    BY <1>2, <1>3, <2>1, <2>3
<1>4. \A a, b \in 1 .. Len(B) : a < b /\ A[a].t = f /\ A[b].t = f /\ m[a] > 0 => m[a] < m[b]
  <2>1. SUFFICES ASSUME NEW a \in 1 .. Len(B), NEW b \in 1 .. Len(B), a < b,
                        A[a].t = f, A[b].t = f, m[a] > 0
                 PROVE  m[a] < m[b]
    OBVIOUS
  <2>2. a \in 1 .. Len(A) /\ b \in 1 .. Len(A)
    BY <1>1
  <2>3. m[b] = 0 \/ m[a] < m[b]
    BY <2>1, <2>2 DEF Placed
  <2> QED
    BY <1>3, <2>1, <2>3
<1>5. ASSUME m[i] = K PROVE Last(B, i)
  <2>1. SUFFICES ASSUME NEW j \in i + 1 .. Len(B), A[j].t = f PROVE FALSE
    BY <1>1 DEF Last
  <2>2. j \in 1 .. Len(B) /\ i < j
    BY <1>1
  <2>3. m[i] < m[j] /\ m[j] \in Int /\ (m[j] = -1 \/ m[j] \in 1 .. K)
    BY <1>2, <1>3, <1>4, <1>5, <2>1, <2>2
  <2> QED
    BY <1>2, <1>5, <2>3
<1>6. ASSUME Last(B, i) PROVE m[i] = K
  <2>1. f \in Table /\ K \in 1 .. Len(S.rec[f].ctx)
    BY <1>1, <1>2 DEF Table
  <2>2. PICK j \in 1 .. Len(A) : A[j].t = f /\ m[j] = K
    BY <2>1 DEF Placed
  <2>3. m[Len(A)] = 0
    BY <1>1 DEF Placed
  <2>4. j \in 1 .. Len(B)
    BY <1>1, <1>2, <2>2, <2>3
  <2>5. ~ (j > i)
    <3>1. j > i => j \in i + 1 .. Len(B)
      BY <1>1, <2>4
    <3> QED
      BY <1>1, <1>6, <2>2, <2>4, <3>1 DEF Last
  <2>6. ~ (j < i)
    <3>1. j < i => K < m[i]
      BY <1>2, <1>4, <2>2, <2>4
    <3> QED
      BY <1>2, <3>1
  <2> QED
    BY <2>2, <2>4, <2>5, <2>6
<1> QED
  BY <1>2, <1>5, <1>6

\* f is the function that returns; T is the store with the record popped.
LEMMA ReturnedPlaced ==
  ASSUME NEW S, NEW A, NEW m, Shape(S), Acts(A), Placed(S, A, m), Len(A) > 1,
         NEW f, f = A[Len(A)].t, NEW B, B = Returned(A), NEW T,
         \A u \in Table \ {f} : T.rec[u] = S.rec[u],
         IF Runs(B, f) /\ Len(S.rec[f].ctx) # 0
         THEN Len(T.rec[f].ctx) = Len(S.rec[f].ctx) - 1 ELSE T = S,
         NEW m2, m2 = PlaceOfReturn(A, B, f, m)
  PROVE  Placed(T, B, m2)
<1> DEFINE K == Len(S.rec[f].ctx)
<1>1. /\ Acts(B) /\ Len(B) = Len(A) - 1 /\ Len(A) \in Nat
      /\ \A i \in 1 .. Len(B) : B[i] = A[i] /\ i \in 1 .. Len(A) /\ i # Len(A)
      /\ \A i \in 1 .. Len(A) : i = Len(A) \/ i \in 1 .. Len(B)
      /\ Last(A, Len(A)) /\ Len(A) \in 1 .. Len(A) /\ f \in Fn
  BY ReturnedActs
<1>2. f \in Table /\ K \in Nat
  <2>1. f \in Table
    BY <1>1 DEF Table
  <2> QED
    BY <2>1, ShapeFacts
<1>3. \A i \in 1 .. Len(B) : Last(A, i) <=> Last(B, i) /\ A[i].t # f
  BY LastBefore
<1>4. \A i \in 1 .. Len(B) : m2[i] = IF A[i].t = f /\ Last(B, i) THEN 0 ELSE m[i]
  BY DEF PlaceOfReturn
<1>5. \A i \in 1 .. Len(B) :
        /\ m[i] \in Int
        /\ IF Last(A, i) THEN m[i] = 0 ELSE m[i] = -1 \/ m[i] \in 1 .. Len(S.rec[A[i].t].ctx)
  <2>1. SUFFICES ASSUME NEW i \in 1 .. Len(B)
                 PROVE  /\ m[i] \in Int
                        /\ IF Last(A, i) THEN m[i] = 0
                           ELSE m[i] = -1 \/ m[i] \in 1 .. Len(S.rec[A[i].t].ctx)
    OBVIOUS
  <2>2. i \in 1 .. Len(A)
    BY <1>1, <2>1
  <2> QED
    BY <2>2 DEF Placed
<1>6. m[Len(A)] = 0
  BY <1>1 DEF Placed
<1>7. m2 \in [1 .. Len(B) -> Int]
  <2>1. m2 = [i \in 1 .. Len(B) |-> m2[i]]
    BY DEF PlaceOfReturn
  <2>2. \A i \in 1 .. Len(B) : m2[i] \in Int
    BY <1>4, <1>5
  <2> QED
    BY <2>1, <2>2
<1>8. \A i \in 1 .. Len(B) : A[i].t = f => Runs(B, f)
  BY <1>1 DEF Runs
\* The slots of f.
<1>9. ASSUME NEW i \in 1 .. Len(B), A[i].t = f
      PROVE  /\ m[i] # 0 /\ (m[i] = -1 \/ m[i] \in 1 .. K)
             /\ m[i] \in 1 .. K => (Last(B, i) <=> m[i] = K)
  <2>1. m[i] # 0 /\ (m[i] = -1 \/ m[i] \in 1 .. K)
    BY <1>3, <1>5, <1>9
  <2>2. ASSUME m[i] \in 1 .. K PROVE Last(B, i) <=> m[i] = K
    <3>1. Len(S.rec[f].ctx) # 0
      BY <1>2, <2>2
    <3> QED
      BY <1>9, <2>2, <3>1, LastSlot
  <2> QED
    BY <2>1, <2>2
<1>10. ASSUME NEW i \in 1 .. Len(B)
       PROVE  IF Last(B, i) THEN m2[i] = 0
              ELSE m2[i] = -1 \/ m2[i] \in 1 .. Len(T.rec[B[i].t].ctx)
  <2>1. B[i] = A[i] /\ A[i].t \in Table
    BY <1>1, ActsFacts
  <2>2. CASE A[i].t = f
    <3>1. CASE Last(B, i)
      BY <1>4, <2>2, <3>1
    <3>2. CASE ~ Last(B, i)
      <4>1. m2[i] = m[i] /\ (m[i] = -1 \/ (m[i] \in 1 .. K /\ m[i] # K))
        BY <1>4, <1>9, <2>2, <3>2
      <4>2. m[i] \in 1 .. K => Len(T.rec[f].ctx) = K - 1
        BY <1>2, <1>8, <2>2
      <4>3. PICK n \in Nat : n = K
        BY <1>2
      <4>4. m[i] = -1 \/ m[i] \in 1 .. n - 1
        BY <4>1, <4>3
      <4>5. m[i] = -1 \/ m[i] \in 1 .. Len(T.rec[f].ctx)
        BY <4>1, <4>2, <4>3, <4>4
      <4> QED
        BY <2>1, <2>2, <3>2, <4>1, <4>5
    <3> QED
      BY <3>1, <3>2
  <2>3. CASE A[i].t # f
    <3>1. m2[i] = m[i] /\ (Last(A, i) <=> Last(B, i))
      BY <1>3, <1>4, <2>3
    <3>2. T.rec[A[i].t] = S.rec[A[i].t]
      BY <2>1, <2>3
    <3> QED
      BY <1>5, <2>1, <3>1, <3>2
  <2> QED
    BY <2>2, <2>3
<1>11. ASSUME NEW i \in 1 .. Len(B), NEW j \in 1 .. Len(B),
              i < j, B[i].t = B[j].t, m2[i] > 0
       PROVE  m2[j] = 0 \/ m2[i] < m2[j]
  <2>1. A[i].t = A[j].t /\ i \in 1 .. Len(A) /\ j \in 1 .. Len(A)
    BY <1>1, <1>11
  <2>2. m2[i] = m[i]
    BY <1>4, <1>11
  <2>3. m[j] = 0 \/ m[i] < m[j]
    BY <1>11, <2>1, <2>2 DEF Placed
  <2>4. m2[j] = 0 \/ m2[j] = m[j]
    BY <1>4
  <2> QED
    BY <2>2, <2>3, <2>4
<1>12. ASSUME NEW u \in Table, NEW k \in 1 .. Len(T.rec[u].ctx)
       PROVE  \E i \in 1 .. Len(B) : B[i].t = u /\ m2[i] = k
  <2>1. k \in 1 .. Len(S.rec[u].ctx) /\ (u = f /\ Runs(B, f) => k # K)
    <3>1. CASE u = f /\ Runs(B, f) /\ K # 0
      <4>1. PICK n \in Nat : n = K /\ n # 0
        BY <1>2, <3>1
      <4>2. Len(T.rec[u].ctx) = n - 1
        BY <3>1, <4>1
      <4>3. k \in 1 .. n - 1
        BY <1>12, <4>2
      <4>4. k \in 1 .. n /\ k # n
        BY <4>1, <4>3
      <4> QED
        BY <3>1, <4>1, <4>4
    <3>2. CASE u = f /\ ~ (Runs(B, f) /\ K # 0)
      BY <1>2, <1>12, <3>2
    <3>3. CASE u # f
      BY <1>12, <3>3
    <3> QED
      BY <3>1, <3>2, <3>3
  <2>2. PICK i \in 1 .. Len(A) : A[i].t = u /\ m[i] = k
    BY <2>1 DEF Placed
  <2>3. i \in 1 .. Len(B) /\ B[i].t = u
    BY <1>1, <1>6, <2>1, <2>2
  <2>4. m2[i] = k
    <3>1. CASE u = f
      <4>1. Runs(B, f) /\ m[i] \in 1 .. K
        BY <1>8, <2>1, <2>2, <2>3, <3>1
      <4>2. ~ Last(B, i)
        BY <1>9, <2>1, <2>2, <2>3, <3>1, <4>1
      <4> QED
        BY <1>4, <2>2, <2>3, <4>2
    <3>2. CASE u # f
      BY <1>4, <2>2, <2>3, <3>2
    <3> QED
      BY <3>1, <3>2
  <2> QED
    BY <2>3, <2>4
<1> QED
  BY <1>7, <1>10, <1>11, <1>12 DEF Placed

ReturnedTo(S, B, f) == IF Runs(B, f) /\ Len(S.rec[f].ctx) # 0 THEN Popped(S, f) ELSE S

LEMMA ReturnedScoped ==
  ASSUME NEW S, NEW A, Scoped(S, A), Len(A) > 1, NEW f, f = A[Len(A)].t,
         NEW B, B = Returned(A), Runs(B, f) \/ TypeOf(S, f) # "ufn",
         NEW T, T = ReturnedTo(S, B, f)
  PROVE  Scoped(T, B)
<1> DEFINE K == Len(S.rec[f].ctx)
<1>1. Good(S) /\ Sound(S) /\ Shape(S) /\ Acts(A) /\ Absent(S, A)
  BY DEF Scoped, Good, Sound
<1>2. /\ Acts(B) /\ Len(B) = Len(A) - 1 /\ Len(A) \in Nat
      /\ \A i \in 1 .. Len(B) : B[i] = A[i] /\ i \in 1 .. Len(A) /\ i # Len(A)
      /\ \A i \in 1 .. Len(A) : i = Len(A) \/ i \in 1 .. Len(B)
      /\ Last(A, Len(A)) /\ Len(A) \in 1 .. Len(A) /\ f \in Fn
  BY <1>1, ReturnedActs
<1>3. f \in Table \ {"Global"} /\ K \in Nat /\ "Global" \in Table
  <2>1. f \in Table \ {"Global"}
    BY <1>2, ScopeAssumption DEF Table, Fn
  <2> QED
    BY <1>1, <2>1, ShapeFacts
<1>4. (Runs(B, f) /\ K # 0 /\ PoppedTo(S, T, f)) \/ (~ (Runs(B, f) /\ K # 0) /\ T = S)
  <2>1. CASE Runs(B, f) /\ K # 0
    <3>1. T = Popped(S, f)
      BY <2>1 DEF ReturnedTo
    <3> QED
      BY <1>1, <1>3, <2>1, <3>1, PoppedMoves
  <2>2. CASE ~ (Runs(B, f) /\ K # 0)
    BY <2>2 DEF ReturnedTo
  <2> QED
    BY <2>1, <2>2
<1>5. /\ Good(T) /\ T.heap = S.heap /\ T.rec["Global"] = S.rec["Global"]
      /\ TypeOf(T, "Global") = TypeOf(S, "Global")
      /\ \A u \in Table \ {f} : T.rec[u] = S.rec[u]
      /\ T.rec[f].here <=> S.rec[f].here
  <2>1. CASE Runs(B, f) /\ K # 0 /\ PoppedTo(S, T, f)
    <3>1. PICK n : n = K
      OBVIOUS
    <3>2. PICK z : z = 0
      OBVIOUS
    <3>3. /\ Shape(T) /\ T.heap = S.heap /\ \A u \in Table \ {f} : T.rec[u] = S.rec[u]
          /\ T.rec[f].here <=> S.rec[f].here
      BY <2>1 DEF PoppedTo
    <3>4. Moved(S, T, f, n, z)
      BY <2>1, <3>1, <3>2 DEF PoppedTo
    <3>5. Sound(T) /\ (FnGlobal(S) => FnGlobal(T))
          /\ T.rec["Global"] = S.rec["Global"] /\ TypeOf(T, "Global") = TypeOf(S, "Global")
      BY <1>1, <3>3, <3>4, MovedKeeps
    <3> QED
      BY <1>1, <3>3, <3>5 DEF Good
  <2>2. CASE T = S
    BY <1>1, <2>2
  <2> QED
    BY <1>4, <2>1, <2>2
<1>6. PICK m \in [1 .. Len(A) -> Int] : Placed(S, A, m) /\ Owned(S, A, m)
  BY DEF Scoped
<1>7. PICK m2 : m2 = PlaceOfReturn(A, B, f, m)
  OBVIOUS
<1>8. Placed(T, B, m2)
  <2>1. IF Runs(B, f) /\ Len(S.rec[f].ctx) # 0
        THEN Len(T.rec[f].ctx) = Len(S.rec[f].ctx) - 1 ELSE T = S
    BY <1>4 DEF PoppedTo
  <2> QED
    <3>1. Shape(S) /\ Acts(A) /\ Placed(S, A, m) /\ \A u \in Table \ {f} : T.rec[u] = S.rec[u]
      BY <1>1, <1>5, <1>6
    <3> QED
      BY ONLY <1>7, <2>1, <3>1, f = A[Len(A)].t, B = Returned(A), Len(A) > 1, ReturnedPlaced
<1>9. Owned(T, B, m2)
  <2>1. SUFFICES ASSUME NEW i \in 1 .. Len(B), A[i].own # NoValue
                 PROVE  m2[i] >= 0 /\ OwnOK(T, A[i].own, A[i].t, m2[i])
    BY <1>2 DEF Owned
  <2>2. i \in 1 .. Len(A) /\ i # Len(A) /\ A[i].t \in Table
    BY <1>1, <1>2, <2>1, ActsFacts
  <2>3. m[i] >= 0 /\ OwnOK(S, A[i].own, A[i].t, m[i])
    BY <1>6, <2>1, <2>2 DEF Owned
  <2>4. m[i] \in Int /\ (m[i] = 0 <=> Last(A, i)) /\ m[i] \in Slots(S, A[i].t)
    <3>1. m[i] \in Int /\ (m[i] = 0 <=> Last(A, i))
          /\ (m[i] = -1 \/ m[i] \in Slots(S, A[i].t))
      BY <1>6, <2>2, PlacedFacts
    <3> QED
      BY <2>3, <3>1
  <2>5. m2[i] = IF A[i].t = f /\ Last(B, i) THEN 0 ELSE m[i]
    BY <1>7, <2>1 DEF PlaceOfReturn
  <2>6. DefOf(T, "Global") = DefOf(S, "Global")
    BY <1>5 DEF DefOf
  <2>7. /\ m2[i] >= 0 /\ At(T, A[i].t, m2[i]) = At(S, A[i].t, m[i])
        /\ ToGlobal(T, A[i].t, m2[i]) = ToGlobal(S, A[i].t, m[i])
    <3>1. CASE A[i].t = f
      <4>1. ~ Last(A, i)
        BY <1>1, <2>1, <3>1, LastBefore
      <4>2. m[i] # 0 /\ m[i] \in 1 .. K /\ K # 0
        BY <1>3, <2>3, <2>4, <3>1, <4>1 DEF Slots
      <4>3. Last(B, i) <=> m[i] = K
        BY <1>1, <1>6, <2>1, <3>1, <4>2, LastSlot
      <4>4. Runs(B, f)
        BY <1>2, <2>1, <3>1 DEF Runs
      <4>5. PoppedTo(S, T, f)
        BY <1>4, <4>2, <4>4
      <4>6. CASE Last(B, i)
        <5>1. At(T, f, 0) = At(S, f, K) /\ ToGlobal(T, f, 0) = ToGlobal(S, f, K)
          BY <4>5 DEF PoppedTo, Moved
        <5> QED
          BY <2>5, <3>1, <4>3, <4>6, <5>1
      <4>7. CASE ~ Last(B, i)
        <5>1. PICK n \in Nat : n = K
          BY <1>3
        <5>2. m[i] \in 1 .. n - 1
          <6>1. m[i] \in 1 .. n /\ m[i] # n
            BY <4>2, <4>3, <4>7, <5>1
          <6> QED
            BY ONLY <5>1, <6>1
        <5>3. T.rec[f].ctx[m[i]] = S.rec[f].ctx[m[i]]
          BY <4>5, <5>1, <5>2 DEF PoppedTo
        <5> QED
          BY <2>3, <2>5, <3>1, <4>2, <4>7, <5>3 DEF At, ToGlobal
      <4> QED
        BY <4>6, <4>7
    <3>2. CASE A[i].t # f
      <4>1. T.rec[A[i].t] = S.rec[A[i].t]
        BY <1>5, <2>2, <3>2
      <4> QED
        BY <2>3, <2>5, <3>2, <4>1 DEF At, ToGlobal
    <3> QED
      BY <3>1, <3>2
  <2>8. OwnOK(T, A[i].own, A[i].t, m2[i])
    BY <1>5, <2>3, <2>6, <2>7, OwnMoved
  <2> QED
    BY <2>7, <2>8
<1>10. Absent(T, B)
  <2>1. SUFFICES ASSUME NEW u \in Table, ~ T.rec[u].here
                 PROVE  /\ T.rec[u].ctx = <<>>
                        /\ \A i \in 1 .. Len(B) : A[i].t = u => A[i].own = NoValue
    BY <1>2 DEF Absent
  <2>2. ~ S.rec[u].here
    BY <1>5, <2>1
  <2>3. /\ S.rec[u].ctx = <<>>
        /\ \A i \in 1 .. Len(A) : A[i].t = u => A[i].own = NoValue
    BY <1>1, <2>2 DEF Absent
  <2>4. T.rec[u] = S.rec[u]
    <3>1. CASE u = f
      <4>1. K = 0
        BY <2>3, <3>1
      <4> QED
        BY <1>4, <4>1
    <3>2. CASE u # f
      BY <1>5, <3>2
    <3> QED
      BY <3>1, <3>2
  <2> QED
    BY <1>2, <2>3, <2>4
<1>11. Resting(T, B)
  <2>1. SUFFICES ASSUME NEW u \in Table \ {"Global"}, ~ Runs(B, u) PROVE TypeOf(T, u) # "ufn"
    BY DEF Resting
  <2>2. CASE u = f
    <3>1. T = S
      BY <1>4, <2>1, <2>2
    <3> QED
      BY <2>1, <2>2, <3>1
  <2>3. CASE u # f
    <3>1. ~ Runs(A, u)
      BY <1>2, <2>1, <2>3 DEF Runs
    <3>2. TypeOf(S, u) # "ufn" /\ T.rec[u] = S.rec[u]
      BY <1>5, <2>3, <3>1 DEF Scoped, Resting
    <3> QED
      BY <1>5, <3>2 DEF TypeOf, DefOf
  <2> QED
    BY <2>2, <2>3
<1>12. SelfRuns(T, B)
  <2>1. SelfRuns(S, A)
    BY DEF Scoped
  <2>2. \A u : Runs(B, u) => Runs(A, u)
    BY <1>2 DEF Runs
  <2> QED
    BY <1>5, <2>1, <2>2 DEF SelfRuns
<1>13. m2 \in [1 .. Len(B) -> Int]
  BY <1>8 DEF Placed
<1> QED
  BY <1>2, <1>5, <1>8, <1>9, <1>10, <1>11, <1>12, <1>13 DEF Scoped

\* Tables of functions that do not run, and memory, are forgotten.
LEMMA DroppedScoped ==
  ASSUME NEW S, NEW A, Scoped(S, A), NEW T, Shape(T), Dropped(S, T),
         \A u \in Table : Runs(A, u) => T.rec[u] = S.rec[u]
  PROVE  Scoped(T, A)
<1>1. Good(S) /\ Sound(S) /\ Shape(S) /\ Acts(A) /\ Absent(S, A)
  BY DEF Scoped, Good, Sound
<1>2. Good(T) /\ T.rec["Global"] = S.rec["Global"]
      /\ TypeOf(T, "Global") = TypeOf(S, "Global")
  BY <1>1, DroppedKeeps
<1>3. PICK m \in [1 .. Len(A) -> Int] : Placed(S, A, m) /\ Owned(S, A, m)
  BY DEF Scoped
<1>4. \A u \in Table : T.rec[u].ctx = S.rec[u].ctx
  <2>1. SUFFICES ASSUME NEW u \in Table, T.rec[u] # S.rec[u]
                 PROVE  S.rec[u].ctx = <<>> /\ T.rec[u].ctx = <<>>
    OBVIOUS
  <2>2. T.rec[u].ctx = <<>> /\ ~ Runs(A, u)
    BY <2>1 DEF Dropped
  <2>3. S.rec[u].ctx \in Seq(Link) /\ Len(S.rec[u].ctx) \in Nat
    BY <1>1, ShapeFacts
  <2>4. Len(S.rec[u].ctx) = 0
    <3>1. ~ (1 \in 1 .. Len(S.rec[u].ctx))
      BY <1>3, <2>2 DEF Placed, Runs
    <3> QED
      BY <2>3, <3>1
  <2> QED
    BY <2>2, <2>3, <2>4
<1>5. SameTables(A, A)
  BY <1>1 DEF SameTables
<1>6. Placed(T, A, m)
  BY <1>1, <1>3, <1>4, <1>5, PlacedKept
<1>7. Owned(T, A, m)
  <2>1. SUFFICES ASSUME NEW i \in 1 .. Len(A), A[i].own # NoValue
                 PROVE  m[i] >= 0 /\ OwnOK(T, A[i].own, A[i].t, m[i])
    BY DEF Owned
  <2>2. m[i] >= 0 /\ OwnOK(S, A[i].own, A[i].t, m[i])
    BY <1>3, <2>1 DEF Owned
  <2>3. m[i] \in Slots(S, A[i].t) /\ A[i].t \in Table
    <3>1. m[i] \in Int /\ (m[i] = -1 \/ m[i] \in Slots(S, A[i].t))
      BY <1>3, PlacedFacts
    <3>2. A[i].t \in Table
      BY <1>1, ActsFacts
    <3> QED
      BY <2>2, <3>1, <3>2
  <2>4. T.rec[A[i].t] = S.rec[A[i].t]
    BY <2>3 DEF Runs
  <2>5. /\ At(T, A[i].t, m[i]) = At(S, A[i].t, m[i])
        /\ ToGlobal(T, A[i].t, m[i]) = ToGlobal(S, A[i].t, m[i])
        /\ m[i] \in Slots(T, A[i].t)
    BY <2>3, <2>4 DEF At, ToGlobal, Slots
  <2>6. T.heap[At(S, A[i].t, m[i])] = S.heap[At(S, A[i].t, m[i])]
    <3>1. PICK c : c = At(T, A[i].t, m[i])
      OBVIOUS
    <3>2. c \in Cell
      <4>1. c \in Cell \cup {Nil}
        <5>1. T.rec[A[i].t].def \in Cell \cup {Nil} /\ T.rec[A[i].t].ctx \in Seq(Link)
          BY <2>3, ShapeFacts
        <5>2. m[i] # 0 => T.rec[A[i].t].ctx[m[i]] \in Link
          BY <2>5, <5>1 DEF Slots
        <5> QED
          BY <3>1, <5>1, <5>2 DEF At, Link
      <4>2. c # Nil
        BY <2>2, <2>5, <3>1 DEF OwnOK
      <4> QED
        BY <4>1, <4>2
    <3>3. <<A[i].t, m[i]>> \in RefsIn(T, c)
      BY <2>3, <2>5, <3>1, InRefs
    <3> QED
      BY <2>5, <3>1, <3>2, <3>3 DEF Dropped
  <2>7. DefOf(T, "Global") = DefOf(S, "Global")
    BY <1>2 DEF DefOf
  <2> QED
    BY <2>2, <2>5, <2>6, <2>7, OwnMoved
<1>8. Absent(T, A)
  <2>1. SUFFICES ASSUME NEW u \in Table, ~ T.rec[u].here
                 PROVE  /\ T.rec[u].ctx = <<>>
                        /\ \A i \in 1 .. Len(A) : A[i].t = u => A[i].own = NoValue
    BY DEF Absent
  <2>2. CASE T.rec[u] = S.rec[u]
    BY <1>1, <2>1, <2>2 DEF Absent
  <2>3. CASE T.rec[u] # S.rec[u]
    BY <2>3 DEF Dropped, Runs
  <2> QED
    BY <2>2, <2>3
<1>9. Resting(T, A)
  <2>1. SUFFICES ASSUME NEW u \in Table \ {"Global"}, ~ Runs(A, u) PROVE TypeOf(T, u) # "ufn"
    BY DEF Resting
  <2>2. TypeOf(S, u) # "ufn"
    BY <2>1 DEF Scoped, Resting
  <2>3. CASE T.rec[u].def = Nil
    BY <2>3 DEF TypeOf, DefOf
  <2>4. CASE T.rec[u].def # Nil
    <3>1. T.rec[u] = S.rec[u]
      BY <2>4 DEF Dropped
    <3>2. DefOf(T, u) = DefOf(S, u) /\ DefOf(T, u) # Nil
      BY <2>4, <3>1 DEF DefOf
    <3>3. Counted(T)
      BY <1>2 DEF Good, Sound
    <3>4. DefOf(T, u) \in Cell /\ <<u, 0>> \in RefsIn(T, DefOf(T, u))
      BY <3>2, <3>3, Holder
    <3>5. T.heap[DefOf(T, u)] = S.heap[DefOf(T, u)]
      BY <3>4 DEF Dropped
    <3> QED
      BY <2>2, <3>2, <3>5 DEF TypeOf
  <2> QED
    BY <2>3, <2>4
<1>10. SelfRuns(T, A)
  BY <1>2 DEF Scoped, SelfRuns
<1> QED
  BY <1>1, <1>2, <1>3, <1>6, <1>7, <1>8, <1>9, <1>10 DEF Scoped

-----------------------------------------------------------------------------
(***************************************************************************)
(* Steps                                                                   *)
(***************************************************************************)

\* A statement that mentions x puts it into the table of t.
GetsPlace(S, T, t) == T = [S EXCEPT !.rec[t].here = TRUE]
PlacedRecord(r) == [r EXCEPT !.here = TRUE]

LEMMA PlacePuts ==
  ASSUME NEW S, Shape(S), NEW t \in Table, NEW T, GetsPlace(S, T, t)
  PROVE  /\ Shape(T) /\ T.heap = S.heap /\ T.rec[t].here
         /\ T.rec[t].def = S.rec[t].def /\ T.rec[t].linked = S.rec[t].linked
         /\ T.rec[t].ctx = S.rec[t].ctx /\ \A u \in Table \ {t} : T.rec[u] = S.rec[u]
<1>1. PICK r : r = PlacedRecord(S.rec[t])
  OBVIOUS
<1>2. S.rec[t] \in Record
  BY ShapeFacts
<1>3. r \in Record /\ r.def = S.rec[t].def /\ r.linked = S.rec[t].linked
      /\ r.ctx = S.rec[t].ctx /\ r.here = TRUE
  BY <1>1, <1>2, Zenon DEF Record, PlacedRecord
<1>4. GetsRecord(S, T, t, r)
  BY <1>1 DEF GetsRecord, GetsPlace, PlacedRecord
<1>5. Shape(T) /\ T.heap = S.heap /\ T.rec[t] = r
      /\ \A u \in Table \ {t} : T.rec[u] = S.rec[u]
  BY <1>3, <1>4, RecordSet
<1> QED
  BY <1>3, <1>5

LEMMA PlaceFollows ==
  ASSUME NEW S, Good(S), NEW t \in Table, NEW T, GetsPlace(S, T, t)
  PROVE  /\ Follows(S, T, t) /\ T.heap = S.heap /\ T.rec[t].here
         /\ \A u \in Table : /\ DefOf(T, u) = DefOf(S, u) /\ TypeOf(T, u) = TypeOf(S, u)
                             /\ T.rec[u].linked = S.rec[u].linked
<1>1. Sound(S) /\ Shape(S) /\ FnGlobal(S) /\ "Global" \in Table
  BY ShapeFacts DEF Good, Sound
<1>2. /\ Shape(T) /\ T.heap = S.heap /\ T.rec[t].here
      /\ T.rec[t].def = S.rec[t].def /\ T.rec[t].linked = S.rec[t].linked
      /\ T.rec[t].ctx = S.rec[t].ctx /\ \A u \in Table \ {t} : T.rec[u] = S.rec[u]
  BY <1>1, PlacePuts
<1>3. \A u \in Table : /\ T.rec[u].def = S.rec[u].def /\ T.rec[u].linked = S.rec[u].linked
                       /\ T.rec[u].ctx = S.rec[u].ctx
  BY <1>2
<1>4. \A u \in Table : Slots(T, u) = Slots(S, u)
  BY <1>3 DEF Slots
<1>5. ASSUME NEW u \in Table, NEW i
      PROVE  At(T, u, i) = At(S, u, i) /\ ToGlobal(T, u, i) = ToGlobal(S, u, i)
  BY <1>3 DEF At, ToGlobal
<1>6. ASSUME NEW c PROVE RefsIn(T, c) = RefsIn(S, c)
  BY <1>4, <1>5 DEF RefsIn
<1>7. \A u \in Table : DefOf(T, u) = DefOf(S, u) /\ TypeOf(T, u) = TypeOf(S, u)
  BY <1>2, <1>3 DEF DefOf, TypeOf
<1>8. Counted(T)
  BY <1>1, <1>2, <1>6 DEF Sound, Counted
<1>9. Private(T)
  BY <1>1, <1>2, <1>4, <1>5, <1>6 DEF Sound, Private
<1>10. GlobalAlone(T)
  BY <1>1, <1>3 DEF Sound, GlobalAlone
<1>11. ParamsOwn(T)
  <2>1. Formal \subseteq Table
    BY <1>1, ShapeFacts
  <2> QED
    BY <1>1, <1>2, <1>4, <1>5, <2>1 DEF Sound, ParamsOwn
<1>12. FnGlobal(T)
  BY <1>1, <1>2, <1>4, <1>5, <1>7 DEF FnGlobal
<1>13. Frame(S, T, t)
  <2>1. Near(T, t) \subseteq Near(S, t)
    BY <1>1, <1>2, <1>7 DEF Near
  <2>2. \A c \in Cell : SameMeaning(S, T, c)
    BY <1>2 DEF SameMeaning
  <2>3. S.rec["Global"].here => T.rec["Global"].here
    BY <1>1, <1>2
  <2> QED
    BY <1>2, <2>1, <2>2, <2>3 DEF Frame
<1>14. GlobalKept(S, T)
  BY <1>1, <1>7 DEF GlobalKept
<1> QED
  BY <1>2, <1>3, <1>7, <1>8, <1>9, <1>10, <1>11, <1>12, <1>13, <1>14 DEF Follows, Good, Sound

\* What a step leaves behind of a store, when the activations were A.
Lives(S, A) == {t \in Table : t \in Self => Exists(S, t) \/ Runs(A, t)}
InUse(S, A) == (UNION {Roots(S, t) : t \in Lives(S, A)}) \ {Nil}
Left(S, T, A) ==
  /\ T = [heap |-> T.heap, rec |-> T.rec]
  /\ T.heap = [c \in Cell |-> IF c \in InUse(S, A) THEN S.heap[c] ELSE Unused]
  /\ T.rec = [t \in Table |-> IF t \in Lives(S, A) THEN S.rec[t] ELSE NoRecord]

\* Whose definition somebody has is a root.
LEMMA RootOf ==
  ASSUME NEW S, Shape(S), NEW t \in Table
  PROVE  /\ Roots(S, t) \subseteq Cell \cup {Nil}
         /\ \A i \in Slots(S, t) : At(S, t, i) \in Roots(S, t)
         /\ \A d \in Roots(S, t) : \E i \in Slots(S, t) : At(S, t, i) = d
<1>1. /\ S.rec[t].def \in Cell \cup {Nil} /\ S.rec[t].ctx \in Seq(Link)
      /\ Len(S.rec[t].ctx) \in Nat
  BY ShapeFacts
<1>2. ASSUME NEW i \in 1 .. Len(S.rec[t].ctx) PROVE S.rec[t].ctx[i].def \in Cell \cup {Nil}
  <2>1. S.rec[t].ctx[i] \in Link
    BY <1>1
  <2> QED
    BY <2>1 DEF Link
<1>3. \A i \in Slots(S, t) : i = 0 \/ i \in 1 .. Len(S.rec[t].ctx)
  BY <1>1 DEF Slots
<1>4. \A i \in 1 .. Len(S.rec[t].ctx) : i \in Slots(S, t) /\ i # 0
  BY <1>1 DEF Slots
<1>5. 0 \in Slots(S, t)
  BY <1>1 DEF Slots
<1> QED
  BY <1>1, <1>2, <1>3, <1>4, <1>5 DEF Roots, At

LEMMA LeftDropped ==
  ASSUME NEW S, NEW T, NEW A, Shape(S), Left(S, T, A)
  PROVE  Shape(T) /\ Dropped(S, T)
<1>1. NoRecord \in Record /\ Unused \in Definition
  BY DEF NoRecord, Record, Unused, Definition, Types, Nil
<1>2. /\ T.heap = [c \in Cell |-> IF c \in InUse(S, A) THEN S.heap[c] ELSE Unused]
      /\ T.rec = [t \in Table |-> IF t \in Lives(S, A) THEN S.rec[t] ELSE NoRecord]
      /\ T = [heap |-> T.heap, rec |-> T.rec]
  BY DEF Left
<1>3. \A c \in Cell : T.heap[c] = IF c \in InUse(S, A) THEN S.heap[c] ELSE Unused
  BY <1>2
<1>4. \A t \in Table : T.rec[t] = IF t \in Lives(S, A) THEN S.rec[t] ELSE NoRecord
  BY <1>2
<1>5. T.heap \in [Cell -> Definition]
  <2>1. \A c \in Cell : S.heap[c] \in Definition
    BY ShapeFacts
  <2> QED
    BY <1>1, <1>2, <2>1
<1>6. T.rec \in [Table -> Record]
  <2>1. \A t \in Table : S.rec[t] \in Record
    BY ShapeFacts
  <2> QED
    BY <1>1, <1>2, <2>1
<1>7. Shape(T)
  <2>1. \A c \in Cell : T.heap[c].type = "ufn" => T.heap[c].fn \in Self
    BY <1>3 DEF Shape, Unused
  <2> QED
    BY <1>2, <1>5, <1>6, <2>1 DEF Shape
<1>8. ASSUME NEW u \in Table
      PROVE  \/ u \in Lives(S, A) /\ T.rec[u] = S.rec[u]
             \/ /\ u # "Global" /\ T.rec[u].def = Nil /\ T.rec[u].linked = FALSE
                /\ T.rec[u].ctx = <<>>
  <2>1. CASE u \in Lives(S, A)
    BY <1>4, <2>1
  <2>2. CASE u \notin Lives(S, A)
    <3>1. u \in Self
      BY <2>2 DEF Lives
    <3>2. u # "Global"
      BY <3>1, ScopeAssumption
    <3> QED
      BY <1>4, <2>2, <3>2 DEF NoRecord
  <2> QED
    BY <2>1, <2>2
<1>9. ASSUME NEW c \in Cell, T.heap[c] # S.heap[c]
      PROVE  T.heap[c] = Unused /\ RefsIn(T, c) = {}
  <2>1. c \notin InUse(S, A) /\ T.heap[c] = Unused
    BY <1>3, <1>9
  <2>2. ASSUME NEW p \in RefsIn(T, c) PROVE FALSE
    <3>1. PICK u \in Table, i \in Nat : p = <<u, i>>
      BY DEF RefsIn
    <3>2. i \in Slots(T, u) /\ At(T, u, i) = c /\ c # Nil
      BY <1>7, <3>1, ShapeFacts DEF RefsIn
    <3>3. CASE u \in Lives(S, A) /\ T.rec[u] = S.rec[u]
      <4>1. i \in Slots(S, u) /\ At(S, u, i) = c
        BY <3>2, <3>3 DEF Slots, At
      <4>2. c \in Roots(S, u)
        BY <4>1, RootOf
      <4>3. c \in InUse(S, A)
        BY <3>2, <3>3, <4>2 DEF InUse
      <4> QED
        BY <2>1, <4>3
    <3>4. CASE T.rec[u].def = Nil /\ T.rec[u].ctx = <<>>
      BY <3>2, <3>4 DEF Slots, At
    <3> QED
      BY <1>8, <3>3, <3>4
  <2> QED
    BY <2>1, <2>2
<1> QED
  BY <1>7, <1>8, <1>9 DEF Dropped

LEMMA LeftScoped ==
  ASSUME NEW S, NEW T, NEW A, NEW B, Scoped(S, B), Left(S, T, A),
         \A u \in Table : Runs(B, u) => u \in Lives(S, A)
  PROVE  Scoped(T, B)
<1>1. Shape(S)
  BY DEF Scoped, Good, Sound
<1>2. Shape(T) /\ Dropped(S, T)
  BY <1>1, LeftDropped
<1>3. \A u \in Table : Runs(B, u) => T.rec[u] = S.rec[u]
  BY DEF Left
<1> QED
  BY <1>2, <1>3, DroppedScoped

LEMMA BecomesLeft ==
  ASSUME NEW S, Shape(S), Becomes(S), NEW T, T = Store'
  PROVE  Left(S, T, act)
<1> DEFINE lives == {t \in Table : t \in Self => Exists(S, t) \/ Running(t)}
           D == UNION {Roots(S, t) : t \in lives}
<1>1. \A t : Running(t) <=> Runs(act, t)
  BY DEF Running, Runs, Depth
<1>2. lives = Lives(S, act)
  BY <1>1 DEF Lives
<1>3. D \subseteq Cell \cup {Nil}
  BY RootOf
<1>4. Reached(S, D) = D \ {Nil}
  BY <1>3, ReachedAll
<1>5. /\ heap' = [c \in Cell |-> IF c \in Reached(S, D) THEN S.heap[c] ELSE Unused]
      /\ rec' = [t \in Table |-> IF t \in lives THEN S.rec[t] ELSE NoRecord]
  BY DEF Becomes
<1>6. Reached(S, D) = InUse(S, act)
  BY <1>2, <1>4 DEF InUse
<1>7. T.heap = heap' /\ T.rec = rec' /\ T = [heap |-> T.heap, rec |-> T.rec]
  BY DEF Store
<1> HIDE DEF lives, D
<1> QED
  BY <1>2, <1>5, <1>6, <1>7 DEF Left

-----------------------------------------------------------------------------
(***************************************************************************)
(* Statements of the running activation                                    *)
(***************************************************************************)

\* What the invariant says of the last activation of a table.
LEMMA OwnNow ==
  ASSUME NEW S, NEW A, Scoped(S, A), NEW n \in 1 .. Len(A), Last(A, n), A[n].own # NoValue
  PROVE  OwnOK(S, A[n].own, A[n].t, 0) /\ S.rec[A[n].t].here
<1>1. PICK m \in [1 .. Len(A) -> Int] : Placed(S, A, m) /\ Owned(S, A, m)
  BY DEF Scoped
<1>2. m[n] = 0 /\ OwnOK(S, A[n].own, A[n].t, m[n])
  BY <1>1 DEF Placed, Owned
<1>3. Acts(A) /\ Absent(S, A)
  BY DEF Scoped
<1>4. A[n].t \in Table
  BY <1>3, ActsFacts
<1> QED
  BY <1>2, <1>3, <1>4 DEF Absent

\* The activation that runs is the last one of its table.
LEMMA RunsLast ==
  ASSUME NEW A, Acts(A), NEW n, n = Len(A)
  PROVE  n \in 1 .. Len(A) /\ Last(A, n) /\ A[n].t \in Table \ {"Global"}
<1>1. Len(A) \in Nat \ {0}
  BY ActsFacts
<1>2. n \in 1 .. Len(A) /\ n \in Nat
  BY <1>1
<1>3. Last(A, n)
  BY <1>2 DEF Last
<1> QED
  BY <1>2, <1>3, ActsFacts

\* The global symbol table keeps a user function.
LEMMA FunctionKept ==
  ASSUME NEW S, NEW T, GlobalKept(S, T), TypeOf(S, "Global") = "ufn"
  PROVE  TypeOf(T, "Global") = "ufn"
BY DEF GlobalKept, TypeOf, Variables

\* A statement of the n-th activation, which runs; own is what it has of x then.
OwnedBy(A, B, n) ==
  /\ SameTables(A, B)
  /\ \A i \in 1 .. Len(A) : i # n => B[i].own \in {A[i].own, NoValue}

LEMMA FollowedScoped ==
  ASSUME NEW S, NEW A, Scoped(S, A), NEW n \in 1 .. Len(A), Last(A, n), NEW t, t = A[n].t,
         NEW T, Follows(S, T, t), NEW B, OwnedBy(A, B, n),
         B[n].own # NoValue => T.rec[t].here /\ OwnOK(T, B[n].own, t, 0)
  PROVE  Scoped(T, B)
<1>1. Acts(A) /\ SelfRuns(S, A)
  BY DEF Scoped
<1>2. t \in Table \ {"Global"}
  BY <1>1, ActsFacts
<1>3. SameTables(A, B) /\ \A i \in 1 .. Len(A) : i # n => B[i].own \in {A[i].own, NoValue}
  BY DEF OwnedBy
<1>4. Good(T) /\ Frame(S, T, t) /\ GlobalKept(S, T)
  BY DEF Follows
<1>5. SelfRuns(T, B)
  <2>1. SUFFICES ASSUME NEW u \in Self, Runs(B, u) PROVE TypeOf(T, "Global") = "ufn"
    BY DEF SelfRuns
  <2>2. Runs(A, u)
    BY <1>3, <2>1 DEF Runs, SameTables
  <2>3. TypeOf(S, "Global") = "ufn"
    BY <1>1, <2>1, <2>2 DEF SelfRuns
  <2> QED
    BY <1>4, <2>3, FunctionKept
<1> QED
  BY <1>2, <1>3, <1>4, <1>5, StatementScoped

\* The activations after a statement that leaves own to the running one.
OwnSet(A, own) == [A EXCEPT ![Len(A)].own = own]
LEMMA OwnIsSet ==
  ASSUME NEW A, Acts(A), NEW own \in Values \cup {"global", NoValue}, NEW n, n = Len(A),
         NEW B, B = OwnSet(A, own)
  PROVE  OwnedBy(A, B, n) /\ B[n].own = own /\ B[n].t = A[n].t
<1>1. A \in Seq(Activation) /\ Len(A) \in Nat \ {0} /\ n \in 1 .. Len(A)
  BY ActsFacts, RunsLast
<1>2. PICK a : a = [A[n] EXCEPT !.own = own]
  OBVIOUS
<1>3. A[n] \in Activation
  BY <1>1
<1>4. a \in Activation /\ a.t = A[n].t /\ a.own = own
  BY <1>2, <1>3 DEF Activation
<1>5. B = [A EXCEPT ![n] = a]
  BY <1>2 DEF OwnSet
<1>6. /\ B \in Seq(Activation) /\ Len(B) = Len(A) /\ B[n] = a
      /\ \A i \in 1 .. Len(A) : i # n => B[i] = A[i]
  BY <1>1, <1>4, <1>5
<1>7. \A i \in 1 .. Len(A) : B[i].t = A[i].t
  BY <1>4, <1>6
<1>8. Acts(B)
  <2>1. B # <<>>
    BY <1>1, <1>6
  <2> QED
    BY <1>1, <1>6, <1>7, <2>1 DEF Acts
<1> QED
  BY <1>4, <1>6, <1>7, <1>8 DEF OwnedBy, SameTables

LEMMA OwnUnchanged ==
  ASSUME NEW A, Acts(A), NEW n \in 1 .. Len(A)
  PROVE  OwnedBy(A, A, n)
BY DEF OwnedBy, SameTables

\* x is a variable of t alone.
IsOwn(S, t) == ~ S.rec[t].linked /\ TypeOf(S, t) = "uvar"

LEMMA OwnOKFacts ==
  ASSUME NEW S, Shape(S), Counted(S), NEW t \in Table, NEW o \in Values \cup {"global"}
  PROVE  /\ o \in Values => (OwnOK(S, o, t, 0) <=>
              IsOwn(S, t) /\ S.heap[DefOf(S, t)].val = o)
         /\ o = "global" => (OwnOK(S, o, t, 0) <=>
              /\ S.rec[t].linked /\ DefOf(S, t) = DefOf(S, "Global")
              /\ DefOf(S, t) # Nil /\ TypeOf(S, t) \in Variables)
         /\ o \in Values => o # "global" /\ o # NoValue
<1>1. o \in Values => o # "global" /\ o # NoValue
  BY ScopeAssumption DEF NoValue
<1>2. At(S, t, 0) = DefOf(S, t) /\ ToGlobal(S, t, 0) = S.rec[t].linked
  BY DEF At, ToGlobal, DefOf
<1>3. o \in Values => (OwnOK(S, o, t, 0) <=> IsOwn(S, t) /\ S.heap[DefOf(S, t)].val = o)
  BY <1>1, <1>2 DEF OwnOK, IsOwn, TypeOf
<1>4. DefOf(S, t) # Nil => TypeOf(S, t) = S.heap[DefOf(S, t)].type
        /\ TypeOf(S, t) \in {"unknown", "uvar", "bvar", "ufn", "bfn"}
  <2>1. SUFFICES ASSUME DefOf(S, t) # Nil
                 PROVE  TypeOf(S, t) = S.heap[DefOf(S, t)].type
                        /\ TypeOf(S, t) \in {"unknown", "uvar", "bvar", "ufn", "bfn"}
    OBVIOUS
  <2>2. S.heap[DefOf(S, t)].type \notin {"free", "deleted"} /\ S.heap[DefOf(S, t)] \in Definition
    BY <2>1, Holder
  <2> QED
    BY <2>1, <2>2 DEF TypeOf, Definition, Types
<1>5. o = "global" => (OwnOK(S, o, t, 0) <=>
              /\ S.rec[t].linked /\ DefOf(S, t) = DefOf(S, "Global")
              /\ DefOf(S, t) # Nil /\ TypeOf(S, t) \in Variables)
  BY <1>2, <1>4 DEF OwnOK, Variables
<1> QED
  BY <1>1, <1>3, <1>5

\* Mentioning x changes nothing.
LEMMA PlaceKeepsOwn ==
  ASSUME NEW S, Good(S), NEW t \in Table \ {"Global"}, NEW T, GetsPlace(S, T, t),
         NEW o, OwnOK(S, o, t, 0)
  PROVE  OwnOK(T, o, t, 0)
<1>1. /\ T.heap = S.heap /\ "Global" \in Table
      /\ \A u \in Table : DefOf(T, u) = DefOf(S, u) /\ T.rec[u].linked = S.rec[u].linked
  BY PlaceFollows, ShapeFacts DEF Good, Sound
<1>2. At(T, t, 0) = At(S, t, 0) /\ ToGlobal(T, t, 0) = ToGlobal(S, t, 0)
  BY <1>1 DEF At, ToGlobal, DefOf
<1> QED
  BY <1>1, <1>2, OwnMoved

\* What the activation has after an assignment: the value, or what it had.
LEMMA AssignOwn ==
  ASSUME NEW S, Good(S), NEW t \in Table \ {"Global"}, HasFree(S), NEW v \in Values,
         NEW T, T = Assign(S, t, v)
  PROVE  /\ IsOwn(T, t) => OwnOK(T, v, t, 0)
         /\ \A o \in Values : OwnOK(S, o, t, 0) => IsOwn(T, t)
         /\ OwnOK(S, "global", t, 0) => OwnOK(T, "global", t, 0) /\ ~ IsOwn(T, t)
<1>1. /\ Follows(S, T, t) /\ DefOf(T, t) # Nil /\ T.heap[DefOf(T, t)].val = v
      /\ IsVariable(S, t) /\ (Linked(S, t) \/ IsDefined(S, t)) =>
           T.rec = S.rec /\ (TypeOf(T, t) = "bvar" => TypeOf(S, t) = "bvar")
      /\ TypeOf(S, t) = "unknown" /\ Linked(S, t) => T.rec = S.rec
      /\ IsVariable(T, t)
  BY AssignFollows
<1>2. Shape(S) /\ Counted(S) /\ Shape(T) /\ Counted(T) /\ t \in Table /\ "Global" \in Table
  BY <1>1, ShapeFacts DEF Follows, Good, Sound
<1>3. IsOwn(T, t) => OwnOK(T, v, t, 0)
  BY <1>1, <1>2, OwnOKFacts
<1>4. ASSUME NEW o \in Values, OwnOK(S, o, t, 0) PROVE IsOwn(T, t)
  <2>1. IsOwn(S, t) /\ S.heap[DefOf(S, t)].val = o /\ o # NoValue
    BY <1>2, <1>4, OwnOKFacts
  <2>2. IsVariable(S, t) /\ IsDefined(S, t) /\ TypeOf(S, t) # "bvar"
    BY <2>1 DEF IsOwn, IsVariable, IsDefined
  <2>3. T.rec = S.rec /\ TypeOf(T, t) # "bvar"
    BY <1>1, <2>2
  <2> QED
    BY <1>1, <2>1, <2>3 DEF IsOwn, IsVariable
<1>5. ASSUME OwnOK(S, "global", t, 0) PROVE OwnOK(T, "global", t, 0) /\ ~ IsOwn(T, t)
  <2>1. PICK o \in Values \cup {"global"} : o = "global"
    OBVIOUS
  <2>2. /\ S.rec[t].linked /\ DefOf(S, t) = DefOf(S, "Global")
        /\ DefOf(S, t) # Nil /\ TypeOf(S, t) \in Variables
    BY <1>2, <1>5, <2>1, OwnOKFacts
  <2>3. Linked(S, t) /\ (IsVariable(S, t) \/ TypeOf(S, t) = "unknown")
    BY <2>2 DEF Linked, IsVariable, Variables
  <2>4. T.rec = S.rec
    BY <1>1, <2>3
  <2>5. /\ T.rec[t].linked /\ DefOf(T, t) = DefOf(T, "Global")
        /\ DefOf(T, t) # Nil /\ TypeOf(T, t) \in Variables
    BY <1>1, <2>2, <2>4 DEF DefOf, IsVariable, Variables
  <2> QED
    BY <1>2, <2>1, <2>5, OwnOKFacts DEF IsOwn
<1> QED
  BY <1>3, <1>4, <1>5

\* global x in t, and what the activation has then.
LEMMA LinkedOwn ==
  ASSUME NEW S, Good(S), NEW t \in Table \ {"Global"}, HasFree(S), NoFns(S),
         t \notin Formal, ~ Linked(S, t), NEW T, T = LinkToGlobal(S, t)
  PROVE  Follows(S, T, t) /\ OwnOK(T, "global", t, 0)
<1>1. /\ Follows(S, T, t) /\ T.rec[t].linked /\ DefOf(T, t) = DefOf(T, "Global")
      /\ DefOf(T, "Global") # Nil /\ ~ IsFunction(T, "Global")
  BY LinkToGlobalFollows
<1>2. TypeOf(T, "Global") \notin {"ufn", "bfn"}
  BY <1>1 DEF IsFunction
<1> QED
  BY <1>1, <1>2 DEF OwnOK, At, ToGlobal, TypeOf, DefOf

\* ... and after global x = v.
LEMMA LinkedValue ==
  ASSUME NEW S, Good(S), NEW t \in Table \ {"Global"}, OwnOK(S, "global", t, 0),
         NEW v \in Values, NEW T, T = Assign(S, t, v)
  PROVE  Follows(S, T, t) /\ OwnOK(T, "global", t, 0)
<1>1. Shape(S) /\ Counted(S) /\ t \in Table /\ "Global" \in Table
  BY ShapeFacts DEF Good, Sound
<1>2. PICK o \in Values \cup {"global"} : o = "global"
  OBVIOUS
<1>3. /\ S.rec[t].linked /\ DefOf(S, t) = DefOf(S, "Global")
      /\ DefOf(S, t) # Nil /\ TypeOf(S, t) \in Variables
  BY <1>1, <1>2, OwnOKFacts
<1>4. ~ IsFunction(S, t)
  BY <1>3 DEF IsFunction, Variables
<1>5. T = Define(S, t, v)
  BY <1>3, <1>4 DEF Assign, Linked
<1>6. PICK r \in {t, "Global"} : r = t
  OBVIOUS
<1>7. /\ Follows(S, T, t) /\ TypeOf(T, t) \in {"uvar", "bvar"} /\ T.rec = S.rec
  <2>1. v \in Values \cup {NoValue} /\ T = Define(S, r, v) /\ ~ IsFunction(S, r)
        /\ DefOf(S, r) # Nil
    BY <1>3, <1>4, <1>5, <1>6
  <2>2. Follows(S, T, t) /\ TypeOf(T, r) \in {"uvar", "bvar"}
        /\ (DefOf(S, r) # Nil => T.rec = S.rec)
    BY <2>1, DefineFollows
  <2> QED
    BY <1>6, <2>1, <2>2
<1>8. Shape(T) /\ Counted(T)
  BY <1>7 DEF Follows, Good, Sound
<1>9. /\ T.rec[t].linked /\ DefOf(T, t) = DefOf(T, "Global")
      /\ DefOf(T, t) # Nil /\ TypeOf(T, t) \in Variables
  BY <1>3, <1>7 DEF DefOf, Variables
<1> QED
  BY <1>1, <1>2, <1>7, <1>8, <1>9, OwnOKFacts

\* A use of x leaves what an activation has.
LEMMA LookupOwn ==
  ASSUME NEW S, Good(S), NEW t \in Table \ {"Global"}, NEW T, T = Lookup(S, t),
         NEW o \in Values \cup {"global"}, OwnOK(S, o, t, 0)
  PROVE  T = S
<1>1. Shape(S) /\ Counted(S) /\ t \in Table
  BY DEF Good, Sound
<1>2. CASE o \in Values
  <2>1. IsOwn(S, t) /\ S.heap[DefOf(S, t)].val = o /\ o # NoValue
    BY <1>1, <1>2, OwnOKFacts
  <2>2. IsDefined(S, t)
    BY <2>1 DEF IsOwn, IsVariable, IsDefined
  <2> QED
    BY <2>2, LookupFollows
<1>3. CASE o = "global"
  <2>1. Linked(S, t)
    BY <1>1, <1>3, OwnOKFacts DEF Linked
  <2> QED
    BY <2>1, LookupFollows
<1> QED
  BY <1>2, <1>3

-----------------------------------------------------------------------------
(***************************************************************************)
(* Calls and returns                                                       *)
(***************************************************************************)

\* The store in which an activation of f begins.
Given(S, f, v) == IF f \in Formal THEN Define([S EXCEPT !.rec[f].here = TRUE], f, v) ELSE S
OwnGiven(f, v) == IF f \in Formal THEN v ELSE NoValue
CalledWith(A, f, v) == Append(A, [t |-> f, own |-> OwnGiven(f, v)])

\* A parameter is given the value of the argument.
LEMMA GivenFollows ==
  ASSUME NEW S, Good(S), HasFree(S), NEW f \in Formal, NEW v \in Values,
         NEW T, T = Given(S, f, v)
  PROVE  Follows(S, T, f) /\ T.rec[f].here /\ OwnOK(T, v, f, 0)
<1>1. PICK X : GetsPlace(S, X, f)
  BY DEF GetsPlace
<1>2. f \in Table \ {"Global"} /\ Shape(S) /\ "Global" \in Table
  <2>1. Shape(S)
    BY DEF Good, Sound
  <2> QED
    BY <2>1, ShapeFacts
<1>3. Follows(S, X, f) /\ X.heap = S.heap /\ X.rec[f].here
  BY <1>1, <1>2, PlaceFollows
<1>4. T = Define(X, f, v)
  BY <1>1 DEF Given, GetsPlace
<1>5. Good(X) /\ Shape(X) /\ ParamsOwn(X) /\ HasFree(X)
  BY <1>3 DEF Follows, Good, Sound, HasFree
<1>6. ~ IsFunction(X, f)
  <2>1. DefOf(X, f) # Nil => TypeOf(X, f) = "uvar"
    BY <1>5, ParameterUnlinked
  <2> QED
    BY <2>1 DEF IsFunction, TypeOf
<1>7. PICK r \in {f, "Global"} : r = f
  OBVIOUS
<1>8. Follows(X, T, f) /\ DefOf(T, f) # Nil /\ T.heap[DefOf(T, f)].val = v
  <2>1. v \in Values \cup {NoValue} /\ T = Define(X, r, v) /\ ~ IsFunction(X, r)
    BY <1>4, <1>6, <1>7
  <2>2. Follows(X, T, f) /\ DefOf(T, r) # Nil /\ T.heap[DefOf(T, r)].val = v
    BY <1>2, <1>5, <2>1, DefineFollows
  <2> QED
    BY <1>7, <2>2
<1>9. Follows(S, T, f)
  BY <1>2, <1>3, <1>8, FollowsTrans
<1>10. T.rec[f].here
  BY <1>3, <1>8 DEF Follows, Frame
<1>11. Shape(T) /\ Counted(T) /\ ParamsOwn(T)
  BY <1>8 DEF Follows, Good, Sound
<1>12. ~ T.rec[f].linked /\ TypeOf(T, f) = "uvar"
  BY <1>8, <1>11, ParameterUnlinked
<1>13. IsOwn(T, f) /\ T.heap[DefOf(T, f)].val = v
  BY <1>8, <1>12 DEF IsOwn
<1>14. OwnOK(T, v, f, 0)
  <2>1. v \in Values \cup {"global"} /\ f \in Table
    BY <1>2
  <2> QED
    BY <1>11, <1>13, <2>1, OwnOKFacts
<1> QED
  BY <1>9, <1>10, <1>14

LEMMA BegunScoped ==
  ASSUME NEW S, NEW A, Scoped(S, A), NEW f \in Fn, f \in Self => TypeOf(S, "Global") = "ufn",
         HasFree(S), NEW v, f \in Formal => v \in Values,
         NEW T, T = Given(AfterPush(S, A, f), f, v), NEW B, B = CalledWith(A, f, v)
  PROVE  Scoped(T, B) /\ (f \notin Formal => T.heap = S.heap)
<1>1. PICK X : X = AfterPush(S, A, f)
  OBVIOUS
<1>2. PICK C : C = Called(A, f)
  OBVIOUS
<1>3. Scoped(X, C) /\ X.heap = S.heap
  BY <1>1, <1>2, CalledScoped
<1>4. T = Given(X, f, v)
  BY <1>1
<1>5. CASE f \notin Formal
  BY <1>2, <1>3, <1>4, <1>5 DEF Given, CalledWith, OwnGiven, Called
<1>6. CASE f \in Formal
  <2>1. Good(X) /\ Acts(C) /\ HasFree(X)
    BY <1>3 DEF Scoped, HasFree
  <2>2. Follows(X, T, f) /\ T.rec[f].here /\ OwnOK(T, v, f, 0)
    BY <1>4, <1>6, <2>1, GivenFollows
  <2>3. Acts(A)
    BY DEF Scoped
  <2>4. PICK n : n = Len(C)
    OBVIOUS
  <2>5. n = Len(A) + 1 /\ C[n].t = f /\ Len(A) \in Nat /\ A \in Seq(Activation)
    BY <1>2, <2>3, <2>4, CalledActs, ActsFacts
  <2>6. n \in 1 .. Len(C) /\ Last(C, n)
    BY <2>1, <2>4, RunsLast
  <2>7. B = OwnSet(C, v)
    <3>1. PICK a : a = [t |-> f, own |-> NoValue]
      OBVIOUS
    <3>2. PICK b : b = [t |-> f, own |-> v]
      OBVIOUS
    <3>3. C = Append(A, a) /\ B = Append(A, b) /\ [a EXCEPT !.own = v] = b
      BY <1>2, <1>6, <3>1, <3>2 DEF Called, CalledWith, OwnGiven
    <3>4. [C EXCEPT ![n] = b] = B
      <4>1. a \in Activation /\ b \in Activation
        BY <1>6, <3>1, <3>2 DEF Activation, Table
      <4>2. B \in Seq(Activation) /\ C \in Seq(Activation) /\ Len(B) = n /\ Len(C) = n
            /\ B[n] = b /\ C[n] = a
            /\ \A i \in 1 .. Len(A) : B[i] = A[i] /\ C[i] = A[i]
        BY <2>5, <3>3, <4>1
      <4>3. \A i \in 1 .. n : B[i] = IF i = n THEN b ELSE C[i]
        BY <2>5, <4>2
      <4>4. DOMAIN B = 1 .. n /\ DOMAIN C = 1 .. n
        BY <4>2
      <4>5. B = [i \in 1 .. n |-> B[i]]
        BY <4>2, <4>4
      <4> QED
        BY <4>3, <4>4, <4>5
    <3>5. C[n] = a
      BY <2>5, <3>3
    <3> QED
      BY <2>4, <3>3, <3>4, <3>5 DEF OwnSet
  <2>8. OwnedBy(C, B, n) /\ B[n].own = v
    <3>1. v \in Values \cup {"global", NoValue}
      BY <1>6
    <3> QED
      BY <2>1, <2>4, <2>7, <3>1, OwnIsSet
  <2>9. Scoped(T, B)
    BY <1>3, <2>2, <2>5, <2>6, <2>8, FollowedScoped
  <2> QED
    BY <1>6, <2>9
<1> QED
  BY <1>5, <1>6

\* pop_context takes the definition away, then the saved one back.
Emptied(S, t) ==
  LET S1 == IF IsVariable(S, t) THEN PopDef(S, t) ELSE S
  IN IF IsFunction(S1, t) THEN PopDef(S1, t) ELSE S1

LEMMA EmptiedFollows ==
  ASSUME NEW S, Good(S), NEW t \in Table \ {"Global"}, NEW T, T = Emptied(S, t)
  PROVE  Follows(S, T, t)
<1>1. PICK X : X = IF IsVariable(S, t) THEN PopDef(S, t) ELSE S
  OBVIOUS
<1>2. T = IF IsFunction(X, t) THEN PopDef(X, t) ELSE X
  BY <1>1 DEF Emptied
<1>3. Follows(S, X, t)
  <2>1. CASE IsVariable(S, t)
    BY <1>1, <2>1, PopDefFollows
  <2>2. CASE ~ IsVariable(S, t)
    BY <1>1, <2>2, FollowsSelf
  <2> QED
    BY <2>1, <2>2
<1>4. Follows(X, T, t)
  <2>1. Good(X)
    BY <1>3 DEF Follows
  <2>2. CASE IsFunction(X, t)
    BY <1>2, <2>1, <2>2, PopDefFollows
  <2>3. CASE ~ IsFunction(X, t)
    BY <1>2, <2>1, <2>3, FollowsSelf
  <2> QED
    BY <2>2, <2>3
<1> QED
  BY <1>3, <1>4, FollowsTrans

\* clear in t takes its user function, too, and nothing else that matters here.
Cleared(S, T, t) ==
  /\ Follows(S, T, t) /\ TypeOf(T, t) # "ufn"
  /\ TypeOf(T, "Global") = TypeOf(S, "Global")
  /\ \A c \in Cell : T.heap[c].type = "free" <=> S.heap[c].type = "free"

LEMMA ClearTableTakes ==
  ASSUME NEW S, Good(S), NEW t \in Table \ {"Global"}, NEW T, T = ClearTable(S, t, TRUE)
  PROVE  Cleared(S, T, t)
<1>1. CASE TypeOf(S, t) \in {"uvar", "ufn"}
  <2>1. T = ClearRecord(S, t) /\ DefOf(S, t) # Nil
    BY <1>1 DEF ClearTable, TypeOf
  <2>2. /\ Follows(S, T, t) /\ TypeOf(T, "Global") = TypeOf(S, "Global")
        /\ DefOf(T, t) = Nil
        /\ \A c \in Cell : T.heap[c].type = "free" <=> S.heap[c].type = "free"
    BY <2>1, ClearRecordFollows
  <2> QED
    BY <2>2 DEF Cleared, TypeOf
<1>2. CASE TypeOf(S, t) \notin {"uvar", "ufn"}
  <2>1. T = S
    BY <1>2 DEF ClearTable
  <2> QED
    BY <1>2, <2>1, FollowsSelf DEF Cleared
<1> QED
  BY <1>1, <1>2

\* The end of a call of f; X is what it leaves before the record is taken back.
LEMMA EndedScoped ==
  ASSUME NEW S, NEW A, Scoped(S, A), Len(A) > 1, NEW f, f = A[Len(A)].t,
         NEW B, B = Returned(A), NEW X, X = ClearTable(S, f, TRUE),
         NEW T, T = IF Runs(B, f) THEN PopContext(X, f) ELSE X
  PROVE  Scoped(T, B)
<1>1. Good(S) /\ Acts(A)
  BY DEF Scoped
<1>2. PICK n : n = Len(A)
  OBVIOUS
<1>3. n \in 1 .. Len(A) /\ Last(A, n) /\ f \in Table \ {"Global"}
  BY <1>1, <1>2, RunsLast
<1>5. Follows(S, X, f) /\ TypeOf(X, f) # "ufn"
  BY <1>1, <1>3, ClearTableTakes DEF Cleared
<1>6. PICK C : C = OwnSet(A, NoValue)
  OBVIOUS
<1>7. OwnedBy(A, C, n) /\ C[n].own = NoValue /\ C[n].t = f
  <2>1. NoValue \in Values \cup {"global", NoValue}
    OBVIOUS
  <2>2. PICK o \in Values \cup {"global", NoValue} : o = NoValue
    OBVIOUS
  <2> QED
    BY <1>1, <1>2, <1>6, <2>2, OwnIsSet
<1>8. Acts(C) /\ Len(C) = n /\ \A i \in 1 .. n : C[i].t = A[i].t
  BY <1>2, <1>7 DEF OwnedBy, SameTables
<1>9. Returned(C) = B
  <2>1. A \in Seq(Activation) /\ n \in Nat \ {0} /\ C \in Seq(Activation)
    BY <1>1, <1>2, <1>8, ActsFacts
  <2>2. \A i \in 1 .. n : i # n => C[i] = A[i]
    BY <1>2, <1>6, <2>1 DEF OwnSet
  <2>3. n - 1 \in Nat /\ n - 1 <= n
    BY <2>1
  <2>4. \A i \in 1 .. n - 1 : C[i] = A[i]
    BY <2>1, <2>2
  <2>5. SubSeq(C, 1, n - 1) = [i \in 1 .. n - 1 |-> C[i]]
        /\ SubSeq(A, 1, n - 1) = [i \in 1 .. n - 1 |-> A[i]]
    BY <2>1, <2>3
  <2> QED
    BY <1>2, <1>8, <2>4, <2>5 DEF Returned
<1>10. PICK Y : Y = IF Runs(B, f) /\ Len(X.rec[f].ctx) # 0 THEN Emptied(X, f) ELSE X
  OBVIOUS
<1>11. Follows(S, Y, f)
  <2>1. Good(X)
    BY <1>5 DEF Follows
  <2>2. CASE Runs(B, f) /\ Len(X.rec[f].ctx) # 0
    <3>1. Y = Emptied(X, f)
      BY <1>10, <2>2
    <3>2. Follows(X, Y, f)
      BY <1>3, <2>1, <3>1, EmptiedFollows
    <3> QED
      BY <1>3, <1>5, <3>2, FollowsTrans
  <2>3. CASE ~ (Runs(B, f) /\ Len(X.rec[f].ctx) # 0)
    BY <1>5, <1>10, <2>3
  <2> QED
    BY <2>2, <2>3
<1>12. Scoped(Y, C)
  <2>1. f = A[n].t
    BY <1>2
  <2> QED
    BY <1>3, <1>7, <1>11, <2>1, FollowedScoped
<1>13. Y.rec[f].ctx = X.rec[f].ctx
  BY <1>5, <1>11 DEF Follows, Frame
<1>14. T = ReturnedTo(Y, B, f)
  <2>1. CASE Runs(B, f) /\ Len(X.rec[f].ctx) # 0
    <3>1. T = PopContext(X, f) /\ Y = Emptied(X, f)
      BY <1>10, <2>1
    <3>2. T = [Y EXCEPT !.rec[f] =
                 [@ EXCEPT !.def = X.rec[f].ctx[Len(X.rec[f].ctx)].def,
                           !.linked = X.rec[f].ctx[Len(X.rec[f].ctx)].linked,
                           !.ctx = SubSeq(X.rec[f].ctx, 1, Len(X.rec[f].ctx) - 1)]]
      BY <2>1, <3>1 DEF PopContext, Emptied
    <3>3. T = Popped(Y, f)
      BY <1>13, <3>2 DEF Popped
    <3> QED
      BY <1>13, <2>1, <3>3 DEF ReturnedTo
  <2>2. CASE ~ (Runs(B, f) /\ Len(X.rec[f].ctx) # 0)
    <3>1. T = X /\ Y = X
      BY <1>10, <2>2 DEF PopContext
    <3> QED
      BY <2>2, <3>1 DEF ReturnedTo
  <2> QED
    BY <2>1, <2>2
<1>15. Runs(B, f) \/ TypeOf(Y, f) # "ufn"
  BY <1>5, <1>10
<1> QED
  BY <1>2, <1>7, <1>8, <1>9, <1>12, <1>14, <1>15, ReturnedScoped

-----------------------------------------------------------------------------
(***************************************************************************)
(* clear, and the definition of a function                                 *)
(***************************************************************************)

\* The activations that a clear, or a definition, in the n-th one leaves: those
\* that have declared x global, and the n-th, are told nothing of x.
Told(A, n) ==
  [j \in 1 .. Len(A) |-> IF j = n \/ A[j].own = "global"
                         THEN [A[j] EXCEPT !.own = NoValue] ELSE A[j]]

LEMMA ToldActs ==
  ASSUME NEW A, Acts(A), NEW n \in 1 .. Len(A), NEW B, B = Told(A, n)
  PROVE  /\ OwnedBy(A, B, n) /\ Acts(B) /\ Len(B) = Len(A) /\ B[n].own = NoValue
         /\ \A i \in 1 .. Len(A) : B[i].t = A[i].t /\ B[i].own # "global"
<1>1. A \in Seq(Activation) /\ Len(A) \in Nat \ {0}
  BY ActsFacts
<1>2. ASSUME NEW i \in 1 .. Len(A)
      PROVE  /\ B[i] \in Activation /\ B[i].t = A[i].t /\ B[i].own # "global"
             /\ B[i].own \in {A[i].own, NoValue} /\ (i = n => B[i].own = NoValue)
  <2>1. A[i] \in Activation
    BY <1>1
  <2>2. PICK a : a = [A[i] EXCEPT !.own = NoValue]
    OBVIOUS
  <2>3. a \in Activation /\ a.t = A[i].t /\ a.own = NoValue
    BY <2>1, <2>2 DEF Activation
  <2>4. B[i] = IF i = n \/ A[i].own = "global" THEN a ELSE A[i]
    BY <2>2 DEF Told
  <2>5. NoValue # "global"
    BY DEF NoValue
  <2> QED
    BY <2>1, <2>3, <2>4, <2>5
<1>3. B \in Seq(Activation) /\ Len(B) = Len(A)
  <2>1. B = [j \in 1 .. Len(A) |-> B[j]]
    BY DEF Told
  <2>2. B \in [1 .. Len(A) -> Activation]
    BY <1>2, <2>1
  <2>3. B \in Seq(Activation)
    BY <1>1, <2>2
  <2> QED
    BY <1>1, <2>2, <2>3
<1>4. Acts(B)
  <2>1. B # <<>>
    BY <1>1, <1>3
  <2>2. 1 \in 1 .. Len(A)
    BY <1>1
  <2> QED
    BY <1>2, <1>3, <2>1, <2>2 DEF Acts
<1> QED
  BY <1>2, <1>3, <1>4 DEF OwnedBy, SameTables

LEMMA ToldScoped ==
  ASSUME NEW S, NEW A, Scoped(S, A), NEW n \in 1 .. Len(A), Last(A, n), NEW B, B = Told(A, n)
  PROVE  Scoped(S, B)
<1>1. Acts(A) /\ Good(S)
  BY DEF Scoped
<1>2. OwnedBy(A, B, n) /\ B[n].own = NoValue
  BY <1>1, ToldActs
<1>3. PICK t : t = A[n].t
  OBVIOUS
<1>4. t \in Table
  BY <1>1, <1>3, ActsFacts
<1>5. Follows(S, S, t)
  BY <1>1, <1>4, FollowsSelf
<1> QED
  BY <1>2, <1>3, <1>5, FollowedScoped

\* The names of t are cleared.
LEMMA LocalCleared ==
  ASSUME NEW S, NEW B, Scoped(S, B), NEW n \in 1 .. Len(B), Last(B, n), B[n].own = NoValue,
         NEW t, t = B[n].t, NEW T, T = ClearTable(S, t, TRUE)
  PROVE  Scoped(T, B) /\ Cleared(S, T, t)
<1>1. Acts(B) /\ Good(S)
  BY DEF Scoped
<1>2. t \in Table \ {"Global"}
  BY <1>1, ActsFacts
<1>3. Cleared(S, T, t)
  BY <1>1, <1>2, ClearTableTakes
<1>6. OwnedBy(B, B, n)
  BY <1>1, OwnUnchanged
<1>7. Scoped(T, B)
  BY <1>3, <1>6, FollowedScoped DEF Cleared
<1> QED
  BY <1>3, <1>7

\* No table but the global one refers to a user function.
NoLinks(S) ==
  \A u \in Table \ {"Global"} : \A i \in Slots(S, u) : \A c \in Cell :
    At(S, u, i) = c => S.heap[c].type # "ufn"

LEMMA GlobalTaken ==
  ASSUME NEW S, Good(S), NEW t \in Table \ {"Global"}, DefOf(S, "Global") # Nil,
         TypeOf(S, "Global") = "ufn" => NoLinks(S), NEW T, T = PopDef(S, "Global")
  PROVE  Good(T) /\ Frame(S, T, t)
<1>1. Shape(S) /\ Counted(S) /\ Sound(S) /\ FnGlobal(S) /\ "Global" \in Table
  BY ShapeFacts DEF Good, Sound
<1>2. PICK l \in BOOLEAN : l = S.rec["Global"].linked
  BY <1>1, ShapeFacts
<1>3. ~ l
  BY <1>1, <1>2 DEF Sound, GlobalAlone
<1>4. Shape(T) /\ Released(S, T, "Global", l)
  BY <1>1, <1>2, PopDefReleases
<1>5. Sound(T) /\ Frame(S, T, t) /\ DefOf(T, "Global") = Nil
  BY <1>1, <1>3, <1>4, GlobalReleased
<1>6. \A c \in Cell : RefsIn(T, c) # {} =>
        RefsIn(T, c) \subseteq RefsIn(S, c) /\ T.heap[c].type = S.heap[c].type
  BY <1>1, <1>4, GlobalReleasedRefs
<1>7. FnGlobal(T)
  <2>1. SUFFICES ASSUME NEW u \in Table, NEW i \in Slots(T, u), NEW c \in Cell,
                        At(T, u, i) = c, T.heap[c].type = "ufn"
                 PROVE  FALSE
    BY DEF FnGlobal
  <2>2. <<u, i>> \in RefsIn(T, c)
    BY <1>4, <2>1, InRefs
  <2>3. <<u, i>> \in RefsIn(S, c) /\ S.heap[c].type = "ufn"
    BY <1>6, <2>1, <2>2
  <2>4. i \in Slots(S, u) /\ At(S, u, i) = c
    BY <2>3 DEF RefsIn
  <2>5. TypeOf(S, "Global") = "ufn"
    BY <1>1, <2>3, <2>4 DEF FnGlobal
  <2>6. CASE u # "Global"
    BY <2>3, <2>4, <2>5, <2>6 DEF NoLinks
  <2>7. CASE u = "Global"
    <3>1. i = 0
      BY <1>5, <2>1, <2>7 DEF Sound, GlobalAlone, Slots
    <3>2. c = Nil
      BY <1>5, <2>1, <2>7, <3>1 DEF At, DefOf
    <3> QED
      BY <1>1, <3>2, ShapeFacts
  <2> QED
    BY <2>6, <2>7
<1> QED
  BY <1>5, <1>7 DEF Good

\* The user functions of an activation at top level are those of its own table.
LEMMA TopLinks ==
  ASSUME NEW S, NEW B, Scoped(S, B), Len(B) = 1, TypeOf(S, B[1].t) # "ufn"
  PROVE  NoLinks(S)
<1>1. Shape(S) /\ Acts(B) /\ Resting(S, B)
  BY DEF Scoped, Good, Sound
<1>2. PICK m \in [1 .. Len(B) -> Int] : Placed(S, B, m)
  BY DEF Scoped
<1>3. SUFFICES ASSUME NEW u \in Table \ {"Global"}, NEW i \in Slots(S, u), NEW c \in Cell,
                      At(S, u, i) = c
               PROVE  S.heap[c].type # "ufn"
  BY DEF NoLinks
<1>4. i = 0
  <2>1. SUFFICES ASSUME i # 0 PROVE FALSE
    OBVIOUS
  <2>2. i \in 1 .. Len(S.rec[u].ctx)
    BY <1>1, <1>3, <2>1, ShapeFacts DEF Slots
  <2>3. PICK j \in 1 .. Len(B) : B[j].t = u /\ m[j] = i
    BY <1>2, <2>2 DEF Placed
  <2>4. j = 1 /\ Last(B, j)
    BY <2>3 DEF Last
  <2>5. m[j] = 0
    BY <1>2, <2>3, <2>4 DEF Placed
  <2> QED
    BY <2>1, <2>3, <2>5
<1>5. TypeOf(S, u) # "ufn"
  <2>1. CASE u = B[1].t
    BY <2>1
  <2>2. CASE u # B[1].t
    <3>1. ~ Runs(B, u)
      BY <2>2 DEF Runs
    <3> QED
      BY <1>1, <3>1 DEF Resting
  <2> QED
    BY <2>1, <2>2
<1>6. c = DefOf(S, u) /\ c # Nil
  BY <1>1, <1>3, <1>4, ShapeFacts DEF At, DefOf
<1> QED
  BY <1>5, <1>6 DEF TypeOf

LEMMA ClearGlobal ==
  ASSUME NEW S, Good(S), NEW functions, NEW T, T = ClearTable(S, "Global", functions)
  PROVE  \/ T = S
         \/ /\ DefOf(S, "Global") # Nil /\ T = PopDef(S, "Global")
            /\ TypeOf(S, "Global") = "uvar" \/ (functions /\ TypeOf(S, "Global") = "ufn")
<1>1. ~ Linked(S, "Global")
  BY DEF Good, Sound, GlobalAlone, Linked
<1>2. CASE TypeOf(S, "Global") = "uvar" \/ (functions /\ TypeOf(S, "Global") = "ufn")
  <2>1. T = PopDef(S, "Global")
    BY <1>1, <1>2 DEF ClearTable, ClearRecord
  <2>2. DefOf(S, "Global") # Nil
    BY <1>2 DEF TypeOf
  <2> QED
    BY <1>2, <2>1, <2>2
<1>3. CASE ~ (TypeOf(S, "Global") = "uvar" \/ (functions /\ TypeOf(S, "Global") = "ufn"))
  BY <1>3 DEF ClearTable
<1> QED
  BY <1>2, <1>3

\* The names of the global symbol table are cleared, with the functions at top level.
LEMMA GlobalCleared ==
  ASSUME NEW S, NEW B, Scoped(S, B), NEW n \in 1 .. Len(B), Last(B, n), n = Len(B),
         B[n].own = NoValue, \A i \in 1 .. Len(B) : B[i].own # "global",
         n = 1 => TypeOf(S, B[n].t) # "ufn",
         NEW T, T = ClearTable(S, "Global", n = 1)
  PROVE  Scoped(T, B)
<1>1. Acts(B) /\ Good(S) /\ SelfRuns(S, B)
  BY DEF Scoped
<1>2. PICK t : t = B[n].t
  OBVIOUS
<1>3. t \in Table \ {"Global"}
  BY <1>1, <1>2, ActsFacts
<1>4. \/ T = S
      \/ /\ DefOf(S, "Global") # Nil /\ T = PopDef(S, "Global")
         /\ TypeOf(S, "Global") = "uvar" \/ (n = 1 /\ TypeOf(S, "Global") = "ufn")
  <2>1. PICK functions \in BOOLEAN : functions = (n = 1)
    OBVIOUS
  <2>2. T = ClearTable(S, "Global", functions)
    BY <2>1
  <2>3. \/ T = S
        \/ /\ DefOf(S, "Global") # Nil /\ T = PopDef(S, "Global")
           /\ TypeOf(S, "Global") = "uvar" \/ (functions /\ TypeOf(S, "Global") = "ufn")
    BY <1>1, <2>2, ClearGlobal
  <2> QED
    BY <2>1, <2>3
<1>5. CASE /\ DefOf(S, "Global") # Nil /\ T = PopDef(S, "Global")
           /\ TypeOf(S, "Global") = "uvar" \/ (n = 1 /\ TypeOf(S, "Global") = "ufn")
  <2>1. TypeOf(S, "Global") = "ufn" => NoLinks(S)
    <3>1. SUFFICES ASSUME TypeOf(S, "Global") = "ufn" PROVE NoLinks(S)
      OBVIOUS
    <3>2. n = 1 /\ Len(B) = 1
      BY <1>5, <3>1
    <3> QED
      BY <3>2, TopLinks
  <2>2. Good(T) /\ Frame(S, T, t)
    BY <1>1, <1>3, <1>5, <2>1, GlobalTaken
  <2>3. SelfRuns(T, B)
    <3>1. SUFFICES ASSUME NEW u \in Self, Runs(B, u) PROVE FALSE
      BY DEF SelfRuns
    <3>2. TypeOf(S, "Global") = "ufn"
      BY <1>1, <3>1 DEF SelfRuns
    <3>3. n = 1 /\ B[1].t = "Top"
      BY <1>1, <1>5, <3>2 DEF Acts
    <3>4. u = "Top"
      BY <3>1, <3>3 DEF Runs
    <3> QED
      BY <3>1, <3>4, ScopeAssumption
  <2>4. SameTables(B, B)
    BY <1>1 DEF SameTables
  <2> QED
    BY <1>2, <1>3, <2>2, <2>3, <2>4, StatementScoped
<1> QED
  BY <1>4, <1>5

\* Before a function becomes the definition of the global symbol table.
LEMMA GlobalMadeFree ==
  ASSUME NEW S, Good(S), HasFree(S), TypeOf(S, "Global") \in {"none", "bvar", "ufn"},
         NEW T, T = Emptied(S, "Global"), NEW t \in Table \ {"Global"}
  PROVE  Sound(T) /\ Frame(S, T, t) /\ DefOf(T, "Global") = Nil /\ HasFree(T)
<1>1. Shape(S) /\ Counted(S) /\ Sound(S) /\ "Global" \in Table
  BY ShapeFacts DEF Good, Sound
<1>2. CASE DefOf(S, "Global") = Nil
  <2>1. T = S
    BY <1>2 DEF Emptied, IsVariable, IsFunction, TypeOf
  <2>2. Frame(S, S, t)
    BY FollowsSelf DEF Follows
  <2> QED
    BY <1>1, <1>2, <2>1, <2>2
<1>3. CASE DefOf(S, "Global") # Nil
  <2>1. PICK X : X = PopDef(S, "Global")
    OBVIOUS
  <2>2. PICK l \in BOOLEAN : l = S.rec["Global"].linked
    BY <1>1, ShapeFacts
  <2>3. ~ l
    BY <1>1, <2>2 DEF Sound, GlobalAlone
  <2>4. Shape(X) /\ Released(S, X, "Global", l)
    BY <1>1, <1>3, <2>1, <2>2, PopDefReleases
  <2>5. /\ Sound(X) /\ Frame(S, X, t) /\ DefOf(X, "Global") = Nil
        /\ \A c \in Cell : X.heap[c].type = "free" <=> S.heap[c].type = "free"
    BY <1>1, <2>3, <2>4, GlobalReleased
  <2>6. HasFree(X)
    BY <2>5 DEF HasFree
  <2>7. TypeOf(S, "Global") \in {"bvar", "ufn"}
    <3>1. S.heap[DefOf(S, "Global")] \in Definition
      BY <1>1, <1>3, Holder
    <3>2. TypeOf(S, "Global") # "none"
      BY <1>3, <3>1 DEF TypeOf, Definition, Types
    <3> QED
      BY <3>2
  <2>8. TypeOf(X, "Global") = "none"
    BY <2>5 DEF TypeOf
  <2>9. T = X
    BY <2>1, <2>7, <2>8 DEF Emptied, IsVariable, IsFunction
  <2> QED
    BY <2>5, <2>6, <2>9
<1> QED
  BY <1>2, <1>3

LEMMA FunctionDefined ==
  ASSUME NEW S, NEW B, Scoped(S, B), NEW n \in 1 .. Len(B), Last(B, n), B[n].own = NoValue,
         \A i \in 1 .. Len(B) : B[i].own # "global", HasFree(S),
         TypeOf(S, "Global") \notin {"uvar", "unknown"}, NEW f \in Self,
         NEW T, T = DefineFunction(S, "Global", f)
  PROVE  Scoped(T, B)
<1>1. Acts(B) /\ Good(S) /\ Shape(S) /\ Counted(S) /\ "Global" \in Table
  BY ShapeFacts DEF Scoped, Good, Sound
<1>2. PICK t : t = B[n].t
  OBVIOUS
<1>3. t \in Table \ {"Global"}
  BY <1>1, <1>2, ActsFacts
<1>4. TypeOf(S, "Global") \in {"none", "bvar", "ufn", "bfn"}
  <2>1. CASE DefOf(S, "Global") = Nil
    BY <2>1 DEF TypeOf
  <2>2. CASE DefOf(S, "Global") # Nil
    <3>1. S.heap[DefOf(S, "Global")] \in Definition
          /\ S.heap[DefOf(S, "Global")].type \notin {"free", "deleted"}
      BY <1>1, <2>2, Holder
    <3> QED
      BY <2>2, <3>1 DEF TypeOf, Definition, Types
  <2> QED
    BY <2>1, <2>2
<1>5. CASE TypeOf(S, "Global") = "bfn"
  <2>1. T = S
    BY <1>5 DEF DefineFunction
  <2> QED
    BY <2>1
<1>6. CASE TypeOf(S, "Global") # "bfn"
  <2>1. PICK X : X = Emptied(S, "Global")
    OBVIOUS
  <2>2. T = PushDef(X, "Global", FnDef(f))
    BY <1>6, <2>1 DEF DefineFunction, Emptied
  <2>3. Sound(X) /\ Frame(S, X, t) /\ DefOf(X, "Global") = Nil /\ HasFree(X)
    <3>1. TypeOf(S, "Global") \in {"none", "bvar", "ufn"}
      BY <1>4, <1>6
    <3> QED
      BY <1>1, <1>3, <2>1, <3>1, GlobalMadeFree
  <2>4. PICK def : def = FnDef(f)
    OBVIOUS
  <2>5. def \in Definition /\ def.type = "ufn" /\ def.fn = f
    BY <2>4, NewDefinitions
  <2>6. PICK r \in {t, "Global"} : r = "Global"
    OBVIOUS
  <2>7. /\ Shape(T)
        /\ \E c \in Cell : /\ Pushed(X, T, r, c) /\ T.heap[c].type = def.type
                           /\ T.heap[c].val = def.val /\ T.heap[c].fn = def.fn
    <3>1. /\ Shape(X) /\ r \in Table /\ DefOf(X, r) = Nil /\ T = PushDef(X, r, def)
          /\ def.type \in {"uvar", "bvar", "ufn", "bfn", "unknown"}
          /\ (r # "Global" => def.type = "uvar") /\ (def.type = "ufn" => def.fn \in Self)
      BY <1>1, <2>2, <2>3, <2>4, <2>5, <2>6 DEF Sound
    <3> QED
      BY <2>3, <2>5, <3>1, PushDefPushes
  <2>8. PICK c \in Cell : Pushed(X, T, r, c) /\ T.heap[c].type = "ufn"
    BY <2>5, <2>7
  <2>9. Sound(T)
    <3>1. r \in Table
      BY <1>1, <2>6
    <3> QED
      BY <2>3, <2>7, <2>8, <3>1, PushedKeeps
  <2>10. Frame(X, T, t)
    <3>1. Shape(X)
      BY <2>3 DEF Sound
    <3> QED
      BY <1>3, <2>8, <3>1, PushedFrame
  <2>11. Frame(S, T, t)
    BY <1>3, <2>3, <2>10, FrameTrans
  <2>12. TypeOf(T, "Global") = "ufn"
    <3>1. DefOf(T, "Global") = c /\ c # Nil
      BY <1>1, <2>6, <2>8, ShapeFacts DEF Pushed, Puts, DefOf
    <3> QED
      BY <2>8, <3>1 DEF TypeOf
  <2>13. Good(T)
    BY <2>9, <2>12 DEF Good, FnGlobal
  <2>14. SelfRuns(T, B)
    BY <2>12 DEF SelfRuns
  <2>15. SameTables(B, B)
    BY <1>1 DEF SameTables
  <2> QED
    BY <1>2, <1>3, <2>11, <2>13, <2>14, <2>15, StatementScoped
<1> QED
  BY <1>5, <1>6

\* The table of a new function.
LEMMA NewTable ==
  ASSUME NEW S, NEW B, Scoped(S, B), NEW f \in Self, ~ Runs(B, f), NEW b \in BOOLEAN,
         NEW r, r = [NoRecord EXCEPT !.here = b], NEW T, GetsRecord(S, T, f, r)
  PROVE  Scoped(T, B)
<1>1. Shape(S) /\ f \in Table /\ f # "Global"
  BY ShapeFacts, ScopeAssumption DEF Scoped, Good, Sound
<1>2. r \in Record /\ r.def = Nil /\ r.linked = FALSE /\ r.ctx = <<>>
  <2>1. NoRecord \in Record /\ NoRecord.def = Nil /\ NoRecord.linked = FALSE
        /\ NoRecord.ctx = <<>>
    BY DEF NoRecord, Record, Nil
  <2> QED
    BY <2>1, Zenon DEF Record
<1>3. /\ Shape(T) /\ T.heap = S.heap /\ T.rec[f] = r
      /\ \A u \in Table \ {f} : T.rec[u] = S.rec[u]
  BY <1>1, <1>2, RecordSet
<1>4. Dropped(S, T)
  BY <1>1, <1>2, <1>3 DEF Dropped
<1>5. \A u \in Table : Runs(B, u) => T.rec[u] = S.rec[u]
  BY <1>3
<1> QED
  BY <1>3, <1>4, <1>5, DroppedScoped

-----------------------------------------------------------------------------
(***************************************************************************)
(* The start                                                               *)
(***************************************************************************)

Blank == [heap |-> [c \in Cell |-> Unused], rec |-> [t \in Table |-> NoRecord]]

LEMMA BlankGood ==
  /\ Good(Blank) /\ HasFree(Blank) /\ DefOf(Blank, "Global") = Nil
  /\ \A t \in Table : Blank.rec[t] = NoRecord
  /\ \A c \in Cell : Blank.heap[c] = Unused
<1> DEFINE S == Blank
<1>1. NoRecord \in Record /\ Unused \in Definition
  BY DEF NoRecord, Record, Unused, Definition, Types, Nil
<1>2. S.heap = [c \in Cell |-> Unused] /\ S.rec = [t \in Table |-> NoRecord]
      /\ S = [heap |-> S.heap, rec |-> S.rec]
  BY DEF Blank
<1> HIDE DEF S
<1>3. /\ \A t \in Table : S.rec[t] = NoRecord
      /\ \A c \in Cell : S.heap[c] = Unused
  BY <1>2
<1>4. Shape(S)
  <2>1. S.heap \in [Cell -> Definition] /\ S.rec \in [Table -> Record]
    BY <1>1, <1>2
  <2>2. \A c \in Cell : S.heap[c].type = "ufn" => S.heap[c].fn \in Self
    BY <1>3 DEF Unused
  <2> QED
    BY <1>2, <2>1, <2>2 DEF Shape
<1>5. ASSUME NEW t \in Table, NEW i \in Slots(S, t)
      PROVE  i = 0 /\ At(S, t, i) = Nil /\ ~ ToGlobal(S, t, i)
  <2>1. S.rec[t].ctx = <<>> /\ S.rec[t].def = Nil /\ S.rec[t].linked = FALSE
    BY <1>3 DEF NoRecord
  <2>2. i = 0
    BY <2>1 DEF Slots
  <2> QED
    BY <2>1, <2>2 DEF At, ToGlobal
<1>6. Nil \notin Cell /\ "Global" \in Table /\ Formal \subseteq Table
  BY <1>4, ShapeFacts
<1>7. \A c \in Cell : RefsIn(S, c) = {}
  BY <1>5, <1>6 DEF RefsIn
<1>8. Counted(S)
  <2>1. IsFiniteSet({}) /\ Cardinality({}) = 0
    BY FS_EmptySet
  <2> QED
    BY <1>3, <1>7, <2>1 DEF Counted, Unused
<1>9. Private(S) /\ ParamsOwn(S) /\ FnGlobal(S)
  BY <1>5, <1>6 DEF Private, ParamsOwn, FnGlobal
<1>10. GlobalAlone(S)
  BY <1>3, <1>6 DEF GlobalAlone, NoRecord
<1>11. HasFree(S)
  <2>1. 1 \in Cell
    BY BoundAssumption DEF Cell
  <2> QED
    BY <1>3, <2>1 DEF HasFree, Unused
<1>12. DefOf(S, "Global") = Nil
  BY <1>3, <1>6 DEF DefOf, NoRecord
<1> QED
  BY <1>3, <1>4, <1>8, <1>9, <1>10, <1>11, <1>12 DEF Good, Sound, S

LEMMA InstalledGood ==
  ASSUME NEW b \in {"bvar", "bfn", "none"}, NEW v \in Values, NEW S, S = Installed(b, v)
  PROVE  /\ Good(S) /\ \A t \in Table \ {"Global"} : S.rec[t] = NoRecord
         /\ S.rec["Global"].ctx = <<>>
<1>1. PICK X : X = Blank
  OBVIOUS
<1>2. /\ Good(X) /\ HasFree(X) /\ DefOf(X, "Global") = Nil
      /\ "Global" \in Table /\ \A t \in Table : X.rec[t] = NoRecord /\ X.rec[t].ctx = <<>>
  <2>1. NoRecord.ctx = <<>>
    BY DEF NoRecord
  <2> QED
    BY <1>1, <2>1, BlankGood, ShapeFacts DEF Good, Sound
<1>3. CASE b = "none"
  <2>1. S = X
    BY <1>1, <1>3 DEF Installed, Blank
  <2> QED
    BY <1>2, <2>1
<1>4. CASE b # "none"
  <2>1. PICK val : val = IF b = "bvar" THEN v ELSE NoValue
    OBVIOUS
  <2>2. PICK def : def = [Unused EXCEPT !.type = b, !.val = val]
    OBVIOUS
  <2>3. def \in Definition /\ def.type = b
    BY <1>4, <2>1, <2>2 DEF Definition, Unused, Types, Nil
  <2>4. PICK Y : Y = PushDef(X, "Global", def)
    OBVIOUS
  <2>5. /\ Shape(Y)
        /\ \E c \in Cell : /\ Pushed(X, Y, "Global", c) /\ Y.heap[c].type = def.type
                           /\ Y.heap[c].val = def.val /\ Y.heap[c].fn = def.fn
    <3>1. PICK r \in Table : r = "Global"
      BY <1>2
    <3>2. /\ Shape(X) /\ DefOf(X, r) = Nil /\ Y = PushDef(X, r, def)
          /\ def.type \in {"uvar", "bvar", "ufn", "bfn", "unknown"}
          /\ (r # "Global" => def.type = "uvar") /\ (def.type = "ufn" => def.fn \in Self)
      BY <1>2, <1>4, <2>3, <2>4, <3>1 DEF Good, Sound
    <3>3. /\ Shape(Y)
          /\ \E c \in Cell : /\ Pushed(X, Y, r, c) /\ Y.heap[c].type = def.type
                             /\ Y.heap[c].val = def.val /\ Y.heap[c].fn = def.fn
      BY <1>2, <2>3, <3>2, PushDefPushes
    <3> QED
      BY <3>1, <3>3
  <2>6. PICK c \in Cell : Pushed(X, Y, "Global", c)
    BY <2>5
  <2>7. Good(Y)
    <3>1. Sound(X) /\ FnGlobal(X) /\ "Global" \in Table
      BY <1>2 DEF Good
    <3>2. Sound(Y) /\ (FnGlobal(X) => FnGlobal(Y))
      BY <2>5, <2>6, <3>1, PushedKeeps
    <3> QED
      BY <3>1, <3>2 DEF Good
  <2>8. /\ \A t \in Table \ {"Global"} : Y.rec[t] = NoRecord
        /\ Y.rec["Global"].ctx = <<>>
    BY <1>2, <2>6 DEF Pushed, Puts
  <2>9. GetsPlace(Y, S, "Global")
    <3>1. X = [heap |-> [c1 \in Cell |-> Unused], rec |-> [t \in Table |-> NoRecord]]
      BY <1>1 DEF Blank
    <3>2. S = [Y EXCEPT !.rec["Global"].here = TRUE]
      BY <1>4, <2>1, <2>2, <2>4, <3>1 DEF Installed
    <3> QED
      BY <3>2 DEF GetsPlace
  <2>10. Good(S)
    BY <1>2, <2>7, <2>9, PlaceFollows DEF Follows
  <2>11. /\ S.rec["Global"].ctx = Y.rec["Global"].ctx
         /\ \A u \in Table \ {"Global"} : S.rec[u] = Y.rec[u]
    BY <1>2, <2>5, <2>9, PlacePuts
  <2> QED
    BY <2>8, <2>10, <2>11
<1> QED
  BY <1>3, <1>4

LEMMA StartScoped ==
  ASSUME NEW S, Good(S), \A t \in Table \ {"Global"} : S.rec[t] = NoRecord,
         S.rec["Global"].ctx = <<>>, NEW A, A = <<[t |-> "Top", own |-> NoValue]>>
  PROVE  Scoped(S, A)
<1>1. A \in Seq(Activation) /\ A # <<>> /\ Len(A) = 1 /\ A[1].t = "Top" /\ A[1].own = NoValue
  BY DEF Activation, Table
<1>2. Acts(A)
  BY <1>1 DEF Acts
<1>3. PICK m : m = [i \in 1 .. Len(A) |-> 0]
  OBVIOUS
<1>4. m \in [1 .. Len(A) -> Int] /\ \A i \in 1 .. Len(A) : m[i] = 0 /\ i = 1
  BY <1>1, <1>3
<1>5. \A t \in Table : S.rec[t].ctx = <<>>
  BY DEF NoRecord
<1>6. Placed(S, A, m)
  <2>1. \A i \in 1 .. Len(A) : Last(A, i)
    BY <1>1 DEF Last
  <2>2. \A t \in Table : 1 .. Len(S.rec[t].ctx) = {}
    BY <1>5
  <2>3. \A i \in 1 .. Len(A) :
          IF Last(A, i) THEN m[i] = 0 ELSE m[i] = -1 \/ m[i] \in 1 .. Len(S.rec[A[i].t].ctx)
    BY <1>4, <2>1
  <2>4. \A i, j \in 1 .. Len(A) :
          i < j /\ A[i].t = A[j].t /\ m[i] > 0 => m[j] = 0 \/ m[i] < m[j]
    BY <1>4
  <2>5. \A t \in Table : \A k \in 1 .. Len(S.rec[t].ctx) :
          \E i \in 1 .. Len(A) : A[i].t = t /\ m[i] = k
    BY <2>2
  <2> QED
    BY <1>4, <2>3, <2>4, <2>5 DEF Placed
<1>7. Owned(S, A, m)
  BY <1>1, <1>4 DEF Owned
<1>8. Absent(S, A)
  BY <1>1, <1>4, <1>5 DEF Absent
<1>9. Resting(S, A)
  BY DEF Resting, TypeOf, DefOf, NoRecord
<1>10. SelfRuns(S, A)
  BY <1>1, <1>4, ScopeAssumption DEF SelfRuns, Runs
<1> QED
  BY <1>2, <1>4, <1>6, <1>7, <1>8, <1>9, <1>10 DEF Scoped

-----------------------------------------------------------------------------
(***************************************************************************)
(* The actions                                                             *)
(***************************************************************************)

\* A step that leaves the store S behind, and the activations B.
LEMMA StepScoped ==
  ASSUME NEW S, NEW B, Scoped(S, B), Becomes(S), B = act',
         \A u \in Table : Runs(B, u) => u \in Lives(S, act)
  PROVE  ScopeInv'
<1>1. Shape(S)
  BY DEF Scoped, Good, Sound
<1>2. PICK T : T = Store'
  OBVIOUS
<1>3. Left(S, T, act)
  BY <1>1, <1>2, BecomesLeft
<1>4. Scoped(T, B)
  BY <1>3, LeftScoped
<1> QED
  BY <1>2, <1>4 DEF ScopeInv

LEMMA SameLives ==
  ASSUME NEW S, NEW A, NEW B, NEW n, OwnedBy(A, B, n), NEW u \in Table, Runs(B, u)
  PROVE  u \in Lives(S, A)
<1>1. Runs(A, u)
  BY DEF OwnedBy, SameTables, Runs
<1> QED
  BY <1>1 DEF Lives

\* The store and the activations at the start of a step.
LEMMA Now ==
  ASSUME NEW S, S = Store, NEW A, A = act, NEW n, n = Depth, NEW t, t = Here, ScopeInv
  PROVE  /\ Scoped(S, A) /\ Good(S) /\ Acts(A) /\ n = Len(A) /\ n \in 1 .. Len(A)
         /\ Last(A, n) /\ t = A[n].t /\ t \in Table \ {"Global"}
<1>1. Scoped(S, A) /\ n = Len(A) /\ t = A[n].t
  BY DEF ScopeInv, Depth, Here
<1>2. Good(S) /\ Acts(A)
  BY <1>1 DEF Scoped
<1> QED
  BY <1>1, <1>2, RunsLast

LEMMA Bounds ==
  ASSUME NEW S, S = Store
  PROVE  /\ Countable => HasFree(S)
         /\ MayBeGlobal /\ Mixing = FALSE => NoFns(S)
<1>1. S.heap = heap
  BY DEF Store
<1>2. ASSUME Countable PROVE HasFree(S)
  <2>1. Cardinality({c \in Cell : heap[c].type = "free"}) >= 2
    BY <1>2 DEF Countable
  <2>2. CASE {c \in Cell : heap[c].type = "free"} = {}
    BY <2>1, <2>2, FS_EmptySet
  <2>3. CASE {c \in Cell : heap[c].type = "free"} # {}
    BY <1>1, <2>3 DEF HasFree
  <2> QED
    BY <2>2, <2>3
<1>3. MayBeGlobal /\ Mixing = FALSE => NoFns(S)
  BY <1>1 DEF MayBeGlobal, NoFns
<1> QED
  BY <1>2, <1>3

\* Whether the running activation has x for itself after the step.
LEMMA OwnAfter ==
  ASSUME NEW S, Good(S), Becomes(S), NEW t, t = Here, t \in Table, Runs(act, t)
  PROVE  Own(t) <=> IsOwn(S, t)
<1>1. Shape(S) /\ Counted(S)
  BY DEF Good, Sound
<1>2. PICK T : T = Store'
  OBVIOUS
<1>3. Left(S, T, act)
  BY <1>1, <1>2, BecomesLeft
<1>4. T.heap = heap' /\ T.rec = rec'
  BY <1>2 DEF Store
<1>5. t \in Lives(S, act)
  BY DEF Lives
<1>6. T.rec[t] = S.rec[t]
  BY <1>3, <1>5 DEF Left
<1>7. DefOf(S, t) # Nil => T.heap[DefOf(S, t)] = S.heap[DefOf(S, t)]
  <2>1. SUFFICES ASSUME DefOf(S, t) # Nil PROVE T.heap[DefOf(S, t)] = S.heap[DefOf(S, t)]
    OBVIOUS
  <2>2. DefOf(S, t) \in Cell
    BY <1>1, <2>1, Holder
  <2>3. DefOf(S, t) \in Roots(S, t)
    BY DEF Roots, DefOf
  <2>4. DefOf(S, t) \in InUse(S, act)
    BY <1>5, <2>1, <2>3 DEF InUse
  <2> QED
    BY <1>3, <2>2, <2>4 DEF Left
<1>8. IsOwn(S, t) <=> ~ S.rec[t].linked /\ DefOf(S, t) # Nil /\ S.heap[DefOf(S, t)].type = "uvar"
  BY DEF IsOwn, TypeOf
<1> QED
  BY <1>4, <1>6, <1>7, <1>8 DEF Own, DefOf

\* A step of the running activation that leaves own to it.
LEMMA StatementStep ==
  ASSUME ScopeInv, NEW t, t = Here, NEW T, Follows(Store, T, t), T.rec[t].here, Becomes(T),
         NEW own \in Values \cup {"global", NoValue}, Keeps(own),
         own # NoValue => OwnOK(T, own, t, 0)
  PROVE  ScopeInv'
<1>1. PICK S : S = Store
  OBVIOUS
<1>2. PICK A : A = act
  OBVIOUS
<1>3. PICK n : n = Depth
  OBVIOUS
<1>4. /\ Scoped(S, A) /\ Good(S) /\ Acts(A) /\ n = Len(A) /\ n \in 1 .. Len(A)
      /\ Last(A, n) /\ t = A[n].t /\ t \in Table \ {"Global"}
  BY <1>1, <1>2, <1>3, Now
<1>5. PICK B : B = OwnSet(A, own)
  OBVIOUS
<1>6. B = act'
  BY <1>2, <1>5 DEF Keeps, OwnSet, Depth
<1>7. OwnedBy(A, B, n) /\ B[n].own = own
  BY <1>4, <1>5, OwnIsSet
<1>8. Scoped(T, B)
  <2>1. Follows(S, T, t)
    BY <1>1
  <2> QED
    BY <1>4, <1>7, <2>1, FollowedScoped
<1>9. \A u \in Table : Runs(B, u) => u \in Lives(T, act)
  BY <1>2, <1>7, SameLives
<1> QED
  BY <1>6, <1>8, <1>9, StepScoped

\* What the running activation has of x before a statement that mentions it.
LEMMA NowMentioned ==
  ASSUME ScopeInv, NEW S, S = Store, NEW t, t = Here, NEW M, M = Mentioned(S),
         NEW own, own = act[Depth].own
  PROVE  /\ Follows(S, M, t) /\ Good(M) /\ M.heap = S.heap /\ M.rec[t].here
         /\ M.rec[t].linked = S.rec[t].linked /\ t \in Table \ {"Global"}
         /\ own \in Values \cup {"global", NoValue}
         /\ own # NoValue => OwnOK(M, own, t, 0)
         /\ HasFree(S) => HasFree(M)
         /\ NoFns(S) => NoFns(M)
<1>1. PICK A : A = act
  OBVIOUS
<1>2. PICK n : n = Depth
  OBVIOUS
<1>3. /\ Scoped(S, A) /\ Good(S) /\ Acts(A) /\ n = Len(A) /\ n \in 1 .. Len(A)
      /\ Last(A, n) /\ t = A[n].t /\ t \in Table \ {"Global"}
  BY <1>1, <1>2, Now
<1>4. GetsPlace(S, M, t)
  BY DEF GetsPlace, Mentioned
<1>5. /\ Follows(S, M, t) /\ M.heap = S.heap /\ M.rec[t].here
      /\ M.rec[t].linked = S.rec[t].linked
  BY <1>3, <1>4, PlaceFollows
<1>6. own = A[n].own
  BY <1>1, <1>2
<1>7. own \in Values \cup {"global", NoValue}
  BY <1>3, <1>6, ActsFacts
<1>8. own # NoValue => OwnOK(M, own, t, 0)
  <2>1. SUFFICES ASSUME own # NoValue PROVE OwnOK(M, own, t, 0)
    OBVIOUS
  <2>2. OwnOK(S, own, t, 0)
    BY <1>3, <1>6, <2>1, OwnNow
  <2> QED
    BY <1>3, <1>4, <2>2, PlaceKeepsOwn
<1>9. (HasFree(S) => HasFree(M)) /\ (NoFns(S) => NoFns(M))
  BY <1>5 DEF HasFree, NoFns
<1> QED
  BY <1>3, <1>5, <1>7, <1>8, <1>9 DEF Follows

LEMMA AssignmentScoped ==
  ASSUME ScopeInv, Assignment
  PROVE  ScopeInv'
<1>1. PICK S : S = Store
  OBVIOUS
<1>2. PICK t : t = Here
  OBVIOUS
<1>3. PICK M : M = Mentioned(S)
  OBVIOUS
<1>4. PICK old : old = act[Depth].own
  OBVIOUS
<1>5. /\ Follows(S, M, t) /\ Good(M) /\ M.heap = S.heap /\ M.rec[t].here
      /\ t \in Table \ {"Global"} /\ old \in Values \cup {"global", NoValue}
      /\ old # NoValue => OwnOK(M, old, t, 0)
      /\ HasFree(S) => HasFree(M)
  BY <1>1, <1>2, <1>3, <1>4, NowMentioned
<1>6. HasFree(M)
  BY <1>1, <1>5, Bounds DEF Assignment
<1>7. PICK v \in Values : /\ Becomes(Assign(M, t, v))
                          /\ Keeps(IF Own(t) THEN v ELSE old)
  BY <1>1, <1>2, <1>3, <1>4 DEF Assignment
<1>8. PICK T : T = Assign(M, t, v)
  OBVIOUS
<1>9. Follows(M, T, t)
  BY <1>5, <1>6, <1>8, AssignFollows
<1>10. /\ IsOwn(T, t) => OwnOK(T, v, t, 0)
       /\ \A o \in Values : OwnOK(M, o, t, 0) => IsOwn(T, t)
       /\ OwnOK(M, "global", t, 0) => OwnOK(T, "global", t, 0) /\ ~ IsOwn(T, t)
  BY <1>5, <1>6, <1>8, AssignOwn
<1>11. Follows(S, T, t) /\ T.rec[t].here /\ Good(T)
  <2>1. Follows(S, T, t)
    BY <1>5, <1>9, FollowsTrans
  <2>2. T.rec[t].here /\ Good(T)
    BY <1>5, <1>9 DEF Follows, Frame
  <2> QED
    BY <2>1, <2>2
<1>12. Runs(act, t)
  <2>1. PICK A : A = act
    OBVIOUS
  <2>2. PICK n : n = Depth
    OBVIOUS
  <2>3. n \in 1 .. Len(A) /\ t = A[n].t
    BY <1>1, <1>2, <2>1, <2>2, Now
  <2> QED
    BY <2>1, <2>3 DEF Runs
<1>13. Becomes(T)
  BY <1>7, <1>8
<1>14. Own(t) <=> IsOwn(T, t)
  BY <1>2, <1>5, <1>11, <1>12, <1>13, OwnAfter
<1>15. PICK own : own = IF Own(t) THEN v ELSE old
  OBVIOUS
<1>16. own \in Values \cup {"global", NoValue} /\ Keeps(own)
  BY <1>5, <1>7, <1>15
<1>17. own # NoValue => OwnOK(T, own, t, 0)
  <2>1. CASE IsOwn(T, t)
    BY <1>10, <1>14, <1>15, <2>1
  <2>2. CASE ~ IsOwn(T, t)
    <3>1. own = old
      BY <1>14, <1>15, <2>2
    <3>2. CASE old \in Values
      <4>1. old # NoValue
        BY <3>2, ScopeAssumption DEF NoValue
      <4> QED
        BY <1>5, <1>10, <2>2, <3>2, <4>1
    <3>3. CASE old = "global"
      <4>1. old # NoValue
        BY <3>3 DEF NoValue
      <4> QED
        BY <1>5, <1>10, <3>1, <3>3, <4>1
    <3> QED
      BY <1>5, <3>1, <3>2, <3>3
  <2> QED
    BY <2>1, <2>2
<1>18. Follows(Store, T, t)
  BY <1>1, <1>11
<1> QED
  BY <1>2, <1>11, <1>13, <1>16, <1>17, <1>18, StatementStep

\* A declaration over a link that is not stale finds what it would make.
LEMMA AlreadyShared ==
  ASSUME ScopeInv, NEW t, t = Here, NEW M, M = Mentioned(Store), Good(M),
         t \in Table, Linked(M, t), ~ StaleLink, NoFns(M)
  PROVE  OwnOK(M, "global", t, 0)
<1>1. M.rec[t].linked
  BY DEF Linked
<1>2. DefOf(M, t) = DefOf(Store, t) /\ DefOf(M, "Global") = DefOf(Store, "Global")
      /\ Linked(Store, t)
  <2>1. Store.rec = rec /\ Shape(Store)
    BY DEF Store, ScopeInv, Scoped, Good, Sound
  <2> QED
    BY <1>1, <2>1, ShapeFacts DEF Mentioned, DefOf, Linked, Shape
<1>3. DefOf(M, t) = DefOf(M, "Global") /\ DefOf(M, t) \in Cell
  BY <1>2 DEF StaleLink
<1>4. Shape(M) /\ Counted(M) /\ DefOf(M, t) # Nil
  BY <1>3, ShapeFacts DEF Good, Sound
<1>5. TypeOf(M, t) = M.heap[DefOf(M, t)].type
      /\ M.heap[DefOf(M, t)].type \notin {"free", "deleted", "ufn", "bfn"}
      /\ M.heap[DefOf(M, t)].type \in Types
  <2>1. M.heap[DefOf(M, t)].type \notin {"free", "deleted"} /\ M.heap[DefOf(M, t)] \in Definition
    BY <1>4, Holder
  <2> QED
    BY <1>3, <1>4, <2>1 DEF TypeOf, NoFns, Definition
<1>6. TypeOf(M, t) \in Variables
  BY <1>5 DEF Types, Variables
<1> QED
  BY <1>1, <1>3, <1>4, <1>6, OwnOKFacts

LEMMA GlobalStatementScoped ==
  ASSUME ScopeInv, Mixing = FALSE, GlobalStatement
  PROVE  ScopeInv'
<1>1. PICK S : S = Store
  OBVIOUS
<1>2. PICK t : t = Here
  OBVIOUS
<1>3. PICK M : M = Mentioned(S)
  OBVIOUS
<1>4. PICK old : old = act[Depth].own
  OBVIOUS
<1>5. /\ Follows(S, M, t) /\ Good(M) /\ M.rec[t].here /\ M.rec[t].linked = S.rec[t].linked
      /\ t \in Table \ {"Global"} /\ old \in Values \cup {"global", NoValue}
      /\ old # NoValue => OwnOK(M, old, t, 0)
      /\ HasFree(S) => HasFree(M)
      /\ NoFns(S) => NoFns(M)
  BY <1>1, <1>2, <1>3, <1>4, NowMentioned
<1>6. HasFree(M) /\ NoFns(M)
  BY <1>1, <1>5, Bounds DEF GlobalStatement
<1>7. PICK T : T = LinkToGlobal(M, t)
  OBVIOUS
<1>8. PICK own : own = Declared
  OBVIOUS
<1>9. Becomes(T) /\ Keeps(own)
  BY <1>1, <1>2, <1>3, <1>7, <1>8 DEF GlobalStatement
<1>10. own = IF t \in Formal \/ StaleLink THEN old ELSE "global"
  BY <1>2, <1>4, <1>8 DEF Declared
<1>11. CASE t \in Formal \/ Linked(M, t)
  <2>1. T = M
    BY <1>7, <1>11 DEF LinkToGlobal
  <2>2. Follows(Store, T, t)
    BY <1>1, <1>5, <2>1
  <2>3. own \in Values \cup {"global", NoValue}
    BY <1>5, <1>10
  <2>4. own # NoValue => OwnOK(T, own, t, 0)
    <3>1. CASE t \in Formal \/ StaleLink
      BY <1>5, <1>10, <2>1, <3>1
    <3>2. CASE ~ (t \in Formal \/ StaleLink)
      <4>1. OwnOK(M, "global", t, 0)
        BY <1>1, <1>2, <1>3, <1>5, <1>6, <1>11, <3>2, AlreadyShared
      <4> QED
        BY <1>10, <2>1, <3>2, <4>1
    <3> QED
      BY <3>1, <3>2
  <2> QED
    BY <1>2, <1>5, <1>9, <2>1, <2>2, <2>3, <2>4, StatementStep
<1>12. CASE ~ (t \in Formal \/ Linked(M, t))
  <2>1. Follows(M, T, t) /\ OwnOK(T, "global", t, 0)
    BY <1>5, <1>6, <1>7, <1>12, LinkedOwn
  <2>2. Follows(S, T, t)
    BY <1>5, <2>1, FollowsTrans
  <2>3. T.rec[t].here
    BY <1>5, <2>1 DEF Follows, Frame
  <2>4. own = "global" /\ own \in Values \cup {"global", NoValue}
    BY <1>1, <1>2, <1>5, <1>10, <1>12 DEF StaleLink, Linked
  <2>5. Follows(Store, T, t) /\ OwnOK(T, own, t, 0)
    BY <1>1, <2>1, <2>2, <2>4
  <2> QED
    BY <1>2, <1>9, <2>3, <2>4, <2>5, StatementStep
<1> QED
  BY <1>11, <1>12

LEMMA GlobalInitializedScoped ==
  ASSUME ScopeInv, Mixing = FALSE, GlobalInitialized
  PROVE  ScopeInv'
<1>1. PICK S : S = Store
  OBVIOUS
<1>2. PICK t : t = Here
  OBVIOUS
<1>3. PICK M : M = Mentioned(S)
  OBVIOUS
<1>4. PICK old : old = act[Depth].own
  OBVIOUS
<1>5. /\ Follows(S, M, t) /\ Good(M) /\ M.rec[t].here /\ M.rec[t].linked = S.rec[t].linked
      /\ t \in Table \ {"Global"} /\ old \in Values \cup {"global", NoValue}
      /\ old # NoValue => OwnOK(M, old, t, 0)
      /\ HasFree(S) => HasFree(M)
      /\ NoFns(S) => NoFns(M)
  BY <1>1, <1>2, <1>3, <1>4, NowMentioned
<1>6. HasFree(M) /\ NoFns(M) /\ t \notin Formal
  BY <1>1, <1>2, <1>5, Bounds DEF GlobalInitialized
<1>7. PICK X : X = LinkToGlobal(M, t)
  OBVIOUS
<1>8. PICK own : own = Declared
  OBVIOUS
<1>9. PICK v \in Values : Becomes(IF IsDefined(X, t) THEN X ELSE Assign(X, t, v))
  BY <1>1, <1>2, <1>3, <1>7 DEF GlobalInitialized
<1>10. Keeps(own)
  BY <1>8 DEF GlobalInitialized
<1>11. PICK T : T = IF IsDefined(X, t) THEN X ELSE Assign(X, t, v)
  OBVIOUS
<1>12. Becomes(T)
  BY <1>9, <1>11
<1>13. own = IF StaleLink THEN old ELSE "global"
  BY <1>2, <1>4, <1>6, <1>8 DEF Declared
<1>14. own \in Values \cup {"global", NoValue}
  BY <1>5, <1>13
<1>15. Follows(M, T, t) /\ (own # NoValue => OwnOK(T, own, t, 0))
  <2>1. CASE Linked(M, t)
    <3>1. X = M /\ (own # NoValue => OwnOK(M, own, t, 0))
      <4>1. X = M
        BY <1>7, <2>1 DEF LinkToGlobal
      <4>2. CASE StaleLink
        BY <1>5, <1>13, <4>1, <4>2
      <4>3. CASE ~ StaleLink
        <5>1. OwnOK(M, "global", t, 0)
          BY <1>1, <1>2, <1>3, <1>5, <1>6, <2>1, <4>3, AlreadyShared
        <5> QED
          BY <1>13, <4>1, <4>3, <5>1
      <4> QED
        BY <4>2, <4>3
    <3>2. CASE IsDefined(X, t)
      <4>1. T = M
        BY <1>11, <3>1, <3>2
      <4> QED
        BY <1>5, <3>1, <4>1, FollowsSelf
    <3>3. CASE ~ IsDefined(X, t)
      <4>1. T = Assign(M, t, v)
        BY <1>11, <3>1, <3>3
      <4>2. Follows(M, T, t)
        BY <1>5, <1>6, <4>1, AssignFollows
      <4>3. OwnOK(M, "global", t, 0) => OwnOK(T, "global", t, 0)
        BY <1>5, <1>6, <4>1, AssignOwn
      <4>4. own # NoValue => own = "global"
        <5>1. SUFFICES ASSUME own \in Values, own # NoValue PROVE FALSE
          BY <1>14
        <5>2. OwnOK(M, own, t, 0)
          BY <1>5, <3>1, <5>1
        <5>3. IsOwn(M, t)
          BY <1>5, <5>1, <5>2, OwnOKFacts DEF Good, Sound
        <5> QED
          BY <2>1, <5>3 DEF IsOwn, Linked
      <4> QED
        BY <1>5, <3>1, <4>2, <4>3, <4>4
    <3> QED
      BY <3>2, <3>3
  <2>2. CASE ~ Linked(M, t)
    <3>1. Follows(M, X, t) /\ OwnOK(X, "global", t, 0)
      BY <1>5, <1>6, <1>7, <2>2, LinkedOwn
    <3>2. own = "global"
      BY <1>1, <1>2, <1>5, <1>13, <2>2 DEF StaleLink, Linked
    <3>3. CASE IsDefined(X, t)
      BY <1>11, <3>1, <3>2, <3>3
    <3>4. CASE ~ IsDefined(X, t)
      <4>1. T = Assign(X, t, v)
        BY <1>11, <3>4
      <4>2. Good(X)
        BY <3>1 DEF Follows
      <4>3. Follows(X, T, t) /\ OwnOK(T, "global", t, 0)
        BY <1>5, <3>1, <4>1, <4>2, LinkedValue
      <4>4. Follows(M, T, t)
        BY <1>5, <3>1, <4>3, FollowsTrans
      <4> QED
        BY <3>2, <4>3, <4>4
    <3> QED
      BY <3>3, <3>4
  <2> QED
    BY <2>1, <2>2
<1>16. T.rec[t].here
  BY <1>5, <1>15 DEF Follows, Frame
<1>17. Follows(Store, T, t)
  BY <1>1, <1>5, <1>15, FollowsTrans
<1> QED
  BY <1>2, <1>10, <1>12, <1>14, <1>15, <1>16, <1>17, StatementStep

\* A call of f in the store S, whose activations are the present ones.
LEMMA BeginStep ==
  ASSUME NEW S, NEW A, A = act, Scoped(S, A), HasFree(S), NEW f \in Fn, NEW v,
         f \in Formal => v \in Values,
         f \in Self => TypeOf(S, "Global") = "ufn" /\ Exists(S, f), Begin(S, f, v)
  PROVE  ScopeInv'
<1>1. PICK T : T = Given(AfterPush(S, A, f), f, v)
  OBVIOUS
<1>2. PICK B : B = CalledWith(A, f, v)
  OBVIOUS
<1>3. Running(f) <=> Runs(A, f)
  BY DEF Running, Runs, Depth
<1>4. Becomes(T) /\ B = act'
  BY <1>1, <1>2, <1>3 DEF Begin, Given, AfterPush, CalledWith, OwnGiven
<1>5. Scoped(T, B) /\ (f \notin Formal => T.heap = S.heap)
  BY <1>1, <1>2, BegunScoped
<1>6. Acts(A) /\ A \in Seq(Activation)
  BY DEF Scoped, Acts
<1>7. ASSUME NEW u \in Table, Runs(B, u) PROVE u \in Lives(T, act)
  <2>1. CASE Runs(A, u)
    BY <2>1 DEF Lives
  <2>2. CASE ~ Runs(A, u)
    <3>1. u = f
      <4>1. PICK i \in 1 .. Len(B) : B[i].t = u
        BY <1>7 DEF Runs
      <4>2. PICK b : b = [t |-> f, own |-> OwnGiven(f, v)]
        OBVIOUS
      <4>3. B = Append(A, b) /\ b.t = f
        BY <1>2, <4>2 DEF CalledWith
      <4>4. i \in 1 .. Len(A) + 1 /\ Len(A) \in Nat
        BY <1>6, <4>1, <4>3
      <4>5. CASE i = Len(A) + 1
        BY <1>6, <4>1, <4>3, <4>5
      <4>6. CASE i # Len(A) + 1
        <5>1. i \in 1 .. Len(A) /\ B[i] = A[i]
          BY <1>6, <4>3, <4>4, <4>6
        <5> QED
          BY <2>2, <4>1, <5>1 DEF Runs
      <4> QED
        BY <4>5, <4>6
    <3>2. f \in Self => f \notin Formal
      BY ScopeAssumption
    <3>3. f \in Self => Exists(T, f)
      BY <1>5, <3>2 DEF Exists
    <3> QED
      BY <3>1, <3>3 DEF Lives
  <2> QED
    BY <2>1, <2>2
<1> QED
  BY <1>4, <1>5, <1>7, StepScoped

LEMMA CallScoped ==
  ASSUME ScopeInv, Call
  PROVE  ScopeInv'
<1>1. PICK S : S = Store
  OBVIOUS
<1>2. PICK A : A = act
  OBVIOUS
<1>3. Scoped(S, A)
  BY <1>1, <1>2 DEF ScopeInv
<1>4. HasFree(S)
  BY <1>1, Bounds DEF Call
<1>5. PICK f \in Caller, v \in Values : Begin(S, f, v)
  BY <1>1 DEF Call
<1>6. f \in Fn /\ f \notin Self
  BY ScopeAssumption DEF Fn
<1> QED
  BY <1>2, <1>3, <1>4, <1>5, <1>6, BeginStep

\* The store in which x has been looked up.
LEMMA LookedUp ==
  ASSUME ScopeInv, NEW t, t = Here, NEW A, A = act, NEW X, X = Lookup(Mentioned(Store), t),
         HasFree(Store)
  PROVE  Scoped(X, A) /\ HasFree(X) /\ t \in Table \ {"Global"}
<1>1. PICK S : S = Store
  OBVIOUS
<1>2. PICK M : M = Mentioned(S)
  OBVIOUS
<1>3. PICK old : old = act[Depth].own
  OBVIOUS
<1>4. PICK n : n = Depth
  OBVIOUS
<1>5. /\ Follows(S, M, t) /\ Good(M) /\ M.rec[t].here
      /\ t \in Table \ {"Global"} /\ old \in Values \cup {"global", NoValue}
      /\ old # NoValue => OwnOK(M, old, t, 0)
      /\ HasFree(S) => HasFree(M)
  BY <1>1, <1>2, <1>3, NowMentioned
<1>6. /\ Scoped(S, A) /\ Acts(A) /\ n = Len(A) /\ n \in 1 .. Len(A)
      /\ Last(A, n) /\ t = A[n].t
  BY <1>1, <1>4, Now
<1>7. X = Lookup(M, t)
  BY <1>1, <1>2
<1>8. Follows(M, X, t) /\ (HasFree(M) => HasFree(X))
  BY <1>5, <1>7, LookupFollows
<1>9. old # NoValue => OwnOK(X, old, t, 0)
  <2>1. SUFFICES ASSUME old # NoValue PROVE OwnOK(X, old, t, 0)
    OBVIOUS
  <2>2. old \in Values \cup {"global"} /\ OwnOK(M, old, t, 0)
    BY <1>5, <2>1
  <2>3. X = M
    BY <1>5, <1>7, <2>2, LookupOwn
  <2> QED
    BY <2>2, <2>3
<1>10. Follows(S, X, t)
  BY <1>5, <1>8, FollowsTrans
<1>11. X.rec[t].here
  BY <1>5, <1>8 DEF Follows, Frame
<1>12. OwnedBy(A, A, n) /\ A[n].own = old
  BY <1>3, <1>4, <1>6, OwnUnchanged
<1>13. Scoped(X, A)
  BY <1>6, <1>9, <1>10, <1>11, <1>12, FollowedScoped
<1> QED
  BY <1>1, <1>5, <1>8, <1>13

LEMMA UseScoped ==
  ASSUME ScopeInv, Use
  PROVE  ScopeInv'
<1>1. PICK t : t = Here
  OBVIOUS
<1>2. PICK A : A = act
  OBVIOUS
<1>3. PICK X : X = Lookup(Mentioned(Store), t)
  OBVIOUS
<1>4. HasFree(Store)
  BY Bounds DEF Use
<1>5. Scoped(X, A) /\ HasFree(X) /\ t \in Table \ {"Global"}
  BY <1>1, <1>2, <1>3, <1>4, LookedUp
<1>6. CASE TypeOf(X, t) = "ufn"
  <2>1. PICK f : f = X.heap[DefOf(X, t)].fn
    OBVIOUS
  <2>2. Begin(X, f, NoValue)
    BY <1>1, <1>3, <1>6, <2>1 DEF Use
  <2>3. Shape(X) /\ FnGlobal(X)
    BY <1>5 DEF Scoped, Good, Sound
  <2>4. DefOf(X, t) \in Cell /\ X.heap[DefOf(X, t)].type = "ufn"
    BY <1>5, <1>6, <2>3, ShapeFacts DEF TypeOf, DefOf
  <2>5. f \in Self /\ Exists(X, f)
    BY <2>1, <2>3, <2>4 DEF Shape, Exists
  <2>6. TypeOf(X, "Global") = "ufn"
    <3>1. 0 \in Slots(X, t) /\ At(X, t, 0) = DefOf(X, t)
      BY <1>5, <2>3, ShapeFacts DEF At, DefOf
    <3> QED
      BY <1>5, <2>3, <2>4, <3>1 DEF FnGlobal
  <2>7. f \in Fn /\ f \notin Formal
    BY <2>5, ScopeAssumption DEF Fn
  <2>8. PICK v : v = NoValue
    OBVIOUS
  <2> QED
    BY <1>2, <1>5, <2>2, <2>5, <2>6, <2>7, <2>8, BeginStep
<1>7. CASE TypeOf(X, t) # "ufn"
  <2>1. Becomes(X) /\ A = act'
    BY <1>1, <1>2, <1>3, <1>7 DEF Use
  <2>2. \A u \in Table : Runs(A, u) => u \in Lives(X, act)
    BY <1>2 DEF Lives
  <2> QED
    BY <1>5, <2>1, <2>2, StepScoped
<1> QED
  BY <1>6, <1>7

LEMMA EndScoped ==
  ASSUME ScopeInv, End
  PROVE  ScopeInv'
<1>1. PICK S : S = Store
  OBVIOUS
<1>2. PICK A : A = act
  OBVIOUS
<1>3. PICK n : n = Depth
  OBVIOUS
<1>4. PICK f : f = Here
  OBVIOUS
<1>5. Scoped(S, A) /\ Acts(A) /\ n = Len(A) /\ f = A[n].t /\ n > 1
  BY <1>1, <1>2, <1>3, <1>4, Now DEF End
<1>6. PICK B : B = Returned(A)
  OBVIOUS
<1>7. PICK X : X = ClearTable(S, f, TRUE)
  OBVIOUS
<1>8. PICK T : T = IF Runs(B, f) THEN PopContext(X, f) ELSE X
  OBVIOUS
<1>9. /\ Len(B) = n - 1 /\ \A i \in 1 .. Len(B) : B[i] = A[i] /\ i \in 1 .. Len(A)
  BY <1>5, <1>6, ReturnedActs
<1>10. Runs(B, f) <=> \E i \in 1 .. Depth - 1 : act[i].t = f
  BY <1>2, <1>3, <1>9 DEF Runs
<1>11. B = act' /\ Becomes(T)
  BY <1>1, <1>2, <1>3, <1>4, <1>5, <1>6, <1>7, <1>8, <1>10 DEF End, Returned
<1>12. Scoped(T, B)
  BY <1>5, <1>6, <1>7, <1>8, EndedScoped
<1>13. \A u \in Table : Runs(B, u) => u \in Lives(T, act)
  BY <1>2, <1>9 DEF Runs, Lives
<1> QED
  BY <1>11, <1>12, <1>13, StepScoped

\* What clear leaves of the activations.
LEMMA NowTold ==
  ASSUME ScopeInv, NEW S, S = Store, NEW n \in 1 .. Depth, Last(act, n), Forgotten(n),
         NEW B, B = act'
  PROVE  /\ Scoped(S, B) /\ Last(B, n) /\ n \in 1 .. Len(B) /\ Len(B) = Depth
         /\ B[n].own = NoValue /\ B[n].t = act[n].t
         /\ \A i \in 1 .. Len(B) : B[i].own # "global"
         /\ \A T : \A u \in Table : Runs(B, u) => u \in Lives(T, act)
         /\ \A u : Runs(B, u) <=> Runs(act, u)
<1>1. PICK A : A = act
  OBVIOUS
<1>2. Scoped(S, A) /\ Acts(A) /\ n \in 1 .. Len(A) /\ Last(A, n) /\ Len(A) = Depth
  BY <1>1 DEF ScopeInv, Scoped, Depth
<1>3. B = Told(A, n)
  BY <1>1 DEF Forgotten, Told, Depth
<1>4. /\ OwnedBy(A, B, n) /\ Acts(B) /\ Len(B) = Len(A) /\ B[n].own = NoValue
      /\ \A i \in 1 .. Len(A) : B[i].t = A[i].t /\ B[i].own # "global"
  <2>1. Acts(A) /\ n \in 1 .. Len(A) /\ B = Told(A, n)
    BY <1>2, <1>3
  <2> QED
    BY ONLY <2>1, ToldActs
<1>5. Scoped(S, B)
  BY <1>2, <1>3, ToldScoped
<1>6. Last(B, n)
  <2>1. Len(A) \in Nat \ {0}
    BY <1>2, ActsFacts
  <2>2. \A j \in n + 1 .. Len(A) : j \in 1 .. Len(A)
    BY <1>2, <2>1
  <2> QED
    BY <1>2, <1>4, <2>2 DEF Last
<1>7. \A u : Runs(B, u) <=> Runs(A, u)
  BY <1>4 DEF Runs
<1>8. \A T : \A u \in Table : Runs(B, u) => u \in Lives(T, act)
  BY <1>1, <1>7 DEF Lives
<1> QED
  BY <1>1, <1>2, <1>4, <1>5, <1>6, <1>7, <1>8

LEMMA ClearAllScoped ==
  ASSUME ScopeInv, ClearAll
  PROVE  ScopeInv'
<1>1. PICK S : S = Store
  OBVIOUS
<1>2. PICK n : n = Depth
  OBVIOUS
<1>3. PICK t : t = Here
  OBVIOUS
<1>4. PICK B : B = act'
  OBVIOUS
<1>5. n \in 1 .. Depth /\ Last(act, n) /\ t = act[n].t
  BY <1>1, <1>2, <1>3, Now DEF Depth
<1>6. Forgotten(n)
  BY <1>2 DEF ClearAll
<1>7. /\ Scoped(S, B) /\ Last(B, n) /\ n \in 1 .. Len(B) /\ Len(B) = Depth
      /\ B[n].own = NoValue /\ B[n].t = act[n].t
      /\ \A i \in 1 .. Len(B) : B[i].own # "global"
      /\ \A T : \A u \in Table : Runs(B, u) => u \in Lives(T, act)
  BY <1>1, <1>4, <1>5, <1>6, NowTold
<1>8. PICK X : X = ClearTable(S, t, TRUE)
  OBVIOUS
<1>9. PICK T : T = ClearTable(X, "Global", n = 1)
  OBVIOUS
<1>10. Becomes(T)
  BY <1>1, <1>2, <1>3, <1>8, <1>9 DEF ClearAll
<1>11. Scoped(X, B) /\ Cleared(S, X, t)
  BY <1>5, <1>7, <1>8, LocalCleared
<1>12. Scoped(T, B)
  <2>1. TypeOf(X, B[n].t) # "ufn"
    BY <1>5, <1>7, <1>11 DEF Cleared
  <2>2. n = Len(B)
    BY <1>2, <1>7
  <2> QED
    BY <1>7, <1>9, <1>11, <2>1, <2>2, GlobalCleared
<1> QED
  BY <1>4, <1>7, <1>10, <1>12, StepScoped

LEMMA ClearNameScoped ==
  ASSUME ScopeInv, ClearName
  PROVE  ScopeInv'
<1>1. PICK S : S = Store
  OBVIOUS
<1>2. PICK n : n = Depth
  OBVIOUS
<1>3. PICK t : t = Here
  OBVIOUS
<1>4. PICK B : B = act'
  OBVIOUS
<1>5. n \in 1 .. Depth /\ Last(act, n) /\ t = act[n].t
  BY <1>1, <1>2, <1>3, Now DEF Depth
<1>6. Forgotten(n)
  BY <1>2 DEF ClearName
<1>7. /\ Scoped(S, B) /\ Last(B, n) /\ n \in 1 .. Len(B) /\ Len(B) = Depth
      /\ B[n].own = NoValue /\ B[n].t = act[n].t
      /\ \A i \in 1 .. Len(B) : B[i].own # "global"
      /\ \A T : \A u \in Table : Runs(B, u) => u \in Lives(T, act)
  BY <1>1, <1>4, <1>5, <1>6, NowTold
<1>8. n = Len(B) /\ t = B[n].t
  BY <1>2, <1>5, <1>7
<1>9. PICK isLocal : isLocal = (IsVariable(S, t) /\ ~ Linked(S, t))
  OBVIOUS
<1>10. PICK isGlobal : isGlobal = (IsVariable(S, t) /\ Linked(S, t))
  OBVIOUS
<1>11. PICK S1 : S1 = IF isLocal \/ isGlobal THEN ClearTable(S, t, TRUE) ELSE S
  OBVIOUS
<1>12. PICK S2 : S2 = IF isGlobal /\ TypeOf(S, t) = "uvar"
                      THEN ClearTable(S1, "Global", n = 1) ELSE S1
  OBVIOUS
<1>13. PICK S3 : S3 = ClearTable(S2, t, TRUE)
  OBVIOUS
<1>14. PICK T : T = IF IsFunction(S, "Global") THEN ClearTable(S3, "Global", n = 1) ELSE S2
  OBVIOUS
<1>15. Becomes(T)
  BY <1>1, <1>2, <1>3, <1>9, <1>10, <1>11, <1>12, <1>13, <1>14 DEF ClearName
<1>16. Scoped(S1, B) /\ (isGlobal => TypeOf(S1, t) # "ufn")
  <2>1. CASE isLocal \/ isGlobal
    <3>1. S1 = ClearTable(S, t, TRUE)
      BY <1>11, <2>1
    <3>2. Scoped(S1, B) /\ Cleared(S, S1, t)
      BY <1>7, <1>8, <3>1, LocalCleared
    <3> QED
      BY <3>2 DEF Cleared
  <2>2. CASE ~ (isLocal \/ isGlobal)
    BY <1>7, <1>11, <2>2
  <2> QED
    BY <2>1, <2>2
<1>17. Scoped(S2, B)
  <2>1. CASE isGlobal /\ TypeOf(S, t) = "uvar"
    <3>1. S2 = ClearTable(S1, "Global", n = 1)
      BY <1>12, <2>1
    <3> QED
      BY <1>7, <1>8, <1>16, <2>1, <3>1, GlobalCleared
  <2>2. CASE ~ (isGlobal /\ TypeOf(S, t) = "uvar")
    BY <1>12, <1>16, <2>2
  <2> QED
    BY <2>1, <2>2
<1>18. Scoped(S3, B) /\ TypeOf(S3, t) # "ufn"
  <2>1. Scoped(S3, B) /\ Cleared(S2, S3, t)
    BY <1>7, <1>8, <1>13, <1>17, LocalCleared
  <2> QED
    BY <2>1 DEF Cleared
<1>19. Scoped(T, B)
  <2>1. CASE IsFunction(S, "Global")
    <3>1. T = ClearTable(S3, "Global", n = 1)
      BY <1>14, <2>1
    <3> QED
      BY <1>7, <1>8, <1>18, <3>1, GlobalCleared
  <2>2. CASE ~ IsFunction(S, "Global")
    BY <1>14, <1>17, <2>2
  <2> QED
    BY <2>1, <2>2
<1> QED
  BY <1>4, <1>7, <1>15, <1>19, StepScoped

LEMMA DefineXScoped ==
  ASSUME ScopeInv, Mixing = FALSE, DefineX
  PROVE  ScopeInv'
<1>1. PICK S : S = Store
  OBVIOUS
<1>2. PICK n : n = 1
  OBVIOUS
<1>3. PICK B : B = act'
  OBVIOUS
<1>4. Scoped(S, act) /\ Acts(act) /\ Good(S)
  BY <1>1 DEF ScopeInv, Scoped
<1>5. n \in 1 .. Depth /\ Last(act, n) /\ act[n].t = "Top"
  <2>1. Len(act) \in Nat \ {0} /\ \A i \in 1 .. Len(act) : act[i].t = "Top" <=> i = 1
    BY <1>4, ActsFacts
  <2>2. n \in 1 .. Len(act) /\ act[n].t = "Top"
    BY <1>2, <2>1
  <2>3. \A j \in n + 1 .. Len(act) : j \in 1 .. Len(act) /\ j # 1
    BY <1>2, <2>1
  <2> QED
    BY <2>1, <2>2, <2>3 DEF Last, Depth
<1>6. Forgotten(n)
  BY <1>2 DEF DefineX
<1>7. /\ Scoped(S, B) /\ Last(B, n) /\ n \in 1 .. Len(B)
      /\ B[n].own = NoValue /\ B[n].t = "Top"
      /\ \A i \in 1 .. Len(B) : B[i].own # "global"
      /\ \A T : \A u \in Table : Runs(B, u) => u \in Lives(T, act)
      /\ \A u : Runs(B, u) <=> Runs(act, u)
  BY <1>1, <1>3, <1>5, <1>6, NowTold
<1>8. PICK X : X = ClearTable(S, "Top", TRUE)
  OBVIOUS
<1>9. PICK f \in Self, b \in BOOLEAN :
        /\ ~ Running(f)
        /\ Becomes([DefineFunction(X, "Global", f)
                     EXCEPT !.rec[f] = [NoRecord EXCEPT !.here = b]])
  BY <1>1, <1>8 DEF DefineX
<1>10. PICK Y : Y = DefineFunction(X, "Global", f)
  OBVIOUS
<1>11. PICK r : r = [NoRecord EXCEPT !.here = b]
  OBVIOUS
<1>12. PICK T : GetsRecord(Y, T, f, r)
  BY DEF GetsRecord
<1>13. Becomes(T)
  BY <1>9, <1>10, <1>11, <1>12 DEF GetsRecord
<1>14. Scoped(X, B) /\ Cleared(S, X, "Top")
  <2>1. PICK t : t = "Top"
    OBVIOUS
  <2>2. X = ClearTable(S, t, TRUE) /\ t = B[n].t
    BY <1>7, <1>8, <2>1
  <2>3. Scoped(X, B) /\ Cleared(S, X, t)
    BY <1>7, <2>2, LocalCleared
  <2> QED
    BY <2>1, <2>3
<1>15. HasFree(X) /\ TypeOf(X, "Global") \notin {"uvar", "unknown"}
  <2>1. HasFree(S)
    BY <1>1, Bounds DEF DefineX
  <2>2. TypeOf(S, "Global") \notin {"uvar", "unknown"}
    BY <1>1 DEF DefineX, MayBeFunction
  <2> QED
    BY <1>14, <2>1, <2>2 DEF Cleared, HasFree
<1>16. Scoped(Y, B)
  BY <1>7, <1>10, <1>14, <1>15, FunctionDefined
<1>17. ~ Runs(B, f)
  <2>1. ~ Runs(act, f)
    BY <1>9 DEF Running, Runs, Depth
  <2> QED
    BY <1>7, <2>1
<1>18. Scoped(T, B)
  BY <1>11, <1>12, <1>16, <1>17, NewTable
<1> QED
  BY <1>3, <1>7, <1>13, <1>18, StepScoped

-----------------------------------------------------------------------------
(***************************************************************************)
(* Theorems                                                                *)
(***************************************************************************)

LEMMA InitScoped ==
  ASSUME Init
  PROVE  ScopeInv
<1>1. PICK b \in {"bvar", "bfn", "none"}, v \in Values :
        heap = Installed(b, v).heap /\ rec = Installed(b, v).rec
  BY SwitchAssumption DEF Init
<1>2. PICK S : S = Installed(b, v)
  OBVIOUS
<1>3. /\ Good(S) /\ \A t \in Table \ {"Global"} : S.rec[t] = NoRecord
      /\ S.rec["Global"].ctx = <<>>
  BY <1>2, InstalledGood
<1>4. S = Store
  <2>1. Shape(S)
    BY <1>3 DEF Good, Sound
  <2>2. S = [heap |-> S.heap, rec |-> S.rec]
    BY <2>1, StoreParts
  <2> QED
    BY <1>1, <1>2, <2>2 DEF Store
<1>5. PICK A : A = <<[t |-> "Top", own |-> NoValue]>>
  OBVIOUS
<1>6. Scoped(S, A)
  BY <1>3, <1>5, StartScoped
<1>7. A = act
  BY <1>5 DEF Init
<1> QED
  BY <1>4, <1>6, <1>7 DEF ScopeInv

LEMMA NextScoped ==
  ASSUME Mixing = FALSE, ScopeInv, [Next]_vars
  PROVE  ScopeInv'
<1>1. CASE Assignment
  BY <1>1, AssignmentScoped
<1>2. CASE GlobalStatement
  BY <1>2, GlobalStatementScoped
<1>3. CASE GlobalInitialized
  BY <1>3, GlobalInitializedScoped
<1>4. CASE Call
  BY <1>4, CallScoped
<1>5. CASE Use
  BY <1>5, UseScoped
<1>6. CASE End
  BY <1>6, EndScoped
<1>7. CASE ClearAll
  BY <1>7, ClearAllScoped
<1>8. CASE ClearName
  BY <1>8, ClearNameScoped
<1>9. CASE DefineX
  BY <1>9, DefineXScoped
<1>10. CASE UNCHANGED vars
  BY <1>10 DEF vars, ScopeInv, Store
<1> QED
  BY <1>1, <1>2, <1>3, <1>4, <1>5, <1>6, <1>7, <1>8, <1>9, <1>10 DEF Next

\* The inductive invariant holds in every state, as long as x is not a global
\* and a function at the same time (symtab.cc, variables.cc, pt-fvc.cc).
LEMMA ScopesHold ==
  ASSUME Mixing = FALSE
  PROVE  Spec => []ScopeInv
<1>1. Init => ScopeInv
  BY InitScoped
<1>2. ScopeInv /\ [Next]_vars => ScopeInv'
  BY NextScoped
<1> QED
  BY <1>1, <1>2, PTL DEF Spec

LEMMA RootsLive ==
  ASSUME ScopeInv
  PROVE  RefsLive
<1> DEFINE D == UNION {Roots(Store, t) : t \in Table}
<1>1. PICK S : S = Store
  OBVIOUS
<1>2. Shape(S) /\ Counted(S)
  BY <1>1 DEF ScopeInv, Scoped, Good, Sound
<1>3. D = UNION {Roots(S, t) : t \in Table}
  BY <1>1
<1>4. D \subseteq Cell \cup {Nil}
  BY <1>2, <1>3, RootOf
<1>5. Reached(S, D) = D \ {Nil}
  BY <1>2, <1>4, ReachedAll
<1>6. SUFFICES ASSUME NEW c \in D \ {Nil} PROVE heap[c].type # "deleted"
  BY <1>1, <1>5 DEF RefsLive
<1>7. c \in Cell
  BY <1>4, <1>6
<1>8. PICK t \in Table : c \in Roots(S, t)
  BY <1>3, <1>6
<1>9. PICK i \in Slots(S, t) : At(S, t, i) = c
  BY <1>2, <1>8, RootOf
<1>10. <<t, i>> \in RefsIn(S, c)
  BY <1>2, <1>9, InRefs
<1>11. S.heap[c].type # "deleted"
  BY <1>2, <1>7, <1>10, ReferredTo
<1> QED
  BY <1>1, <1>11 DEF Store

LEMMA RefsCounted ==
  ASSUME ScopeInv
  PROVE  CountCovers
<1>1. PICK S : S = Store
  OBVIOUS
<1>2. Shape(S) /\ Counted(S) /\ S.heap = heap /\ S.rec = rec
  BY <1>1 DEF ScopeInv, Scoped, Good, Sound, Store
<1>3. SUFFICES ASSUME NEW c \in Cell PROVE Cardinality(Refs(c)) <= heap[c].count
  BY DEF CountCovers
<1>4. Refs(c) \subseteq RefsIn(S, c)
  <2>1. SUFFICES ASSUME NEW p \in Refs(c) PROVE p \in RefsIn(S, c)
    OBVIOUS
  <2>2. p \in Table \X (0 .. MaxDepth)
        /\ IF p[2] = 0 THEN rec[p[1]].def = c
           ELSE p[2] <= Len(rec[p[1]].ctx) /\ rec[p[1]].ctx[p[2]].def = c
    BY <2>1 DEF Refs
  <2>3. PICK t \in Table, i \in 0 .. MaxDepth : p = <<t, i>>
    BY <2>2
  <2>4. IF i = 0 THEN S.rec[t].def = c
        ELSE i <= Len(S.rec[t].ctx) /\ S.rec[t].ctx[i].def = c
    BY <1>2, <2>2, <2>3
  <2>5. At(S, t, i) = c
    BY <2>4 DEF At
  <2>6. i \in Nat
    BY <2>3, BoundAssumption
  <2>7. Len(S.rec[t].ctx) \in Nat
    BY <1>2, ShapeFacts
  <2>8. i \in Slots(S, t)
    BY <2>4, <2>6, <2>7 DEF Slots
  <2> QED
    BY <2>3, <2>5, <2>6, <2>8 DEF RefsIn
<1>5. IsFiniteSet(RefsIn(S, c)) /\ Cardinality(RefsIn(S, c)) <= S.heap[c].count
      /\ S.heap[c].count \in Nat
  BY <1>2, ShapeFacts DEF Counted
<1>6. /\ Cardinality(Refs(c)) \in Nat /\ Cardinality(RefsIn(S, c)) \in Nat
      /\ Cardinality(Refs(c)) <= Cardinality(RefsIn(S, c))
  BY <1>4, <1>5, CountLess
<1> QED
  BY <1>2, <1>5, <1>6

\* What the invariant says of the running activation.
LEMMA RunningOwns ==
  ASSUME ScopeInv
  PROVE  OwnValueKept /\ DeclaredShared
<1>1. PICK S : S = Store
  OBVIOUS
<1>2. PICK A : A = act
  OBVIOUS
<1>3. PICK n : n = Depth
  OBVIOUS
<1>4. PICK t : t = Here
  OBVIOUS
<1>5. PICK own : own = act[Depth].own
  OBVIOUS
<1>6. /\ Scoped(S, A) /\ Good(S) /\ n \in 1 .. Len(A)
      /\ Last(A, n) /\ t = A[n].t /\ t \in Table \ {"Global"}
  BY <1>1, <1>2, <1>3, <1>4, Now
<1>7. Shape(S) /\ Counted(S)
  BY <1>6 DEF Good, Sound
<1>8. own = A[n].own /\ S.heap = heap /\ S.rec = rec
  BY <1>1, <1>2, <1>3, <1>5 DEF Store
<1>9. ASSUME own \in Values PROVE IsVariable(S, t) /\ S.heap[S.rec[t].def].val = own
  <2>1. own # NoValue
    BY <1>7, <1>6, <1>9, OwnOKFacts
  <2>2. OwnOK(S, own, t, 0)
    BY <1>6, <1>8, <2>1, OwnNow
  <2>3. IsOwn(S, t) /\ S.heap[DefOf(S, t)].val = own
    BY <1>6, <1>7, <1>9, <2>2, OwnOKFacts
  <2> QED
    BY <2>3 DEF IsOwn, IsVariable, DefOf
<1>10. ASSUME own = "global" PROVE S.rec[t].linked /\ S.rec[t].def = S.rec["Global"].def
  <2>1. own # NoValue
    BY <1>10 DEF NoValue
  <2>2. OwnOK(S, own, t, 0) /\ own \in Values \cup {"global"}
    BY <1>6, <1>8, <1>10, <2>1, OwnNow
  <2>3. S.rec[t].linked /\ DefOf(S, t) = DefOf(S, "Global")
    BY <1>6, <1>7, <1>10, <2>2, OwnOKFacts
  <2> QED
    BY <2>3 DEF DefOf
<1>11. OwnValueKept
  BY <1>1, <1>4, <1>5, <1>8, <1>9 DEF OwnValueKept
<1>12. DeclaredShared
  BY <1>1, <1>4, <1>5, <1>8, <1>10 DEF DeclaredShared
<1> QED
  BY <1>11, <1>12

\* What a step may do to the function x that runs.
Replaced(f) == Running(f) /\ Exists(Store, f) /\ ~ Exists(Store', f) /\ Running(f)'
LEMMA RunningReplaced ==
  ASSUME ScopeInv', NEW f \in Self, Replaced(f)
  PROVE  \E g \in Self \ {f} : Exists(Store', g)
<1>1. PICK T : T = Store'
  OBVIOUS
<1>2. PICK B : B = act'
  OBVIOUS
<1>3. Scoped(T, B)
  BY <1>1, <1>2 DEF ScopeInv
<1>4. Runs(B, f)
  BY <1>2 DEF Replaced, Running, Runs, Depth
<1>5. Shape(T) /\ TypeOf(T, "Global") = "ufn" /\ "Global" \in Table
  BY <1>3, <1>4, ShapeFacts DEF Scoped, SelfRuns, Good, Sound
<1>6. DefOf(T, "Global") \in Cell /\ T.heap[DefOf(T, "Global")].type = "ufn"
  BY <1>5, ShapeFacts DEF TypeOf, DefOf
<1>7. PICK g : g = T.heap[DefOf(T, "Global")].fn
  OBVIOUS
<1>8. g \in Self /\ Exists(T, g)
  BY <1>5, <1>6, <1>7 DEF Shape, Exists
<1>9. ~ Exists(T, f)
  BY <1>1 DEF Replaced
<1> QED
  BY <1>1, <1>8, <1>9

\* No record, saved context or hidden definition is left with a symbol_def that
\* maybe_delete has given back, in every state (symtab.cc).
THEOREM RefsStayLive ==
  ASSUME Mixing = FALSE
  PROVE  Spec => []RefsLive
<1>1. Spec => []ScopeInv
  BY ScopesHold
<1>2. ScopeInv => RefsLive
  BY RootsLive
<1> QED
  BY <1>1, <1>2, PTL

\* The reference count of a symbol_def is never less than the number of records
\* and saved contexts that refer to it (symtab.cc: alias, push_def, pop_def, clear).
THEOREM CountsSuffice ==
  ASSUME Mixing = FALSE
  PROVE  Spec => []CountCovers
<1>1. Spec => []ScopeInv
  BY ScopesHold
<1>2. ScopeInv => CountCovers
  BY RefsCounted
<1> QED
  BY <1>1, <1>2, PTL

\* An activation finds in its own x what it has last given to it, whatever other
\* activations, also of the same function, have done (pt-fcn.cc, pt-fvc.cc).
THEOREM OwnValues ==
  ASSUME Mixing = FALSE
  PROVE  Spec => []OwnValueKept
<1>1. Spec => []ScopeInv
  BY ScopesHold
<1>2. ScopeInv => OwnValueKept
  BY RunningOwns
<1> QED
  BY <1>1, <1>2, PTL

\* An activation that has declared x global shares the definition of the global
\* symbol table (variables.cc: link_to_global_variable).
THEOREM GlobalsShared ==
  ASSUME Mixing = FALSE
  PROVE  Spec => []DeclaredShared
<1>1. Spec => []ScopeInv
  BY ScopesHold
<1>2. ScopeInv => DeclaredShared
  BY RunningOwns
<1> QED
  BY <1>1, <1>2, PTL

\* A function that runs is deleted only by a new definition of it (Fclear and the
\* comment there, variables.cc).
THEOREM RunningStays ==
  ASSUME Mixing = FALSE
  PROVE  Spec => RunningKept
<1>1. Spec => []ScopeInv
  BY ScopesHold
<1>2. ScopeInv' => [\A f \in Self : Replaced(f) => \E g \in Self \ {f} : Exists(Store', g)]_vars
  BY RunningReplaced
<1>3. Spec => [][\A f \in Self : Replaced(f) => \E g \in Self \ {f} : Exists(Store', g)]_vars
  BY <1>1, <1>2, PTL
<1> QED
  BY <1>3 DEF RunningKept, Replaced

=============================================================================

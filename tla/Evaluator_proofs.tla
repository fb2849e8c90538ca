-------------------------- MODULE Evaluator_proofs --------------------------
(***************************************************************************)
(* The evaluator, for every set of functions, every recursion limit, every *)
(* choice of statements and every bound: type correctness (lemmas on the C *)
(* stack, on unwind_protect_list and on the messages first, then one lemma *)
(* per group of actions), the recursion limit, and how unwind_protect_list *)
(* is divided among the frames of the C stack (Layout), on which           *)
(* Restoring_proofs builds.                                                *)
(***************************************************************************)
EXTENDS Evaluator, SequenceTheorems, FiniteSetTheorems, TLAPS

-----------------------------------------------------------------------------
(***************************************************************************)
(* The C stack                                                             *)
(***************************************************************************)

\* A stack of frames at the bottom of which main_loop is.
GoodStack(s) == s \in Seq(Frame) /\ s # <<>> /\ s[1].k = "main"

\* The running frame is a frame.
LEMMA RunningFrame ==
  ASSUME StackOK
  PROVE  /\ Depth \in Nat \ {0} /\ Len(cs) = Depth
         /\ Running \in Frame
         /\ Running.k \in FrameKinds /\ Running.pc \in Pcs
  <1>1. Depth \in Nat \ {0}
    BY EmptySeq DEF StackOK, Depth
  <1>2. Running \in Frame
    BY <1>1, ElementOfSeq DEF StackOK, Running, Depth
  <1> QED
    BY <1>1, <1>2 DEF Frame, Depth

\* Replacing the running frame by one of the same kind.
LEMMA TopGood ==
  ASSUME StackOK, NEW fr \in Frame, fr.k = Running.k
  PROVE  GoodStack(Top(fr)) /\ Len(Top(fr)) = Depth
  <1>1. Depth \in 1 .. Len(cs) /\ Len(cs) \in Nat
    BY RunningFrame DEF Depth
  <1>2. /\ Top(fr) \in Seq(Frame)
        /\ Len(Top(fr)) = Depth
        /\ \A j \in 1 .. Len(cs) : Top(fr)[j] = IF j = Depth THEN fr ELSE cs[j]
    BY <1>1, ExceptSeq DEF StackOK, Top, Depth
  <1>3. Top(fr)[1].k = "main"
    BY <1>1, <1>2 DEF StackOK, Running, Depth
  <1>4. Top(fr) # <<>>
    BY <1>1, <1>2, EmptySeq
  <1> QED
    BY <1>2, <1>3, <1>4 DEF GoodStack

\* Calling from a good stack.
LEMMA AppendGood ==
  ASSUME NEW s, GoodStack(s), NEW fr \in Frame
  PROVE  GoodStack(Append(s, fr))
  BY DEF GoodStack

\* The replacements of the running frame that the actions make.
LEMMA MovedGood ==
  ASSUME StackOK, NEW pc \in Pcs
  PROVE  /\ GoodStack(Top([Running EXCEPT !.pc = pc]))
         /\ Running.n > 0 => GoodStack(Counted(pc))
         /\ \A b \in BOOLEAN :
              GoodStack(Top([Running EXCEPT !.pc = pc, !.flag = b]))
  <1>1. Running \in Frame
    BY RunningFrame
  <1>2. /\ [Running EXCEPT !.pc = pc] \in Frame
        /\ [Running EXCEPT !.pc = pc].k = Running.k
    BY <1>1 DEF Frame
  <1>3. ASSUME Running.n > 0
        PROVE  /\ [Running EXCEPT !.pc = pc, !.n = @ - 1] \in Frame
               /\ [Running EXCEPT !.pc = pc, !.n = @ - 1].k = Running.k
    <2>1. Running.n \in Nat
      BY <1>1 DEF Frame
    <2>2. Running.n - 1 \in Nat
      BY <1>3, <2>1
    <2>3. Running.k = "try" => Running.n - 1 \in Levels("buf")
      BY <1>1, <1>3 DEF Frame, Levels
    <2> QED
      BY <1>1, <2>2, <2>3 DEF Frame
  <1>4. ASSUME NEW b \in BOOLEAN
        PROVE  /\ [Running EXCEPT !.pc = pc, !.flag = b] \in Frame
               /\ [Running EXCEPT !.pc = pc, !.flag = b].k = Running.k
    BY <1>1 DEF Frame
  <1> QED
    BY <1>2, <1>3, <1>4, TopGood, Zenon DEF Counted

LEMMA GotoGood ==
  ASSUME StackOK, NEW pc \in Pcs, Goto(pc)
  PROVE  StackOK'
  BY MovedGood, Zenon DEF Goto, StackOK, GoodStack

LEMMA CallGood ==
  ASSUME StackOK, NEW pc \in Pcs, NEW fr \in Frame, Call(fr, pc)
  PROVE  StackOK'
  BY MovedGood, AppendGood, Zenon DEF Call, StackOK, GoodStack

LEMMA ReturnGood ==
  ASSUME StackOK, Running.k # "main", Return
  PROVE  StackOK'
  <1>1. Depth \in Nat /\ Depth > 1 /\ Len(cs) = Depth
    BY RunningFrame DEF StackOK, Running
  <1>2. /\ SubSeq(cs, 1, Depth - 1) \in Seq(Frame)
        /\ Len(SubSeq(cs, 1, Depth - 1)) = Depth - 1
        /\ SubSeq(cs, 1, Depth - 1)[1] = cs[1]
    BY <1>1 DEF StackOK
  <1> QED
    BY <1>1, <1>2, EmptySeq DEF Return, StackOK

\* The frames that are called.
LEMMA FrameTypes ==
  ASSUME UnwindOK
  PROVE  /\ \A k \in FrameKinds \ {"call"}, pc \in Pcs : FrameOf(k, pc) \in Frame
         /\ \A f \in Fn, pc \in Pcs :
              [FrameOf("call", pc) EXCEPT !.f = f] \in Frame
         /\ \A role \in Roles, n \in Nat, b, c \in BOOLEAN :
              ListOf(role, n, b, c) \in Frame
         /\ \A tag \in Tags : RunOf(tag) \in Frame
  <1>1. Len(ul) \in Nat
    BY LenProperties DEF UnwindOK
  <1>2. \A k \in FrameKinds \ {"call"}, pc \in Pcs : FrameOf(k, pc) \in Frame
    BY <1>1 DEF FrameOf, Frame, Roles, Levels
  <1>3. FrameOf("list", "enter") \in Frame /\ FrameOf("run", "pop") \in Frame
    BY <1>2 DEF FrameKinds, Pcs
  <1>4. \A role \in Roles, n \in Nat, b, c \in BOOLEAN :
          ListOf(role, n, b, c) \in Frame
    <2>1. FrameOf("list", "enter").k = "list"
      BY DEF FrameOf
    <2>2. ASSUME NEW x \in Frame, x.k = "list", NEW role \in Roles, NEW n \in Nat,
                 NEW b \in BOOLEAN, NEW c \in BOOLEAN
          PROVE  [x EXCEPT !.tag = role, !.n = n, !.brk = b, !.cont = c] \in Frame
      BY <2>2 DEF Frame
    <2> QED
      BY <1>3, <2>1, <2>2 DEF ListOf
  <1>5. \A tag \in Tags : RunOf(tag) \in Frame
    BY <1>3 DEF RunOf, Frame
  <1>6. \A f \in Fn, pc \in Pcs : [FrameOf("call", pc) EXCEPT !.f = f] \in Frame
    BY <1>1 DEF FrameOf, Frame, Roles, FrameKinds
  <1> QED
    BY <1>2, <1>4, <1>5, <1>6

LEMMA CallListGood ==
  ASSUME StackOK, UnwindOK, NEW role \in Roles, NEW n \in 1 .. MaxList,
         NEW b \in BOOLEAN, NEW c \in BOOLEAN, NEW pc \in Pcs
  PROVE  /\ ListOf(role, n, b, c) \in Frame
         /\ Call(ListOf(role, n, b, c), pc) => StackOK'
  <1>1. n \in Nat
    BY BoundAssumption
  <1>2. ListOf(role, n, b, c) \in Frame
    BY <1>1, FrameTypes
  <1> QED
    BY <1>2, CallGood

-----------------------------------------------------------------------------
(***************************************************************************)
(* The unwind_protect list, the flags and the messages                     *)
(***************************************************************************)

\* What is pushed on unwind_protect_list.
LEMMA ElemTypes ==
  ASSUME FlagsOK
  PROVE  /\ \A e \in ElemKinds \ (FnElems \cup {"restore"}), f \in Fn \cup {NoFn} :
              ElemOf(e, f) \in Elem
         /\ \A e \in FnElems, f \in Fn : ElemOf(e, f) \in Elem
         /\ \A e \in FnElems, f \in Fn, d \in Nat :
              SavedCount(e, f, d) \in Elem
         /\ \A tag \in Tags : Mark(tag) \in Elem
         /\ \A v \in Flags : Saved(v) \in Elem
  <1>1. "one" \in Tags /\ 0 \in FlagValues
    BY DEF Tags, FlagValues
  <1>2. FnElems \subseteq ElemKinds /\ "restore" \notin FnElems
        /\ "mark" \notin FnElems /\ {"mark", "restore"} \subseteq ElemKinds
    BY DEF FnElems, ElemKinds
  <1>3. \A e \in ElemKinds \ (FnElems \cup {"restore"}), f \in Fn \cup {NoFn} :
          ElemOf(e, f) \in Elem
    BY <1>1 DEF ElemOf, Elem
  <1>4. \A e \in FnElems, f \in Fn : ElemOf(e, f) \in Elem
    BY <1>1, <1>2 DEF ElemOf, Elem
  <1>5. \A e \in FnElems, f \in Fn, d \in Nat : SavedCount(e, f, d) \in Elem
    BY <1>1, <1>2 DEF SavedCount, ElemOf, Elem
  <1>6. \A tag \in Tags : Mark(tag) \in Elem
    BY <1>1, <1>2 DEF Mark, ElemOf, Elem
  <1>7. \A v \in Flags : Saved(v) \in Elem
    BY <1>1, <1>2 DEF Saved, ElemOf, Elem, FlagsOK
  <1> QED
    BY <1>3, <1>4, <1>5, <1>6, <1>7

\* Latest stays within the places it is given.
LEMMA LatestWithin ==
  ASSUME NEW n \in Nat, NEW S, S \subseteq 1 .. n
  PROVE  Latest(S) \in 0 .. n
  <1>1. CASE \E i \in S : \A j \in S : j <= i
    <2>1. Latest(S) \in S
      BY <1>1 DEF Latest
    <2>2. \A i \in S : i \in 0 .. n
      OBVIOUS
    <2> QED
      BY <2>1, <2>2
  <1>2. CASE ~ \E i \in S : \A j \in S : j <= i
    BY <1>2 DEF Latest
  <1> QED
    BY <1>1, <1>2

\* The list without its last element, and without its last frame.
LEMMA PoppedGood ==
  ASSUME UnwindOK
  PROVE  /\ SubSeq(ul, 1, Len(ul) - 1) \in Seq(Elem)
         /\ ul # <<>> => ul[Len(ul)] \in Elem
         /\ \A tag : Discarded(tag) \in Seq(Elem)
  <1>1. Len(ul) \in Nat /\ \A i \in 1 .. Len(ul) : ul[i] \in Elem
    BY LenProperties, ElementOfSeq DEF UnwindOK
  <1>2. ul # <<>> => Len(ul) \in 1 .. Len(ul)
    BY <1>1, EmptySeq DEF UnwindOK
  <1>3. ASSUME NEW n \in Int, n <= Len(ul)
        PROVE  SubSeq(ul, 1, n) \in Seq(Elem)
    <2>1. \A i \in 1 .. n : ul[i] \in Elem
      BY <1>1, <1>3
    <2> QED
      BY <2>1, SubSeqProperties
  <1>4. ASSUME NEW tag
        PROVE  Discarded(tag) \in Seq(Elem)
    <2>1. Marks(tag) \subseteq 1 .. Len(ul)
      BY DEF Marks
    <2>2. Latest(Marks(tag)) \in 0 .. Len(ul)
      BY <1>1, <2>1, LatestWithin
    <2> QED
      BY <1>1, <1>3, <2>2 DEF Discarded
  <1> QED
    BY <1>1, <1>2, <1>3, <1>4

LEMMA LatestNat ==
  ASSUME NEW S, S \subseteq Nat
  PROVE  Latest(S) \in Nat
  BY DEF Latest

LEMMA SayGood ==
  ASSUME UnwindOK, TextOK, Say
  PROVE  emb' \subseteq Nat /\ leak' \in BOOLEAN
  <1>1. BufferMarks \subseteq Nat
    BY LenProperties DEF BufferMarks, UnwindOK
  <1>2. Latest(BufferMarks) \in Nat
    BY <1>1, LatestNat
  <1> QED
    BY <1>2 DEF Say, TextOK

\* A flag that gets one of its values.
LEMMA SetFlagGood ==
  ASSUME FlagsOK, NEW v \in Flags, NEW x \in Levels(v)
  PROVE  /\ [g EXCEPT ![v] = x] \in [Flags -> FlagValues]
         /\ \A u \in Flags : [g EXCEPT ![v] = x][u] \in Levels(u)
  <1>1. x \in FlagValues
    BY DEF Levels, FlagValues
  <1> QED
    BY <1>1 DEF FlagsOK

\* The flags that cleanup and catch code and the second string of an eval are
\* run without.
LEMMA ZeroedGood ==
  ASSUME FlagsOK,
         \/ g' = [g EXCEPT !["err"] = 0, !["ret"] = 0, !["brk"] = 0]
         \/ g' = [g EXCEPT !["ret"] = 0, !["brk"] = 0]
         \/ g' = [g EXCEPT !["err"] = 0, !["buf"] = 0]
  PROVE  FlagsOK'
  <1>1. {"err", "ret", "brk", "buf"} \subseteq Flags /\ 0 \in FlagValues
    BY DEF Flags, FlagValues
  <1>2. g' \in [Flags -> FlagValues]
    BY <1>1 DEF FlagsOK
  <1>3. ASSUME NEW v \in Flags
        PROVE  g'[v] \in Levels(v)
    <2>1. g'[v] = 0 \/ g'[v] = g[v]
      BY <1>1 DEF FlagsOK
    <2>2. 0 \in Levels(v)
      BY DEF Levels, FlagValues
    <2> QED
      BY <2>1, <2>2 DEF FlagsOK
  <1> QED
    BY <1>2, <1>3 DEF FlagsOK

\* What the actions leave alone.
LEMMA UnchangedGood ==
  ASSUME TypeOK
  PROVE  /\ UNCHANGED ul => UnwindOK'
         /\ UNCHANGED g => FlagsOK'
         /\ UNCHANGED fn /\ UNCHANGED cur => FnOK'
         /\ UNCHANGED txt /\ Silent => TextOK'
         /\ UNCHANGED txt /\ Say => TextOK'
         /\ UNCHANGED intr => IntrOK'
  BY SayGood DEF TypeOK, UnwindOK, FlagsOK, FnOK, TextOK, IntrOK, Silent

-----------------------------------------------------------------------------
(***************************************************************************)
(* main_loop and the statement lists                                       *)
(***************************************************************************)

LEMMA MainTypes ==
  ASSUME TypeOK, MainRead \/ MainEval \/ MainJumped
  PROVE  TypeOK'
  <1> USE DEF TypeOK
  <1>1. CASE MainRead
    <2>1. PICK n \in 1 .. MaxList : Call(ListOf("cmd", n, FALSE, FALSE), "eval")
      BY <1>1 DEF MainRead
    <2>2. StackOK'
      BY <2>1, CallListGood DEF Roles, Pcs
    <2>3. FlagsOK'
      BY <1>1 DEF MainRead, FlagsOK, Flags, Levels, FlagValues
    <2>4. FnOK'
      BY <1>1 DEF MainRead, FnOK
    <2> QED
      BY <1>1, <2>2, <2>3, <2>4, UnchangedGood DEF MainRead
  <1>2. CASE MainEval
    <2>1. StackOK'
      BY <1>2, GotoGood DEF MainEval, Pcs
    <2>2. FlagsOK'
      BY <1>2 DEF MainEval, FlagsOK, Flags, Levels, FlagValues, Less
    <2> QED
      BY <1>2, <2>1, <2>2, UnchangedGood DEF MainEval
  <1>3. CASE MainJumped
    <2>1. StackOK'
      BY <1>3, FrameTypes, CallGood DEF MainJumped, Tags, Pcs
    <2> QED
      BY <1>3, <2>1, UnchangedGood DEF MainJumped
  <1> QED
    BY <1>1, <1>2, <1>3

-----------------------------------------------------------------------------

LEMMA ListTypes ==
  ASSUME TypeOK, ListEnd \/ ListNext
  PROVE  TypeOK'
  <1> USE DEF TypeOK
  <1>1. StackOK'
    BY ReturnGood, GotoGood DEF ListEnd, ListNext, At, Pcs
  <1> QED
    BY <1>1, UnchangedGood DEF ListEnd, ListNext

LEMMA SteppedGood ==
  ASSUME StackOK, AtStatement
  PROVE  /\ GoodStack(Stepped)
         /\ Running.brk \in BOOLEAN /\ Running.cont \in BOOLEAN
  <1>1. Running.n > 0
    BY DEF AtStatement
  <1>2. GoodStack(Stepped)
    BY <1>1, MovedGood, Zenon DEF Stepped, Pcs
  <1> QED
    BY <1>2, RunningFrame DEF Frame

\* Two frames at once: a command and the list that is its body.
LEMMA ConcatGood ==
  ASSUME NEW s, GoodStack(s), NEW a \in Frame, NEW b \in Frame
  PROVE  GoodStack(s \o <<a, b>>)
  <1>1. <<a, b>> \in Seq(Frame) /\ Len(<<a, b>>) = 2
    OBVIOUS
  <1>2. Len(s) \in Nat \ {0}
    BY EmptySeq DEF GoodStack
  <1>3. /\ s \o <<a, b>> \in Seq(Frame)
        /\ Len(s \o <<a, b>>) = Len(s) + 2
        /\ (s \o <<a, b>>)[1] = s[1]
    BY <1>1, <1>2, ConcatProperties DEF GoodStack
  <1> QED
    BY <1>2, <1>3, EmptySeq DEF GoodStack

\* The statements that do not start a construct.
LEMMA PlainStatementTypes ==
  ASSUME TypeOK, AtStatement,
         \/ Simple \/ Warn
         \/ \E e \in {1, -1, -2} : Raise(e)
         \/ \E v \in {"brk", "cont", "ret"} : SetJump(v)
  PROVE  TypeOK'
  <1> USE DEF TypeOK
  <1>1. GoodStack(Stepped)
    BY SteppedGood
  <1>2. CASE Simple \/ Warn
    <2>1. StackOK'
      BY <1>1, <1>2 DEF Simple, Warn, GoodStack, StackOK
    <2> QED
      BY <1>2, <2>1, UnchangedGood DEF Simple, Warn
  <1>3. ASSUME NEW e \in {1, -1, -2}, Raise(e)
        PROVE  TypeOK'
    <2>1. StackOK'
      BY <1>1, <1>3 DEF Raise, GoodStack, StackOK
    <2>2. FlagsOK'
      BY <1>3, SetFlagGood DEF Raise, FlagsOK, Flags, Levels, FlagValues
    <2> QED
      BY <1>3, <2>1, <2>2, UnchangedGood DEF Raise
  <1>4. ASSUME NEW v \in {"brk", "cont", "ret"}, SetJump(v)
        PROVE  TypeOK'
    <2>1. StackOK'
      BY <1>1, <1>4 DEF SetJump, GoodStack, StackOK
    <2>2. FlagsOK'
      BY <1>4, SetFlagGood DEF SetJump, FlagsOK, Flags, Levels, FlagValues
    <2> QED
      BY <1>4, <2>1, <2>2, UnchangedGood DEF SetJump
  <1> QED
    BY <1>2, <1>3, <1>4

\* The statements that put one frame on the C stack.
LEMMA CallingStatementTypes ==
  ASSUME TypeOK, AtStatement,
         \/ While \/ For \/ If \/ Source
         \/ \E f \in Fn : CallFunction(f)
  PROVE  TypeOK'
  <1> USE DEF TypeOK
  <1>1. GoodStack(Stepped)
    BY SteppedGood
  <1>2. \E fr \in Frame : cs' = Append(Stepped, fr)
    <2>1. \A k \in FrameKinds \ {"call", "try"}, pc \in Pcs, n \in Nat :
            [FrameOf(k, pc) EXCEPT !.n = n] \in Frame
      <3>1. \A k \in FrameKinds, pc \in Pcs : FrameOf(k, pc).k = k
        BY DEF FrameOf
      <3> QED
        BY <3>1, FrameTypes DEF Frame
    <2>2. CASE While
      <3>1. [FrameOf("while", "test") EXCEPT !.n = MaxIter] \in Frame
        BY <2>1, BoundAssumption DEF FrameKinds, Pcs
      <3> QED
        BY <2>2, <3>1 DEF While
    <2>3. CASE For
      <3>1. PICK n \in 0 .. MaxIter :
              cs' = Append(Stepped, [FrameOf("for", "assign") EXCEPT !.n = n])
        BY <2>3 DEF For
      <3>2. n \in Nat
        BY BoundAssumption
      <3>3. [FrameOf("for", "assign") EXCEPT !.n = n] \in Frame
        BY <2>1, <3>2 DEF FrameKinds, Pcs
      <3> QED
        BY <3>1, <3>3
    <2>4. CASE If
      <3>1. PICK n \in 1 .. MaxList :
              cs' = Append(Stepped,
                           ListOf("plain", n, Running.brk, Running.cont))
        BY <2>4 DEF If
      <3>2. ListOf("plain", n, Running.brk, Running.cont) \in Frame
        BY SteppedGood, CallListGood DEF Roles, Pcs
      <3> QED
        BY <3>1, <3>2
    <2>5. CASE Source
      <3>1. PICK n \in 1 .. MaxList :
              cs' = Append(Stepped, [FrameOf("script", "begin") EXCEPT !.n = n])
        BY <2>5 DEF Source
      <3>2. n \in Nat
        BY BoundAssumption
      <3>3. [FrameOf("script", "begin") EXCEPT !.n = n] \in Frame
        BY <2>1, <3>2 DEF FrameKinds, Pcs
      <3> QED
        BY <3>1, <3>3
    <2>6. ASSUME NEW f \in Fn, CallFunction(f)
          PROVE  \E fr \in Frame : cs' = Append(Stepped, fr)
      <3>1. [FrameOf("call", "begin") EXCEPT !.f = f] \in Frame
        BY FrameTypes DEF Pcs
      <3> QED
        BY <2>6, <3>1 DEF CallFunction
    <2> QED
      BY <2>2, <2>3, <2>4, <2>5, <2>6
  <1>3. StackOK'
    BY <1>1, <1>2, AppendGood DEF GoodStack, StackOK
  <1> QED
    BY <1>3, UnchangedGood DEF While, For, If, Source, CallFunction

\* Appending to the unwind_protect list.
LEMMA PushedGood ==
  ASSUME UnwindOK, NEW a \in Elem
  PROVE  /\ Append(ul, a) \in Seq(Elem)
         /\ \A b \in Elem : ul \o <<a, b>> \in Seq(Elem)
         /\ \A b, c \in Elem : ul \o <<a, b, c>> \in Seq(Elem)
         /\ \A b, c, d \in Elem : ul \o <<a, b, c, d>> \in Seq(Elem)
         /\ \A b, c, d, e \in Elem : ul \o <<a, b, c, d, e>> \in Seq(Elem)
  <1>1. ASSUME NEW t \in Seq(Elem)
        PROVE  ul \o t \in Seq(Elem)
    BY <1>1, ConcatProperties DEF UnwindOK
  <1>2. \A b \in Elem : <<a, b>> \in Seq(Elem)
    OBVIOUS
  <1>3. \A b, c \in Elem : <<a, b, c>> \in Seq(Elem)
    OBVIOUS
  <1>4. \A b, c, d \in Elem : <<a, b, c, d>> \in Seq(Elem)
    OBVIOUS
  <1>5. \A b, c, d, e \in Elem : <<a, b, c, d, e>> \in Seq(Elem)
    OBVIOUS
  <1>6. Append(ul, a) \in Seq(Elem)
    BY DEF UnwindOK
  <1> QED
    BY <1>1, <1>2, <1>3, <1>4, <1>5, <1>6

\* The length of the list is a height, the base of a frame.
LEMMA Rebased ==
  ASSUME NEW s \in Seq(Elem), NEW fr \in Frame
  PROVE  [fr EXCEPT !.base = Len(s)] \in Frame
  <1>1. Len(s) \in Nat
    BY LenProperties
  <1> QED
    BY <1>1 DEF Frame

LEMMA TryTypes ==
  ASSUME TypeOK, AtStatement, NEW hasCatch \in BOOLEAN, Try(hasCatch)
  PROVE  TypeOK'
  <1> USE DEF TypeOK
  <1>1. /\ Mark("tree_try_catch::eval") \in Elem
        /\ Saved("buf") \in Elem
    BY ElemTypes DEF Tags, Flags
  <1>2. [ElemOf("catch", NoFn) EXCEPT !.brk = Running.brk,
                      !.cont = Running.cont, !.flag = hasCatch] \in Elem
    <2>1. ElemOf("catch", NoFn) \in Elem
      BY ElemTypes DEF ElemKinds, FnElems
    <2> QED
      BY <2>1, SteppedGood DEF Elem
  <1>3. UnwindOK'
    <2> DEFINE a == Mark("tree_try_catch::eval")
               b == [ElemOf("catch", NoFn) EXCEPT !.brk = Running.brk,
                       !.cont = Running.cont, !.flag = hasCatch]
               t == ul \o <<a, b>>
    <2>1. t \in Seq(Elem)
      BY <1>1, <1>2, PushedGood
    <2>2. /\ t \o <<Saved("buf")>> \in Seq(Elem)
          /\ t \o <<>> \in Seq(Elem)
      <3> HIDE DEF t
      <3>1. <<Saved("buf")>> \in Seq(Elem) /\ <<>> \in Seq(Elem)
        BY <1>1
      <3> QED
        BY <2>1, <3>1, ConcatProperties
    <2>3. ul' = t \o (IF hasCatch THEN <<Saved("buf")>> ELSE <<>>)
      BY DEF Try
    <2> HIDE DEF t
    <2> QED
      BY <2>2, <2>3 DEF UnwindOK
  <1>4. FlagsOK'
    BY SetFlagGood DEF Try, FlagsOK, Flags, Levels, FlagValues
  <1>5. StackOK'
    <2>1. PICK n \in 1 .. MaxList :
            cs' = Stepped \o
               <<[FrameOf("try", "body") EXCEPT !.flag = hasCatch, !.n = g["buf"]],
                 [ListOf("try", n, Running.brk, Running.cont)
                    EXCEPT !.base = Len(ul')]>>
      BY DEF Try
    <2>2. [FrameOf("try", "body") EXCEPT !.flag = hasCatch, !.n = g["buf"]]
            \in Frame
      <3>1. g["buf"] \in Levels("buf") /\ g["buf"] \in Nat
        BY DEF FlagsOK, Flags, Levels
      <3>2. FrameOf("try", "body") \in Frame
        BY FrameTypes DEF FrameKinds, Pcs
      <3> QED
        BY <3>1, <3>2 DEF Frame
    <2>3. [ListOf("try", n, Running.brk, Running.cont) EXCEPT !.base = Len(ul')]
            \in Frame
      <3>1. ListOf("try", n, Running.brk, Running.cont) \in Frame
        BY SteppedGood, CallListGood DEF Roles, Pcs
      <3> QED
        BY <1>3, <3>1, Rebased DEF UnwindOK
    <2> QED
      BY <2>1, <2>2, <2>3, SteppedGood, ConcatGood DEF GoodStack, StackOK
  <1> QED
    BY <1>3, <1>4, <1>5, UnchangedGood DEF Try

LEMMA UnwindProtectTypes ==
  ASSUME TypeOK, AtStatement, UnwindProtect
  PROVE  TypeOK'
  <1> USE DEF TypeOK
  <1>1. [ElemOf("cleanup", NoFn) EXCEPT !.brk = Running.brk,
                                         !.cont = Running.cont] \in Elem
    <2>1. ElemOf("cleanup", NoFn) \in Elem
      BY ElemTypes DEF ElemKinds, FnElems
    <2> QED
      BY <2>1, SteppedGood DEF Elem
  <1>2. UnwindOK'
    BY <1>1, PushedGood DEF UnwindProtect, UnwindOK
  <1>3. StackOK'
    <2>1. PICK n \in 1 .. MaxList :
            cs' = Stepped \o
               <<FrameOf("unw", "body"),
                 [ListOf("protected", n, Running.brk, Running.cont)
                    EXCEPT !.base = Len(ul')]>>
      BY DEF UnwindProtect
    <2>2. FrameOf("unw", "body") \in Frame
      BY FrameTypes DEF FrameKinds, Pcs
    <2>3. [ListOf("protected", n, Running.brk, Running.cont)
             EXCEPT !.base = Len(ul')] \in Frame
      <3>1. ListOf("protected", n, Running.brk, Running.cont) \in Frame
        BY SteppedGood, CallListGood DEF Roles, Pcs
      <3> QED
        BY <1>2, <3>1, Rebased DEF UnwindOK
    <2> QED
      BY <2>1, <2>2, <2>3, SteppedGood, ConcatGood DEF GoodStack, StackOK
  <1> QED
    BY <1>2, <1>3, UnchangedGood DEF UnwindProtect

LEMMA EvalStatementTypes ==
  ASSUME TypeOK, AtStatement, NEW hasCatch \in BOOLEAN, Eval(hasCatch)
  PROVE  TypeOK'
  <1> USE DEF TypeOK
  <1>1. Mark("Feval") \in Elem /\ Saved("buf") \in Elem
    BY ElemTypes DEF Tags, Flags
  <1>2. UnwindOK'
    <2>1. Append(ul, Mark("Feval")) \in Seq(Elem)
      BY <1>1, PushedGood
    <2>2. <<Saved("buf")>> \in Seq(Elem) /\ <<>> \in Seq(Elem)
      BY <1>1
    <2>3. ul' = Append(ul, Mark("Feval"))
                  \o (IF hasCatch THEN <<Saved("buf")>> ELSE <<>>)
      BY DEF Eval
    <2> QED
      BY <2>1, <2>2, <2>3, ConcatProperties DEF UnwindOK
  <1>3. FlagsOK'
    BY SetFlagGood DEF Eval, FlagsOK, Flags, Levels, FlagValues
  <1>4. StackOK'
    <2>1. [FrameOf("eval", "parse") EXCEPT !.flag = hasCatch] \in Frame
      <3>1. FrameOf("eval", "parse") \in Frame
        BY FrameTypes DEF FrameKinds, Pcs
      <3> QED
        BY <3>1 DEF Frame
    <2> QED
      BY <2>1, SteppedGood, AppendGood DEF Eval, GoodStack, StackOK
  <1> QED
    BY <1>2, <1>3, <1>4, UnchangedGood DEF Eval

LEMMA StatementTypes ==
  ASSUME TypeOK, Statement
  PROVE  TypeOK'
  BY PlainStatementTypes, CallingStatementTypes, TryTypes, UnwindProtectTypes,
     EvalStatementTypes DEF Statement

-----------------------------------------------------------------------------
(***************************************************************************)
(* Loops, try and unwind_protect                                           *)
(***************************************************************************)

LEMMA LoopTypes ==
  ASSUME TypeOK, Loops
  PROVE  TypeOK'
  <1> USE DEF TypeOK
  <1>1. ASSUME NEW role \in Roles, NEW n \in 1 .. MaxList, Running.n > 0,
               cs' = Append(Counted("after"), ListOf(role, n, TRUE, TRUE))
        PROVE  StackOK'
    <2>1. GoodStack(Counted("after"))
      BY <1>1, MovedGood, Zenon DEF Pcs
    <2>2. ListOf(role, n, TRUE, TRUE) \in Frame
      BY CallListGood DEF Pcs
    <2> QED
      BY <1>1, <2>1, <2>2, AppendGood, Zenon DEF GoodStack, StackOK
  <1>2. CASE WhileTrue
    <2>1. StackOK'
      BY <1>1, <1>2 DEF WhileTrue, Roles
    <2> QED
      BY <1>2, <2>1, UnchangedGood DEF WhileTrue
  <1>3. CASE WhileFalse
    <2>1. StackOK'
      BY <1>3, ReturnGood DEF WhileFalse, At
    <2> QED
      BY <1>3, <2>1, UnchangedGood DEF WhileFalse
  <1>4. CASE WhileFails
    <2>1. StackOK'
      BY <1>4, ReturnGood DEF WhileFails, At
    <2>2. FlagsOK'
      BY <1>4, SetFlagGood DEF WhileFails, FlagsOK, Flags, Levels, FlagValues
    <2> QED
      BY <1>4, <2>1, <2>2, UnchangedGood DEF WhileFails
  <1>5. CASE LoopAfter
    <2>1. StackOK'
      BY <1>5, ReturnGood, GotoGood DEF LoopAfter, Pcs
    <2>2. FlagsOK'
      BY <1>5 DEF LoopAfter, FlagsOK, Flags, Levels, FlagValues, Less
    <2> QED
      BY <1>5, <2>1, <2>2, UnchangedGood DEF LoopAfter
  <1>6. CASE ForNext
    <2>1. StackOK'
      BY <1>1, <1>6, Zenon DEF ForNext, Roles
    <2> QED
      BY <1>6, <2>1, UnchangedGood DEF ForNext
  <1>7. CASE ForAssignFails
    <2>1. StackOK'
      BY <1>7, MovedGood, Zenon DEF ForAssignFails, Pcs, GoodStack, StackOK
    <2>2. FlagsOK'
      BY <1>7, SetFlagGood DEF ForAssignFails, FlagsOK, Flags, Levels, FlagValues
    <2> QED
      BY <1>7, <2>1, <2>2, UnchangedGood DEF ForAssignFails
  <1>8. CASE ForEnd
    <2>1. StackOK'
      BY <1>8, ReturnGood DEF ForEnd, At
    <2> QED
      BY <1>8, <2>1, UnchangedGood DEF ForEnd
  <1> QED
    BY <1>2, <1>3, <1>4, <1>5, <1>6, <1>7, <1>8 DEF Loops

\* The messages that get old.
LEMMA AgedGood ==
  ASSUME TextOK, NEW i
  PROVE  Aged(i) \subseteq Nat
  BY DEF Aged, TextOK

\* Calls of run_unwind_protect and its relatives.
LEMMA CallRunGood ==
  ASSUME StackOK, UnwindOK, NEW tag \in Tags, NEW pc \in Pcs,
         Call(RunOf(tag), pc)
  PROVE  StackOK'
  BY FrameTypes, CallGood

LEMMA TryEndTypes ==
  ASSUME TypeOK, TryFailed \/ TrySucceeded \/ UnwindBodyDone
  PROVE  TypeOK'
  <1> USE DEF TypeOK
  <1>1. CASE TryFailed
    <2>1. StackOK'
      BY <1>1, CallRunGood DEF TryFailed, Tags, Pcs
    <2>2. FlagsOK'
      BY <1>1, SetFlagGood DEF TryFailed, FlagsOK, Flags, Levels, FlagValues
    <2> QED
      BY <1>1, <2>1, <2>2, UnchangedGood DEF TryFailed
  <1>2. CASE TrySucceeded
    <2>1. StackOK'
      BY <1>2, ReturnGood DEF TrySucceeded, At
    <2>2. UnwindOK'
      BY <1>2, PoppedGood DEF TrySucceeded, UnwindOK
    <2>3. TextOK'
      BY <1>2, AgedGood DEF TrySucceeded, TextOK
    <2>4. FlagsOK'
      <3>1. Running.n \in Levels("buf")
        BY <1>2, RunningFrame DEF TrySucceeded, At, Frame
      <3> QED
        BY <1>2, <3>1 DEF TrySucceeded, FlagsOK, Flags, Levels, FlagValues
    <2> QED
      BY <1>2, <2>1, <2>2, <2>3, <2>4, UnchangedGood DEF TrySucceeded
  <1>3. CASE UnwindBodyDone
    <2>1. GoodStack(Top([Running EXCEPT !.pc = "cleaned",
                                        !.flag = (g["err"] # 0)]))
      BY MovedGood, Zenon DEF Pcs
    <2>2. RunOf("one") \in Frame
      BY FrameTypes DEF Tags
    <2>3. StackOK'
      BY <1>3, <2>1, <2>2, AppendGood DEF UnwindBodyDone, GoodStack, StackOK
    <2> QED
      BY <1>3, <2>3, UnchangedGood DEF UnwindBodyDone
  <1> QED
    BY <1>1, <1>2, <1>3

LEMMA RestoreTypes ==
  ASSUME TypeOK, RestoreBreaking \/ RestoreReturning \/ RestoreLast
  PROVE  TypeOK'
  <1> USE DEF TypeOK
  <1>1. StackOK'
    BY CallRunGood, GotoGood
    DEF RestoreBreaking, RestoreReturning, RestoreLast, Tags, Pcs
  <1>2. UnwindOK'
    BY PoppedGood DEF RestoreBreaking, RestoreReturning, RestoreLast, UnwindOK
  <1>3. FlagsOK'
    BY DEF RestoreBreaking, RestoreReturning, RestoreLast, FlagsOK, Flags,
           Levels, FlagValues, Less
  <1> QED
    BY <1>1, <1>2, <1>3, UnchangedGood
    DEF RestoreBreaking, RestoreReturning, RestoreLast

LEMMA CleanupBeginTypes ==
  ASSUME TypeOK, CleanupBegin
  PROVE  TypeOK'
  <1> USE DEF TypeOK
  <1>1. UnwindOK'
    <2>1. Saved("err") \in Elem /\ Saved("ret") \in Elem /\ Saved("brk") \in Elem
      BY ElemTypes DEF Flags
    <2> QED
      BY <2>1, PushedGood DEF CleanupBegin, UnwindOK
  <1>2. FlagsOK'
    <2>1. g' = [g EXCEPT !["err"] = 0, !["ret"] = 0, !["brk"] = 0]
      BY DEF CleanupBegin
    <2> QED
      BY <2>1, ZeroedGood
  <1>3. StackOK'
    <2>1. PICK n \in 1 .. MaxList :
            Call([ListOf("cleanup", n, Running.brk, Running.cont)
                    EXCEPT !.base = Len(ul')], "brk")
      BY DEF CleanupBegin
    <2>2. Running.brk \in BOOLEAN /\ Running.cont \in BOOLEAN
      BY RunningFrame DEF Frame
    <2>3. ListOf("cleanup", n, Running.brk, Running.cont) \in Frame
      BY <2>2, CallListGood DEF Roles, Pcs
    <2>4. [ListOf("cleanup", n, Running.brk, Running.cont)
             EXCEPT !.base = Len(ul')] \in Frame
      BY <1>1, <2>3, Rebased DEF UnwindOK
    <2> QED
      BY <2>1, <2>4, CallGood DEF Pcs
  <1> QED
    BY <1>1, <1>2, <1>3, UnchangedGood DEF CleanupBegin

LEMMA CatchTypes ==
  ASSUME TypeOK, CatchBind \/ CatchProtect
  PROVE  TypeOK'
  <1> USE DEF TypeOK
  <1>1. CASE CatchBind
    <2>1. StackOK'
      BY <1>1, GotoGood DEF CatchBind, Pcs
    <2>2. FlagsOK'
      BY <1>1, SetFlagGood DEF CatchBind, FlagsOK, Flags, Levels, FlagValues
    <2>3. TextOK'
      BY <1>1 DEF CatchBind, TextOK
    <2> QED
      BY <1>1, <2>1, <2>2, <2>3, UnchangedGood DEF CatchBind
  <1>2. CASE CatchProtect
    <2>1. UnwindOK'
      <3>1. /\ ElemOf("clearerr", NoFn) \in Elem
            /\ Saved("ret") \in Elem /\ Saved("brk") \in Elem
        BY ElemTypes DEF Flags, ElemKinds, FnElems
      <3> QED
        BY <1>2, <3>1, PushedGood DEF CatchProtect, UnwindOK
    <2>2. FlagsOK'
      BY <1>2, ZeroedGood DEF CatchProtect
    <2>3. ASSUME Running.flag
          PROVE  StackOK'
      <3>1. PICK n \in 1 .. MaxList :
              Call([ListOf("catch", n, Running.brk, Running.cont)
                      EXCEPT !.base = Len(ul')], "brk")
        BY <1>2, <2>3 DEF CatchProtect
      <3>2. Running.brk \in BOOLEAN /\ Running.cont \in BOOLEAN
        BY RunningFrame DEF Frame
      <3>3. ListOf("catch", n, Running.brk, Running.cont) \in Frame
        BY <3>2, CallListGood DEF Roles, Pcs
      <3>4. [ListOf("catch", n, Running.brk, Running.cont)
               EXCEPT !.base = Len(ul')] \in Frame
        BY <2>1, <3>3, Rebased DEF UnwindOK
      <3> QED
        BY <3>1, <3>4, CallGood DEF Pcs
    <2>4. ASSUME ~ Running.flag
          PROVE  StackOK'
      BY <1>2, <2>4, GotoGood DEF CatchProtect, Pcs
    <2> QED
      BY <1>2, <2>1, <2>2, <2>3, <2>4, UnchangedGood DEF CatchProtect
  <1> QED
    BY <1>1, <1>2

LEMMA ProtectionTypes ==
  ASSUME TypeOK, Protections
  PROVE  TypeOK'
  BY TryEndTypes, RestoreTypes, CleanupBeginTypes, CatchTypes DEF Protections

-----------------------------------------------------------------------------
(***************************************************************************)
(* Functions, scripts and eval                                             *)
(***************************************************************************)

\* The function that a call is about, and the members of a function.
LEMMA CalledFunction ==
  ASSUME TypeOK, Running.k = "call"
  PROVE  /\ Running.f \in Fn
         /\ fn[Running.f] \in FnState
         /\ fn[Running.f].depth \in Nat /\ fn[Running.f].vr \in Nat
         /\ fn[Running.f].nargs \in Nat /\ fn[Running.f].sym \in Nat
         /\ fn[Running.f].ctx \in Seq(Nat)
  BY RunningFrame DEF TypeOK, FnOK, FnState, Frame

LEMMA CallBeginTypes ==
  ASSUME TypeOK, CallBegin
  PROVE  TypeOK'
  <1> USE DEF TypeOK
  <1> DEFINE f == Running.f
             d == fn[f].depth + 1
  <1>1. Running.k = "call"
    BY DEF CallBegin, At
  <1>2. f \in Fn /\ d \in Nat /\ d - 1 \in Nat
    BY <1>1, CalledFunction
  <1>3. UnwindOK'
    <2>1. Mark("func_eval") \in Elem /\ SavedCount("depth", f, d - 1) \in Elem
      BY <1>2, ElemTypes DEF Tags, FnElems
    <2> HIDE DEF d, f
    <2>2. ul' = ul \o <<Mark("func_eval"), SavedCount("depth", f, d - 1)>>
      BY DEF CallBegin, d, f
    <2> QED
      BY <2>1, <2>2, PushedGood DEF UnwindOK
  <1>4. FnOK'
    <2>1. [fn[f] EXCEPT !.depth = d] \in FnState
      BY <1>1, <1>2, CalledFunction DEF FnState
    <2>2. fn' = [fn EXCEPT ![f] = [fn[f] EXCEPT !.depth = d]]
      BY DEF CallBegin
    <2> QED
      BY <1>2, <2>1, <2>2 DEF FnOK, CallBegin
  <1>5. StackOK'
    BY GotoGood DEF CallBegin, Pcs
  <1>6. FlagsOK' /\ TextOK'
    BY SetFlagGood, UnchangedGood
    DEF CallBegin, FlagsOK, Flags, Levels, FlagValues
  <1> QED
    BY <1>3, <1>4, <1>5, <1>6, UnchangedGood DEF CallBegin

LEMMA CallPushTypes ==
  ASSUME TypeOK, CallPush
  PROVE  TypeOK'
  <1> USE DEF TypeOK
  <1> DEFINE f == Running.f
             s == fn[f]
  <1>1. Running.k = "call"
    BY DEF CallPush, At
  <1>2. f \in Fn /\ s.depth \in Nat /\ s.vr \in Nat /\ s.sym \in Nat
        /\ s.ctx \in Seq(Nat) /\ s \in FnState
    BY <1>1, CalledFunction
  <1>3. UnwindOK'
    <2>1. /\ ElemOf("popctx", f) \in Elem /\ SavedCount("vr", f, s.vr) \in Elem
          /\ ElemOf("delvr", f) \in Elem
      BY <1>2, ElemTypes DEF FnElems
    <2>2. ul' = ul \o <<ElemOf("popctx", f), SavedCount("vr", f, s.vr),
                        ElemOf("delvr", f)>>
      BY DEF CallPush
    <2> QED
      BY <2>1, <2>2, PushedGood DEF UnwindOK
  <1>4. FnOK'
    <2>1. Append(s.ctx, s.sym) \in Seq(Nat)
      BY <1>2
    <2>2. [s EXCEPT !.ctx = Append(s.ctx, s.sym), !.sym = 0, !.vr = s.depth]
            \in FnState
      BY <1>2, <2>1 DEF FnState
    <2>3. fn' = [fn EXCEPT ![f] = [s EXCEPT !.ctx = Append(s.ctx, s.sym),
                                            !.sym = 0, !.vr = s.depth]]
      BY <1>2 DEF CallPush, FnOK
    <2> QED
      BY <1>2, <2>2, <2>3 DEF FnOK, CallPush
  <1>5. StackOK'
    BY GotoGood DEF CallPush, Pcs
  <1> QED
    BY <1>3, <1>4, <1>5, UnchangedGood DEF CallPush

LEMMA CallBindTypes ==
  ASSUME TypeOK, CallBind
  PROVE  TypeOK'
  <1> USE DEF TypeOK
  <1> DEFINE f == Running.f
             d == fn[f].depth
  <1>1. Running.k = "call"
    BY DEF CallBind, At
  <1>2. f \in Fn /\ d \in Nat /\ fn[f].nargs \in Nat /\ fn[f] \in FnState
    BY <1>1, CalledFunction
  <1>3. UnwindOK'
    <2>1. /\ ElemOf("clearsym", f) \in Elem /\ ElemOf("clearargs", f) \in Elem
          /\ SavedCount("nargs", f, fn[f].nargs) \in Elem
      BY <1>2, ElemTypes DEF FnElems
    <2>2. ElemOf("tab", cur.tab) \in Elem /\ ElemOf("fun", cur.fun) \in Elem
      BY ElemTypes DEF FnOK, ElemKinds, FnElems
    <2>3. ul' = ul \o <<ElemOf("clearsym", f), ElemOf("tab", cur.tab),
                        ElemOf("fun", cur.fun), ElemOf("clearargs", f),
                        SavedCount("nargs", f, fn[f].nargs)>>
      BY DEF CallBind
    <2> QED
      BY <2>1, <2>2, <2>3, PushedGood DEF UnwindOK
  <1>4. FnOK'
    <2>1. [fn[f] EXCEPT !.sym = d, !.args = d, !.nargs = d, !.vr = d] \in FnState
      BY <1>2 DEF FnState
    <2>2. fn' = [fn EXCEPT ![f] = [fn[f] EXCEPT !.sym = d, !.args = d,
                                                !.nargs = d, !.vr = d]]
      BY <1>2 DEF CallBind, FnOK
    <2>3. cur' = [fun |-> f, tab |-> f]
      BY DEF CallBind
    <2> QED
      BY <1>2, <2>1, <2>2, <2>3 DEF FnOK
  <1>5. StackOK' /\ FlagsOK' /\ TextOK'
    <2>1. ASSUME NEW n \in 1 .. MaxList,
                 Call([ListOf("fcn", n, TRUE, FALSE) EXCEPT !.base = Len(ul')],
                      "body")
          PROVE  StackOK'
      <3>1. ListOf("fcn", n, TRUE, FALSE) \in Frame
        BY CallListGood DEF Roles, Pcs
      <3>2. [ListOf("fcn", n, TRUE, FALSE) EXCEPT !.base = Len(ul')] \in Frame
        BY <1>3, <3>1, Rebased DEF UnwindOK
      <3> QED
        BY <2>1, <3>2, CallGood DEF Pcs
    <2>2. Goto("exit") => StackOK'
      BY GotoGood DEF Pcs
    <2>3. g' = [g EXCEPT !["err"] = 1] => FlagsOK'
      BY SetFlagGood DEF FlagsOK, Flags, Levels, FlagValues
    <2> QED
      BY <2>1, <2>2, <2>3, UnchangedGood DEF CallBind
  <1> QED
    BY <1>3, <1>4, <1>5, UnchangedGood DEF CallBind

LEMMA CallEndTypes ==
  ASSUME TypeOK, CallBodyDone \/ CallExit
  PROVE  TypeOK'
  <1> USE DEF TypeOK
  <1>1. CASE CallBodyDone
    <2>1. StackOK'
      BY <1>1, GotoGood DEF CallBodyDone, Pcs
    <2>2. FlagsOK'
      BY <1>1 DEF CallBodyDone, FlagsOK, Flags, Levels, FlagValues, Less
    <2>3. TextOK'
      BY <1>1, UnchangedGood DEF CallBodyDone
    <2> QED
      BY <1>1, <2>1, <2>2, <2>3, UnchangedGood DEF CallBodyDone
  <1>2. CASE CallExit
    <2>1. StackOK'
      BY <1>2, CallRunGood DEF CallExit, Tags, Pcs
    <2> QED
      BY <1>2, <2>1, UnchangedGood DEF CallExit
  <1> QED
    BY <1>1, <1>2

LEMMA CallTypes ==
  ASSUME TypeOK, Calls
  PROVE  TypeOK'
  BY CallBeginTypes, CallPushTypes, CallBindTypes, CallEndTypes DEF Calls

LEMMA ScriptTypes ==
  ASSUME TypeOK, Scripts
  PROVE  TypeOK'
  <1> USE DEF TypeOK
  <1>1. CASE ScriptBegin
    <2>1. UnwindOK'
      <3>1. /\ Mark("parse_fcn_file") \in Elem /\ Saved("rsf") \in Elem
            /\ Mark("parse_and_execute") \in Elem
            /\ ElemOf("tab", cur.tab) \in Elem
        BY ElemTypes DEF Tags, Flags, FnOK, ElemKinds, FnElems
      <3> QED
        BY <1>1, <3>1, PushedGood DEF ScriptBegin, UnwindOK
    <2>2. StackOK'
      BY <1>1, GotoGood DEF ScriptBegin, Pcs
    <2>3. FlagsOK'
      BY <1>1, SetFlagGood DEF ScriptBegin, FlagsOK, Flags, Levels, FlagValues
    <2> QED
      BY <1>1, <2>1, <2>2, <2>3, UnchangedGood DEF ScriptBegin
  <1>2. CASE ScriptCommand
    <2>1. PICK n \in 1 .. MaxList :
            cs' = Append(Counted("after"), ListOf("script", n, TRUE, FALSE))
      BY <1>2 DEF ScriptCommand
    <2>2. GoodStack(Counted("after"))
      BY <1>2, MovedGood, Zenon DEF ScriptCommand, Pcs
    <2>3. ListOf("script", n, TRUE, FALSE) \in Frame
      BY CallListGood DEF Roles, Pcs
    <2>4. StackOK'
      BY <2>1, <2>2, <2>3, AppendGood DEF GoodStack, StackOK
    <2>5. FlagsOK'
      BY <1>2, SetFlagGood DEF ScriptCommand, FlagsOK, Flags, Levels, FlagValues
    <2> QED
      BY <1>2, <2>4, <2>5, UnchangedGood DEF ScriptCommand
  <1>3. CASE ScriptParseError \/ ScriptEnd
    <2>1. StackOK'
      BY <1>3, GotoGood DEF ScriptParseError, ScriptEnd, Pcs
    <2>2. FlagsOK'
      BY <1>3, SetFlagGood
      DEF ScriptParseError, ScriptEnd, FlagsOK, Flags, Levels, FlagValues
    <2> QED
      BY <1>3, <2>1, <2>2, UnchangedGood DEF ScriptParseError, ScriptEnd
  <1>4. CASE ScriptAfter
    <2>1. StackOK'
      BY <1>4, GotoGood DEF ScriptAfter, Pcs
    <2>2. FlagsOK'
      BY <1>4 DEF ScriptAfter, FlagsOK, Flags, Levels, FlagValues, Less
    <2>3. TextOK'
      BY <1>4, UnchangedGood DEF ScriptAfter
    <2> QED
      BY <1>4, <2>1, <2>2, <2>3, UnchangedGood DEF ScriptAfter
  <1>5. CASE ScriptJumped
    <2>1. StackOK'
      BY <1>5, GotoGood DEF ScriptJumped, Pcs
    <2>2. FlagsOK'
      BY <1>5, SetFlagGood DEF ScriptJumped, FlagsOK, Flags, Levels, FlagValues
    <2>3. TextOK'
      BY <1>5, UnchangedGood DEF ScriptJumped
    <2> QED
      BY <1>5, <2>1, <2>2, <2>3, UnchangedGood DEF ScriptJumped
  <1>6. CASE ScriptExit \/ ScriptLeave
    <2>1. StackOK'
      BY <1>6, CallRunGood DEF ScriptExit, ScriptLeave, Tags, Pcs
    <2> QED
      BY <1>6, <2>1, UnchangedGood DEF ScriptExit, ScriptLeave
  <1> QED
    BY <1>1, <1>2, <1>3, <1>4, <1>5, <1>6 DEF Scripts

LEMMA EvalTypes ==
  ASSUME TypeOK, Evals
  PROVE  TypeOK'
  <1> USE DEF TypeOK
  <1>1. CASE EvalParse
    <2> DEFINE next == IF Running.pc = "parse" THEN "body" ELSE "exit"
    <2>1. next \in Pcs
      BY DEF Pcs
    <2>2. ASSUME NEW n \in 1 .. MaxList,
                 Call(ListOf("string", n, g["rsf"] = 1, FALSE), next)
          PROVE  StackOK'
      BY <2>1, <2>2, CallListGood DEF Roles
    <2>3. Goto(next) => StackOK'
      BY <2>1, GotoGood
    <2>4. StackOK'
      <3> HIDE DEF next
      <3>1. \/ \E n \in 1 .. MaxList :
                 Call(ListOf("string", n, g["rsf"] = 1, FALSE), next)
            \/ Goto(next)
        BY <1>1 DEF EvalParse, next
      <3> QED
        BY <2>2, <2>3, <3>1
    <2>5. FlagsOK'
      <3>1. \/ g' = [g EXCEPT !["err"] = 0]
            \/ g' = [g EXCEPT !["err"] = 1]
        BY <1>1 DEF EvalParse
      <3> QED
        BY <3>1 DEF TypeOK, FlagsOK, Flags, Levels, FlagValues
    <2>6. TextOK'
      BY <1>1, UnchangedGood DEF EvalParse
    <2> QED
      BY <1>1, <2>4, <2>5, <2>6, UnchangedGood DEF EvalParse
  <1>2. CASE EvalFailed
    <2>1. StackOK'
      BY <1>2, GotoGood DEF EvalFailed, Pcs
    <2>2. FlagsOK'
      <3>1. g' = [g EXCEPT !["err"] = 0, !["buf"] = 0]
        BY <1>2 DEF EvalFailed
      <3> QED
        BY <3>1, ZeroedGood
    <2>3. UnwindOK'
      <3>1. ElemOf("clearerr", NoFn) \in Elem
        BY ElemTypes DEF ElemKinds, FnElems
      <3> QED
        BY <1>2, <3>1, PushedGood DEF EvalFailed, UnwindOK
    <2>4. TextOK'
      BY <1>2 DEF EvalFailed, TextOK
    <2> QED
      BY <1>2, <2>1, <2>2, <2>3, <2>4, UnchangedGood DEF EvalFailed
  <1>3. CASE EvalSucceeded
    <2>1. StackOK'
      BY <1>3, GotoGood DEF EvalSucceeded, Pcs
    <2>2. TextOK'
      BY <1>3, AgedGood DEF EvalSucceeded, TextOK
    <2> QED
      BY <1>3, <2>1, <2>2, UnchangedGood DEF EvalSucceeded
  <1>4. CASE EvalExit
    <2>1. StackOK'
      BY <1>4, CallRunGood DEF EvalExit, Tags, Pcs
    <2> QED
      BY <1>4, <2>1, UnchangedGood DEF EvalExit
  <1> QED
    BY <1>1, <1>2, <1>3, <1>4 DEF Evals

-----------------------------------------------------------------------------
(***************************************************************************)
(* Running the protections, and the interrupt                              *)
(***************************************************************************)

\* What a cleanup function leaves of the members of a function.
LEMMA FnAfterType ==
  ASSUME FnOK, NEW el \in Elem, el.e \in FnElems
  PROVE  el.f \in Fn /\ FnAfter(el) \in FnState
  <1> DEFINE s == fn[el.f]
  <1>1. el.f \in Fn /\ el.d \in Nat
    BY DEF Elem
  <1>2. s \in FnState /\ s.ctx \in Seq(Nat)
    BY <1>1 DEF FnOK, FnState
  <1>3. ASSUME s.ctx # <<>>
        PROVE  s.ctx[Len(s.ctx)] \in Nat
               /\ SubSeq(s.ctx, 1, Len(s.ctx) - 1) \in Seq(Nat)
    <2>1. Len(s.ctx) \in Nat \ {0}
      BY <1>2, <1>3, EmptySeq
    <2>2. \A i \in 1 .. Len(s.ctx) : s.ctx[i] \in Nat
      BY <1>2, ElementOfSeq
    <2>3. \A i \in 1 .. Len(s.ctx) - 1 : s.ctx[i] \in Nat
      BY <2>1, <2>2
    <2>4. 1 \in Int /\ Len(s.ctx) - 1 \in Int /\ Len(s.ctx) \in 1 .. Len(s.ctx)
      BY <2>1
    <2>5. SubSeq(s.ctx, 1, Len(s.ctx) - 1) \in Seq(Nat)
      BY <2>3, <2>4, SubSeqProperties
    <2> QED
      BY <2>2, <2>4, <2>5
  <1>4. CASE el.e = "popctx"
    <2>1. FnAfter(el) = IF s.ctx = <<>> THEN s
                        ELSE [s EXCEPT !.sym = s.ctx[Len(s.ctx)],
                                       !.ctx = SubSeq(s.ctx, 1, Len(s.ctx) - 1)]
      BY <1>4 DEF FnAfter
    <2> QED
      BY <1>1, <1>2, <1>3, <2>1 DEF FnState
  <1>5. CASE el.e # "popctx"
    BY <1>1, <1>2, <1>5 DEF FnAfter, FnElems, FnState
  <1> QED
    BY <1>1, <1>4, <1>5

LEMMA RunTypes ==
  ASSUME TypeOK, RunPop \/ RunEmpty
  PROVE  TypeOK'
  <1> USE DEF TypeOK
  <1>1. CASE RunPop
    <2> DEFINE el == ul[Len(ul)]
               pc == IF Running.tag = "one"
                        \/ (el.e = "mark" /\ el.tag = Running.tag)
                     THEN "done" ELSE "pop"
               fr == [FrameOf(el.e, "begin") EXCEPT !.brk = el.brk,
                        !.cont = el.cont, !.flag = el.flag, !.base = Len(ul')]
    <2>1. el \in Elem /\ pc \in Pcs
      BY <1>1, PoppedGood DEF RunPop, Pcs
    <2>2. UnwindOK'
      BY <1>1, PoppedGood DEF RunPop, UnwindOK
    <2>3. FlagsOK'
      <3>1. g' = IF el.e = "restore" THEN [g EXCEPT ![el.tag] = el.val] ELSE g
        BY <1>1 DEF RunPop
      <3>2. el.e = "restore" => el.tag \in Flags /\ el.val \in Levels(el.tag)
        BY <2>1 DEF Elem
      <3> QED
        BY <3>1, <3>2, SetFlagGood DEF FlagsOK
    <2>4. FnOK'
      <3>1. fn' = IF el.e \in FnElems THEN [fn EXCEPT ![el.f] = FnAfter(el)]
                  ELSE fn
        BY <1>1 DEF RunPop
      <3>2. fn' \in [Fn -> FnState]
        BY <2>1, <3>1, FnAfterType DEF FnOK
      <3>3. cur' = CASE el.e = "tab" -> [cur EXCEPT !.tab = el.f]
                     [] el.e = "fun" -> [cur EXCEPT !.fun = el.f]
                     [] OTHER -> cur
        BY <1>1 DEF RunPop
      <3>4. el.f \in Fn \cup {NoFn}
        BY <2>1 DEF Elem
      <3> QED
        BY <3>2, <3>3, <3>4 DEF FnOK
    <2>5. TextOK'
      BY <1>1 DEF RunPop, TextOK
    <2>6. StackOK'
      <3>1. ASSUME el.e \in {"catch", "cleanup"}
            PROVE  fr \in Frame
        <4>1. FrameOf(el.e, "begin") \in Frame
          BY <3>1, FrameTypes DEF FrameKinds, Pcs
        <4>2. /\ el.brk \in BOOLEAN /\ el.cont \in BOOLEAN
              /\ el.flag \in BOOLEAN
          BY <2>1 DEF Elem
        <4>3. Len(ul') \in Nat
          BY <2>2, LenProperties DEF UnwindOK
        <4> QED
          BY <4>1, <4>2, <4>3 DEF Frame
      <3>2. IF el.e \in {"catch", "cleanup"} THEN Call(fr, pc) ELSE Goto(pc)
        BY <1>1 DEF RunPop
      <3> HIDE DEF fr, pc
      <3> QED
        BY <2>1, <3>1, <3>2, CallGood, GotoGood
    <2> QED
      BY <1>1, <2>2, <2>3, <2>4, <2>5, <2>6, UnchangedGood DEF RunPop
  <1>2. CASE RunEmpty
    <2>1. StackOK'
      BY <1>2, GotoGood DEF RunEmpty, Pcs
    <2> QED
      BY <1>2, <2>1, UnchangedGood DEF RunEmpty
  <1> QED
    BY <1>1, <1>2

LEMMA LeaveTypes ==
  ASSUME TypeOK, Leave
  PROVE  TypeOK'
  <1> USE DEF TypeOK
  <1>1. StackOK'
    BY ReturnGood DEF Leave, At
  <1> QED
    BY <1>1, UnchangedGood DEF Leave

\* The longjmp cuts the stack off at a frame that is not main_loop, or at it.
LEMMA InterruptTypes ==
  ASSUME TypeOK, Interrupt
  PROVE  TypeOK'
  <1> USE DEF TypeOK
  <1>1. PICK i \in Setjmps \cup {1} :
          cs' = Append(SubSeq(cs, 1, i - 1), [cs[i] EXCEPT !.pc = "jumped"])
    BY DEF Interrupt
  <1>2. i \in 1 .. Len(cs) /\ Len(cs) \in Nat
    BY <1>1, RunningFrame DEF Setjmps, Depth
  <1>3. [cs[i] EXCEPT !.pc = "jumped"] \in Frame
        /\ [cs[i] EXCEPT !.pc = "jumped"].k = cs[i].k
    <2>1. cs[i] \in Frame
      BY <1>2, ElementOfSeq DEF StackOK
    <2> QED
      BY <2>1 DEF Frame, Pcs
  <1>4. /\ SubSeq(cs, 1, i - 1) \in Seq(Frame)
        /\ Len(SubSeq(cs, 1, i - 1)) = i - 1
        /\ i > 1 => SubSeq(cs, 1, i - 1)[1] = cs[1]
    <2>1. \A j \in 1 .. i - 1 : cs[j] \in Frame
      BY <1>2, ElementOfSeq DEF StackOK
    <2> QED
      BY <1>2, <2>1, SubSeqProperties
  <1>5. StackOK'
    <2>1. cs' \in Seq(Frame) /\ Len(cs') = i
      BY <1>1, <1>2, <1>3, <1>4
    <2>2. cs'[1].k = "main"
      BY <1>1, <1>2, <1>3, <1>4 DEF StackOK
    <2> QED
      BY <1>2, <2>1, <2>2, EmptySeq DEF StackOK
  <1>6. IntrOK'
    BY BoundAssumption DEF Interrupt, IntrOK
  <1> QED
    BY <1>5, <1>6, UnchangedGood DEF Interrupt

-----------------------------------------------------------------------------

\* The evaluator starts in a state of the right type.
LEMMA InitTypes == Init => TypeOK
  <1> SUFFICES ASSUME Init
               PROVE  TypeOK
    OBVIOUS
  <1>1. StackOK
    <2>1. cs[1] \in Frame /\ cs[1].k = "main" /\ Len(cs) = 1
      BY DEF Init, Frame, FrameKinds, Pcs, Roles
    <2> QED
      BY <2>1 DEF Init, StackOK
  <1>2. UnwindOK /\ FlagsOK /\ TextOK
    <2>1. FlagsOK
      BY DEF Init, FlagsOK, Levels, FlagValues
    <2>2. UnwindOK
      BY EmptySeq DEF Init, UnwindOK
    <2>3. TextOK
      BY DEF Init, TextOK
    <2> QED
      BY <2>1, <2>2, <2>3
  <1>3. FnOK /\ IntrOK
    BY BoundAssumption DEF Init, FnOK, FnState, IntrOK
  <1> QED
    BY <1>1, <1>2, <1>3 DEF TypeOK

\* Every variable keeps its type, and with it the stack main_loop at its
\* bottom, the saved values the range of the flag they go back to, and every
\* cleanup function of a tree_function its function: what run_unwind_protect
\* pops can always be applied.  For all functions, programs and bounds.
THEOREM TypeCorrect == Spec => []TypeOK
  <1>1. ASSUME TypeOK, [Next]_vars
        PROVE  TypeOK'
    <2>1. CASE MainRead \/ MainEval \/ MainJumped
      BY <1>1, <2>1, MainTypes
    <2>2. CASE ListEnd \/ ListNext
      BY <1>1, <2>2, ListTypes
    <2>3. CASE Statement
      BY <1>1, <2>3, StatementTypes
    <2>4. CASE Loops
      BY <1>1, <2>4, LoopTypes
    <2>5. CASE Protections
      BY <1>1, <2>5, ProtectionTypes
    <2>6. CASE Calls
      BY <1>1, <2>6, CallTypes
    <2>7. CASE Scripts
      BY <1>1, <2>7, ScriptTypes
    <2>8. CASE Evals
      BY <1>1, <2>8, EvalTypes
    <2>9. CASE Leave
      BY <1>1, <2>9, LeaveTypes
    <2>10. CASE RunPop \/ RunEmpty
      BY <1>1, <2>10, RunTypes
    <2>11. CASE Interrupt
      BY <1>1, <2>11, InterruptTypes
    <2>12. CASE UNCHANGED vars
      BY <1>1, <2>12
      DEF vars, TypeOK, StackOK, UnwindOK, FlagsOK, FnOK, TextOK, IntrOK
    <2> QED
      BY <1>1, <2>1, <2>2, <2>3, <2>4, <2>5, <2>6, <2>7, <2>8, <2>9, <2>10,
         <2>11, <2>12 DEF Next, Work
  <1> QED
    BY <1>1, InitTypes, PTL DEF Spec

-----------------------------------------------------------------------------
(***************************************************************************)
(* The recursion limit of tree_function::eval, with errors, returns and    *)
(* interrupts anywhere.                                                    *)
(*                                                                         *)
(* call_depth is one too high for a moment: between call_depth++ and the   *)
(* run_unwind_frame of the call that is refused.  The invariant says that  *)
(* nothing runs in that moment, because the element that takes the count   *)
(* back is on top of unwind_protect_list and the next to be popped, and    *)
(* that no element ever takes a count to more than the limit.              *)
(***************************************************************************)

LimitedElem == {el \in Elem : el.e = "depth" => el.d <= MaxDepth}

\* A call of f has been refused and its frame is about to be run.
Refused(f) ==
  /\ ul # <<>> /\ ul[Len(ul)].e = "depth" /\ ul[Len(ul)].f = f
  /\ At("call", "exit") \/ At("run", "pop")

SavedLimited == ul \in Seq(LimitedElem)
DepthLimited == \A f \in Fn : fn[f].depth <= MaxDepth \/ Refused(f)
LimitInv == TypeOK /\ SavedLimited /\ DepthLimited

-----------------------------------------------------------------------------
(***************************************************************************)
(* The list of protections                                                 *)
(***************************************************************************)

\* Every element but a call_depth, and a call_depth within the limit.
LEMMA LimitedElems ==
  ASSUME FlagsOK
  PROVE  /\ \A e \in ElemKinds \ (FnElems \cup {"restore"}), f \in Fn \cup {NoFn} :
              ElemOf(e, f) \in LimitedElem
         /\ \A e \in FnElems \ {"depth"}, f \in Fn :
              ElemOf(e, f) \in LimitedElem
         /\ \A e \in FnElems, f \in Fn, d \in Nat :
              e # "depth" \/ d <= MaxDepth => SavedCount(e, f, d) \in LimitedElem
         /\ \A tag \in Tags : Mark(tag) \in LimitedElem
         /\ \A v \in Flags : Saved(v) \in LimitedElem
  <1>1. \A e \in ElemKinds \ (FnElems \cup {"restore"}), f \in Fn \cup {NoFn} :
          ElemOf(e, f).e # "depth"
    BY DEF ElemOf, FnElems
  <1>2. \A e \in FnElems \ {"depth"}, f \in Fn : ElemOf(e, f).e # "depth"
    BY DEF ElemOf
  <1>3. \A e \in FnElems, f \in Fn, d \in Nat :
          SavedCount(e, f, d).e = e /\ SavedCount(e, f, d).d = d
    BY DEF SavedCount, ElemOf
  <1>4. \A tag \in Tags : Mark(tag).e # "depth"
    BY DEF Mark, ElemOf
  <1>5. \A v \in Flags : Saved(v).e # "depth"
    BY DEF Saved, ElemOf
  <1> QED
    BY <1>1, <1>2, <1>3, <1>4, <1>5, ElemTypes DEF LimitedElem

\* Pushing on the list and popping from it.
LEMMA PushedLimited ==
  ASSUME SavedLimited, NEW t \in Seq(LimitedElem)
  PROVE  ul \o t \in Seq(LimitedElem)
  BY ConcatProperties DEF SavedLimited

LEMMA CutLimited ==
  ASSUME SavedLimited, NEW n \in Int, n <= Len(ul)
  PROVE  SubSeq(ul, 1, n) \in Seq(LimitedElem)
  <1>1. \A i \in 1 .. Len(ul) : ul[i] \in LimitedElem
    BY ElementOfSeq DEF SavedLimited
  <1>2. \A i \in 1 .. n : ul[i] \in LimitedElem
    BY <1>1, LenProperties DEF SavedLimited
  <1> QED
    BY <1>2, SubSeqProperties

LEMMA DiscardedLimited ==
  ASSUME SavedLimited, NEW tag
  PROVE  Discarded(tag) \in Seq(LimitedElem)
  <1>1. Len(ul) \in Nat
    BY LenProperties DEF SavedLimited
  <1>2. Latest(Marks(tag)) \in 0 .. Len(ul)
    BY <1>1, LatestWithin DEF Marks
  <1> QED
    BY <1>1, <1>2, CutLimited DEF Discarded

-----------------------------------------------------------------------------
(***************************************************************************)
(* Steps                                                                   *)
(***************************************************************************)

\* No function is deeper than the limit but while its call is refused.
LEMMA Within ==
  ASSUME LimitInv, ~ At("call", "exit"), ~ At("run", "pop")
  PROVE  \A f \in Fn : fn[f].depth <= MaxDepth
  BY DEF LimitInv, DepthLimited, Refused

\* A step that leaves the functions alone.
LEMMA Kept ==
  ASSUME LimitInv, ~ At("call", "exit"), ~ At("run", "pop"),
         fn' = fn, ul' \in Seq(LimitedElem)
  PROVE  SavedLimited' /\ DepthLimited'
  BY Within DEF SavedLimited, DepthLimited

\* The actions that leave the list alone as well.
LEMMA PlainSteps ==
  ASSUME LimitInv,
         \/ MainRead \/ MainEval \/ MainJumped \/ ListEnd \/ ListNext
         \/ Loops \/ TryFailed \/ UnwindBodyDone \/ CatchBind
         \/ RestoreBreaking \/ CallBodyDone
         \/ ScriptCommand \/ ScriptParseError \/ ScriptEnd \/ ScriptAfter
         \/ ScriptJumped \/ ScriptExit \/ ScriptLeave
         \/ EvalParse \/ EvalSucceeded \/ EvalExit \/ Leave \/ Interrupt
  PROVE  SavedLimited' /\ DepthLimited'
  <1>1. fn' = fn /\ ul' = ul
    BY DEF MainRead, MainEval, MainJumped, ListEnd, ListNext, Loops, WhileTrue,
           WhileFalse, WhileFails, LoopAfter, ForNext, ForAssignFails, ForEnd,
           TryFailed, UnwindBodyDone, CatchBind, RestoreBreaking, CallBodyDone,
           ScriptCommand, ScriptParseError, ScriptEnd, ScriptAfter,
           ScriptJumped, ScriptExit, ScriptLeave, EvalParse, EvalSucceeded,
           EvalExit, Leave, Interrupt
  <1>2. ~ At("call", "exit") /\ ~ At("run", "pop")
    BY DEF At, MainRead, MainEval, MainJumped, ListEnd, ListNext, Loops,
           WhileTrue, WhileFalse, WhileFails, LoopAfter, ForNext,
           ForAssignFails, ForEnd, TryFailed, UnwindBodyDone, CatchBind,
           RestoreBreaking, CallBodyDone, ScriptCommand, ScriptParseError,
           ScriptEnd, ScriptAfter, ScriptJumped, ScriptExit, ScriptLeave,
           EvalParse, EvalSucceeded, EvalExit, Leave, Interrupt, Interruptible,
           AtStatement
  <1> QED
    BY <1>1, <1>2, Kept DEF LimitInv, SavedLimited

\* try, unwind_protect and eval start.
LEMMA StatementSteps ==
  ASSUME LimitInv, Statement
  PROVE  SavedLimited' /\ DepthLimited'
  <1>1. AtStatement /\ ~ At("call", "exit") /\ ~ At("run", "pop")
    BY DEF Statement, AtStatement, At
  <1>2. FlagsOK /\ SavedLimited /\ Running.brk \in BOOLEAN /\ Running.cont \in BOOLEAN
    BY <1>1, SteppedGood DEF LimitInv, TypeOK
  <1>3. /\ Mark("tree_try_catch::eval") \in LimitedElem
        /\ Mark("Feval") \in LimitedElem
        /\ Saved("buf") \in LimitedElem
    BY <1>2, LimitedElems DEF Tags, Flags
  <1>4. \A e \in {"catch", "cleanup"}, b \in BOOLEAN :
          /\ [ElemOf(e, NoFn) EXCEPT !.brk = Running.brk, !.cont = Running.cont,
                                     !.flag = b] \in LimitedElem
          /\ [ElemOf(e, NoFn) EXCEPT !.brk = Running.brk, !.cont = Running.cont]
                \in LimitedElem
    <2>1. \A e \in {"catch", "cleanup"} : ElemOf(e, NoFn) \in LimitedElem
      BY <1>2, LimitedElems DEF ElemKinds, FnElems
    <2>2. ASSUME NEW y \in LimitedElem, y.e # "depth", NEW b \in BOOLEAN
          PROVE  /\ [y EXCEPT !.brk = Running.brk, !.cont = Running.cont, !.flag = b]
                      \in LimitedElem
                 /\ [y EXCEPT !.brk = Running.brk, !.cont = Running.cont] \in LimitedElem
      BY <1>2, <2>2 DEF LimitedElem, Elem
    <2>3. \A e \in {"catch", "cleanup"} : ElemOf(e, NoFn).e # "depth"
      BY DEF ElemOf
    <2> QED
      BY <2>1, <2>2, <2>3
  <1>5. CASE \E b \in BOOLEAN : Try(b)
    <2>1. PICK b \in BOOLEAN : Try(b)
      BY <1>5
    <2> DEFINE t == <<Mark("tree_try_catch::eval"),
                      [ElemOf("catch", NoFn) EXCEPT !.brk = Running.brk,
                         !.cont = Running.cont, !.flag = b]>>
               s == IF b THEN <<Saved("buf")>> ELSE <<>>
    <2>2. ul' = (ul \o t) \o s /\ fn' = fn
      BY <2>1 DEF Try
    <2>3. t \in Seq(LimitedElem) /\ s \in Seq(LimitedElem)
      <3> DEFINE c == [ElemOf("catch", NoFn) EXCEPT !.brk = Running.brk,
                         !.cont = Running.cont, !.flag = b]
      <3>1. c \in LimitedElem
        BY <1>4, Zenon
      <3> HIDE DEF c
      <3>2. <<Mark("tree_try_catch::eval"), c>> \in Seq(LimitedElem)
        BY <1>3, <3>1
      <3>3. s \in Seq(LimitedElem)
        BY <1>3
      <3> QED
        BY <3>2, <3>3 DEF c
    <2> HIDE DEF t, s
    <2>4. ul' \in Seq(LimitedElem)
      BY <1>2, <2>2, <2>3, ConcatProperties DEF SavedLimited
    <2> QED
      BY <1>1, <2>2, <2>4, Kept
  <1>6. CASE \E b \in BOOLEAN : Eval(b)
    <2>1. PICK b \in BOOLEAN : Eval(b)
      BY <1>6
    <2> DEFINE t == <<Mark("Feval")>>
               s == IF b THEN <<Saved("buf")>> ELSE <<>>
    <2>2. ul' = Append(ul, Mark("Feval")) \o s /\ fn' = fn
      BY <2>1 DEF Eval
    <2>3. Append(ul, Mark("Feval")) \in Seq(LimitedElem)
          /\ s \in Seq(LimitedElem)
      BY <1>2, <1>3 DEF SavedLimited
    <2> HIDE DEF t, s
    <2>4. ul' \in Seq(LimitedElem)
      BY <2>2, <2>3, ConcatProperties
    <2> QED
      BY <1>1, <2>2, <2>4, Kept
  <1>7. CASE UnwindProtect
    <2> DEFINE c == [ElemOf("cleanup", NoFn) EXCEPT !.brk = Running.brk,
                       !.cont = Running.cont]
    <2>1. fn' = fn /\ ul' = Append(ul, c)
      BY <1>7 DEF UnwindProtect
    <2>2. c \in LimitedElem
      BY <1>4, Zenon
    <2> HIDE DEF c
    <2>3. ul' \in Seq(LimitedElem)
      BY <1>2, <2>1, <2>2 DEF SavedLimited
    <2> QED
      BY <1>1, <2>1, <2>3, Kept
  <1>8. CASE \/ Simple \/ Warn \/ While \/ For \/ If \/ Source
             \/ \E e \in {1, -1, -2} : Raise(e)
             \/ \E v \in {"brk", "cont", "ret"} : SetJump(v)
             \/ \E f \in Fn : CallFunction(f)
    <2>1. fn' = fn /\ ul' = ul
      BY <1>8 DEF Simple, Warn, While, For, If, Source, Raise, SetJump,
                  CallFunction
    <2> QED
      BY <1>1, <1>2, <2>1, Kept DEF SavedLimited
  <1> QED
    BY <1>5, <1>6, <1>7, <1>8 DEF Statement

\* The other constructs that push protections.
LEMMA PushSteps ==
  ASSUME LimitInv, CleanupBegin \/ CatchProtect \/ ScriptBegin \/ EvalFailed
  PROVE  SavedLimited' /\ DepthLimited'
  <1>1. /\ fn' = fn
        /\ ~ At("call", "exit") /\ ~ At("run", "pop")
    BY DEF CleanupBegin, CatchProtect, ScriptBegin, EvalFailed, At
  <1>2. FlagsOK /\ FnOK /\ SavedLimited
    BY DEF LimitInv, TypeOK
  <1>3. /\ \A v \in Flags : Saved(v) \in LimitedElem
        /\ \A tag \in Tags : Mark(tag) \in LimitedElem
        /\ ElemOf("clearerr", NoFn) \in LimitedElem
        /\ ElemOf("tab", cur.tab) \in LimitedElem
    BY <1>2, LimitedElems DEF ElemKinds, FnElems, FnOK
  <1>4. CASE CleanupBegin
    <2>1. <<Saved("err"), Saved("ret"), Saved("brk")>> \in Seq(LimitedElem)
      BY <1>3 DEF Flags
    <2> QED
      BY <1>1, <1>2, <1>4, <2>1, PushedLimited, Kept DEF CleanupBegin
  <1>5. CASE CatchProtect
    <2>1. <<ElemOf("clearerr", NoFn), Saved("ret"), Saved("brk")>>
            \in Seq(LimitedElem)
      BY <1>3 DEF Flags
    <2> QED
      BY <1>1, <1>2, <1>5, <2>1, PushedLimited, Kept DEF CatchProtect
  <1>6. CASE ScriptBegin
    <2>1. <<Mark("parse_fcn_file"), Saved("rsf"), Mark("parse_and_execute"),
            ElemOf("tab", cur.tab)>> \in Seq(LimitedElem)
      BY <1>3 DEF Flags, Tags
    <2> QED
      BY <1>1, <1>2, <1>6, <2>1, PushedLimited, Kept DEF ScriptBegin
  <1>7. CASE EvalFailed
    <2>1. ul' = Append(ul, ElemOf("clearerr", NoFn))
      BY <1>7 DEF EvalFailed
    <2>2. ul' \in Seq(LimitedElem)
      BY <1>2, <1>3, <2>1 DEF SavedLimited
    <2> QED
      BY <1>1, <2>2, Kept
  <1> QED
    BY <1>4, <1>5, <1>6, <1>7

\* Those that discard them.
LEMMA CutSteps ==
  ASSUME LimitInv, TrySucceeded \/ RestoreReturning \/ RestoreLast
  PROVE  SavedLimited' /\ DepthLimited'
  <1>1. /\ fn' = fn
        /\ ~ At("call", "exit") /\ ~ At("run", "pop")
    BY DEF TrySucceeded, RestoreReturning, RestoreLast, At
  <1>2. SavedLimited /\ Len(ul) \in Nat
    BY LenProperties DEF LimitInv, SavedLimited
  <1>3. /\ ul \in Seq(LimitedElem)
        /\ SubSeq(ul, 1, Len(ul) - 1) \in Seq(LimitedElem)
        /\ Discarded("tree_try_catch::eval") \in Seq(LimitedElem)
    BY <1>2, CutLimited, DiscardedLimited DEF SavedLimited
  <1>4. \/ ul' = ul \/ ul' = SubSeq(ul, 1, Len(ul) - 1)
        \/ ul' = Discarded("tree_try_catch::eval")
    BY DEF TrySucceeded, RestoreReturning, RestoreLast
  <1> QED
    BY <1>1, <1>3, <1>4, Kept

\* call_depth++ and its test: a call beyond the limit goes to its exit with the
\* count that it found on top of the list.
LEMMA CallBeginStep ==
  ASSUME LimitInv, CallBegin
  PROVE  SavedLimited' /\ DepthLimited'
  <1> DEFINE f == Running.f
             d == fn[f].depth
  <1>1. At("call", "begin") /\ ~ At("call", "exit") /\ ~ At("run", "pop")
    BY DEF CallBegin, At
  <1>2. f \in Fn /\ d \in Nat /\ FlagsOK /\ SavedLimited /\ FnOK
    BY <1>1, CalledFunction DEF At, LimitInv, TypeOK
  <1>3. \A h \in Fn : fn[h].depth <= MaxDepth
    BY <1>1, Within
  <1>4. /\ Mark("func_eval") \in LimitedElem
        /\ SavedCount("depth", f, d) \in LimitedElem
    BY <1>2, <1>3, LimitedElems DEF Tags, FnElems
  <1> HIDE DEF d, f
  <1>5. ul' = ul \o <<Mark("func_eval"), SavedCount("depth", f, d)>>
    <2>1. ul' = ul \o <<Mark("func_eval"), SavedCount("depth", f, (d + 1) - 1)>>
      BY DEF CallBegin, d, f
    <2>2. (d + 1) - 1 = d
      BY <1>2
    <2> QED
      BY <2>1, <2>2, Zenon
  <1>6. /\ ul' \in Seq(LimitedElem) /\ ul' # <<>>
        /\ ul'[Len(ul')] = SavedCount("depth", f, d)
    <2> DEFINE t == <<Mark("func_eval"), SavedCount("depth", f, d)>>
    <2>1. t \in Seq(LimitedElem) /\ Len(t) = 2 /\ t[2] = SavedCount("depth", f, d)
      BY <1>4
    <2> HIDE DEF t
    <2>2. Len(ul) \in Nat /\ ul \in Seq(LimitedElem)
      BY <1>2, LenProperties DEF SavedLimited
    <2>3. /\ ul \o t \in Seq(LimitedElem) /\ Len(ul \o t) = Len(ul) + 2
          /\ (ul \o t)[Len(ul) + 2] = t[2]
      <3>1. /\ ul \o t \in Seq(LimitedElem) /\ Len(ul \o t) = Len(ul) + Len(t)
            /\ \A i \in 1 .. Len(ul) + Len(t) :
                 (ul \o t)[i] = IF i <= Len(ul) THEN ul[i] ELSE t[i - Len(ul)]
        BY <2>1, <2>2, ConcatProperties
      <3>2. Len(ul) + 2 \in 1 .. Len(ul) + Len(t) /\ (Len(ul) + 2) - Len(ul) = 2
        BY <2>1, <2>2
      <3>3. ~ (Len(ul) + 2 <= Len(ul))
        BY <2>2
      <3> QED
        BY <2>1, <3>1, <3>2, <3>3
    <2>4. ul' = ul \o t
      BY <1>5 DEF t
    <2> QED
      BY <2>1, <2>2, <2>3, <2>4, EmptySeq
  <1>7. /\ ul'[Len(ul')].e = "depth" /\ ul'[Len(ul')].f = f
    BY <1>6 DEF SavedCount, ElemOf
  <1>8. fn' = [fn EXCEPT ![f].depth = d + 1]
    BY DEF CallBegin, f, d
  <1>9. d + 1 > MaxDepth => At("call", "exit")'
    <2>1. d + 1 > MaxDepth => Goto("exit")
      BY DEF CallBegin, TooDeep, f, d
    <2>2. Goto("exit") => At("call", "exit")'
      <3>1. Depth \in 1 .. Len(cs) /\ Running \in Frame /\ Running.k = "call"
        BY <1>1, RunningFrame DEF At, LimitInv, TypeOK
      <3>2. SUFFICES ASSUME Goto("exit")
                     PROVE  At("call", "exit")'
        OBVIOUS
      <3>3. cs' = [cs EXCEPT ![Depth] = [Running EXCEPT !.pc = "exit"]]
        BY <3>2 DEF Goto, Top
      <3>4. Len(cs') = Len(cs) /\ cs'[Depth] = [Running EXCEPT !.pc = "exit"]
        BY <3>1, <3>3, ExceptSeq DEF LimitInv, TypeOK, StackOK
      <3>5. Running' = [Running EXCEPT !.pc = "exit"]
        BY <3>4 DEF Running, Depth
      <3> QED
        BY <3>1, <3>5 DEF At, Frame
    <2> QED
      BY <2>1, <2>2
  <1>10. ASSUME NEW h \in Fn
         PROVE  fn'[h].depth <= MaxDepth \/ Refused(h)'
    <2>1. CASE h # f
      BY <1>2, <1>3, <1>8, <2>1 DEF FnOK
    <2>2. CASE h = f
      <3>1. fn'[f].depth = d + 1
        BY <1>2, <1>8 DEF FnOK, FnState
      <3>2. CASE d + 1 > MaxDepth
        BY <1>6, <1>7, <1>9, <2>2, <3>2 DEF Refused
      <3>3. CASE ~ (d + 1 > MaxDepth)
        BY <1>2, <2>2, <3>1, <3>3, BoundAssumption
      <3> QED
        BY <3>2, <3>3
    <2> QED
      BY <2>1, <2>2
  <1> QED
    BY <1>6, <1>10 DEF SavedLimited, DepthLimited

\* The other steps of a call leave the counts alone.
LEMMA CallSteps ==
  ASSUME LimitInv, CallPush \/ CallBind
  PROVE  SavedLimited' /\ DepthLimited'
  <1> DEFINE f == Running.f
  <1>1. Running.k = "call" /\ ~ At("call", "exit") /\ ~ At("run", "pop")
    BY DEF CallPush, CallBind, At
  <1>2. /\ f \in Fn /\ FlagsOK /\ SavedLimited /\ FnOK
        /\ fn[f].vr \in Nat /\ fn[f].nargs \in Nat /\ fn[f] \in FnState
    BY <1>1, CalledFunction DEF LimitInv, TypeOK
  <1>3. \A h \in Fn : fn[h].depth <= MaxDepth
    BY <1>1, Within
  <1>4. /\ ElemOf("popctx", f) \in LimitedElem
        /\ SavedCount("vr", f, fn[f].vr) \in LimitedElem
        /\ ElemOf("delvr", f) \in LimitedElem
        /\ ElemOf("clearsym", f) \in LimitedElem
        /\ ElemOf("clearargs", f) \in LimitedElem
        /\ SavedCount("nargs", f, fn[f].nargs) \in LimitedElem
        /\ ElemOf("tab", cur.tab) \in LimitedElem
        /\ ElemOf("fun", cur.fun) \in LimitedElem
    BY <1>2, LimitedElems DEF FnElems, ElemKinds, FnOK
  <1>5. CASE CallPush
    <2>1. ul' \in Seq(LimitedElem)
      <3>1. <<ElemOf("popctx", f), SavedCount("vr", f, fn[f].vr),
              ElemOf("delvr", f)>> \in Seq(LimitedElem)
        BY <1>4
      <3> QED
        BY <1>2, <1>5, <3>1, PushedLimited DEF CallPush
    <2>2. \A h \in Fn : fn'[h].depth = fn[h].depth
      BY <1>2, <1>5 DEF CallPush, FnOK, FnState
    <2> QED
      BY <1>3, <2>1, <2>2 DEF SavedLimited, DepthLimited
  <1>6. CASE CallBind
    <2>1. ul' \in Seq(LimitedElem)
      <3>1. <<ElemOf("clearsym", f), ElemOf("tab", cur.tab),
              ElemOf("fun", cur.fun), ElemOf("clearargs", f),
              SavedCount("nargs", f, fn[f].nargs)>> \in Seq(LimitedElem)
        BY <1>4
      <3> QED
        BY <1>2, <1>6, <3>1, PushedLimited DEF CallBind
    <2>2. \A h \in Fn : fn'[h].depth = fn[h].depth
      BY <1>2, <1>6 DEF CallBind, FnOK, FnState
    <2> QED
      BY <1>3, <2>1, <2>2 DEF SavedLimited, DepthLimited
  <1> QED
    BY <1>5, <1>6

\* run_unwind_frame starts with the element of the refused call.
LEMMA CallExitStep ==
  ASSUME LimitInv, CallExit
  PROVE  SavedLimited' /\ DepthLimited'
  <1>1. fn' = fn /\ ul' = ul /\ SavedLimited
    BY DEF CallExit, LimitInv
  <1>2. At("run", "pop")'
    <2>1. cs' = Append(Top([Running EXCEPT !.pc = "done"]), RunOf("func_eval"))
      BY DEF CallExit, Call
    <2>2. Top([Running EXCEPT !.pc = "done"]) \in Seq(Frame)
      BY MovedGood, Zenon DEF LimitInv, TypeOK, GoodStack, Pcs
    <2>3. /\ Len(cs') = Len(Top([Running EXCEPT !.pc = "done"])) + 1
          /\ cs'[Len(cs')] = RunOf("func_eval")
      BY <2>1, <2>2, AppendProperties
    <2>4. RunOf("func_eval").k = "run" /\ RunOf("func_eval").pc = "pop"
      BY DEF RunOf, FrameOf
    <2> QED
      BY <2>3, <2>4 DEF At, Running, Depth
  <1>3. \A f \in Fn : Refused(f) => Refused(f)'
    BY <1>1, <1>2 DEF Refused
  <1> QED
    BY <1>1, <1>3 DEF LimitInv, SavedLimited, DepthLimited

\* What run_unwind_frame pops: the count of a refused call, or whatever it may
\* be, a count within the limit.
LEMMA RunSteps ==
  ASSUME LimitInv, RunPop \/ RunEmpty
  PROVE  SavedLimited' /\ DepthLimited'
  <1>1. SavedLimited /\ FnOK /\ Len(ul) \in Nat
    BY LenProperties DEF LimitInv, SavedLimited, TypeOK
  <1>2. CASE RunPop
    <2> DEFINE el == ul[Len(ul)]
    <2>1. ul # <<>> /\ Len(ul) \in 1 .. Len(ul)
      BY <1>1, <1>2, EmptySeq DEF RunPop, SavedLimited
    <2>2. el \in LimitedElem /\ el \in Elem
      BY <1>1, <2>1, ElementOfSeq DEF SavedLimited, LimitedElem
    <2>3. ul' \in Seq(LimitedElem)
      BY <1>1, <1>2, CutLimited DEF RunPop
    <2>4. fn' = IF el.e \in FnElems THEN [fn EXCEPT ![el.f] = FnAfter(el)]
                ELSE fn
      BY <1>2 DEF RunPop
    <2>5. \A f \in Fn : fn[f].depth <= MaxDepth
                        \/ (el.e = "depth" /\ el.f = f)
      BY DEF LimitInv, DepthLimited, Refused
    <2> HIDE DEF el
    <2>6. el.e \in FnElems => el.f \in Fn /\ fn[el.f] \in FnState
      BY <1>1, <2>2 DEF Elem, FnOK
    <2>7. el.e = "depth" => FnAfter(el).depth = el.d /\ el.d <= MaxDepth
      BY <2>2, <2>6 DEF FnAfter, LimitedElem, FnElems, FnState
    <2>8. el.e \in FnElems \ {"depth"} =>
            FnAfter(el).depth = fn[el.f].depth
      BY <2>6 DEF FnAfter, FnElems, FnState
    <2>9. \A f \in Fn : fn'[f].depth <= MaxDepth
      BY <1>1, <2>4, <2>5, <2>6, <2>7, <2>8 DEF FnOK, FnElems
    <2> QED
      BY <2>3, <2>9 DEF SavedLimited, DepthLimited
  <1>3. CASE RunEmpty
    <2>1. ul = <<>> /\ ul' = ul /\ fn' = fn
      BY <1>3 DEF RunEmpty
    <2>2. \A f \in Fn : fn[f].depth <= MaxDepth
      BY <2>1 DEF LimitInv, DepthLimited, Refused
    <2> QED
      BY <1>1, <2>1, <2>2 DEF SavedLimited, DepthLimited
  <1> QED
    BY <1>2, <1>3

-----------------------------------------------------------------------------

LEMMA LimitStart == Init => SavedLimited /\ DepthLimited
  <1> SUFFICES ASSUME Init
               PROVE  SavedLimited /\ DepthLimited
    OBVIOUS
  <1>1. SavedLimited
    BY EmptySeq DEF Init, SavedLimited
  <1>2. DepthLimited
    BY BoundAssumption DEF Init, DepthLimited
  <1> QED
    BY <1>1, <1>2

LEMMA LimitStep ==
  ASSUME LimitInv, [Next]_vars
  PROVE  SavedLimited' /\ DepthLimited'
  <1>1. CASE UNCHANGED vars
    BY <1>1 DEF LimitInv, vars, SavedLimited, DepthLimited, Refused, At,
                Running, Depth
  <1>2. CASE Next
    BY <1>2, PlainSteps, StatementSteps, PushSteps, CutSteps, CallBeginStep,
       CallSteps, CallExitStep, RunSteps
    DEF Next, Work, Protections, Calls, Scripts, Evals
  <1> QED
    BY <1>1, <1>2

\* No statement is evaluated in an activation beyond max_recursion_depth, for
\* every limit and every program.
THEOREM RecursionLimit == Spec => []RecursionLimited
  <1>1. Init => SavedLimited /\ DepthLimited
    BY LimitStart
  <1>2. TypeOK /\ SavedLimited /\ DepthLimited /\ [Next]_vars
          => SavedLimited' /\ DepthLimited'
    BY LimitStep DEF LimitInv
  <1>3. TypeOK /\ SavedLimited /\ DepthLimited => RecursionLimited
    <2>1. AtStatement => ~ At("call", "exit") /\ ~ At("run", "pop")
      BY DEF AtStatement, At
    <2> QED
      BY <2>1, Within DEF LimitInv, RecursionLimited
  <1> QED
    BY <1>1, <1>2, <1>3, TypeCorrect, PTL DEF Spec

-----------------------------------------------------------------------------
(***************************************************************************)
(* Every construct of the evaluator gets unwind_protect_list back as it    *)
(* left it (UnwindBalanced) and cleanup code is never dropped              *)
(* (CleanupNeverDropped), for every program, with errors, returns and      *)
(* interrupts anywhere.                                                    *)
(*                                                                         *)
(* The invariant is Layout: how unwind_protect_list is divided among the   *)
(* frames of the C stack, and what a step may do to this division.         *)
(*                                                                         *)
(* Each frame has what lies between its base and that of the next frame,   *)
(* and its kind and pc say what that is: nothing, so many elements, or a   *)
(* mark and what was added since.  A run_unwind_frame eats the piece of    *)
(* the frame that has called it.  A longjmp leaves the pieces of all       *)
(* frames that it skips to a script or to main_loop; they are no trouble   *)
(* because a script looks for its own mark, of which there is one only     *)
(* above its base (Owned).                                                 *)
(*                                                                         *)
(* The predicates and the lemmas up to StaysHere are about any stack s and *)
(* list u; after them there is a lemma for each action or group of actions *)
(* that keeps Layout.                                                      *)
(***************************************************************************)

MarkAt(u, p, tag) == u[p].e = "mark" /\ u[p].tag = tag
NoMark(u, lo, hi, tag) == \A p \in lo + 1 .. hi : ~ MarkAt(u, p, tag)
NoCleanup(u, lo, hi) == \A p \in lo + 1 .. hi : u[p].e # "cleanup"

\* An unwind frame: the mark, and no other of the same name after it.
Framed(u, lo, hi, tag) ==
  lo < hi /\ MarkAt(u, lo + 1, tag) /\ NoMark(u, lo + 1, hi, tag)

\* What parse_fcn_file puts before the mark of parse_and_execute.
Header(u, lo, hi) ==
  lo + 2 <= hi /\ MarkAt(u, lo + 1, "parse_fcn_file") /\ u[lo + 2].e # "mark"

InScript == {"loop", "after", "jumped", "exit", "leave"}

\* The frames that have a fixed number of elements, and the number.
Sized(fr) ==
  \/ fr.k \in {"list", "while", "for", "unw", "catch", "cleanup"}
  \/ fr.pc \in {"begin", "caught", "cleaned", "done", "read", "eval", "quit"}
Size(fr) ==
  IF fr.pc = "brk" THEN 3 ELSE IF fr.pc = "ret" THEN 2 ELSE IF fr.pc = "err" THEN 1
  ELSE IF fr.k = "unw" /\ fr.pc = "body" THEN 1 ELSE 0

TagOf(fr) ==
  IF fr.k = "try" THEN "tree_try_catch::eval" ELSE IF fr.k = "call" THEN "func_eval"
  ELSE IF fr.k = "eval" THEN "Feval" ELSE "parse_fcn_file"

\* The piece of a frame, from lo to hi, while nothing eats it.
Settled(u, fr, lo, hi) ==
  /\ lo <= hi /\ (fr.k = "main" => lo = 0)
  /\ Sized(fr) => hi = lo + Size(fr)
  /\ ~ Sized(fr) /\ fr.k \in {"try", "call", "eval"} => Framed(u, lo, hi, TagOf(fr))
  /\ ~ Sized(fr) /\ fr.k = "script" =>
       /\ Header(u, lo, hi)
       /\ IF fr.pc = "leave" THEN hi = lo + 2
          ELSE lo + 3 <= hi /\ MarkAt(u, lo + 3, "parse_and_execute")
  /\ fr.k \in {"try", "catch", "cleanup"} => NoCleanup(u, lo, hi)

Popping == {"unw", "catch", "cleanup"}

\* The piece of frame o while run r has still to pop from it.
Pending(u, o, r, lo, hi) ==
  \/ /\ r.tag = "one" /\ o.k \in Popping /\ hi = lo + Size(o) + 1
     /\ o.k # "unw" => NoCleanup(u, lo, hi)
  \/ /\ o.k \in {"try", "call", "eval", "script"} /\ o.pc \in {"caught", "done"}
     /\ r.tag = TagOf(o) /\ Framed(u, lo, hi, r.tag)
  \/ /\ o.k = "script" /\ o.pc = "leave"
     /\ r.tag = "parse_and_execute" /\ Header(u, lo, hi) /\ Framed(u, lo + 2, hi, r.tag)
  \/ o.k = "main" /\ o.pc = "read" /\ r.tag = "all" /\ lo = 0

Single(o, r) == r.tag = "one" /\ o.k \in Popping

\* The piece of o while r runs: what is left to pop, or r is done with it.
Ran(u, o, r, lo, hi) ==
  \/ r.pc = "pop" /\ Pending(u, o, r, lo, hi)
  \/ r.pc = "done" /\ Settled(u, o, lo, hi)

\* Where the piece of frame i ends, unless a run has been called by it.
Upper(s, u, i) == IF i = Len(s) THEN Len(u) ELSE s[i + 1].base

IsRun(fr) == fr.k = "run"

Placed(s, u, i) ==
  IF IsRun(s[i])
  THEN /\ i > 1 /\ ~ IsRun(s[i - 1])
       /\ Ran(u, s[i - 1], s[i], s[i - 1].base, Upper(s, u, i))
       /\ s[i].pc = "done" => i = Len(s) \/ Single(s[i - 1], s[i])
  ELSE \/ i < Len(s) /\ IsRun(s[i + 1])
       \/ /\ Settled(u, s[i], s[i].base, Upper(s, u, i))
          /\ i < Len(s) => s[i].pc # "leave"

\* The pieces are in the order of the frames, that of main_loop first.
Ascend(s, u) ==
  /\ s[1].base = 0
  /\ \A j \in 1 .. Len(s) : ~ IsRun(s[j]) =>
       /\ s[j].base <= Len(u)
       /\ \A i \in 1 .. j : ~ IsRun(s[i]) => s[i].base <= s[j].base

Pieces(s, u) == (\A i \in 1 .. Len(s) : Placed(s, u, i)) /\ Ascend(s, u)

\* Every mark of a parse_and_execute is that of a script which is still in it.
Inside(fr) == fr.k = "script" /\ fr.pc \in InScript
Owned(s, u) ==
  \A p \in 1 .. Len(u) : MarkAt(u, p, "parse_and_execute") =>
    \E i \in 1 .. Len(s) : Inside(s[i]) /\ p = s[i].base + 3

\* No mark is called as if a run wanted one element or all of them.
Named(u) == \A p \in 1 .. Len(u) : ~ MarkAt(u, p, "one") /\ ~ MarkAt(u, p, "all")

Layout(s, u) == Pieces(s, u) /\ Owned(s, u) /\ Named(u)

-----------------------------------------------------------------------------
(***************************************************************************)
(* A step of the stack and the list                                        *)
(***************************************************************************)

Agree(u, w, n) == \A p \in 1 .. n : w[p] = u[p]

\* The frames 1 to n stay.
Same(s, t, n) == \A i \in 1 .. n : t[i] = s[i]

\* What is new in the list is no mark of parse_and_execute.
Fresh(el) ==
  el.e = "mark" => el.tag \notin {"one", "all", "parse_and_execute"}
Grown(u, w) ==
  \A p \in 1 .. Len(w) : (p <= Len(u) /\ w[p] = u[p]) \/ Fresh(w[p])

LEMMA StackFacts ==
  ASSUME NEW s \in Seq(Frame)
  PROVE  Len(s) \in Nat /\ \A i \in 1 .. Len(s) : s[i] \in Frame /\ s[i].base \in Nat
<1>1. Len(s) \in Nat /\ \A i \in 1 .. Len(s) : s[i] \in Frame
  BY LenProperties, ElementOfSeq
<1> QED
  BY <1>1 DEF Frame

\* A piece that is not written to stays what it is.
LEMMA SettledSame ==
  ASSUME NEW u, NEW w, NEW fr, NEW lo \in Nat, NEW hi \in Nat,
         Agree(u, w, hi), Settled(u, fr, lo, hi)
  PROVE  Settled(w, fr, lo, hi)
BY DEF Agree, Settled, Framed, Header, NoMark, NoCleanup, MarkAt

LEMMA PendingSame ==
  ASSUME NEW u, NEW w, NEW o, NEW r, NEW lo \in Nat, NEW hi \in Nat,
         Agree(u, w, hi), Pending(u, o, r, lo, hi)
  PROVE  Pending(w, o, r, lo, hi)
BY DEF Agree, Pending, Framed, Header, NoMark, NoCleanup, MarkAt

-----------------------------------------------------------------------------
(***************************************************************************)
(* Steps of the frames                                                     *)
(***************************************************************************)

LEMMA AgreeBelow ==
  ASSUME NEW u, NEW w, NEW c \in Nat, NEW n \in Nat, n <= c, Agree(u, w, c)
  PROVE  Agree(u, w, n)
BY DEF Agree

\* The frames below the one that a step replaces stay placed.
LEMMA PlacedSame ==
  ASSUME NEW s \in Seq(Frame), NEW t \in Seq(Frame), NEW u, NEW w,
         Len(u) \in Nat, Len(w) \in Nat, NEW c \in Nat, Agree(u, w, c),
         NEW m \in Nat, m < Len(s), m < Len(t), Same(s, t, m),
         t[m + 1].base = s[m + 1].base, IsRun(t[m + 1]) <=> IsRun(s[m + 1]),
         \A i \in 1 .. Len(s) : Placed(s, u, i),
         \A i \in 1 .. m + 1 : ~ IsRun(s[i]) => s[i].base <= c
  PROVE  \A i \in 1 .. m : Placed(t, w, i)
<1> SUFFICES ASSUME NEW i \in 1 .. m
             PROVE  Placed(t, w, i)
  OBVIOUS
<1>1. /\ Len(s) \in Nat /\ Len(t) \in Nat
      /\ \A j \in 1 .. Len(s) : s[j] \in Frame /\ s[j].base \in Nat
  BY StackFacts
<1>2. /\ t[i] = s[i] /\ i < Len(s) /\ i < Len(t) /\ i + 1 \in 1 .. m + 1
      /\ i > 1 => t[i - 1] = s[i - 1]
      /\ t[i + 1].base = s[i + 1].base /\ (IsRun(t[i + 1]) <=> IsRun(s[i + 1]))
  <2>1. i < Len(s) /\ i < Len(t) /\ i + 1 \in 1 .. m + 1
    BY <1>1
  <2>2. t[i] = s[i]
    BY DEF Same
  <2>3. i > 1 => t[i - 1] = s[i - 1]
    <3> SUFFICES ASSUME i > 1
                 PROVE  t[i - 1] = s[i - 1]
      OBVIOUS
    <3>1. i - 1 \in 1 .. m
      OBVIOUS
    <3> QED
      BY <3>1 DEF Same
  <2>4. t[i + 1].base = s[i + 1].base /\ (IsRun(t[i + 1]) <=> IsRun(s[i + 1]))
    <3>1. CASE i = m
      BY <3>1
    <3>2. CASE i # m
      <4>1. i + 1 \in 1 .. m
        BY <3>2
      <4>2. t[i + 1] = s[i + 1]
        BY <4>1 DEF Same
      <4> QED
        BY <4>2
    <3> QED
      BY <3>1, <3>2
  <2> QED
    BY <2>1, <2>2, <2>3, <2>4
<1>3. /\ Upper(s, u, i) = s[i + 1].base /\ Upper(t, w, i) = s[i + 1].base
      /\ s[i + 1].base \in Nat /\ s[i].base \in Nat
      /\ ~ IsRun(s[i + 1]) => s[i + 1].base <= c
  <2>1. Upper(s, u, i) = s[i + 1].base
    <3>1. i # Len(s)
      BY <1>1, <1>2
    <3> QED
      BY <3>1 DEF Upper
  <2>2. Upper(t, w, i) = s[i + 1].base
    <3>1. i # Len(t)
      BY <1>1, <1>2
    <3> QED
      BY <1>2, <3>1 DEF Upper
  <2>3. i \in 1 .. Len(s) /\ i + 1 \in 1 .. Len(s)
    BY <1>1, <1>2
  <2>4. s[i + 1].base \in Nat /\ s[i].base \in Nat
    BY <1>1, <2>3
  <2>5. ~ IsRun(s[i + 1]) => s[i + 1].base <= c
    BY <1>2
  <2> QED
    BY <2>1, <2>2, <2>4, <2>5
<1>4. Placed(s, u, i) /\ Placed(s, u, i + 1)
  BY <1>1, <1>2
<1>5. ~ IsRun(s[i + 1]) => Agree(u, w, s[i + 1].base)
  BY <1>3, AgreeBelow
<1>6. CASE IsRun(s[i])
  <2>1. i > 1 /\ ~ IsRun(s[i - 1]) /\ ~ IsRun(s[i + 1]) /\ i - 1 \in 1 .. Len(s)
    <3>1. i > 1 /\ ~ IsRun(s[i - 1])
      BY <1>4, <1>6 DEF Placed
    <3>2. (i + 1) - 1 = i
      OBVIOUS
    <3>3. ~ IsRun(s[i + 1])
      BY <1>4, <1>6, <3>2 DEF Placed
    <3>4. i - 1 \in 1 .. Len(s)
      BY <1>1, <1>2, <3>1, SMTT(30)
    <3> QED
      BY <3>1, <3>3, <3>4
  <2>2. Ran(u, s[i - 1], s[i], s[i - 1].base, s[i + 1].base)
    BY <1>3, <1>4, <1>6 DEF Placed
  <2>3. s[i - 1].base \in Nat
    BY <1>1, <2>1
  <2>4. Ran(w, s[i - 1], s[i], s[i - 1].base, s[i + 1].base)
    BY <1>3, <1>5, <2>1, <2>2, <2>3, SettledSame, PendingSame DEF Ran
  <2>5. s[i].pc = "done" => Single(s[i - 1], s[i])
    BY <1>2, <1>4, <1>6 DEF Placed
  <2>6. IsRun(t[i]) /\ t[i - 1] = s[i - 1] /\ t[i] = s[i]
    BY <1>2, <1>6, <2>1
  <2> QED
    BY <1>3, <2>1, <2>4, <2>5, <2>6 DEF Placed
<1>7. CASE ~ IsRun(s[i])
  <2>1. CASE IsRun(s[i + 1])
    BY <1>2, <1>7, <2>1 DEF Placed
  <2>2. CASE ~ IsRun(s[i + 1])
    <3>1. Settled(u, s[i], s[i].base, s[i + 1].base) /\ s[i].pc # "leave"
      BY <1>2, <1>3, <1>4, <1>7, <2>2 DEF Placed
    <3>2. Settled(w, s[i], s[i].base, s[i + 1].base)
      BY <1>3, <1>5, <2>2, <3>1, SettledSame
    <3> QED
      BY <1>2, <1>3, <1>7, <3>1, <3>2 DEF Placed
  <2> QED
    BY <2>1, <2>2
<1> QED
  BY <1>6, <1>7


\* A stack of which the last or the last two frames are new.
LEMMA Built ==
  ASSUME NEW s \in Seq(Frame), NEW t \in Seq(Frame), NEW u, NEW w,
         Len(u) \in Nat, Len(w) \in Nat,
         NEW c \in Nat, c <= Len(w), Agree(u, w, c), Pieces(s, u),
         NEW m \in Nat, m < Len(s), Len(t) \in {m + 1, m + 2}, Same(s, t, m),
         t[m + 1].base = s[m + 1].base, IsRun(t[m + 1]) <=> IsRun(s[m + 1]),
         \A i \in 1 .. m + 1 : ~ IsRun(s[i]) => s[i].base <= c,
         Placed(t, w, m + 1),
         Len(t) = m + 2 =>
           /\ Placed(t, w, m + 2)
           /\ ~ IsRun(t[m + 2]) => c <= t[m + 2].base /\ t[m + 2].base <= Len(w)
  PROVE  Pieces(t, w)
<1>1. /\ Len(s) \in Nat /\ Len(t) \in Nat
      /\ \A j \in 1 .. Len(s) : s[j] \in Frame /\ s[j].base \in Nat
      /\ \A j \in 1 .. Len(t) : t[j] \in Frame /\ t[j].base \in Nat
  BY StackFacts
<1>2. (\A i \in 1 .. Len(s) : Placed(s, u, i)) /\ m < Len(t)
  BY <1>1 DEF Pieces
<1>3. \A i \in 1 .. m : Placed(t, w, i)
  BY <1>1, <1>2, PlacedSame
<1>4. \A i \in 1 .. Len(t) : Placed(t, w, i)
  <2> SUFFICES ASSUME NEW i \in 1 .. Len(t)
               PROVE  Placed(t, w, i)
    OBVIOUS
  <2>1. i \in 1 .. m \/ i = m + 1 \/ (i = m + 2 /\ Len(t) = m + 2)
    BY <1>1
  <2> QED
    BY <1>3, <2>1
<1>5. \A i \in 1 .. m + 1 :
        t[i].base = s[i].base /\ (IsRun(t[i]) <=> IsRun(s[i])) /\ i \in 1 .. Len(s)
  <2> SUFFICES ASSUME NEW i \in 1 .. m + 1
               PROVE  /\ t[i].base = s[i].base /\ (IsRun(t[i]) <=> IsRun(s[i]))
                      /\ i \in 1 .. Len(s)
    OBVIOUS
  <2>1. i \in 1 .. m \/ i = m + 1
    OBVIOUS
  <2> QED
    BY <1>1, <2>1, SMTT(30) DEF Same
<1>6. Ascend(t, w)
  <2>1. t[1].base = 0
    BY <1>1, <1>5 DEF Pieces, Ascend
  <2>2. ASSUME NEW j \in 1 .. Len(t), ~ IsRun(t[j])
        PROVE  /\ t[j].base <= Len(w)
               /\ \A i \in 1 .. j : ~ IsRun(t[i]) => t[i].base <= t[j].base
    <3>1. CASE j \in 1 .. m + 1
      <4>1. s[j].base <= c /\ t[j].base <= Len(w) /\ ~ IsRun(s[j]) /\ j \in 1 .. Len(s)
        BY <1>1, <1>5, <2>2, <3>1
      <4>2. \A i \in 1 .. j : ~ IsRun(s[i]) => s[i].base <= s[j].base
        BY <4>1 DEF Pieces, Ascend
      <4> QED
        BY <1>1, <1>5, <2>2, <3>1, <4>1, <4>2
    <3>2. CASE j = m + 2 /\ Len(t) = m + 2
      <4>1. c <= t[m + 2].base /\ t[m + 2].base <= Len(w) /\ t[m + 2].base \in Nat
        BY <1>1, <2>2, <3>2
      <4>2. \A i \in 1 .. m + 1 : ~ IsRun(t[i]) => t[i].base <= t[m + 2].base
        <5> SUFFICES ASSUME NEW i \in 1 .. m + 1, ~ IsRun(t[i])
                     PROVE  t[i].base <= t[m + 2].base
          OBVIOUS
        <5>1. s[i].base <= c /\ s[i].base \in Nat /\ t[i].base = s[i].base
          BY <1>1, <1>5
        <5> QED
          BY <4>1, <5>1, SMTT(30)
      <4> QED
        BY <3>2, <4>1, <4>2
    <3> QED
      BY <1>1, <2>2, <3>1, <3>2
  <2> QED
    BY <2>1, <2>2 DEF Ascend
<1> QED
  BY <1>4, <1>6 DEF Pieces

\* No mark of parse_and_execute is added and no script leaves it.
LEMMA OwnedKept ==
  ASSUME NEW s \in Seq(Frame), NEW t \in Seq(Frame), NEW u, NEW w, Grown(u, w),
         Len(u) \in Nat, Len(w) \in Nat, Owned(s, u), Named(u),
         \A i \in 1 .. Len(s) : Inside(s[i]) =>
            i \in 1 .. Len(t) /\ Inside(t[i]) /\ t[i].base = s[i].base
  PROVE  Owned(t, w) /\ Named(w)
<1>1. ASSUME NEW p \in 1 .. Len(w), w[p].e = "mark",
             w[p].tag \in {"one", "all", "parse_and_execute"}
      PROVE  p \in 1 .. Len(u) /\ w[p] = u[p]
  BY <1>1 DEF Grown, Fresh
<1>2. Named(w)
  BY <1>1 DEF Named, MarkAt
<1>3. ASSUME NEW p \in 1 .. Len(w), MarkAt(w, p, "parse_and_execute")
      PROVE  \E i \in 1 .. Len(t) : Inside(t[i]) /\ p = t[i].base + 3
  <2>1. p \in 1 .. Len(u) /\ MarkAt(u, p, "parse_and_execute")
    BY <1>1, <1>3 DEF MarkAt
  <2>2. PICK i \in 1 .. Len(s) : Inside(s[i]) /\ p = s[i].base + 3
    BY <2>1 DEF Owned
  <2> QED
    BY <2>2
<1> QED
  BY <1>2, <1>3 DEF Owned

\* The frame s[d] goes on as t[d], and the list changes above its base only.
Replaced(s, t, d) ==
  /\ Same(s, t, d - 1) /\ t[d].base = s[d].base /\ (IsRun(t[d]) <=> IsRun(s[d]))
  /\ Inside(s[d]) => Inside(t[d])
Changed(u, w, lo) == Grown(u, w) /\ Agree(u, w, lo) /\ lo <= Len(w)

LEMMA ReplacedOwned ==
  ASSUME NEW s \in Seq(Frame), NEW t \in Seq(Frame), NEW u \in Seq(Elem),
         NEW w \in Seq(Elem), Layout(s, u), NEW d, d = Len(s), d > 0,
         Replaced(s, t, d), d <= Len(t), Grown(u, w)
  PROVE  Owned(t, w) /\ Named(w)
<1>1. Len(s) \in Nat /\ Len(t) \in Nat /\ Len(u) \in Nat /\ Len(w) \in Nat
  BY LenProperties
<1>2. ASSUME NEW i \in 1 .. Len(s), Inside(s[i])
      PROVE  i \in 1 .. Len(t) /\ Inside(t[i]) /\ t[i].base = s[i].base
  <2>1. CASE i = d
    BY <1>1, <1>2, <2>1 DEF Replaced
  <2>2. CASE i # d
    <3>1. i \in 1 .. d - 1
      BY <1>1, <2>2
    <3>2. t[i] = s[i]
      BY <3>1 DEF Replaced, Same
    <3> QED
      BY <1>1, <1>2, <3>1, <3>2
  <2> QED
    BY <2>1, <2>2
<1> QED
  BY <1>1, <1>2, OwnedKept DEF Layout

\* All bases that count are within that of the running frame, if it is not a
\* run, and that of its caller if it is one.
LEMMA BasesBelow ==
  ASSUME NEW s \in Seq(Frame), NEW u \in Seq(Elem), Layout(s, u), NEW d, d = Len(s), d > 0
  PROVE  /\ d \in Nat /\ Len(u) \in Nat
         /\ s[d].base \in Nat
         /\ Placed(s, u, d)
         /\ ~ IsRun(s[d]) =>
              /\ s[d].base <= Len(u)
              /\ \A i \in 1 .. d : ~ IsRun(s[i]) => s[i].base <= s[d].base
         /\ IsRun(s[d]) =>
              /\ d > 1 /\ ~ IsRun(s[d - 1]) /\ s[d - 1].base \in Nat
              /\ s[d - 1].base <= Len(u)
              /\ \A i \in 1 .. d :
                   ~ IsRun(s[i]) => s[i].base <= s[d - 1].base
<1>1. /\ d \in Nat /\ Len(u) \in Nat
      /\ \A j \in 1 .. d : s[j] \in Frame /\ s[j].base \in Nat
  BY StackFacts, LenProperties
<1>2. Placed(s, u, d) /\ Ascend(s, u)
  BY <1>1 DEF Layout, Pieces
<1>3. ASSUME ~ IsRun(s[d])
      PROVE  /\ s[d].base <= Len(u)
             /\ \A i \in 1 .. d : ~ IsRun(s[i]) => s[i].base <= s[d].base
  BY <1>1, <1>2, <1>3 DEF Ascend
<1>4. ASSUME IsRun(s[d])
      PROVE  /\ d > 1 /\ ~ IsRun(s[d - 1]) /\ s[d - 1].base \in Nat
             /\ s[d - 1].base <= Len(u)
             /\ \A i \in 1 .. d :
                  ~ IsRun(s[i]) => s[i].base <= s[d - 1].base
  <2>1. d > 1 /\ ~ IsRun(s[d - 1]) /\ d - 1 \in 1 .. d
    BY <1>1, <1>2, <1>4 DEF Placed
  <2>2. /\ s[d - 1].base <= Len(u)
        /\ \A i \in 1 .. d - 1 : ~ IsRun(s[i]) => s[i].base <= s[d - 1].base
    BY <1>2, <2>1 DEF Ascend
  <2>3. \A i \in 1 .. d : ~ IsRun(s[i]) => i \in 1 .. d - 1
    BY <1>1, <1>4
  <2> QED
    BY <1>1, <2>1, <2>2, <2>3
<1> QED
  BY <1>1, <1>2, <1>3, <1>4

\* The running frame goes on and may have called another.
LEMMA PiecesTop ==
  ASSUME NEW s \in Seq(Frame), NEW t \in Seq(Frame), NEW u \in Seq(Elem),
         NEW w \in Seq(Elem), Layout(s, u), NEW d, d = Len(s), d > 0,
         Same(s, t, d - 1), t[d].base = s[d].base, IsRun(t[d]) <=> IsRun(s[d]),
         NEW c \in Nat, Agree(u, w, c), c <= Len(w),
         \A i \in 1 .. d : ~ IsRun(s[i]) => s[i].base <= c,
         Len(t) \in {d, d + 1}, Placed(t, w, d),
         Len(t) = d + 1 =>
           /\ Placed(t, w, d + 1)
           /\ ~ IsRun(t[d + 1]) => c <= t[d + 1].base /\ t[d + 1].base <= Len(w)
  PROVE  Pieces(t, w)
<1>1. d \in Nat /\ Len(u) \in Nat /\ Len(w) \in Nat /\ d <= Len(t)
  BY LenProperties
<1> DEFINE m == d - 1
<1>2. /\ m \in Nat /\ d = m + 1 /\ d + 1 = m + 2 /\ m < Len(s)
      /\ Len(t) \in {m + 1, m + 2}
  BY <1>1
<1>3. /\ Same(s, t, m) /\ t[m + 1].base = s[m + 1].base
      /\ (IsRun(t[m + 1]) <=> IsRun(s[m + 1]))
  BY <1>2
<1>4. /\ Placed(t, w, m + 1)
      /\ \A i \in 1 .. m + 1 : ~ IsRun(s[i]) => s[i].base <= c
      /\ Len(t) = m + 2 =>
           /\ Placed(t, w, m + 2)
           /\ ~ IsRun(t[m + 2]) => c <= t[m + 2].base /\ t[m + 2].base <= Len(w)
  BY <1>1, <1>2
<1>5. Pieces(s, u)
  BY DEF Layout
<1> HIDE DEF m
<1> QED
  BY <1>1, <1>2, <1>3, <1>4, <1>5, Built

LEMMA BuiltTop ==
  ASSUME NEW s \in Seq(Frame), NEW t \in Seq(Frame), NEW u \in Seq(Elem),
         NEW w \in Seq(Elem), Layout(s, u), NEW d, d = Len(s), d > 0,
         Replaced(s, t, d), NEW c \in Nat, Changed(u, w, c),
         \A i \in 1 .. d : ~ IsRun(s[i]) => s[i].base <= c,
         Len(t) \in {d, d + 1}, Placed(t, w, d),
         Len(t) = d + 1 =>
           /\ Placed(t, w, d + 1)
           /\ ~ IsRun(t[d + 1]) => c <= t[d + 1].base /\ t[d + 1].base <= Len(w)
  PROVE  Layout(t, w)
<1>1. d \in Nat /\ Len(u) \in Nat /\ Len(w) \in Nat /\ d <= Len(t)
  BY LenProperties
<1>2. /\ Same(s, t, d - 1) /\ t[d].base = s[d].base
      /\ (IsRun(t[d]) <=> IsRun(s[d])) /\ Agree(u, w, c) /\ c <= Len(w)
      /\ Grown(u, w)
  BY DEF Replaced, Changed
<1>3. Pieces(t, w)
  BY <1>2, PiecesTop
<1>4. Owned(t, w) /\ Named(w)
  BY <1>1, <1>2, ReplacedOwned
<1> QED
  BY <1>3, <1>4 DEF Layout

\* The running frame, not a run, goes on.
LEMMA Moved ==
  ASSUME NEW s \in Seq(Frame), NEW t \in Seq(Frame), NEW u \in Seq(Elem),
         NEW w \in Seq(Elem), Layout(s, u), NEW d, d = Len(s), d > 0, ~ IsRun(s[d]),
         Replaced(s, t, d), Changed(u, w, s[d].base), Len(t) = d,
         Settled(w, t[d], s[d].base, Len(w))
  PROVE  Layout(t, w)
<1>1. /\ d \in Nat /\ s[d].base \in Nat
      /\ \A i \in 1 .. d : ~ IsRun(s[i]) => s[i].base <= s[d].base
  BY BasesBelow
<1>2. Placed(t, w, d)
  BY <1>1 DEF Placed, Replaced, Upper
<1>3. Len(t) \in {d, d + 1} /\ Len(t) # d + 1
  BY <1>1
<1> QED
  BY <1>1, <1>2, <1>3, BuiltTop

\* It calls a frame that is not a run either.
LEMMA Called ==
  ASSUME NEW s \in Seq(Frame), NEW t \in Seq(Frame), NEW u \in Seq(Elem),
         NEW w \in Seq(Elem), Layout(s, u), NEW d, d = Len(s), d > 0, ~ IsRun(s[d]),
         Replaced(s, t, d), Changed(u, w, s[d].base), Len(t) = d + 1,
         NEW b \in Nat, t[d + 1].base = b, ~ IsRun(t[d + 1]), t[d].pc # "leave",
         Settled(w, t[d], s[d].base, b), Settled(w, t[d + 1], b, Len(w))
  PROVE  Layout(t, w)
<1>1. /\ d \in Nat /\ s[d].base \in Nat
      /\ \A i \in 1 .. d : ~ IsRun(s[i]) => s[i].base <= s[d].base
  BY BasesBelow
<1>2. s[d].base <= b /\ b <= Len(w)
  BY DEF Settled
<1>3. Placed(t, w, d) /\ Placed(t, w, d + 1)
  <2>1. Upper(t, w, d) = b /\ Upper(t, w, d + 1) = Len(w)
    BY <1>1 DEF Upper
  <2>2. ~ IsRun(t[d]) /\ t[d].base = s[d].base
    BY DEF Replaced
  <2> QED
    BY <1>1, <2>1, <2>2 DEF Placed
<1> QED
  BY <1>1, <1>2, <1>3, BuiltTop

\* It calls a run that is to eat its piece.
LEMMA CalledRun ==
  ASSUME NEW s \in Seq(Frame), NEW t \in Seq(Frame), NEW u \in Seq(Elem),
         NEW w \in Seq(Elem), Layout(s, u), NEW d, d = Len(s), d > 0, ~ IsRun(s[d]),
         Replaced(s, t, d), Changed(u, w, s[d].base), Len(t) = d + 1,
         IsRun(t[d + 1]), t[d + 1].pc = "pop",
         Pending(w, t[d], t[d + 1], s[d].base, Len(w))
  PROVE  Layout(t, w)
<1>1. /\ d \in Nat /\ s[d].base \in Nat
      /\ \A i \in 1 .. d : ~ IsRun(s[i]) => s[i].base <= s[d].base
  BY BasesBelow
<1>2. Placed(t, w, d) /\ Placed(t, w, d + 1)
  <2>1. Upper(t, w, d + 1) = Len(w) /\ (d + 1) - 1 = d /\ d < Len(t) /\ d + 1 > 1
    BY <1>1 DEF Upper
  <2>2. ~ IsRun(t[d]) /\ t[d].base = s[d].base
    BY DEF Replaced
  <2>3. Ran(w, t[d], t[d + 1], t[d].base, Len(w))
    BY <2>2 DEF Ran
  <2>4. Placed(t, w, d)
    BY <2>1, <2>2 DEF Placed
  <2>5. Placed(t, w, d + 1)
    BY <2>1, <2>2, <2>3 DEF Placed
  <2> QED
    BY <2>4, <2>5
<1> QED
  BY <1>1, <1>2, BuiltTop

\* A run pops an element.
LEMMA Popped ==
  ASSUME NEW s \in Seq(Frame), NEW t \in Seq(Frame), NEW u \in Seq(Elem),
         NEW w \in Seq(Elem), Layout(s, u), NEW d, d = Len(s), d > 0, IsRun(s[d]),
         Replaced(s, t, d), Changed(u, w, s[d - 1].base), Len(t) = d,
         Ran(w, s[d - 1], t[d], s[d - 1].base, Len(w))
  PROVE  Layout(t, w)
<1>1. /\ d \in Nat /\ d > 1 /\ ~ IsRun(s[d - 1]) /\ s[d - 1].base \in Nat
      /\ \A i \in 1 .. d : ~ IsRun(s[i]) => s[i].base <= s[d - 1].base
  BY BasesBelow
<1>2. Placed(t, w, d)
  <2>1. IsRun(t[d]) /\ t[d - 1] = s[d - 1] /\ Upper(t, w, d) = Len(w)
    BY <1>1 DEF Replaced, Same, Upper
  <2> QED
    BY <1>1, <2>1 DEF Placed
<1>3. Len(t) \in {d, d + 1} /\ Len(t) # d + 1
  BY <1>1
<1> QED
  BY <1>1, <1>2, <1>3, BuiltTop

\* The popped element is catch or cleanup code, which the run calls.
LEMMA Spawned ==
  ASSUME NEW s \in Seq(Frame), NEW t \in Seq(Frame), NEW u \in Seq(Elem),
         NEW w \in Seq(Elem), Layout(s, u), NEW d, d = Len(s), d > 0, IsRun(s[d]),
         Replaced(s, t, d), Changed(u, w, s[d - 1].base), Len(t) = d + 1,
         Ran(w, s[d - 1], t[d], s[d - 1].base, Len(w)),
         t[d].pc = "done" => Single(s[d - 1], t[d]),
         ~ IsRun(t[d + 1]), t[d + 1].base = Len(w),
         Settled(w, t[d + 1], Len(w), Len(w))
  PROVE  Layout(t, w)
<1>1. /\ d \in Nat /\ d > 1 /\ ~ IsRun(s[d - 1]) /\ s[d - 1].base \in Nat
      /\ \A i \in 1 .. d : ~ IsRun(s[i]) => s[i].base <= s[d - 1].base
  BY BasesBelow
<1>2. /\ IsRun(t[d]) /\ t[d - 1] = s[d - 1] /\ Upper(t, w, d) = Len(w)
      /\ Upper(t, w, d + 1) = Len(w) /\ d < Len(t) /\ d + 1 = Len(t)
      /\ s[d - 1].base <= Len(w) /\ Len(w) \in Nat
  BY <1>1, LenProperties DEF Replaced, Same, Upper, Changed
<1>3. Placed(t, w, d)
  BY <1>1, <1>2 DEF Placed
<1>4. Placed(t, w, d + 1)
  BY <1>1, <1>2 DEF Placed
<1>5. /\ Len(t) \in {d, d + 1}
      /\ s[d - 1].base <= t[d + 1].base /\ t[d + 1].base <= Len(w)
  BY <1>2
<1> QED
  BY <1>1, <1>3, <1>4, <1>5, BuiltTop

\* The running frame, not a run, is left with its piece gone.
LEMMA Returned ==
  ASSUME NEW s \in Seq(Frame), NEW t \in Seq(Frame), NEW u \in Seq(Elem),
         NEW w \in Seq(Elem), Layout(s, u), NEW d, d = Len(s), d > 1, ~ IsRun(s[d]),
         ~ Inside(s[d]), Len(t) = d - 1, Same(s, t, d - 1),
         Grown(u, w), Agree(u, w, s[d].base), Len(w) = s[d].base
  PROVE  Layout(t, w)
<1>0. d > 0 /\ Len(w) \in Nat
  BY LenProperties
<1>1. /\ d \in Nat /\ Len(u) \in Nat /\ s[d].base \in Nat
      /\ \A i \in 1 .. d : ~ IsRun(s[i]) => s[i].base <= s[d].base
      /\ Placed(s, u, d)
  BY <1>0, BasesBelow
<1>2. Pieces(s, u) /\ Owned(s, u) /\ Named(u)
  BY DEF Layout
<1>3. t[d - 1] = s[d - 1] /\ d - 1 \in 1 .. Len(s)
  BY <1>1 DEF Same
<1>4. Placed(t, w, d - 1)
  <2>1. Placed(s, u, d - 1)
    BY <1>2, <1>3 DEF Pieces
  <2>2. /\ Upper(s, u, d - 1) = s[d].base /\ Upper(t, w, d - 1) = s[d].base
        /\ (d - 1) + 1 = d
    BY <1>1 DEF Upper
  <2>3. s[d - 1].base \in Nat
    BY <1>3, StackFacts
  <2>4. CASE IsRun(s[d - 1])
    <3>1. d - 1 > 1 /\ ~ IsRun(s[d - 2]) /\ (d - 1) - 1 = d - 2 /\ d - 2 \in 1 .. Len(s)
      BY <1>1, <2>1, <2>4 DEF Placed
    <3>2. Ran(u, s[d - 2], s[d - 1], s[d - 2].base, s[d].base)
      BY <2>1, <2>2, <2>4, <3>1 DEF Placed
    <3>3. t[d - 2] = s[d - 2] /\ s[d - 2].base \in Nat
      BY <1>1, <3>1, StackFacts DEF Same
    <3>4. Ran(w, s[d - 2], s[d - 1], s[d - 2].base, s[d].base)
      BY <1>1, <3>2, <3>3, SettledSame, PendingSame DEF Ran
    <3> QED
      BY <1>3, <2>2, <2>4, <3>1, <3>3, <3>4 DEF Placed
  <2>5. CASE ~ IsRun(s[d - 1])
    <3>1. Settled(u, s[d - 1], s[d - 1].base, s[d].base)
      BY <2>1, <2>2, <2>5 DEF Placed
    <3>2. Settled(w, s[d - 1], s[d - 1].base, s[d].base)
      BY <1>1, <2>3, <3>1, SettledSame
    <3> QED
      BY <1>1, <1>3, <2>2, <2>5, <3>2 DEF Placed
  <2> QED
    BY <2>4, <2>5
<1>5. Pieces(t, w)
  <2> DEFINE m == d - 2
  <2>1. m \in Nat /\ d - 1 = m + 1 /\ m < Len(s) /\ Len(t) \in {m + 1, m + 2}
        /\ Len(t) # m + 2
    BY <1>1
  <2>2. /\ Same(s, t, m) /\ t[m + 1] = s[m + 1] /\ Placed(t, w, m + 1)
        /\ \A i \in 1 .. m + 1 : ~ IsRun(s[i]) => s[i].base <= s[d].base
    BY <1>1, <1>3, <1>4, <2>1 DEF Same
  <2>3. s[d].base <= Len(w)
    BY <1>1
  <2> HIDE DEF m
  <2> QED
    BY <1>0, <1>1, <1>2, <2>1, <2>2, <2>3, Built
<1>6. Owned(t, w) /\ Named(w)
  <2>1. \A i \in 1 .. Len(s) : Inside(s[i]) =>
          i \in 1 .. Len(t) /\ Inside(t[i]) /\ t[i].base = s[i].base
    BY SMTT(30), <1>1 DEF Same
  <2> QED
    BY <1>0, <1>1, <1>2, <2>1, OwnedKept
<1> QED
  BY <1>5, <1>6 DEF Layout

\* A run that is done leaves its caller with what it has left.
LEMMA ReturnedRun ==
  ASSUME NEW s \in Seq(Frame), NEW t \in Seq(Frame), NEW u \in Seq(Elem),
         Layout(s, u), NEW d, d = Len(s), d > 0, IsRun(s[d]),
         s[d].pc = "done", Len(t) = d - 1, Same(s, t, d - 1)
  PROVE  Layout(t, u)
<1>1. /\ d \in Nat /\ d > 1 /\ ~ IsRun(s[d - 1]) /\ s[d - 1].base \in Nat
      /\ \A i \in 1 .. d : ~ IsRun(s[i]) => s[i].base <= s[d - 1].base
      /\ s[d - 1].base <= Len(u) /\ Len(u) \in Nat
      /\ Placed(s, u, d)
  BY BasesBelow
<1>2. Pieces(s, u) /\ Owned(s, u) /\ Named(u)
  BY DEF Layout
<1>3. t[d - 1] = s[d - 1]
  BY <1>1 DEF Same
<1>4. Placed(t, u, d - 1)
  <2>1. Upper(s, u, d) = Len(u) /\ Upper(t, u, d - 1) = Len(u)
    BY <1>1 DEF Upper
  <2>2. Ran(u, s[d - 1], s[d], s[d - 1].base, Len(u))
    BY <1>1, <2>1 DEF Placed
  <2>3. Settled(u, s[d - 1], s[d - 1].base, Len(u))
    BY <2>2 DEF Ran
  <2> QED
    BY <1>1, <1>3, <2>1, <2>3 DEF Placed
<1>5. Pieces(t, u)
  <2> DEFINE m == d - 2
  <2>1. m \in Nat /\ d - 1 = m + 1 /\ m < Len(s) /\ Len(t) \in {m + 1, m + 2}
        /\ Len(t) # m + 2
    BY <1>1
  <2>2. /\ Same(s, t, m) /\ t[m + 1] = s[m + 1] /\ Placed(t, u, m + 1)
        /\ \A i \in 1 .. m + 1 : ~ IsRun(s[i]) => s[i].base <= s[d - 1].base
        /\ Agree(u, u, s[d - 1].base)
    BY <1>1, <1>3, <1>4, <2>1 DEF Same, Agree
  <2> HIDE DEF m
  <2> QED
    BY <1>1, <1>2, <2>1, <2>2, Built
<1>6. Owned(t, u) /\ Named(u)
  <2>1. \A i \in 1 .. Len(s) : Inside(s[i]) =>
          i \in 1 .. Len(t) /\ Inside(t[i]) /\ t[i].base = s[i].base
    BY <1>1 DEF Same, Inside, IsRun
  <2>2. Grown(u, u)
    BY <1>1 DEF Grown
  <2> QED
    BY <1>1, <1>2, <2>1, <2>2, OwnedKept
<1> QED
  BY <1>5, <1>6 DEF Layout

\* A longjmp drops the frames above frame i, the innermost script or main_loop.
LEMMA CutBack ==
  ASSUME NEW s \in Seq(Frame), NEW t \in Seq(Frame), NEW u \in Seq(Elem),
         Layout(s, u), NEW i \in 1 .. Len(s), Len(t) = i, Same(s, t, i - 1),
         ~ IsRun(s[i]), ~ IsRun(t[i]), t[i].base = s[i].base,
         \A j \in 1 .. Len(s) : Inside(s[j]) => j <= i,
         Inside(s[i]) => Inside(t[i]),
         Settled(u, t[i], s[i].base, Len(u))
  PROVE  Layout(t, u)
<1>1. /\ Len(s) \in Nat /\ Len(u) \in Nat /\ s[i].base \in Nat
  BY StackFacts, LenProperties
<1>2. Pieces(s, u) /\ Owned(s, u) /\ Named(u) /\ Ascend(s, u)
  BY DEF Layout, Pieces
<1>3. Placed(t, u, i)
  BY <1>1 DEF Placed, Upper
<1>4. /\ s[i].base <= Len(u)
      /\ \A j \in 1 .. i : ~ IsRun(s[j]) => s[j].base <= s[i].base
  BY <1>2 DEF Ascend
<1>5. Pieces(t, u)
  <2> DEFINE m == i - 1
  <2>1. m \in Nat /\ i = m + 1 /\ m < Len(s) /\ Len(t) \in {m + 1, m + 2}
        /\ Len(t) # m + 2
    BY <1>1
  <2>2. /\ Same(s, t, m) /\ t[m + 1].base = s[m + 1].base /\ Placed(t, u, m + 1)
        /\ (IsRun(t[m + 1]) <=> IsRun(s[m + 1]))
        /\ \A j \in 1 .. m + 1 : ~ IsRun(s[j]) => s[j].base <= s[i].base
        /\ Agree(u, u, s[i].base)
    BY <1>1, <1>3, <1>4, <2>1 DEF Agree
  <2> HIDE DEF m
  <2> QED
    BY <1>1, <1>2, <1>4, <2>1, <2>2, Built
<1>6. Owned(t, u) /\ Named(u)
  <2>1. \A j \in 1 .. Len(s) : Inside(s[j]) =>
          j \in 1 .. Len(t) /\ Inside(t[j]) /\ t[j].base = s[j].base
    <3> SUFFICES ASSUME NEW j \in 1 .. Len(s), Inside(s[j])
                 PROVE  j \in 1 .. Len(t) /\ Inside(t[j]) /\ t[j].base = s[j].base
      OBVIOUS
    <3>1. j = i \/ j \in 1 .. i - 1
      BY <1>1
    <3> QED
      BY <1>1, <3>1 DEF Same
  <2>2. Grown(u, u)
    BY <1>1 DEF Grown
  <2> QED
    BY <1>1, <1>2, <2>1, <2>2, OwnedKept
<1> QED
  BY <1>5, <1>6 DEF Layout

-----------------------------------------------------------------------------
(***************************************************************************)
(* Changes of the list                                                     *)
(***************************************************************************)

\* An element that opens no frame and is no cleanup code.
Plain(el) == el.e \notin {"mark", "cleanup"}
PlainAfter(w, lo) == \A p \in lo + 1 .. Len(w) : Plain(w[p])

LEMMA Kinds ==
  /\ \A tag : Mark(tag).e = "mark" /\ Mark(tag).tag = tag
  /\ \A e, f : ElemOf(e, f).e = e
  /\ \A v : Saved(v).e = "restore" /\ Plain(Saved(v))
  /\ \A e, f, d : SavedCount(e, f, d).e = e
BY DEF Mark, ElemOf, Saved, SavedCount, Plain

LEMMA FreshKinds ==
  /\ \A el : el.e # "mark" => Fresh(el)
  /\ \A tag : tag \notin {"one", "all", "parse_and_execute"} => Fresh(Mark(tag))
BY Kinds DEF Fresh

LEMMA Unchanged ==
  ASSUME NEW u \in Seq(Elem), NEW lo \in Nat, lo <= Len(u)
  PROVE  Changed(u, u, lo) /\ Agree(u, u, Len(u))
<1>1. Len(u) \in Nat
  BY LenProperties
<1> QED
  BY <1>1 DEF Changed, Grown, Agree

\* w is u with v after it.
Longer(u, w, v) ==
  /\ Len(w) = Len(u) + Len(v)
  /\ Agree(u, w, Len(u))
  /\ \A q \in 1 .. Len(v) : w[Len(u) + q] = v[q]

LEMMA Joined ==
  ASSUME NEW S, NEW u \in Seq(S), NEW v \in Seq(S)
  PROVE  Longer(u, u \o v, v)
<1>1. Len(u) \in Nat /\ Len(v) \in Nat
  BY LenProperties
<1>2. /\ Len(u \o v) = Len(u) + Len(v)
      /\ \A p \in 1 .. Len(u) + Len(v) :
           (u \o v)[p] = IF p <= Len(u) THEN u[p] ELSE v[p - Len(u)]
  BY ConcatProperties
<1>3. \A q \in 1 .. Len(v) : Len(u) + q \in 1 .. Len(u) + Len(v)
        /\ ~ (Len(u) + q <= Len(u)) /\ (Len(u) + q) - Len(u) = q
  BY <1>1
<1>4. \A p \in 1 .. Len(u) : p \in 1 .. Len(u) + Len(v) /\ p <= Len(u)
  BY <1>1
<1> DEFINE w == u \o v
<1>5. \A q \in 1 .. Len(v) : w[Len(u) + q] = v[q]
  BY <1>2, <1>3
<1>6. \A p \in 1 .. Len(u) : w[p] = u[p]
  BY <1>2, <1>4
<1>7. Len(w) = Len(u) + Len(v)
  BY <1>2
<1> HIDE DEF w
<1>8. Longer(u, w, v)
  BY <1>5, <1>6, <1>7 DEF Longer, Agree
<1> QED
  BY <1>8 DEF w

\* One to five elements more.
LEMMA Pushed ==
  ASSUME NEW u \in Seq(Elem), NEW a \in Elem
  PROVE  /\ Longer(u, Append(u, a), <<a>>) /\ Longer(u, u \o <<a>>, <<a>>)
         /\ \A b \in Elem : Longer(u, u \o <<a, b>>, <<a, b>>)
         /\ \A b, c \in Elem : Longer(u, u \o <<a, b, c>>, <<a, b, c>>)
         /\ \A b, c, d \in Elem : Longer(u, u \o <<a, b, c, d>>, <<a, b, c, d>>)
         /\ \A b, c, d, e \in Elem :
              Longer(u, u \o <<a, b, c, d, e>>, <<a, b, c, d, e>>)
<1>1. <<a>> \in Seq(Elem)
  OBVIOUS
<1>2. \A b \in Elem : <<a, b>> \in Seq(Elem)
  OBVIOUS
<1>3. \A b, c \in Elem : <<a, b, c>> \in Seq(Elem)
  OBVIOUS
<1>4. \A b, c, d \in Elem : <<a, b, c, d>> \in Seq(Elem)
  OBVIOUS
<1>5. \A b, c, d, e \in Elem : <<a, b, c, d, e>> \in Seq(Elem)
  OBVIOUS
<1>6. Longer(u, Append(u, a), <<a>>)
  <2>1. /\ Len(Append(u, a)) = Len(u) + 1 /\ Append(u, a)[Len(u) + 1] = a
        /\ \A p \in 1 .. Len(u) : Append(u, a)[p] = u[p]
    BY AppendProperties
  <2>2. Len(<<a>>) = 1 /\ <<a>>[1] = a
    OBVIOUS
  <2> QED
    BY <2>1, <2>2 DEF Longer, Agree
<1>7. \A v \in Seq(Elem) : Longer(u, u \o v, v)
  BY Joined
<1> QED
  BY <1>1, <1>2, <1>3, <1>4, <1>5, <1>6, <1>7

\* The list after a push.
LEMMA PushedChange ==
  ASSUME NEW u \in Seq(Elem), NEW w \in Seq(Elem), NEW v, Len(v) \in Nat,
         Longer(u, w, v), \A q \in 1 .. Len(v) : Fresh(v[q]),
         NEW lo \in Nat, lo <= Len(u)
  PROVE  /\ Changed(u, w, lo) /\ Len(u) <= Len(w) /\ Len(u) \in Nat /\ Len(w) \in Nat
         /\ (\A q \in 1 .. Len(v) : Plain(v[q])) => PlainAfter(w, Len(u))
<1>1. Len(u) \in Nat /\ Len(w) \in Nat
  BY LenProperties
<1>2. \A p \in Len(u) + 1 .. Len(w) :
        p - Len(u) \in 1 .. Len(v) /\ w[p] = v[p - Len(u)]
  <2> SUFFICES ASSUME NEW p \in Len(u) + 1 .. Len(w)
               PROVE  p - Len(u) \in 1 .. Len(v) /\ w[p] = v[p - Len(u)]
    OBVIOUS
  <2>1. p - Len(u) \in 1 .. Len(v) /\ Len(u) + (p - Len(u)) = p
    BY <1>1 DEF Longer
  <2> QED
    BY <2>1 DEF Longer
<1>3. Grown(u, w)
  <2> SUFFICES ASSUME NEW p \in 1 .. Len(w)
               PROVE  (p <= Len(u) /\ w[p] = u[p]) \/ Fresh(w[p])
    BY DEF Grown
  <2>1. p \in 1 .. Len(u) \/ p \in Len(u) + 1 .. Len(w)
    BY <1>1
  <2> QED
    BY <1>1, <1>2, <2>1 DEF Longer, Agree
<1>4. Agree(u, w, lo) /\ Len(u) <= Len(w) /\ lo <= Len(w)
  BY <1>1 DEF Longer, Agree
<1> QED
  BY <1>1, <1>2, <1>3, <1>4 DEF Changed, PlainAfter

\* The list after a pop or a discard, of which n elements are left.
LEMMA PoppedChange ==
  ASSUME NEW u \in Seq(Elem), NEW n \in Nat, n <= Len(u)
  PROVE  /\ Len(SubSeq(u, 1, n)) = n /\ Agree(u, SubSeq(u, 1, n), n)
         /\ Grown(u, SubSeq(u, 1, n))
         /\ \A lo \in Nat : lo <= n => Changed(u, SubSeq(u, 1, n), lo)
<1> DEFINE w == SubSeq(u, 1, n)
<1>1. Len(u) \in Nat /\ \A p \in 1 .. Len(u) : u[p] \in Elem
  BY LenProperties, ElementOfSeq
<1>2. Len(w) = n /\ \A p \in 1 .. n : w[p] = u[p]
  <2>1. \A p \in 1 .. n : u[p] \in Elem
    BY <1>1
  <2> QED
    BY <2>1, SubSeqProperties
<1> HIDE DEF w
<1>3. Agree(u, w, n) /\ Grown(u, w)
  BY <1>1, <1>2 DEF Agree, Grown
<1>4. \A lo \in Nat : lo <= n => Changed(u, w, lo)
  BY <1>2, <1>3 DEF Agree, Changed
<1> QED
  BY <1>2, <1>3, <1>4 DEF w

\* A frame that goes on inside its unwind frame, and what it adds there.
LEMMA SettledMore ==
  ASSUME NEW u \in Seq(Elem), NEW w \in Seq(Elem), NEW fr, NEW gr,
         NEW lo \in Nat, Settled(u, fr, lo, Len(u)), gr.k = fr.k,
         fr.k \in {"try", "call", "eval", "script"}, ~ Sized(fr), ~ Sized(gr),
         fr.pc # "leave", gr.pc # "leave", Agree(u, w, Len(u)),
         Len(u) <= Len(w), PlainAfter(w, Len(u))
  PROVE  Settled(w, gr, lo, Len(w))
<1>1. Len(u) \in Nat /\ Len(w) \in Nat /\ lo <= Len(u) /\ lo <= Len(w)
  BY LenProperties DEF Settled
<1>2. \A p \in 1 .. Len(w) : (p <= Len(u) /\ w[p] = u[p]) \/ Plain(w[p])
  <2> SUFFICES ASSUME NEW p \in 1 .. Len(w)
               PROVE  (p <= Len(u) /\ w[p] = u[p]) \/ Plain(w[p])
    OBVIOUS
  <2>1. p \in 1 .. Len(u) \/ p \in Len(u) + 1 .. Len(w)
    BY <1>1
  <2> QED
    BY <1>1, <2>1 DEF Agree, PlainAfter
<1>3. fr.k \in {"try", "call", "eval"} => Framed(w, lo, Len(w), TagOf(gr))
  <2>1. ASSUME NEW tag, Framed(u, lo, Len(u), tag)
        PROVE  Framed(w, lo, Len(w), tag)
    <3>1. lo < Len(w) /\ MarkAt(w, lo + 1, tag)
      BY <1>1, <2>1 DEF Framed, MarkAt, Agree
    <3>2. NoMark(w, lo + 1, Len(w), tag)
      BY <1>1, <1>2, <2>1 DEF Framed, NoMark, MarkAt, Plain
    <3> QED
      BY <3>1, <3>2 DEF Framed
  <2>2. TagOf(gr) = TagOf(fr)
    BY DEF TagOf
  <2> QED
    BY <2>1, <2>2 DEF Settled
<1>4. fr.k = "try" => NoCleanup(w, lo, Len(w))
  BY <1>1, <1>2 DEF Settled, NoCleanup, Plain
<1>5. fr.k = "script" =>
        Header(w, lo, Len(w)) /\ lo + 3 <= Len(w)
          /\ MarkAt(w, lo + 3, "parse_and_execute")
  BY <1>1 DEF Settled, Header, MarkAt, Agree
<1> QED
  BY <1>1, <1>3, <1>4, <1>5 DEF Settled, Sized

\* The piece of a frame that has just begun its unwind frame.
LEMMA SettledNew ==
  ASSUME NEW w \in Seq(Elem), NEW fr, NEW lo \in Nat, lo < Len(w),
         fr.k \in {"try", "call", "eval"}, ~ Sized(fr),
         MarkAt(w, lo + 1, TagOf(fr)), PlainAfter(w, lo + 1)
  PROVE  Settled(w, fr, lo, Len(w))
<1>1. Len(w) \in Nat
  BY LenProperties
<1>2. Framed(w, lo, Len(w), TagOf(fr))
  BY DEF Framed, NoMark, MarkAt, PlainAfter, Plain
<1>3. NoCleanup(w, lo, Len(w))
  <2> SUFFICES ASSUME NEW p \in lo + 1 .. Len(w)
               PROVE  w[p].e # "cleanup"
    BY DEF NoCleanup
  <2>1. p = lo + 1 \/ p \in (lo + 1) + 1 .. Len(w)
    BY <1>1
  <2> QED
    BY <2>1 DEF MarkAt, PlainAfter, Plain
<1> QED
  BY <1>1, <1>2, <1>3 DEF Settled

\* A frame that has nothing on the list.
LEMMA SettledEmpty ==
  ASSUME NEW w, NEW fr, Sized(fr), Size(fr) = 0, NEW n \in Nat,
         fr.k = "main" => n = 0
  PROVE  Settled(w, fr, n, n)
BY DEF Settled, NoCleanup

\* A frame that has so many elements.
LEMMA SettledSized ==
  ASSUME NEW w, NEW fr, Sized(fr), NEW n \in Nat, NEW m \in Nat, m = n + Size(fr),
         NoCleanup(w, n, m) \/ fr.k \notin {"try", "catch", "cleanup"},
         Size(fr) \in Nat, fr.k # "main"
  PROVE  Settled(w, fr, n, m)
BY DEF Settled

-----------------------------------------------------------------------------
(***************************************************************************)
(* Changes of the stack                                                    *)
(***************************************************************************)

\* The frame that runs goes to pc; t is the stack after it.
Goes(t, pc) ==
  /\ Replaced(cs, t, Depth)
  /\ t[Depth].k = Running.k /\ t[Depth].pc = pc /\ t[Depth].base = Running.base

LEMMA GoesTo ==
  ASSUME StackOK, NEW fr \in Frame, fr.k = Running.k, fr.base = Running.base,
         Inside(Running) => fr.pc \in InScript
  PROVE  /\ Top(fr) \in Seq(Frame) /\ Len(Top(fr)) = Depth /\ Goes(Top(fr), fr.pc)
         /\ \A x \in Frame : /\ Append(Top(fr), x) \in Seq(Frame)
                             /\ Len(Append(Top(fr), x)) = Depth + 1
                             /\ Goes(Append(Top(fr), x), fr.pc)
                             /\ Append(Top(fr), x)[Depth + 1] = x
<1> DEFINE t == Top(fr)
<1>1. Depth \in Nat \ {0} /\ Depth \in 1 .. Len(cs) /\ Len(cs) = Depth
  BY RunningFrame
<1>2. /\ t \in Seq(Frame)
      /\ Len(t) = Depth
      /\ \A j \in 1 .. Len(cs) : t[j] = IF j = Depth THEN fr ELSE cs[j]
  BY <1>1, ExceptSeq DEF StackOK, Top, Depth
<1> HIDE DEF t
<1>3. t[Depth] = fr /\ Same(cs, t, Depth - 1)
  BY <1>1, <1>2 DEF Same
<1>4. /\ fr.base = cs[Depth].base /\ (IsRun(fr) <=> IsRun(cs[Depth]))
      /\ Inside(cs[Depth]) => Inside(fr)
  BY DEF Running, IsRun, Inside
<1>5. Goes(t, fr.pc)
  BY <1>3, <1>4 DEF Goes, Replaced
<1>6. ASSUME NEW x \in Frame
      PROVE  /\ Append(t, x) \in Seq(Frame) /\ Len(Append(t, x)) = Depth + 1
             /\ Goes(Append(t, x), fr.pc)
             /\ Append(t, x)[Depth + 1] = x
  <2> DEFINE a == Append(t, x)
  <2>1. /\ a \in Seq(Frame) /\ Len(a) = Depth + 1 /\ a[Depth + 1] = x
        /\ \A j \in 1 .. Depth : a[j] = t[j]
    BY <1>2, AppendProperties
  <2> HIDE DEF a
  <2>2. a[Depth] = fr /\ Same(cs, a, Depth - 1)
    BY <1>1, <1>3, <2>1 DEF Same
  <2>3. Goes(a, fr.pc)
    BY <1>4, <2>2 DEF Goes, Replaced
  <2> QED
    BY <2>1, <2>3 DEF a
<1> QED
  BY <1>2, <1>5, <1>6 DEF t

\* The stack of the next state: the running frame at pc, and what it calls.
Went(pc) == Len(cs') = Depth /\ Goes(cs', pc)
WentCalling(pc, x) ==
  Len(cs') = Depth + 1 /\ Goes(cs', pc) /\ cs'[Depth + 1] = x

LEMMA Goings ==
  ASSUME StackOK, NEW pc \in Pcs, Inside(Running) => pc \in InScript
  PROVE  /\ Goto(pc) => Went(pc)
         /\ \A x \in Frame : Call(x, pc) => WentCalling(pc, x)
         /\ Running.n > 0 => /\ cs' = Counted(pc) => Went(pc)
                             /\ \A x \in Frame :
                                  cs' = Append(Counted(pc), x) => WentCalling(pc, x)
         /\ \A b \in BOOLEAN, x \in Frame :
              cs' = Append(Top([Running EXCEPT !.pc = pc, !.flag = b]), x)
                => WentCalling(pc, x)
<1>1. Running \in Frame
  BY RunningFrame
<1>2. ASSUME NEW fr \in Frame, fr.k = Running.k, fr.base = Running.base, fr.pc = pc
      PROVE  /\ cs' = Top(fr) => Went(pc)
             /\ \A x \in Frame : cs' = Append(Top(fr), x) => WentCalling(pc, x)
  BY <1>2, GoesTo DEF Went, WentCalling
<1>3. [Running EXCEPT !.pc = pc] \in Frame
  BY <1>1 DEF Frame
<1>4. \A b \in BOOLEAN : [Running EXCEPT !.pc = pc, !.flag = b] \in Frame
  BY <1>1 DEF Frame
<1>5. ASSUME Running.n > 0
      PROVE  [Running EXCEPT !.pc = pc, !.n = @ - 1] \in Frame
  <2>1. Running.n \in Nat
    BY <1>1 DEF Frame
  <2>2. Running.n - 1 \in Nat
    BY <1>5, <2>1
  <2>3. Running.k = "try" => Running.n - 1 \in Levels("buf")
    BY <1>1, <1>5 DEF Frame, Levels
  <2> QED
    BY <1>1, <2>2, <2>3 DEF Frame
<1>6. /\ Goto(pc) => Went(pc)
      /\ \A x \in Frame : Call(x, pc) => WentCalling(pc, x)
  <2> DEFINE fr == [Running EXCEPT !.pc = pc]
  <2>1. fr \in Frame /\ fr.k = Running.k /\ fr.base = Running.base /\ fr.pc = pc
    BY <1>1, <1>3 DEF Frame
  <2>2. /\ Goto(pc) => cs' = Top(fr)
        /\ \A x : Call(x, pc) => cs' = Append(Top(fr), x)
    BY DEF Goto, Call
  <2> HIDE DEF fr
  <2> QED
    BY <1>2, <2>1, <2>2
<1>7. ASSUME NEW b \in BOOLEAN, NEW x \in Frame,
             cs' = Append(Top([Running EXCEPT !.pc = pc, !.flag = b]), x)
      PROVE  WentCalling(pc, x)
  <2> DEFINE fr == [Running EXCEPT !.pc = pc, !.flag = b]
  <2>1. fr \in Frame /\ fr.k = Running.k /\ fr.base = Running.base /\ fr.pc = pc
    BY <1>1, <1>4, Zenon DEF Frame
  <2>2. cs' = Append(Top(fr), x)
    BY <1>7
  <2> HIDE DEF fr
  <2> QED
    BY <1>2, <2>1, <2>2
<1>8. ASSUME Running.n > 0
      PROVE  /\ cs' = Counted(pc) => Went(pc)
             /\ \A x \in Frame :
                  cs' = Append(Counted(pc), x) => WentCalling(pc, x)
  <2> DEFINE fr == [Running EXCEPT !.pc = pc, !.n = @ - 1]
  <2>1. fr \in Frame /\ fr.k = Running.k /\ fr.base = Running.base /\ fr.pc = pc
    BY <1>1, <1>5, <1>8 DEF Frame
  <2>2. Counted(pc) = Top(fr)
    BY DEF Counted
  <2> HIDE DEF fr
  <2> QED
    BY <1>2, <2>1, <2>2
<1> QED
  BY <1>6, <1>7, <1>8, Zenon

\* The running frame and its piece, if it is not a run.
LEMMA Here ==
  ASSUME TypeOK, Layout(cs, ul), ~ IsRun(Running)
  PROVE  /\ Depth \in Nat /\ Depth > 0 /\ Depth = Len(cs) /\ Running = cs[Depth]
         /\ cs \in Seq(Frame) /\ ul \in Seq(Elem)
         /\ Running.base \in Nat /\ Len(ul) \in Nat /\ Running.base <= Len(ul)
         /\ Settled(ul, Running, Running.base, Len(ul))
<1>1. /\ Depth \in Nat /\ Depth > 0 /\ Depth = Len(cs) /\ Running = cs[Depth]
      /\ cs \in Seq(Frame) /\ ul \in Seq(Elem)
  BY RunningFrame DEF TypeOK, StackOK, UnwindOK, Running
<1>2. /\ Running.base \in Nat /\ Len(ul) \in Nat /\ Running.base <= Len(ul)
      /\ Placed(cs, ul, Depth)
  BY <1>1, BasesBelow
<1>3. Settled(ul, Running, Running.base, Len(ul))
  BY <1>1, <1>2 DEF Placed, Upper
<1> QED
  BY <1>1, <1>2, <1>3

LEMMA StaysHere ==
  ASSUME TypeOK, TypeOK', Layout(cs, ul), ~ IsRun(Running), NEW pc, Went(pc),
         Changed(ul, ul', Running.base),
         Settled(ul', cs'[Depth], Running.base, Len(ul'))
  PROVE  Layout(cs', ul')
<1>1. cs' \in Seq(Frame) /\ ul' \in Seq(Elem)
  BY DEF TypeOK, StackOK, UnwindOK
<1>2. Replaced(cs, cs', Depth) /\ Len(cs') = Depth
  BY DEF Went, Goes
<1> QED
  BY <1>1, <1>2, Here, Moved

LEMMA CallsHere ==
  ASSUME TypeOK, TypeOK', Layout(cs, ul), ~ IsRun(Running), NEW pc, pc # "leave",
         NEW x, WentCalling(pc, x), ~ IsRun(x), x.base \in Nat,
         Changed(ul, ul', Running.base),
         Settled(ul', cs'[Depth], Running.base, x.base),
         Settled(ul', x, x.base, Len(ul'))
  PROVE  Layout(cs', ul')
<1>1. cs' \in Seq(Frame) /\ ul' \in Seq(Elem)
  BY DEF TypeOK, StackOK, UnwindOK
<1>2. /\ Replaced(cs, cs', Depth) /\ Len(cs') = Depth + 1 /\ cs'[Depth].pc # "leave"
      /\ cs'[Depth + 1] = x
  BY DEF WentCalling, Goes
<1> QED
  BY <1>1, <1>2, Here, Called

LEMMA RunsHere ==
  ASSUME TypeOK, TypeOK', Layout(cs, ul), ~ IsRun(Running), NEW pc,
         NEW tag, WentCalling(pc, RunOf(tag)), Changed(ul, ul', Running.base),
         Pending(ul', cs'[Depth], RunOf(tag), Running.base, Len(ul'))
  PROVE  Layout(cs', ul')
<1>1. cs' \in Seq(Frame) /\ ul' \in Seq(Elem)
  BY DEF TypeOK, StackOK, UnwindOK
<1>2. /\ Replaced(cs, cs', Depth) /\ Len(cs') = Depth + 1
      /\ cs'[Depth + 1] = RunOf(tag)
  BY DEF WentCalling, Goes
<1>3. IsRun(RunOf(tag)) /\ RunOf(tag).pc = "pop"
  BY DEF RunOf, FrameOf, IsRun
<1> QED
  BY <1>1, <1>2, <1>3, Here, CalledRun

LEMMA ReturnsHere ==
  ASSUME TypeOK, TypeOK', Layout(cs, ul), ~ IsRun(Running), Running.k # "main",
         ~ Inside(Running), Return, Grown(ul, ul'), Agree(ul, ul', Running.base),
         Len(ul') = Running.base
  PROVE  Layout(cs', ul')
<1>1. cs' \in Seq(Frame) /\ ul' \in Seq(Elem)
  BY DEF TypeOK, StackOK, UnwindOK
<1>2. Depth > 1
  BY Here DEF TypeOK, StackOK, Running
<1>3. Len(cs') = Depth - 1 /\ Same(cs, cs', Depth - 1)
  <2>1. Depth - 1 \in Nat /\ Depth - 1 <= Len(cs) /\ Len(cs) = Depth
    BY <1>2, Here
  <2>2. \A i \in 1 .. Depth - 1 : cs[i] \in Frame
    BY <2>1, StackFacts, Here
  <2> QED
    BY <2>1, <2>2, SubSeqProperties DEF Return, Same
<1> QED
  BY <1>1, <1>2, <1>3, Here, Returned

-----------------------------------------------------------------------------
\* The frames that have nothing on the list.
Idle(k, pc) ==
  \/ /\ k \in {"list", "while", "for"}
     /\ pc \in {"enter", "next", "check", "test", "after", "assign"}
  \/ k = "unw" /\ pc = "cleaned"
  \/ k \in {"catch", "cleanup"} /\ pc = "protect"
  \/ k # "run" /\ pc \in {"begin", "caught", "done", "read", "eval", "quit"}

LEMMA IdleEmpty ==
  ASSUME NEW fr, Idle(fr.k, fr.pc)
  PROVE  Sized(fr) /\ Size(fr) = 0 /\ ~ IsRun(fr) /\ ~ Inside(fr)
BY DEF Idle, Sized, Size, IsRun, Inside, InScript

LEMMA IdleHere ==
  ASSUME TypeOK, Layout(cs, ul), Idle(Running.k, Running.pc)
  PROVE  /\ Running.base = Len(ul) /\ ~ IsRun(Running) /\ ~ Inside(Running)
         /\ Changed(ul, ul, Running.base) /\ Agree(ul, ul, Running.base)
         /\ Grown(ul, ul)
<1>1. Sized(Running) /\ Size(Running) = 0 /\ ~ IsRun(Running) /\ ~ Inside(Running)
  BY IdleEmpty
<1>2. Running.base = Len(ul) /\ Running.base \in Nat /\ ul \in Seq(Elem)
  BY <1>1, Here DEF Settled
<1> QED
  BY <1>1, <1>2, Unchanged DEF Changed

\* A step between two idle positions, with or without a call of an idle frame.
LEMMA IdleSteps ==
  ASSUME TypeOK, TypeOK', Layout(cs, ul), ul' = ul,
         Idle(Running.k, Running.pc), NEW pc, Idle(Running.k, pc)
  PROVE  /\ Went(pc) => Layout(cs', ul')
         /\ \A x : /\ WentCalling(pc, x) /\ Idle(x.k, x.pc) /\ x.k # "main"
                   /\ x.base = Len(ul)
                => Layout(cs', ul')
<1>1. /\ Running.base = Len(ul) /\ ~ IsRun(Running) /\ Changed(ul, ul, Running.base)
      /\ Running.base \in Nat
  BY IdleHere, Here
<1>2. ASSUME Goes(cs', pc)
      PROVE  Settled(ul, cs'[Depth], Running.base, Len(ul))
  <2>1. Sized(cs'[Depth]) /\ Size(cs'[Depth]) = 0
    BY <1>2, IdleEmpty DEF Goes
  <2>2. cs'[Depth].k = "main" => Len(ul) = 0
    BY <1>1, <1>2, Here DEF Goes, Settled
  <2> QED
    BY <1>1, <2>1, <2>2, SettledEmpty
<1>3. ASSUME Went(pc)
      PROVE  Layout(cs', ul')
  BY <1>1, <1>2, <1>3, StaysHere DEF Went
<1>4. ASSUME NEW x, WentCalling(pc, x), Idle(x.k, x.pc), x.k # "main",
             x.base = Len(ul)
      PROVE  Layout(cs', ul')
  <2>1. Sized(x) /\ Size(x) = 0 /\ ~ IsRun(x)
    BY <1>4, IdleEmpty
  <2>2. Settled(ul, x, x.base, Len(ul))
    BY <1>1, <1>4, <2>1, SettledEmpty
  <2>3. pc # "leave"
    BY DEF Idle
  <2> QED
    BY <1>1, <1>2, <1>4, <2>1, <2>2, <2>3, CallsHere DEF WentCalling
<1> QED
  BY <1>3, <1>4

LEMMA IdleReturns ==
  ASSUME TypeOK, TypeOK', Layout(cs, ul), ul' = ul, Return,
         Idle(Running.k, Running.pc), Running.k # "main"
  PROVE  Layout(cs', ul')
BY IdleHere, ReturnsHere

LEMMA NewFrames ==
  /\ \A k, pc : /\ FrameOf(k, pc).k = k /\ FrameOf(k, pc).pc = pc
                /\ FrameOf(k, pc).base = Len(ul)
  /\ \A tag : RunOf(tag).k = "run" /\ RunOf(tag).pc = "pop" /\ RunOf(tag).tag = tag
BY DEF FrameOf, RunOf

-----------------------------------------------------------------------------
(***************************************************************************)
(* The actions                                                             *)
(***************************************************************************)

LEMMA MainLayout ==
  ASSUME TypeOK, TypeOK', Layout(cs, ul), MainRead \/ MainEval \/ MainJumped
  PROVE  Layout(cs', ul')
<1>1. StackOK /\ UnwindOK
  BY DEF TypeOK
<1>2. CASE MainRead
  <2>1. PICK n \in 1 .. MaxList : Call(ListOf("cmd", n, FALSE, FALSE), "eval")
    BY <1>2 DEF MainRead
  <2>2. Running.k = "main" /\ Running.pc = "read" /\ ul' = ul /\ ~ Inside(Running)
    BY <1>2 DEF MainRead, At, Inside
  <2> DEFINE x == ListOf("cmd", n, FALSE, FALSE)
  <2>3. x \in Frame /\ x.k = "list" /\ x.pc = "enter" /\ x.base = Len(ul)
    <3>1. x \in Frame
      BY <1>1, CallListGood DEF Roles, Pcs
    <3> QED
      BY <3>1 DEF ListOf, FrameOf
  <2>4. Call(x, "eval")
    BY <2>1
  <2> HIDE DEF x
  <2>5. WentCalling("eval", x)
    BY <1>1, <2>2, <2>3, <2>4, Goings, Zenon DEF Pcs
  <2>6. Idle(Running.k, Running.pc) /\ Idle(Running.k, "eval") /\ Idle(x.k, x.pc)
    BY <2>2, <2>3 DEF Idle
  <2> QED
    BY <2>2, <2>3, <2>5, <2>6, IdleSteps
<1>3. CASE MainEval
  <2>1. Running.k = "main" /\ Running.pc = "eval" /\ ul' = ul /\ ~ Inside(Running)
    BY <1>3 DEF MainEval, At, Inside
  <2>2. Went("read") \/ Went("quit")
    BY <1>1, <1>3, <2>1, Goings, Zenon DEF MainEval, Pcs
  <2> QED
    BY <2>1, <2>2, IdleSteps DEF Idle
<1>4. CASE MainJumped
  <2>1. /\ Running.k = "main" /\ Running.pc = "jumped" /\ ul' = ul
        /\ ~ Inside(Running) /\ ~ IsRun(Running) /\ Call(RunOf("all"), "read")
    BY <1>4 DEF MainJumped, At, Inside, IsRun
  <2>2. WentCalling("read", RunOf("all"))
    BY <1>1, <2>1, FrameTypes, Goings, Zenon DEF Pcs, Tags
  <2>3. Running.base = 0
    BY <2>1, Here DEF Settled
  <2>4. Pending(ul', cs'[Depth], RunOf("all"), Running.base, Len(ul'))
    BY <2>1, <2>2, <2>3, NewFrames DEF Pending, WentCalling, Goes
  <2>5. Changed(ul, ul, Running.base)
    BY <2>1, Here, Unchanged
  <2> QED
    BY <2>1, <2>2, <2>4, <2>5, RunsHere
<1> QED
  BY <1>2, <1>3, <1>4

LEMMA ListLayout ==
  ASSUME TypeOK, TypeOK', Layout(cs, ul), ListEnd \/ ListNext
  PROVE  Layout(cs', ul')
<1>1. StackOK /\ UnwindOK
  BY DEF TypeOK
<1>2. CASE ListEnd
  <2>1. /\ Running.k = "list" /\ Idle(Running.k, Running.pc) /\ Running.k # "main"
        /\ ul' = ul /\ Return
    BY <1>2 DEF ListEnd, Idle
  <2> QED
    BY <2>1, IdleReturns
<1>3. CASE ListNext
  <2>1. /\ Running.k = "list" /\ Idle(Running.k, Running.pc) /\ Idle(Running.k, "next")
        /\ ul' = ul /\ Goto("next") /\ ~ Inside(Running)
    BY <1>3 DEF ListNext, At, Idle, Inside
  <2>2. Went("next")
    BY <1>1, <2>1, Goings, Zenon DEF Pcs
  <2> QED
    BY <2>1, <2>2, IdleSteps
<1> QED
  BY <1>2, <1>3

LEMMA LoopLayout ==
  ASSUME TypeOK, TypeOK', Layout(cs, ul), Loops
  PROVE  Layout(cs', ul')
<1>1. StackOK /\ UnwindOK
  BY DEF TypeOK
<1>2. /\ Running.k \in {"while", "for"} /\ Idle(Running.k, Running.pc) /\ ul' = ul
      /\ ~ Inside(Running)
      /\ \A pc \in {"test", "after", "assign"} : Idle(Running.k, pc)
  BY DEF Loops, WhileTrue, WhileFalse, WhileFails, LoopAfter, ForNext,
         ForAssignFails, ForEnd, At, Idle, Inside
<1>3. ASSUME Return
      PROVE  Layout(cs', ul')
  BY <1>2, <1>3, IdleReturns
<1>4. ASSUME WhileTrue \/ ForNext
      PROVE  Layout(cs', ul')
  <2>1. PICK n \in 1 .. MaxList :
          cs' = Append(Counted("after"), ListOf("plain", n, TRUE, TRUE))
    BY <1>4 DEF WhileTrue, ForNext
  <2> DEFINE x == ListOf("plain", n, TRUE, TRUE)
  <2>2. x \in Frame /\ x.k = "list" /\ x.pc = "enter" /\ x.base = Len(ul)
    <3>1. x \in Frame
      BY <1>1, CallListGood DEF Roles, Pcs
    <3> QED
      BY <3>1 DEF ListOf, FrameOf
  <2>3. cs' = Append(Counted("after"), x) /\ Running.n > 0
    BY <1>4, <2>1 DEF WhileTrue, ForNext
  <2> HIDE DEF x
  <2>4. WentCalling("after", x)
    BY <1>1, <1>2, <2>2, <2>3, Goings, Zenon DEF Pcs
  <2>5. Idle(x.k, x.pc)
    BY <2>2 DEF Idle
  <2> QED
    BY <1>2, <2>2, <2>4, <2>5, IdleSteps
<1>5. ASSUME ForAssignFails
      PROVE  Layout(cs', ul')
  <2>1. Went("assign")
    BY <1>1, <1>2, <1>5, Goings, Zenon DEF ForAssignFails, Pcs
  <2> QED
    BY <1>2, <2>1, IdleSteps
<1>6. ASSUME LoopAfter
      PROVE  Layout(cs', ul')
  <2>1. Return \/ Goto("test") \/ Goto("assign")
    BY <1>6 DEF LoopAfter
  <2>2. Return \/ Went("test") \/ Went("assign")
    BY <1>1, <1>2, <2>1, Goings, Zenon DEF Pcs
  <2> QED
    BY <1>2, <1>3, <2>2, IdleSteps
<1> QED
  BY <1>3, <1>4, <1>5, <1>6 DEF Loops, WhileFalse, WhileFails, ForEnd

\* Where a statement begins.
LEMMA StatementHere ==
  ASSUME TypeOK, Layout(cs, ul), AtStatement
  PROVE  /\ StackOK /\ UnwindOK /\ ul \in Seq(Elem) /\ Len(ul) \in Nat
         /\ Running.k = "list" /\ Running.n > 0 /\ ~ Inside(Running)
         /\ Idle(Running.k, Running.pc) /\ Idle(Running.k, "check")
         /\ ~ IsRun(Running) /\ Running.base = Len(ul)
         /\ cs' = Stepped => Went("check")
         /\ \A x \in Frame : cs' = Append(Stepped, x) => WentCalling("check", x)
<1>1. StackOK /\ UnwindOK
  BY DEF TypeOK
<1>2. /\ Running.k = "list" /\ Running.n > 0 /\ ~ Inside(Running)
      /\ Idle(Running.k, Running.pc) /\ Idle(Running.k, "check")
  BY DEF AtStatement, Idle, Inside
<1>3. /\ cs' = Stepped => Went("check")
      /\ \A x \in Frame : cs' = Append(Stepped, x) => WentCalling("check", x)
  BY <1>1, <1>2, Goings, Zenon DEF Stepped, Pcs
<1>4. ~ IsRun(Running) /\ Running.base = Len(ul) /\ ul \in Seq(Elem) /\ Len(ul) \in Nat
  BY <1>2, IdleHere, Here
<1> QED
  BY <1>1, <1>2, <1>3, <1>4

LEMMA PlainStatementLayout ==
  ASSUME TypeOK, TypeOK', Layout(cs, ul), AtStatement,
         \/ Simple \/ Warn
         \/ \E e \in {1, -1, -2} : Raise(e)
         \/ \E v \in {"brk", "cont", "ret"} : SetJump(v)
  PROVE  Layout(cs', ul')
<1>1. cs' = Stepped /\ ul' = ul
  BY DEF Simple, Warn, Raise, SetJump
<1>2. Went("check") /\ Idle(Running.k, Running.pc) /\ Idle(Running.k, "check")
  BY <1>1, StatementHere
<1> QED
  BY <1>1, <1>2, IdleSteps

LEMMA CallingStatementLayout ==
  ASSUME TypeOK, TypeOK', Layout(cs, ul), AtStatement,
         \/ While \/ For \/ If \/ Source
         \/ \E f \in Fn : CallFunction(f)
  PROVE  Layout(cs', ul')
<1>1. ul' = ul
  BY DEF While, For, If, Source, CallFunction
<1>2. ASSUME NEW x \in Frame, cs' = Append(Stepped, x), Idle(x.k, x.pc),
             x.k # "main", x.base = Len(ul)
      PROVE  Layout(cs', ul')
  <2>1. /\ WentCalling("check", x)
        /\ Idle(Running.k, Running.pc) /\ Idle(Running.k, "check")
    BY <1>2, StatementHere
  <2> QED
    BY <1>1, <1>2, <2>1, IdleSteps
<1>3. \A k \in {"while", "for", "script"}, pc \in {"test", "assign", "begin"}, n \in Nat :
        LET x == [FrameOf(k, pc) EXCEPT !.n = n]
        IN x \in Frame /\ x.k = k /\ x.pc = pc /\ x.base = Len(ul)
  <2> SUFFICES ASSUME NEW k \in {"while", "for", "script"},
                      NEW pc \in {"test", "assign", "begin"}, NEW n \in Nat
               PROVE  LET x == [FrameOf(k, pc) EXCEPT !.n = n]
                      IN x \in Frame /\ x.k = k /\ x.pc = pc /\ x.base = Len(ul)
    OBVIOUS
  <2>1. FrameOf(k, pc) \in Frame
    BY StatementHere, FrameTypes DEF FrameKinds, Pcs
  <2> QED
    BY <2>1, NewFrames DEF Frame
<1>4. CASE While
  <2> DEFINE x == [FrameOf("while", "test") EXCEPT !.n = MaxIter]
  <2>1. x \in Frame /\ x.k = "while" /\ x.pc = "test" /\ x.base = Len(ul)
    BY <1>3, BoundAssumption
  <2>2. cs' = Append(Stepped, x)
    BY <1>4 DEF While
  <2> HIDE DEF x
  <2>3. Idle(x.k, x.pc)
    BY <2>1 DEF Idle
  <2> QED
    BY <1>2, <2>1, <2>2, <2>3
<1>5. CASE For
  <2>1. PICK n \in 0 .. MaxIter :
          cs' = Append(Stepped, [FrameOf("for", "assign") EXCEPT !.n = n])
    BY <1>5 DEF For
  <2> DEFINE x == [FrameOf("for", "assign") EXCEPT !.n = n]
  <2>2. n \in Nat
    BY BoundAssumption
  <2>3. x \in Frame /\ x.k = "for" /\ x.pc = "assign" /\ x.base = Len(ul)
    BY <1>3, <2>2
  <2>4. cs' = Append(Stepped, x)
    BY <2>1
  <2> HIDE DEF x
  <2>5. Idle(x.k, x.pc)
    BY <2>3 DEF Idle
  <2> QED
    BY <1>2, <2>3, <2>4, <2>5
<1>6. CASE Source
  <2>1. PICK n \in 1 .. MaxList :
          cs' = Append(Stepped, [FrameOf("script", "begin") EXCEPT !.n = n])
    BY <1>6 DEF Source
  <2> DEFINE x == [FrameOf("script", "begin") EXCEPT !.n = n]
  <2>2. n \in Nat
    BY BoundAssumption
  <2>3. x \in Frame /\ x.k = "script" /\ x.pc = "begin" /\ x.base = Len(ul)
    BY <1>3, <2>2
  <2>4. cs' = Append(Stepped, x)
    BY <2>1
  <2> HIDE DEF x
  <2>5. Idle(x.k, x.pc)
    BY <2>3 DEF Idle
  <2> QED
    BY <1>2, <2>3, <2>4, <2>5
<1>7. CASE If
  <2>1. PICK n \in 1 .. MaxList :
          cs' = Append(Stepped, ListOf("plain", n, Running.brk, Running.cont))
    BY <1>7 DEF If
  <2> DEFINE x == ListOf("plain", n, Running.brk, Running.cont)
  <2>2. x \in Frame /\ x.k = "list" /\ x.pc = "enter" /\ x.base = Len(ul)
    <3>1. x \in Frame
      BY StatementHere, SteppedGood, CallListGood DEF Roles, Pcs
    <3> QED
      BY <3>1 DEF ListOf, FrameOf
  <2>3. cs' = Append(Stepped, x)
    BY <2>1
  <2> HIDE DEF x
  <2>4. Idle(x.k, x.pc)
    BY <2>2 DEF Idle
  <2> QED
    BY <1>2, <2>2, <2>3, <2>4
<1>8. ASSUME NEW f \in Fn, CallFunction(f)
      PROVE  Layout(cs', ul')
  <2> DEFINE x == [FrameOf("call", "begin") EXCEPT !.f = f]
  <2>1. x \in Frame /\ x.k = "call" /\ x.pc = "begin" /\ x.base = Len(ul)
    <3>1. x \in Frame
      BY StatementHere, FrameTypes DEF Pcs
    <3> QED
      BY <3>1 DEF FrameOf
  <2>2. cs' = Append(Stepped, x)
    BY <1>8 DEF CallFunction
  <2> HIDE DEF x
  <2>3. Idle(x.k, x.pc)
    BY <2>1 DEF Idle
  <2> QED
    BY <1>2, <2>1, <2>2, <2>3
<1> QED
  BY <1>4, <1>5, <1>6, <1>7, <1>8

\* A mark, some elements and some more are pushed.
LEMMA MarkPushed ==
  ASSUME NEW u \in Seq(Elem), NEW t \in Seq(Elem), NEW w \in Seq(Elem),
         NEW v, NEW z, Longer(u, t, v), Longer(t, w, z),
         Len(v) \in Nat \ {0}, Len(z) \in Nat,
         NEW m, v[1] = m, m.e = "mark", Fresh(m),
         \A q \in 2 .. Len(v) : Plain(v[q]), \A q \in 1 .. Len(z) : Plain(z[q])
  PROVE  /\ Changed(u, w, Len(u)) /\ Len(u) < Len(w)
         /\ MarkAt(w, Len(u) + 1, m.tag) /\ PlainAfter(w, Len(u) + 1)
<1>1. Len(u) \in Nat /\ Len(t) \in Nat /\ Len(w) \in Nat
  BY LenProperties
<1>2. Len(t) = Len(u) + Len(v) /\ Len(w) = Len(t) + Len(z)
  BY DEF Longer
<1>3. ASSUME NEW p \in 1 .. Len(w)
      PROVE  \/ p <= Len(u) /\ w[p] = u[p]
             \/ p = Len(u) + 1 /\ w[p] = m
             \/ p > Len(u) + 1 /\ Plain(w[p])
  <2>1. CASE p <= Len(u)
    BY <1>1, <1>2, <2>1 DEF Longer, Agree
  <2>2. CASE p > Len(u) /\ p <= Len(t)
    <3>1. p - Len(u) \in 1 .. Len(v) /\ Len(u) + (p - Len(u)) = p /\ p \in 1 .. Len(t)
      BY <1>1, <1>2, <2>2
    <3>2. w[p] = v[p - Len(u)]
      BY <3>1 DEF Longer, Agree
    <3>3. p = Len(u) + 1 => p - Len(u) = 1
      BY <1>1
    <3>4. p # Len(u) + 1 => p > Len(u) + 1 /\ p - Len(u) \in 2 .. Len(v)
      BY <1>1, <2>2, <3>1
    <3> QED
      BY <3>2, <3>3, <3>4
  <2>3. CASE p > Len(t)
    <3>1. p - Len(t) \in 1 .. Len(z) /\ Len(t) + (p - Len(t)) = p /\ p > Len(u) + 1
      BY <1>1, <1>2, <2>3
    <3>2. w[p] = z[p - Len(t)]
      BY <3>1 DEF Longer
    <3> QED
      BY <3>1, <3>2
  <2> QED
    BY <1>1, <2>1, <2>2, <2>3
<1>4. Grown(u, w)
  <2>1. \A el : Plain(el) => Fresh(el)
    BY DEF Plain, Fresh
  <2> QED
    BY <1>3, <2>1 DEF Grown
<1>5. Agree(u, w, Len(u)) /\ Len(u) < Len(w)
  BY <1>1, <1>2, <1>3 DEF Agree
<1>6. MarkAt(w, Len(u) + 1, m.tag)
  <2>1. Len(u) + 1 \in 1 .. Len(w)
    BY <1>1, <1>5
  <2> QED
    BY <1>1, <1>3, <2>1 DEF MarkAt
<1>7. PlainAfter(w, Len(u) + 1)
  <2> SUFFICES ASSUME NEW p \in (Len(u) + 1) + 1 .. Len(w)
               PROVE  Plain(w[p])
    BY DEF PlainAfter
  <2>1. p \in 1 .. Len(w) /\ p > Len(u) + 1
    BY <1>1
  <2>2. ~ (p <= Len(u)) /\ p # Len(u) + 1
    BY <1>1, <2>1
  <2> QED
    BY <1>3, <2>1, <2>2
<1> QED
  BY <1>1, <1>4, <1>5, <1>6, <1>7 DEF Changed

\* A statement that adds a frame of its own, which holds all that it has pushed.
LEMMA OpensHere ==
  ASSUME TypeOK, TypeOK', Layout(cs, ul), AtStatement, NEW a \in Frame,
         a.base = Len(ul), ~ IsRun(a), Changed(ul, ul', Len(ul)),
         Settled(ul', a, Len(ul), Len(ul'))
  PROVE  /\ Layout(Append(Stepped, a), ul')
         /\ Append(Stepped, a) \in Seq(Frame)
         /\ Len(Append(Stepped, a)) = Depth + 1
         /\ Append(Stepped, a)[Depth + 1] = a
<1>1. Running \in Frame /\ StackOK /\ UnwindOK /\ UnwindOK' /\ ul' \in Seq(Elem)
  BY RunningFrame DEF TypeOK, UnwindOK
<1>2. /\ ul \in Seq(Elem) /\ Len(ul) \in Nat /\ Running.k = "list" /\ Running.n > 0
      /\ ~ Inside(Running) /\ ~ IsRun(Running) /\ Running.base = Len(ul)
      /\ Idle(Running.k, "check")
  BY StatementHere
<1> DEFINE fr == [Running EXCEPT !.pc = "check", !.n = @ - 1]
           t == Append(Top(fr), a)
<1>3. fr \in Frame /\ fr.k = Running.k /\ fr.base = Running.base /\ fr.pc = "check"
  <2>1. Running.n - 1 \in Nat
    BY <1>1, <1>2 DEF Frame
  <2> QED
    BY <1>1, <1>2, <2>1 DEF Frame, Pcs
<1>4. Append(Stepped, a) = t
  BY DEF Stepped, Counted
<1> HIDE DEF fr
<1>5. /\ t \in Seq(Frame) /\ Len(t) = Depth + 1 /\ Goes(t, "check")
      /\ t[Depth + 1] = a
  BY <1>1, <1>2, <1>3, GoesTo
<1> HIDE DEF t
<1>6. Settled(ul', t[Depth], Running.base, Len(ul))
  <2>1. Sized(t[Depth]) /\ Size(t[Depth]) = 0 /\ t[Depth].k # "main"
    BY <1>2, <1>5, IdleEmpty DEF Goes
  <2> QED
    BY <1>2, <2>1, SettledEmpty
<1>7. Layout(t, ul')
  <2>1. Replaced(cs, t, Depth) /\ t[Depth].pc # "leave"
    BY <1>5 DEF Goes
  <2>2. /\ Depth \in Nat /\ Depth > 0 /\ Depth = Len(cs) /\ Running = cs[Depth]
        /\ cs \in Seq(Frame)
    BY <1>2, Here
  <2> QED
    BY <1>1, <1>2, <1>5, <1>6, <2>1, <2>2, Called
<1> QED
  BY <1>4, <1>5, <1>7

\* ... and a statement list on top of it.
LEMMA OpensList ==
  ASSUME TypeOK, TypeOK', Layout(cs, ul), AtStatement, NEW a \in Frame,
         a.base = Len(ul), ~ IsRun(a), a.pc # "leave", Changed(ul, ul', Len(ul)),
         Settled(ul', a, Len(ul), Len(ul')),
         NEW x \in Frame, x.k = "list", x.pc = "enter", x.base = Len(ul'),
         cs' = Stepped \o <<a, x>>
  PROVE  Layout(cs', ul')
<1> DEFINE t == Append(Stepped, a)
<1>1. Layout(t, ul') /\ t \in Seq(Frame) /\ Len(t) = Depth + 1 /\ t[Depth + 1] = a
  BY OpensHere
<1>2. Stepped \in Seq(Frame)
  BY SteppedGood DEF TypeOK, GoodStack
<1>3. cs' = Append(t, x)
  BY <1>2
<1> HIDE DEF t
<1>4. /\ cs' \in Seq(Frame) /\ Len(cs') = (Depth + 1) + 1 /\ cs'[(Depth + 1) + 1] = x
      /\ \A i \in 1 .. Depth + 1 : cs'[i] = t[i]
  <2> DEFINE y == Append(t, x)
  <2>1. /\ y \in Seq(Frame) /\ Len(y) = Len(t) + 1 /\ y[Len(t) + 1] = x
        /\ \A i \in 1 .. Len(t) : y[i] = t[i]
    BY <1>1, AppendProperties
  <2>2. cs' = y
    BY <1>3
  <2> HIDE DEF y
  <2> QED
    BY <1>1, <2>1, <2>2
<1>5. /\ Depth \in Nat /\ ul' \in Seq(Elem) /\ Len(ul') \in Nat /\ Len(ul) \in Nat
      /\ Len(ul) <= Len(ul')
  BY StatementHere, Here, LenProperties DEF TypeOK, UnwindOK, Settled
<1>6. Replaced(t, cs', Depth + 1) /\ cs'[Depth + 1] = a
  <2>1. Depth + 1 \in 1 .. Depth + 1 /\ (Depth + 1) - 1 = Depth
    BY <1>5
  <2>2. \A i \in 1 .. Depth : cs'[i] = t[i]
    BY <1>4, <1>5
  <2> QED
    BY <1>1, <1>4, <2>1, <2>2 DEF Replaced, Same
<1>7. Settled(ul', x, Len(ul'), Len(ul'))
  <2>1. Sized(x) /\ Size(x) = 0
    BY IdleEmpty DEF Idle
  <2> QED
    BY <1>5, <2>1, SettledEmpty
<1>8. Changed(ul', ul', Len(ul))
  BY <1>5, Unchanged
<1>9. Depth + 1 > 0 /\ ~ IsRun(x)
  BY <1>5 DEF IsRun
<1> QED
  BY <1>1, <1>4, <1>5, <1>6, <1>7, <1>8, <1>9, Called, ZenonT(40)

LEMMA UnwindProtectLayout ==
  ASSUME TypeOK, TypeOK', Layout(cs, ul), AtStatement, UnwindProtect
  PROVE  Layout(cs', ul')
<1>1. /\ StackOK /\ UnwindOK /\ ul \in Seq(Elem) /\ Len(ul) \in Nat
      /\ ul' \in Seq(Elem) /\ Running.brk \in BOOLEAN /\ Running.cont \in BOOLEAN
  BY StatementHere, SteppedGood DEF TypeOK, UnwindOK
<1>2. PICK n \in 1 .. MaxList :
        cs' = Stepped \o
             <<FrameOf("unw", "body"),
               [ListOf("protected", n, Running.brk, Running.cont)
                  EXCEPT !.base = Len(ul')]>>
  BY DEF UnwindProtect
<1> DEFINE a == FrameOf("unw", "body")
           x == [ListOf("protected", n, Running.brk, Running.cont)
                   EXCEPT !.base = Len(ul')]
           c == [ElemOf("cleanup", NoFn) EXCEPT !.brk = Running.brk,
                                                !.cont = Running.cont]
<1>3. a \in Frame /\ a.k = "unw" /\ a.pc = "body" /\ a.base = Len(ul)
  BY <1>1, FrameTypes, NewFrames DEF FrameKinds, Pcs
<1>4. x \in Frame /\ x.k = "list" /\ x.pc = "enter" /\ x.base = Len(ul')
  <2>1. ListOf("protected", n, Running.brk, Running.cont) \in Frame
    BY <1>1, CallListGood DEF Roles, Pcs
  <2>2. x \in Frame
    BY <1>1, <2>1, Rebased
  <2> QED
    BY <2>1, <2>2 DEF ListOf, FrameOf
<1>5. c \in Elem /\ c.e = "cleanup"
  <2>1. ElemOf("cleanup", NoFn) \in Elem /\ ElemOf("cleanup", NoFn).e = "cleanup"
    BY ElemTypes, Kinds DEF TypeOK, ElemKinds, FnElems
  <2> QED
    BY <1>1, <2>1 DEF Elem
<1>6. cs' = Stepped \o <<a, x>> /\ ul' = Append(ul, c)
  BY <1>2 DEF UnwindProtect
<1> HIDE DEF a, x, c
<1>7. Changed(ul, ul', Len(ul)) /\ Len(ul') = Len(ul) + 1
  <2>1. Longer(ul, ul', <<c>>)
    BY <1>1, <1>5, <1>6, Pushed
  <2>2. Len(<<c>>) = 1 /\ \A q \in 1 .. Len(<<c>>) : Fresh(<<c>>[q])
    BY <1>5, FreshKinds
  <2>3. Len(<<c>>) \in Nat /\ Len(ul) <= Len(ul)
    BY <1>1, <2>2
  <2>4. Changed(ul, ul', Len(ul))
    BY <1>1, <2>1, <2>2, <2>3, PushedChange
  <2> QED
    BY <2>1, <2>2, <2>4 DEF Longer
<1>8. Settled(ul', a, Len(ul), Len(ul')) /\ ~ IsRun(a) /\ a.pc # "leave"
  <2>1. Sized(a) /\ Size(a) = 1 /\ ~ IsRun(a)
    BY <1>3 DEF Sized, Size, IsRun
  <2> QED
    BY <1>1, <1>3, <1>7, <2>1, SettledSized
<1> QED
  BY <1>3, <1>4, <1>6, <1>7, <1>8, OpensList

LEMMA EvalStatementLayout ==
  ASSUME TypeOK, TypeOK', Layout(cs, ul), AtStatement, NEW hasCatch \in BOOLEAN,
         Eval(hasCatch)
  PROVE  Layout(cs', ul')
<1>1. /\ StackOK /\ UnwindOK /\ ul \in Seq(Elem) /\ Len(ul) \in Nat
      /\ ul' \in Seq(Elem) /\ Len(ul') \in Nat
  BY StatementHere, LenProperties DEF TypeOK, UnwindOK
<1> DEFINE a == [FrameOf("eval", "parse") EXCEPT !.flag = hasCatch]
           m == Mark("Feval")
           r == Saved("buf")
<1>2. a \in Frame /\ a.k = "eval" /\ a.pc = "parse" /\ a.base = Len(ul)
  <2>1. FrameOf("eval", "parse") \in Frame
    BY <1>1, FrameTypes DEF FrameKinds, Pcs
  <2> QED
    BY <2>1, NewFrames DEF Frame
<1>3. /\ m \in Elem /\ m.e = "mark" /\ m.tag = "Feval" /\ Fresh(m)
      /\ r \in Elem /\ Plain(r) /\ Fresh(r)
  BY ElemTypes, Kinds, FreshKinds DEF TypeOK, Tags, Flags
<1>4. ul' = Append(ul, m) \o (IF hasCatch THEN <<r>> ELSE <<>>)
  BY DEF Eval
<1>5. cs' = Append(Stepped, a)
  BY DEF Eval
<1> HIDE DEF a, m, r
<1>6. /\ Changed(ul, ul', Len(ul)) /\ Len(ul) < Len(ul')
      /\ MarkAt(ul', Len(ul) + 1, "Feval") /\ PlainAfter(ul', Len(ul) + 1)
  <2> DEFINE t == Append(ul, m)
             z == IF hasCatch THEN <<r>> ELSE <<>>
  <2>1. t \in Seq(Elem) /\ Longer(ul, t, <<m>>)
    BY <1>1, <1>3, Pushed
  <2>2. z \in Seq(Elem) /\ Len(z) \in Nat /\ \A q \in 1 .. Len(z) : Plain(z[q])
    <3>1. /\ <<r>> \in Seq(Elem) /\ Len(<<r>>) = 1 /\ <<r>>[1] = r
          /\ <<>> \in Seq(Elem) /\ Len(<<>>) = 0
      BY <1>3
    <3>2. CASE hasCatch
      BY <1>3, <3>1, <3>2
    <3>3. CASE ~ hasCatch
      BY <3>1, <3>3
    <3> QED
      BY <3>2, <3>3
  <2>3. ul' = t \o z
    BY <1>4
  <2> HIDE DEF t, z
  <2>4. Longer(t, ul', z)
    BY <2>1, <2>2, <2>3, Joined
  <2>5. /\ Len(<<m>>) \in Nat \ {0} /\ <<m>>[1] = m
        /\ \A q \in 2 .. Len(<<m>>) : Plain(<<m>>[q])
    OBVIOUS
  <2> QED
    BY <1>1, <1>3, <2>1, <2>2, <2>4, <2>5, MarkPushed
<1>7. Settled(ul', a, Len(ul), Len(ul')) /\ ~ IsRun(a)
  <2>1. ~ Sized(a) /\ TagOf(a) = "Feval" /\ ~ IsRun(a)
    BY <1>2 DEF Sized, TagOf, IsRun
  <2> QED
    BY <1>1, <1>2, <1>6, <2>1, SettledNew
<1> QED
  BY <1>2, <1>5, <1>6, <1>7, OpensHere

LEMMA TryLayout ==
  ASSUME TypeOK, TypeOK', Layout(cs, ul), AtStatement, NEW hasCatch \in BOOLEAN,
         Try(hasCatch)
  PROVE  Layout(cs', ul')
<1>1. /\ StackOK /\ UnwindOK /\ ul \in Seq(Elem) /\ Len(ul) \in Nat
      /\ ul' \in Seq(Elem) /\ Len(ul') \in Nat
      /\ Running.brk \in BOOLEAN /\ Running.cont \in BOOLEAN
  BY StatementHere, SteppedGood, LenProperties DEF TypeOK, UnwindOK
<1>2. PICK n \in 1 .. MaxList :
        cs' = Stepped \o
             <<[FrameOf("try", "body") EXCEPT !.flag = hasCatch, !.n = g["buf"]],
               [ListOf("try", n, Running.brk, Running.cont)
                  EXCEPT !.base = Len(ul')]>>
  BY DEF Try
<1> DEFINE a == [FrameOf("try", "body") EXCEPT !.flag = hasCatch, !.n = g["buf"]]
           x == [ListOf("try", n, Running.brk, Running.cont)
                   EXCEPT !.base = Len(ul')]
           m == Mark("tree_try_catch::eval")
           c == [ElemOf("catch", NoFn) EXCEPT !.brk = Running.brk,
                   !.cont = Running.cont, !.flag = hasCatch]
           r == Saved("buf")
<1>3. a \in Frame /\ a.k = "try" /\ a.pc = "body" /\ a.base = Len(ul)
  <2>1. g["buf"] \in Levels("buf") /\ g["buf"] \in Nat
    BY DEF TypeOK, FlagsOK, Flags, Levels
  <2>2. FrameOf("try", "body") \in Frame
    BY <1>1, FrameTypes DEF FrameKinds, Pcs
  <2>3. a \in Frame
    BY <2>1, <2>2 DEF Frame
  <2> QED
    BY <2>3 DEF FrameOf
<1>4. x \in Frame /\ x.k = "list" /\ x.pc = "enter" /\ x.base = Len(ul')
  <2>1. ListOf("try", n, Running.brk, Running.cont) \in Frame
    BY <1>1, CallListGood DEF Roles, Pcs
  <2>2. x \in Frame
    BY <1>1, <2>1, Rebased
  <2> QED
    BY <2>1, <2>2 DEF ListOf, FrameOf
<1>5. /\ m \in Elem /\ m.e = "mark" /\ m.tag = "tree_try_catch::eval" /\ Fresh(m)
      /\ r \in Elem /\ Plain(r)
  BY ElemTypes, Kinds, FreshKinds DEF TypeOK, Tags, Flags
<1>6. c \in Elem /\ Plain(c)
  <2>1. ElemOf("catch", NoFn) \in Elem /\ ElemOf("catch", NoFn).e = "catch"
    BY ElemTypes, Kinds DEF TypeOK, ElemKinds, FnElems
  <2> QED
    BY <1>1, <2>1 DEF Elem, Plain
<1>7. ul' = (ul \o <<m, c>>) \o (IF hasCatch THEN <<r>> ELSE <<>>)
  BY DEF Try
<1>8. cs' = Stepped \o <<a, x>>
  BY <1>2
<1> HIDE DEF a, x, m, c, r
<1>9. /\ Changed(ul, ul', Len(ul)) /\ Len(ul) < Len(ul')
      /\ MarkAt(ul', Len(ul) + 1, "tree_try_catch::eval")
      /\ PlainAfter(ul', Len(ul) + 1)
  <2> DEFINE t == ul \o <<m, c>>
             z == IF hasCatch THEN <<r>> ELSE <<>>
  <2>1. t \in Seq(Elem) /\ Longer(ul, t, <<m, c>>)
    BY <1>1, <1>5, <1>6, Pushed, PushedGood
  <2>2. z \in Seq(Elem) /\ Len(z) \in Nat /\ \A q \in 1 .. Len(z) : Plain(z[q])
    <3>1. /\ <<r>> \in Seq(Elem) /\ Len(<<r>>) = 1 /\ <<r>>[1] = r
          /\ <<>> \in Seq(Elem) /\ Len(<<>>) = 0
      BY <1>5
    <3>2. CASE hasCatch
      BY <1>5, <3>1, <3>2
    <3>3. CASE ~ hasCatch
      BY <3>1, <3>3
    <3> QED
      BY <3>2, <3>3
  <2>3. ul' = t \o z
    BY <1>7
  <2> HIDE DEF t, z
  <2>4. Longer(t, ul', z)
    BY <2>1, <2>2, <2>3, Joined
  <2>5. /\ Len(<<m, c>>) \in Nat \ {0} /\ <<m, c>>[1] = m
        /\ \A q \in 2 .. Len(<<m, c>>) : Plain(<<m, c>>[q])
    BY <1>6
  <2> QED
    BY <1>1, <1>5, <2>1, <2>2, <2>4, <2>5, MarkPushed
<1>10. Settled(ul', a, Len(ul), Len(ul')) /\ ~ IsRun(a) /\ a.pc # "leave"
  <2>1. ~ Sized(a) /\ TagOf(a) = "tree_try_catch::eval" /\ ~ IsRun(a)
    BY <1>3 DEF Sized, TagOf, IsRun
  <2> QED
    BY <1>1, <1>3, <1>9, <2>1, SettledNew
<1> QED
  BY <1>3, <1>4, <1>8, <1>9, <1>10, OpensList

LEMMA StatementLayout ==
  ASSUME TypeOK, TypeOK', Layout(cs, ul), Statement
  PROVE  Layout(cs', ul')
BY PlainStatementLayout, CallingStatementLayout, TryLayout, UnwindProtectLayout,
   EvalStatementLayout DEF Statement

\* The last element that fits a condition.
LEMMA LatestIs ==
  ASSUME NEW S, NEW p \in S, \A q \in S : q \in Nat /\ q <= p
  PROVE  Latest(S) = p
BY DEF Latest

LEMMA TryEndLayout ==
  ASSUME TypeOK, TypeOK', Layout(cs, ul), TryFailed \/ TrySucceeded
  PROVE  Layout(cs', ul')
<1>1. /\ StackOK /\ UnwindOK /\ Running.k = "try" /\ Running.pc = "body"
      /\ ~ Inside(Running) /\ ~ IsRun(Running)
  BY DEF TypeOK, TryFailed, TrySucceeded, At, Inside, IsRun
<1>2. /\ Running.base \in Nat /\ Len(ul) \in Nat /\ ul \in Seq(Elem)
      /\ Running.base <= Len(ul)
      /\ Settled(ul, Running, Running.base, Len(ul))
  BY <1>1, Here
<1>3. Framed(ul, Running.base, Len(ul), "tree_try_catch::eval")
  BY <1>1, <1>2 DEF Settled, Sized, TagOf
<1>4. CASE TryFailed
  <2>1. Call(RunOf("tree_try_catch::eval"), "caught") /\ ul' = ul
    BY <1>4 DEF TryFailed
  <2>2. WentCalling("caught", RunOf("tree_try_catch::eval"))
    BY <1>1, <2>1, FrameTypes, Goings, Zenon DEF Pcs, Tags
  <2>3. Pending(ul', cs'[Depth], RunOf("tree_try_catch::eval"), Running.base, Len(ul'))
    BY <1>1, <1>3, <2>1, <2>2, NewFrames DEF Pending, WentCalling, Goes, TagOf
  <2>4. Changed(ul, ul', Running.base)
    BY <1>2, <2>1, Unchanged
  <2> QED
    BY <1>1, <2>2, <2>3, <2>4, RunsHere
<1>5. CASE TrySucceeded
  <2>1. ul' = SubSeq(ul, 1, Latest(Marks("tree_try_catch::eval")) - 1) /\ Return
    BY <1>5 DEF TrySucceeded, Discarded
  <2>2. Latest(Marks("tree_try_catch::eval")) = Running.base + 1
    <3>1. Running.base + 1 \in Marks("tree_try_catch::eval")
      BY <1>2, <1>3 DEF Framed, MarkAt, Marks
    <3>2. \A q \in Marks("tree_try_catch::eval") : q \in Nat /\ q <= Running.base + 1
      BY <1>2, <1>3 DEF Framed, NoMark, MarkAt, Marks
    <3> QED
      BY <3>1, <3>2, LatestIs
  <2>3. ul' = SubSeq(ul, 1, Running.base)
    BY <1>2, <2>1, <2>2
  <2>4. /\ Len(ul') = Running.base /\ Agree(ul, ul', Running.base) /\ Grown(ul, ul')
    BY <1>2, <2>3, PoppedChange
  <2> QED
    BY <1>1, <2>1, <2>4, ReturnsHere
<1> QED
  BY <1>4, <1>5

LEMMA UnwindBodyDoneLayout ==
  ASSUME TypeOK, TypeOK', Layout(cs, ul), UnwindBodyDone
  PROVE  Layout(cs', ul')
<1>1. /\ StackOK /\ UnwindOK /\ Running.k = "unw" /\ Running.pc = "body"
      /\ ~ Inside(Running) /\ ~ IsRun(Running) /\ ul' = ul
  BY DEF TypeOK, UnwindBodyDone, At, Inside, IsRun
<1>2. /\ Running.base \in Nat /\ Len(ul) \in Nat /\ ul \in Seq(Elem)
      /\ Running.base <= Len(ul) /\ Len(ul) = Running.base + 1
  BY <1>1, Here DEF Settled, Sized, Size
<1>3. WentCalling("cleaned", RunOf("one"))
  <2>1. /\ RunOf("one") \in Frame /\ (g["err"] # 0) \in BOOLEAN
        /\ cs' = Append(Top([Running EXCEPT !.pc = "cleaned",
                                            !.flag = (g["err"] # 0)]), RunOf("one"))
    BY <1>1, FrameTypes DEF UnwindBodyDone, Tags
  <2> QED
    BY <1>1, <2>1, Goings, Zenon DEF Pcs
<1>4. Pending(ul', cs'[Depth], RunOf("one"), Running.base, Len(ul'))
  <2>1. cs'[Depth].k = "unw" /\ cs'[Depth].pc = "cleaned" /\ RunOf("one").tag = "one"
    BY <1>1, <1>3, NewFrames DEF WentCalling, Goes
  <2> QED
    BY <1>1, <1>2, <2>1 DEF Pending, Popping, Size
<1>5. Changed(ul, ul', Running.base)
  BY <1>1, <1>2, Unchanged
<1> QED
  BY <1>1, <1>3, <1>4, <1>5, RunsHere

\* Catch and cleanup code: the three elements that it has pushed.
LEMMA GuardsPushed ==
  ASSUME TypeOK, TypeOK', Layout(cs, ul), Running.k \in {"catch", "cleanup"},
         Running.pc \in {"begin", "protect"},
         NEW a \in Elem, NEW b \in Elem, NEW c \in Elem,
         Plain(a), Plain(b), Plain(c), ul' = ul \o <<a, b, c>>, NEW fr,
         fr.k = Running.k, fr.pc = "brk"
  PROVE  /\ Changed(ul, ul', Running.base)
         /\ Settled(ul', fr, Running.base, Len(ul'))
<1>1. /\ ul \in Seq(Elem) /\ ul' \in Seq(Elem) /\ Idle(Running.k, Running.pc)
  BY DEF TypeOK, UnwindOK, Idle
<1>2. Running.base = Len(ul) /\ Len(ul) \in Nat /\ Running.base \in Nat
  BY <1>1, IdleHere, Here
<1>3. Longer(ul, ul', <<a, b, c>>)
  BY <1>1, Pushed
<1>4. /\ Len(<<a, b, c>>) = 3
      /\ \A q \in 1 .. Len(<<a, b, c>>) : Plain(<<a, b, c>>[q]) /\ Fresh(<<a, b, c>>[q])
  BY DEF Plain, Fresh
<1>5. /\ Changed(ul, ul', Running.base) /\ PlainAfter(ul', Len(ul))
      /\ Len(ul') = Len(ul) + 3
  <2> DEFINE v == <<a, b, c>>
  <2>1. /\ Longer(ul, ul', v) /\ Len(v) = 3 /\ Len(v) \in Nat
        /\ \A q \in 1 .. Len(v) : Plain(v[q]) /\ Fresh(v[q])
    BY <1>3, <1>4
  <2> HIDE DEF v
  <2>2. Running.base <= Len(ul)
    BY <1>2
  <2>3. Changed(ul, ul', Running.base) /\ PlainAfter(ul', Len(ul))
    BY <1>1, <1>2, <2>1, <2>2, PushedChange
  <2> QED
    BY <2>1, <2>3 DEF Longer
<1>6. NoCleanup(ul', Running.base, Len(ul'))
  BY <1>2, <1>5 DEF NoCleanup, PlainAfter, Plain
<1>7. Sized(fr) /\ Size(fr) = 3 /\ fr.k # "main"
  BY DEF Sized, Size
<1> QED
  BY <1>2, <1>5, <1>6, <1>7, SettledSized

LEMMA CleanupBeginLayout ==
  ASSUME TypeOK, TypeOK', Layout(cs, ul), CleanupBegin
  PROVE  Layout(cs', ul')
<1>1. /\ StackOK /\ UnwindOK /\ UnwindOK' /\ Running.k = "cleanup"
      /\ Running.pc = "begin" /\ ~ Inside(Running) /\ ~ IsRun(Running)
      /\ ul' = ul \o <<Saved("err"), Saved("ret"), Saved("brk")>>
      /\ ul' \in Seq(Elem) /\ Len(ul') \in Nat
      /\ Running.brk \in BOOLEAN /\ Running.cont \in BOOLEAN
  BY RunningFrame, LenProperties
  DEF TypeOK, CleanupBegin, At, Inside, IsRun, UnwindOK, Frame
<1>2. PICK n \in 1 .. MaxList :
        Call([ListOf("cleanup", n, Running.brk, Running.cont)
                EXCEPT !.base = Len(ul')], "brk")
  BY DEF CleanupBegin
<1> DEFINE x == [ListOf("cleanup", n, Running.brk, Running.cont)
                   EXCEPT !.base = Len(ul')]
<1>3. x \in Frame /\ x.k = "list" /\ x.pc = "enter" /\ x.base = Len(ul')
  <2>1. ListOf("cleanup", n, Running.brk, Running.cont) \in Frame
    BY <1>1, CallListGood DEF Roles, Pcs
  <2>2. x \in Frame
    BY <1>1, <2>1, Rebased, Zenon
  <2> QED
    BY <2>1, <2>2 DEF ListOf, FrameOf
<1>4. Call(x, "brk")
  BY <1>2
<1> HIDE DEF x
<1>5. WentCalling("brk", x)
  BY <1>1, <1>3, <1>4, Goings, Zenon DEF Pcs
<1>6. cs'[Depth].k = Running.k /\ cs'[Depth].pc = "brk"
  BY <1>5 DEF WentCalling, Goes
<1>7. \A v \in Flags : Saved(v) \in Elem /\ Plain(Saved(v))
  BY ElemTypes, Kinds DEF TypeOK
<1>8. /\ Changed(ul, ul', Running.base)
      /\ Settled(ul', cs'[Depth], Running.base, Len(ul'))
  <2>1. /\ Saved("err") \in Elem /\ Saved("ret") \in Elem /\ Saved("brk") \in Elem
        /\ Plain(Saved("err")) /\ Plain(Saved("ret")) /\ Plain(Saved("brk"))
    BY <1>7 DEF Flags
  <2> QED
    BY <1>1, <1>6, <2>1, GuardsPushed
<1>9. Settled(ul', x, x.base, Len(ul')) /\ ~ IsRun(x)
  <2>1. Sized(x) /\ Size(x) = 0 /\ ~ IsRun(x) /\ x.k # "main"
    BY <1>3, IdleEmpty DEF Idle
  <2> QED
    BY <1>1, <1>3, <2>1, SettledEmpty
<1> QED
  BY <1>1, <1>3, <1>5, <1>8, <1>9, CallsHere

LEMMA CatchLayout ==
  ASSUME TypeOK, TypeOK', Layout(cs, ul), CatchBind \/ CatchProtect
  PROVE  Layout(cs', ul')
<1>1. /\ StackOK /\ UnwindOK /\ UnwindOK' /\ Running.k = "catch"
      /\ ~ Inside(Running) /\ ~ IsRun(Running)
      /\ ul' \in Seq(Elem) /\ Len(ul') \in Nat
      /\ Running.brk \in BOOLEAN /\ Running.cont \in BOOLEAN
  BY RunningFrame, LenProperties
  DEF TypeOK, CatchBind, CatchProtect, At, Inside, IsRun, UnwindOK, Frame
<1>2. CASE CatchBind
  <2>1. /\ ul' = ul /\ Goto("protect")
        /\ Idle(Running.k, Running.pc) /\ Idle(Running.k, "protect")
    BY <1>1, <1>2 DEF CatchBind, At, Idle
  <2>2. Went("protect")
    BY <1>1, <2>1, Goings, Zenon DEF Pcs
  <2> QED
    BY <2>1, <2>2, IdleSteps
<1>3. CASE CatchProtect
  <2>1. /\ Running.pc = "protect"
        /\ ul' = ul \o <<ElemOf("clearerr", NoFn), Saved("ret"), Saved("brk")>>
    BY <1>3 DEF CatchProtect, At
  <2>2. /\ ElemOf("clearerr", NoFn) \in Elem /\ Saved("ret") \in Elem
        /\ Saved("brk") \in Elem
    BY ElemTypes DEF TypeOK, Flags, ElemKinds, FnElems
  <2>3. Plain(ElemOf("clearerr", NoFn)) /\ Plain(Saved("ret")) /\ Plain(Saved("brk"))
    BY Kinds DEF Plain
  <2>4. ASSUME NEW fr, fr.k = Running.k, fr.pc = "brk"
        PROVE  /\ Changed(ul, ul', Running.base)
               /\ Settled(ul', fr, Running.base, Len(ul'))
    BY <1>1, <2>1, <2>2, <2>3, <2>4, GuardsPushed, Zenon
  <2>5. ASSUME Goto("brk")
        PROVE  Layout(cs', ul')
    <3>1. Went("brk")
      BY <1>1, <2>5, Goings, Zenon DEF Pcs
    <3>2. cs'[Depth].k = Running.k /\ cs'[Depth].pc = "brk"
      BY <3>1 DEF Went, Goes
    <3> QED
      BY <1>1, <2>4, <3>1, <3>2, StaysHere
  <2>6. ASSUME NEW n \in 1 .. MaxList,
               Call([ListOf("catch", n, Running.brk, Running.cont)
                       EXCEPT !.base = Len(ul')], "brk")
        PROVE  Layout(cs', ul')
    <3> DEFINE x == [ListOf("catch", n, Running.brk, Running.cont)
                       EXCEPT !.base = Len(ul')]
    <3>1. x \in Frame /\ x.k = "list" /\ x.pc = "enter" /\ x.base = Len(ul')
      <4>1. ListOf("catch", n, Running.brk, Running.cont) \in Frame
        BY <1>1, CallListGood DEF Roles, Pcs
      <4>2. x \in Frame
        BY <1>1, <4>1, Rebased
      <4> QED
        BY <4>1, <4>2 DEF ListOf, FrameOf
    <3>2. Call(x, "brk")
      BY <2>6
    <3> HIDE DEF x
    <3>3. WentCalling("brk", x)
      BY <1>1, <3>1, <3>2, Goings, Zenon DEF Pcs
    <3>4. cs'[Depth].k = Running.k /\ cs'[Depth].pc = "brk"
      BY <3>3 DEF WentCalling, Goes
    <3>5. Settled(ul', x, x.base, Len(ul')) /\ ~ IsRun(x)
      <4>1. Sized(x) /\ Size(x) = 0 /\ ~ IsRun(x) /\ x.k # "main"
        BY <3>1, IdleEmpty DEF Idle
      <4> QED
        BY <1>1, <3>1, <4>1, SettledEmpty
    <3> QED
      BY <1>1, <2>4, <3>1, <3>3, <3>4, <3>5, CallsHere
  <2> QED
    BY <1>3, <2>5, <2>6 DEF CatchProtect
<1> QED
  BY <1>2, <1>3

\* One of the three elements goes: popped without being run, or by a run.
LEMMA RestoreLayout ==
  ASSUME TypeOK, TypeOK', Layout(cs, ul),
         RestoreBreaking \/ RestoreReturning \/ RestoreLast
  PROVE  Layout(cs', ul')
<1>1. /\ StackOK /\ UnwindOK /\ Running.k \in {"catch", "cleanup"}
      /\ Running.pc \in {"brk", "ret", "err"} /\ ~ Inside(Running) /\ ~ IsRun(Running)
  BY DEF TypeOK, RestoreBreaking, RestoreReturning, RestoreLast, Inside, IsRun
<1>2. /\ Running.base \in Nat /\ Len(ul) \in Nat /\ ul \in Seq(Elem)
      /\ Running.base <= Len(ul)
      /\ Len(ul) = Running.base + Size(Running)
      /\ NoCleanup(ul, Running.base, Len(ul))
  BY <1>1, Here DEF Settled, Sized
<1> DEFINE next == IF Running.pc = "brk" THEN "ret"
                   ELSE IF Running.pc = "ret" THEN "err" ELSE "done"
<1>3. /\ next \in Pcs
      /\ \A fr : fr.k = Running.k /\ fr.pc = next =>
           /\ Sized(fr) /\ Size(fr) \in Nat /\ Len(ul) = Running.base + Size(fr) + 1
           /\ fr.k # "main" /\ fr.k \in Popping /\ fr.k # "unw"
  BY <1>1, <1>2 DEF Pcs, Size, Sized, Popping
<1>4. \/ ul' = ul /\ Call(RunOf("one"), next)
      \/ ul' = SubSeq(ul, 1, Len(ul) - 1) /\ Goto(next)
  BY DEF RestoreBreaking, RestoreReturning, RestoreLast
<1> HIDE DEF next
<1>5. CASE ul' = ul /\ Call(RunOf("one"), next)
  <2>1. WentCalling(next, RunOf("one"))
    BY <1>1, <1>3, <1>5, FrameTypes, Goings, Zenon DEF Tags
  <2>2. cs'[Depth].k = Running.k /\ cs'[Depth].pc = next /\ RunOf("one").tag = "one"
    BY <2>1, NewFrames DEF WentCalling, Goes
  <2>3. Pending(ul', cs'[Depth], RunOf("one"), Running.base, Len(ul'))
    BY <1>2, <1>3, <1>5, <2>2 DEF Pending
  <2>4. Changed(ul, ul', Running.base)
    BY <1>2, <1>5, Unchanged
  <2> QED
    BY <1>1, <2>1, <2>3, <2>4, RunsHere
<1>6. CASE ul' = SubSeq(ul, 1, Len(ul) - 1) /\ Goto(next)
  <2>1. Went(next)
    BY <1>1, <1>3, <1>6, Goings, Zenon
  <2>2. cs'[Depth].k = Running.k /\ cs'[Depth].pc = next
    BY <2>1 DEF Went, Goes
  <2>3. Len(ul) - 1 \in Nat /\ Len(ul) - 1 <= Len(ul) /\ Running.base <= Len(ul) - 1
    BY <1>2, <1>3, <2>2
  <2>4. /\ Len(ul') = Len(ul) - 1 /\ Agree(ul, ul', Len(ul) - 1)
        /\ Changed(ul, ul', Running.base)
    BY <1>2, <1>6, <2>3, PoppedChange
  <2>5. NoCleanup(ul', Running.base, Len(ul'))
    BY <1>2, <2>3, <2>4 DEF NoCleanup, Agree
  <2>6. Settled(ul', cs'[Depth], Running.base, Len(ul'))
    BY <1>2, <1>3, <2>2, <2>3, <2>4, <2>5, SettledSized
  <2> QED
    BY <1>1, <2>1, <2>4, <2>6, StaysHere
<1> QED
  BY <1>4, <1>5, <1>6

LEMMA ProtectionLayout ==
  ASSUME TypeOK, TypeOK', Layout(cs, ul), Protections
  PROVE  Layout(cs', ul')
BY TryEndLayout, UnwindBodyDoneLayout, CleanupBeginLayout, CatchLayout, RestoreLayout
DEF Protections

\* A frame goes on inside its unwind frame, and may call a statement list.
LEMMA GoesOn ==
  ASSUME TypeOK, TypeOK', Layout(cs, ul), Running.k \in {"call", "eval", "script"},
         ~ Sized(Running), Running.pc # "leave", NEW pc, pc # "leave",
         pc \notin {"begin", "caught", "cleaned", "done", "read", "eval", "quit"},
         Changed(ul, ul', Len(ul)), PlainAfter(ul', Len(ul))
  PROVE  /\ Went(pc) => Layout(cs', ul')
         /\ \A x : /\ WentCalling(pc, x) /\ x.k = "list" /\ x.pc = "enter"
                   /\ x.base = Len(ul')
                => Layout(cs', ul')
<1>1. /\ ~ IsRun(Running) /\ ul' \in Seq(Elem) /\ Len(ul') \in Nat
  BY LenProperties DEF TypeOK, UnwindOK, IsRun
<1>2. /\ Running.base \in Nat /\ Len(ul) \in Nat /\ ul \in Seq(Elem)
      /\ Running.base <= Len(ul) /\ Settled(ul, Running, Running.base, Len(ul))
  BY <1>1, Here
<1>3. Changed(ul, ul', Running.base) /\ Agree(ul, ul', Len(ul)) /\ Len(ul) <= Len(ul')
  BY <1>1, <1>2 DEF Changed, Agree
<1>4. ASSUME Goes(cs', pc)
      PROVE  Settled(ul', cs'[Depth], Running.base, Len(ul'))
  <2>1. cs'[Depth].k = Running.k /\ cs'[Depth].pc = pc /\ ~ Sized(cs'[Depth])
    BY <1>4 DEF Goes, Sized
  <2> QED
    BY <1>1, <1>2, <1>3, <2>1, SettledMore
<1>5. Went(pc) => Layout(cs', ul')
  BY <1>1, <1>3, <1>4, StaysHere DEF Went
<1>6. ASSUME NEW x, WentCalling(pc, x), x.k = "list", x.pc = "enter", x.base = Len(ul')
      PROVE  Layout(cs', ul')
  <2>1. Sized(x) /\ Size(x) = 0 /\ ~ IsRun(x) /\ x.k # "main"
    BY <1>6, IdleEmpty DEF Idle
  <2>2. Settled(ul', x, x.base, Len(ul'))
    BY <1>1, <1>6, <2>1, SettledEmpty
  <2> QED
    BY <1>1, <1>3, <1>4, <1>6, <2>1, <2>2, CallsHere DEF WentCalling
<1> QED
  BY <1>5, <1>6

\* It leaves the list as it is.
LEMMA NothingPushed ==
  ASSUME TypeOK, ul' = ul
  PROVE  Changed(ul, ul', Len(ul)) /\ PlainAfter(ul', Len(ul))
<1>1. ul \in Seq(Elem) /\ Len(ul) \in Nat
  BY LenProperties DEF TypeOK, UnwindOK
<1> QED
  BY <1>1, Unchanged DEF PlainAfter

\* It pushes v.
LEMMA PlainPushed ==
  ASSUME TypeOK, TypeOK', NEW v, Longer(ul, ul', v), Len(v) \in Nat,
         \A q \in 1 .. Len(v) : Plain(v[q])
  PROVE  Changed(ul, ul', Len(ul)) /\ PlainAfter(ul', Len(ul))
<1>1. ul \in Seq(Elem) /\ Len(ul) \in Nat /\ ul' \in Seq(Elem)
  BY LenProperties DEF TypeOK, UnwindOK
<1>2. (\A q \in 1 .. Len(v) : Fresh(v[q])) /\ Len(ul) <= Len(ul)
  BY <1>1 DEF Plain, Fresh
<1> QED
  BY <1>1, <1>2, PushedChange

\* A call or an eval gives its unwind frame back.
LEMMA ExitRuns ==
  ASSUME TypeOK, TypeOK', Layout(cs, ul), Running.k \in {"call", "eval"},
         ~ Sized(Running), NEW tag \in Tags, tag = TagOf(Running),
         Call(RunOf(tag), "done"), ul' = ul
  PROVE  Layout(cs', ul')
<1>1. StackOK /\ UnwindOK /\ ~ IsRun(Running) /\ ~ Inside(Running)
  BY DEF TypeOK, IsRun, Inside
<1>2. WentCalling("done", RunOf(tag))
  BY <1>1, FrameTypes, Goings, Zenon DEF Pcs
<1>3. /\ Running.base \in Nat /\ Len(ul) \in Nat /\ ul \in Seq(Elem)
      /\ Running.base <= Len(ul) /\ Settled(ul, Running, Running.base, Len(ul))
  BY <1>1, Here
<1>4. Framed(ul, Running.base, Len(ul), tag)
  BY <1>3 DEF Settled
<1>5. Pending(ul', cs'[Depth], RunOf(tag), Running.base, Len(ul'))
  <2>1. cs'[Depth].k = Running.k /\ cs'[Depth].pc = "done" /\ RunOf(tag).tag = tag
    BY <1>2, NewFrames DEF WentCalling, Goes
  <2>2. TagOf(cs'[Depth]) = tag
    BY <2>1 DEF TagOf
  <2> QED
    BY <1>4, <2>1, <2>2 DEF Pending
<1>6. Changed(ul, ul', Running.base)
  BY <1>3, Unchanged
<1> QED
  BY <1>1, <1>2, <1>5, <1>6, RunsHere

LEMMA CallBeginLayout ==
  ASSUME TypeOK, TypeOK', Layout(cs, ul), CallBegin
  PROVE  Layout(cs', ul')
<1> DEFINE f == Running.f
           d == fn[f].depth + 1
           m == Mark("func_eval")
           c == SavedCount("depth", f, d - 1)
<1>1. /\ StackOK /\ UnwindOK /\ Running.k = "call" /\ Running.pc = "begin"
      /\ ~ Inside(Running) /\ ~ IsRun(Running) /\ Idle(Running.k, Running.pc)
      /\ ul' \in Seq(Elem) /\ Len(ul') \in Nat
  BY LenProperties DEF TypeOK, CallBegin, At, Inside, IsRun, Idle, UnwindOK
<1>2. Running.base = Len(ul) /\ Len(ul) \in Nat /\ ul \in Seq(Elem)
  BY <1>1, IdleHere, Here
<1>3. m \in Elem /\ m.e = "mark" /\ m.tag = "func_eval" /\ Fresh(m)
  BY ElemTypes, Kinds, FreshKinds DEF TypeOK, Tags
<1>4. c \in Elem /\ Plain(c)
  <2>1. f \in Fn /\ d - 1 \in Nat
    BY <1>1, CalledFunction
  <2> HIDE DEF d, f
  <2>2. c \in Elem /\ c.e = "depth"
    BY <2>1, ElemTypes, Kinds DEF TypeOK, FnElems
  <2> QED
    BY <2>2 DEF Plain
<1>5. ul' = ul \o <<m, c>>
  BY DEF CallBegin
<1>6. \E pc \in {"exit", "push", "bind"} : Goto(pc)
  BY DEF CallBegin
<1> HIDE DEF f, d, m, c
<1>7. /\ Changed(ul, ul', Len(ul)) /\ Len(ul) < Len(ul')
      /\ MarkAt(ul', Len(ul) + 1, "func_eval") /\ PlainAfter(ul', Len(ul) + 1)
  <2>1. Longer(ul, ul', <<m, c>>)
    BY <1>2, <1>3, <1>4, <1>5, Pushed
  <2>2. Longer(ul', ul', <<>>)
    BY <1>1 DEF Longer, Agree
  <2>3. /\ Len(<<m, c>>) \in Nat \ {0} /\ <<m, c>>[1] = m
        /\ \A q \in 2 .. Len(<<m, c>>) : Plain(<<m, c>>[q])
        /\ Len(<<>>) \in Nat /\ \A q \in 1 .. Len(<<>>) : Plain(<<>>[q])
    BY <1>4
  <2> QED
    BY <1>1, <1>2, <1>3, <2>1, <2>2, <2>3, MarkPushed
<1>8. ASSUME NEW pc \in {"exit", "push", "bind"}, Goto(pc)
      PROVE  Layout(cs', ul')
  <2>1. Went(pc)
    BY <1>1, <1>8, Goings, Zenon DEF Pcs
  <2>2. /\ cs'[Depth].k = "call" /\ ~ Sized(cs'[Depth])
        /\ TagOf(cs'[Depth]) = "func_eval"
    BY <1>1, <2>1 DEF Went, Goes, Sized, TagOf
  <2>3. Settled(ul', cs'[Depth], Len(ul), Len(ul'))
    BY <1>1, <1>2, <1>7, <2>2, SettledNew
  <2> QED
    BY <1>1, <1>2, <1>7, <2>1, <2>3, StaysHere
<1> QED
  BY <1>6, <1>8

LEMMA CallPushLayout ==
  ASSUME TypeOK, TypeOK', Layout(cs, ul), CallPush
  PROVE  Layout(cs', ul')
<1> DEFINE f == Running.f
           a == ElemOf("popctx", f)
           b == SavedCount("vr", f, fn[f].vr)
           c == ElemOf("delvr", f)
<1>1. /\ StackOK /\ UnwindOK /\ Running.k = "call" /\ Running.pc = "push"
      /\ ~ Inside(Running) /\ ~ Sized(Running) /\ ul \in Seq(Elem)
  BY DEF TypeOK, CallPush, At, Inside, Sized, UnwindOK
<1>2. a \in Elem /\ b \in Elem /\ c \in Elem /\ Plain(a) /\ Plain(b) /\ Plain(c)
  <2>1. f \in Fn /\ fn[f].vr \in Nat
    BY <1>1, CalledFunction
  <2> HIDE DEF f
  <2>2. /\ a \in Elem /\ b \in Elem /\ c \in Elem
        /\ a.e = "popctx" /\ b.e = "vr" /\ c.e = "delvr"
    BY <2>1, ElemTypes, Kinds DEF TypeOK, FnElems
  <2> HIDE DEF a, b, c
  <2> QED
    BY <2>2 DEF Plain
<1>3. ul' = ul \o <<a, b, c>> /\ Goto("bind")
  BY DEF CallPush
<1> HIDE DEF f, a, b, c
<1>4. Changed(ul, ul', Len(ul)) /\ PlainAfter(ul', Len(ul))
  <2>1. Longer(ul, ul', <<a, b, c>>)
    BY <1>1, <1>2, <1>3, Pushed, Zenon
  <2>2. /\ Len(<<a, b, c>>) \in Nat
        /\ \A q \in 1 .. Len(<<a, b, c>>) : Plain(<<a, b, c>>[q])
    BY <1>2
  <2> QED
    BY <2>1, <2>2, PlainPushed
<1>5. Went("bind")
  BY <1>1, <1>3, Goings, Zenon DEF Pcs
<1> QED
  BY <1>1, <1>4, <1>5, GoesOn

LEMMA CallBindLayout ==
  ASSUME TypeOK, TypeOK', Layout(cs, ul), CallBind
  PROVE  Layout(cs', ul')
<1> DEFINE f == Running.f
           a == ElemOf("clearsym", f)
           b == ElemOf("tab", cur.tab)
           c == ElemOf("fun", cur.fun)
           d == ElemOf("clearargs", f)
           e == SavedCount("nargs", f, fn[f].nargs)
<1>1. /\ StackOK /\ UnwindOK /\ UnwindOK' /\ Running.k = "call" /\ Running.pc = "bind"
      /\ ~ Inside(Running) /\ ~ Sized(Running) /\ ul \in Seq(Elem)
      /\ ul' \in Seq(Elem)
  BY DEF TypeOK, CallBind, At, Inside, Sized, UnwindOK
<1>2. /\ a \in Elem /\ b \in Elem /\ c \in Elem /\ d \in Elem /\ e \in Elem
      /\ Plain(a) /\ Plain(b) /\ Plain(c) /\ Plain(d) /\ Plain(e)
  <2>1. f \in Fn /\ fn[f].nargs \in Nat
    BY <1>1, CalledFunction
  <2>2. cur.tab \in Fn \cup {NoFn} /\ cur.fun \in Fn \cup {NoFn}
    BY DEF TypeOK, FnOK
  <2> HIDE DEF f
  <2>3. a \in Elem /\ d \in Elem /\ e \in Elem
    BY <2>1, ElemTypes DEF TypeOK, FnElems
  <2>4. b \in Elem /\ c \in Elem
    BY <2>2, ElemTypes DEF TypeOK, ElemKinds, FnElems
  <2>5. /\ a.e = "clearsym" /\ b.e = "tab" /\ c.e = "fun"
        /\ d.e = "clearargs" /\ e.e = "nargs"
    BY Kinds
  <2> HIDE DEF a, b, c, d, e
  <2> QED
    BY <2>3, <2>4, <2>5 DEF Plain
<1>3. ul' = ul \o <<a, b, c, d, e>>
  BY DEF CallBind
<1>4. \/ Goto("exit")
      \/ \E n \in 1 .. MaxList :
           Call([ListOf("fcn", n, TRUE, FALSE) EXCEPT !.base = Len(ul')], "body")
  BY DEF CallBind
<1> HIDE DEF f, a, b, c, d, e
<1>5. Changed(ul, ul', Len(ul)) /\ PlainAfter(ul', Len(ul))
  <2>1. Longer(ul, ul', <<a, b, c, d, e>>)
    BY <1>1, <1>2, <1>3, Pushed
  <2>2. /\ Len(<<a, b, c, d, e>>) \in Nat
        /\ \A q \in 1 .. Len(<<a, b, c, d, e>>) : Plain(<<a, b, c, d, e>>[q])
    BY <1>2
  <2> QED
    BY <2>1, <2>2, PlainPushed
<1>6. CASE Goto("exit")
  <2>1. Went("exit")
    BY <1>1, <1>6, Goings, Zenon DEF Pcs
  <2> QED
    BY <1>1, <1>5, <2>1, GoesOn
<1>7. ASSUME NEW n \in 1 .. MaxList,
             Call([ListOf("fcn", n, TRUE, FALSE) EXCEPT !.base = Len(ul')], "body")
      PROVE  Layout(cs', ul')
  <2> DEFINE x == [ListOf("fcn", n, TRUE, FALSE) EXCEPT !.base = Len(ul')]
  <2>1. x \in Frame /\ x.k = "list" /\ x.pc = "enter" /\ x.base = Len(ul')
    <3>1. ListOf("fcn", n, TRUE, FALSE) \in Frame
      BY <1>1, CallListGood DEF Roles, Pcs
    <3>2. x \in Frame
      BY <1>1, <3>1, Rebased
    <3> QED
      BY <3>1, <3>2 DEF ListOf, FrameOf
  <2>2. Call(x, "body")
    BY <1>7
  <2> HIDE DEF x
  <2>3. WentCalling("body", x)
    BY <1>1, <2>1, <2>2, Goings, Zenon DEF Pcs
  <2> QED
    BY <1>1, <1>5, <2>1, <2>3, GoesOn
<1> QED
  BY <1>4, <1>6, <1>7

LEMMA CallLayout ==
  ASSUME TypeOK, TypeOK', Layout(cs, ul), Calls
  PROVE  Layout(cs', ul')
<1>1. StackOK /\ UnwindOK
  BY DEF TypeOK
<1>2. CASE CallBodyDone
  <2>1. /\ Running.k = "call" /\ Running.pc = "body" /\ ul' = ul /\ Goto("exit")
        /\ ~ Inside(Running) /\ ~ Sized(Running)
    BY <1>2 DEF CallBodyDone, At, Inside, Sized
  <2>2. Went("exit")
    BY <1>1, <2>1, Goings, Zenon DEF Pcs
  <2> QED
    BY <2>1, <2>2, NothingPushed, GoesOn
<1>3. CASE CallExit
  <2>1. /\ Running.k = "call" /\ Running.pc = "exit" /\ ul' = ul /\ ~ Sized(Running)
        /\ Call(RunOf("func_eval"), "done")
        /\ TagOf(Running) = "func_eval" /\ "func_eval" \in Tags
    BY <1>3 DEF CallExit, At, Sized, TagOf, Tags
  <2> QED
    BY <2>1, ExitRuns
<1> QED
  BY <1>2, <1>3, CallBeginLayout, CallPushLayout, CallBindLayout DEF Calls

LEMMA EvalLayout ==
  ASSUME TypeOK, TypeOK', Layout(cs, ul), Evals
  PROVE  Layout(cs', ul')
<1>1. /\ StackOK /\ UnwindOK /\ UnwindOK' /\ Running.k = "eval" /\ ~ Inside(Running)
      /\ Running.pc \in {"parse", "parse2", "body", "exit"} /\ ~ Sized(Running)
      /\ ul \in Seq(Elem) /\ ul' \in Seq(Elem)
  BY DEF TypeOK, UnwindOK, Evals, EvalParse, EvalFailed, EvalSucceeded, EvalExit, At,
         Inside, Sized
<1>2. CASE EvalParse
  <2> DEFINE next == IF Running.pc = "parse" THEN "body" ELSE "exit"
  <2>1. next \in {"body", "exit"} /\ next \in Pcs /\ ul' = ul
    BY <1>2 DEF EvalParse, Pcs
  <2>2. \/ Goto(next)
        \/ \E n \in 1 .. MaxList : Call(ListOf("string", n, g["rsf"] = 1, FALSE), next)
    BY <1>2 DEF EvalParse
  <2> HIDE DEF next
  <2>3. CASE Goto(next)
    <3>1. Went(next)
      BY <1>1, <2>1, <2>3, Goings, Zenon
    <3> QED
      BY <1>1, <2>1, <3>1, NothingPushed, GoesOn
  <2>4. ASSUME NEW n \in 1 .. MaxList,
               Call(ListOf("string", n, g["rsf"] = 1, FALSE), next)
        PROVE  Layout(cs', ul')
    <3> DEFINE b == (g["rsf"] = 1)
               x == ListOf("string", n, b, FALSE)
    <3>1. x \in Frame /\ x.k = "list" /\ x.pc = "enter" /\ x.base = Len(ul')
      <4>1. b \in BOOLEAN
        OBVIOUS
      <4> HIDE DEF b
      <4>2. x \in Frame
        BY <1>1, <4>1, CallListGood DEF Roles, Pcs
      <4> QED
        BY <2>1, <4>2 DEF ListOf, FrameOf
    <3>2. Call(x, next)
      BY <2>4
    <3> HIDE DEF x
    <3>3. WentCalling(next, x)
      BY <1>1, <2>1, <3>1, <3>2, Goings, Zenon
    <3> QED
      BY <1>1, <2>1, <3>1, <3>3, NothingPushed, GoesOn
  <2> QED
    BY <2>2, <2>3, <2>4
<1>3. CASE EvalFailed
  <2> DEFINE c == ElemOf("clearerr", NoFn)
  <2>1. ul' = Append(ul, c) /\ Goto("parse2")
    BY <1>3 DEF EvalFailed
  <2>2. c \in Elem /\ Plain(c)
    BY ElemTypes, Kinds DEF TypeOK, ElemKinds, FnElems, Plain
  <2> HIDE DEF c
  <2>3. Changed(ul, ul', Len(ul)) /\ PlainAfter(ul', Len(ul))
    <3>1. Longer(ul, ul', <<c>>)
      BY <1>1, <2>1, <2>2, Pushed
    <3>2. Len(<<c>>) \in Nat /\ \A q \in 1 .. Len(<<c>>) : Plain(<<c>>[q])
      BY <2>2
    <3> QED
      BY <3>1, <3>2, PlainPushed
  <2>4. Went("parse2")
    BY <1>1, <2>1, Goings, Zenon DEF Pcs
  <2> QED
    BY <1>1, <2>3, <2>4, GoesOn
<1>4. CASE EvalSucceeded
  <2>1. ul' = ul /\ Goto("exit")
    BY <1>4 DEF EvalSucceeded
  <2>2. Went("exit")
    BY <1>1, <2>1, Goings, Zenon DEF Pcs
  <2> QED
    BY <1>1, <2>1, <2>2, NothingPushed, GoesOn
<1>5. CASE EvalExit
  <2>1. /\ ul' = ul /\ Call(RunOf("Feval"), "done")
        /\ TagOf(Running) = "Feval" /\ "Feval" \in Tags
    BY <1>1, <1>5 DEF EvalExit, TagOf, Tags
  <2> QED
    BY <1>1, <2>1, ExitRuns
<1> QED
  BY <1>2, <1>3, <1>4, <1>5 DEF Evals

\* A script begins two unwind frames, the second of them parse_and_execute's.
LEMMA ScriptPushed ==
  ASSUME TypeOK, ScriptBegin
  PROVE  /\ Agree(ul, ul', Len(ul)) /\ Len(ul) \in Nat /\ Len(ul') = Len(ul) + 4
         /\ MarkAt(ul', Len(ul) + 1, "parse_fcn_file")
         /\ Plain(ul'[Len(ul) + 2])
         /\ MarkAt(ul', Len(ul) + 3, "parse_and_execute")
         /\ Plain(ul'[Len(ul) + 4])
<1> DEFINE a == Mark("parse_fcn_file")
           b == Saved("rsf")
           c == Mark("parse_and_execute")
           d == ElemOf("tab", cur.tab)
<1>1. ul \in Seq(Elem) /\ Len(ul) \in Nat
  BY LenProperties DEF TypeOK, UnwindOK
<1>2. a \in Elem /\ b \in Elem /\ c \in Elem
  BY ElemTypes DEF TypeOK, Tags, Flags
<1>3. d \in Elem /\ Plain(d)
  BY ElemTypes, Kinds DEF TypeOK, FnOK, ElemKinds, FnElems, Plain
<1>4. /\ a.e = "mark" /\ a.tag = "parse_fcn_file" /\ Plain(b)
      /\ c.e = "mark" /\ c.tag = "parse_and_execute"
  BY Kinds
<1>5. ul' = ul \o <<a, b, c, d>>
  BY DEF ScriptBegin
<1> HIDE DEF a, b, c, d
<1>6. Longer(ul, ul', <<a, b, c, d>>)
  BY <1>1, <1>2, <1>3, <1>5, Pushed
<1>7. /\ Len(<<a, b, c, d>>) = 4
      /\ <<a, b, c, d>>[1] = a /\ <<a, b, c, d>>[2] = b
      /\ <<a, b, c, d>>[3] = c /\ <<a, b, c, d>>[4] = d
  OBVIOUS
<1>8. /\ Len(ul') = Len(ul) + 4 /\ Agree(ul, ul', Len(ul))
      /\ ul'[Len(ul) + 1] = a /\ ul'[Len(ul) + 2] = b
      /\ ul'[Len(ul) + 3] = c /\ ul'[Len(ul) + 4] = d
  <2> DEFINE v == <<a, b, c, d>>
  <2>1. /\ Longer(ul, ul', v) /\ Len(v) = 4
        /\ v[1] = a /\ v[2] = b /\ v[3] = c /\ v[4] = d
    BY <1>6, <1>7
  <2> HIDE DEF v
  <2> QED
    BY <2>1 DEF Longer
<1> QED
  BY <1>1, <1>3, <1>4, <1>8 DEF MarkAt

LEMMA ScriptBeginLayout ==
  ASSUME TypeOK, TypeOK', Layout(cs, ul), ScriptBegin
  PROVE  Layout(cs', ul')
<1>1. /\ StackOK /\ UnwindOK /\ Running.k = "script" /\ Running.pc = "begin"
      /\ ~ Inside(Running) /\ ~ IsRun(Running) /\ Idle(Running.k, Running.pc)
      /\ ul \in Seq(Elem) /\ ul' \in Seq(Elem) /\ cs \in Seq(Frame)
      /\ cs' \in Seq(Frame) /\ Goto("loop")
  BY DEF TypeOK, ScriptBegin, At, Inside, InScript, IsRun, Idle, UnwindOK, StackOK
<1>2. /\ Running.base = Len(ul) /\ Len(ul) \in Nat
      /\ Depth \in Nat /\ Depth > 0 /\ Depth = Len(cs) /\ Running = cs[Depth]
  BY <1>1, IdleHere, Here
<1>3. /\ Agree(ul, ul', Len(ul)) /\ Len(ul') = Len(ul) + 4
      /\ MarkAt(ul', Len(ul) + 1, "parse_fcn_file") /\ Plain(ul'[Len(ul) + 2])
      /\ MarkAt(ul', Len(ul) + 3, "parse_and_execute") /\ Plain(ul'[Len(ul) + 4])
  BY ScriptPushed
<1>4. Went("loop")
  BY <1>1, Goings, Zenon DEF Pcs
<1>5. /\ Len(cs') = Depth /\ Same(cs, cs', Depth - 1) /\ cs'[Depth].base = Len(ul)
      /\ cs'[Depth].k = "script" /\ cs'[Depth].pc = "loop"
      /\ ~ IsRun(cs'[Depth]) /\ Inside(cs'[Depth])
  BY <1>1, <1>2, <1>4 DEF Went, Goes, Replaced, Inside, InScript, IsRun
<1>6. Settled(ul', cs'[Depth], Len(ul), Len(ul'))
  BY <1>2, <1>3, <1>5 DEF Settled, Sized, Header, Plain
<1>7. Placed(cs', ul', Depth)
  BY <1>5, <1>6 DEF Placed, Upper
<1>8. Pieces(cs', ul')
  <2>1. \A i \in 1 .. Depth : ~ IsRun(cs[i]) => cs[i].base <= Len(ul)
    BY <1>1, <1>2, BasesBelow
  <2>2. Len(cs') \in {Depth, Depth + 1} /\ Len(cs') # Depth + 1 /\ Len(ul) <= Len(ul')
    BY <1>2, <1>3, <1>5
  <2> QED
    BY <1>1, <1>2, <1>3, <1>5, <1>7, <2>1, <2>2, PiecesTop
<1>9. ASSUME NEW p \in 1 .. Len(ul'), ul'[p].e = "mark"
      PROVE  \/ p \in 1 .. Len(ul) /\ ul'[p] = ul[p]
             \/ p = Len(ul) + 1 \/ p = Len(ul) + 3
  <2>1. \/ p \in 1 .. Len(ul) \/ p = Len(ul) + 1 \/ p = Len(ul) + 2
        \/ p = Len(ul) + 3 \/ p = Len(ul) + 4
    BY <1>2, <1>3
  <2> QED
    BY <1>3, <1>9, <2>1 DEF Agree, Plain
<1>10. Owned(cs', ul')
  <2> SUFFICES ASSUME NEW p \in 1 .. Len(ul'), MarkAt(ul', p, "parse_and_execute")
               PROVE  \E i \in 1 .. Len(cs') : Inside(cs'[i]) /\ p = cs'[i].base + 3
    BY DEF Owned
  <2>1. CASE p \in 1 .. Len(ul) /\ ul'[p] = ul[p]
    <3>1. PICK i \in 1 .. Len(cs) : Inside(cs[i]) /\ p = cs[i].base + 3
      BY <2>1 DEF Layout, Owned, MarkAt
    <3>2. i \in 1 .. Depth - 1
      BY <1>1, <1>2, <3>1
    <3> QED
      BY <1>2, <1>5, <3>1, <3>2 DEF Same
  <2>2. CASE p = Len(ul) + 1
    BY <1>3, <2>2 DEF MarkAt
  <2>3. CASE p = Len(ul) + 3
    BY <1>2, <1>5, <2>3
  <2> QED
    BY <1>9, <2>1, <2>2, <2>3 DEF MarkAt
<1>11. Named(ul')
  BY <1>3, <1>9 DEF Layout, Named, MarkAt
<1> QED
  BY <1>8, <1>10, <1>11 DEF Layout

LEMMA ScriptGoesLayout ==
  ASSUME TypeOK, TypeOK', Layout(cs, ul),
         ScriptCommand \/ ScriptParseError \/ ScriptEnd \/ ScriptAfter \/ ScriptJumped
  PROVE  Layout(cs', ul')
<1>1. /\ StackOK /\ UnwindOK /\ Running.k = "script" /\ ~ Sized(Running)
      /\ Running.pc # "leave" /\ Inside(Running) /\ ul' = ul
  BY DEF TypeOK, ScriptCommand, ScriptParseError, ScriptEnd, ScriptAfter,
         ScriptJumped, At, Sized, Inside, InScript
<1>2. CASE ScriptCommand
  <2>1. PICK n \in 1 .. MaxList :
          cs' = Append(Counted("after"), ListOf("script", n, TRUE, FALSE))
    BY <1>2 DEF ScriptCommand
  <2> DEFINE x == ListOf("script", n, TRUE, FALSE)
  <2>2. x \in Frame /\ x.k = "list" /\ x.pc = "enter" /\ x.base = Len(ul')
    <3>1. x \in Frame
      BY <1>1, CallListGood DEF Roles, Pcs
    <3> QED
      BY <1>1, <3>1 DEF ListOf, FrameOf
  <2>3. cs' = Append(Counted("after"), x) /\ Running.n > 0
    BY <1>2, <2>1 DEF ScriptCommand
  <2> HIDE DEF x
  <2>4. WentCalling("after", x)
    BY <1>1, <2>2, <2>3, Goings, Zenon DEF Pcs, InScript
  <2> QED
    BY <1>1, <2>2, <2>4, NothingPushed, GoesOn
<1>3. CASE ~ ScriptCommand
  <2>1. Goto("exit") \/ Goto("loop")
    BY <1>3 DEF ScriptParseError, ScriptEnd, ScriptAfter, ScriptJumped
  <2>2. Went("exit") \/ Went("loop")
    BY <1>1, <2>1, Goings, Zenon DEF Pcs, InScript
  <2> QED
    BY <1>1, <2>2, NothingPushed, GoesOn
<1> QED
  BY <1>2, <1>3

\* No mark of parse_and_execute is above that of the running script: a script
\* that a longjmp has skipped is no owner any more, nor are its elements left.
LEMMA ScriptExitLayout ==
  ASSUME TypeOK, TypeOK', Layout(cs, ul), ScriptExit
  PROVE  Layout(cs', ul')
<1>1. /\ StackOK /\ UnwindOK /\ Running.k = "script" /\ Running.pc = "exit"
      /\ ~ IsRun(Running) /\ ~ Sized(Running) /\ ul' = ul
      /\ Call(RunOf("parse_and_execute"), "leave")
  BY DEF TypeOK, ScriptExit, At, Sized, IsRun
<1>2. /\ Running.base \in Nat /\ Len(ul) \in Nat /\ ul \in Seq(Elem)
      /\ Running.base <= Len(ul) /\ Settled(ul, Running, Running.base, Len(ul))
      /\ cs \in Seq(Frame) /\ Depth = Len(cs) /\ Depth > 0 /\ Running = cs[Depth]
  BY <1>1, Here
<1>3. WentCalling("leave", RunOf("parse_and_execute"))
  BY <1>1, FrameTypes, Goings, Zenon DEF Pcs, Tags, InScript
<1>4. /\ Header(ul, Running.base, Len(ul)) /\ Running.base + 3 <= Len(ul)
      /\ MarkAt(ul, Running.base + 3, "parse_and_execute")
  BY <1>1, <1>2 DEF Settled
<1>5. NoMark(ul, Running.base + 3, Len(ul), "parse_and_execute")
  <2> SUFFICES ASSUME NEW p \in Running.base + 3 + 1 .. Len(ul),
                      MarkAt(ul, p, "parse_and_execute")
               PROVE  FALSE
    BY DEF NoMark
  <2>1. p \in 1 .. Len(ul)
    BY <1>2
  <2>2. PICK i \in 1 .. Len(cs) : Inside(cs[i]) /\ p = cs[i].base + 3
    BY <2>1 DEF Layout, Owned
  <2>3. cs[i].base <= Running.base /\ cs[i].base \in Nat
    <3>1. ~ IsRun(cs[i])
      BY <2>2 DEF Inside, IsRun
    <3> QED
      BY <1>1, <1>2, <3>1, BasesBelow, StackFacts
  <2> QED
    BY <1>2, <2>2, <2>3
<1>6. Framed(ul, Running.base + 2, Len(ul), "parse_and_execute")
  <2>1. (Running.base + 2) + 1 = Running.base + 3 /\ Running.base + 2 < Len(ul)
    BY <1>2, <1>4
  <2> QED
    BY <1>4, <1>5, <2>1 DEF Framed
<1>7. Pending(ul', cs'[Depth], RunOf("parse_and_execute"), Running.base, Len(ul'))
  BY <1>1, <1>3, <1>4, <1>6, NewFrames DEF Pending, WentCalling, Goes
<1>8. Changed(ul, ul', Running.base)
  BY <1>1, <1>2, Unchanged
<1> QED
  BY <1>1, <1>3, <1>7, <1>8, RunsHere

\* parse_and_execute has given its frame back, and the script its ownership.
LEMMA ScriptLeaveLayout ==
  ASSUME TypeOK, TypeOK', Layout(cs, ul), ScriptLeave
  PROVE  Layout(cs', ul')
<1> DEFINE x == RunOf("parse_fcn_file")
           fr == [Running EXCEPT !.pc = "done"]
<1>1. /\ StackOK /\ UnwindOK /\ Running.k = "script" /\ Running.pc = "leave"
      /\ ~ IsRun(Running) /\ ~ Sized(Running) /\ ul' = ul
      /\ cs' = Append(Top(fr), x) /\ cs' \in Seq(Frame)
  BY DEF TypeOK, StackOK, ScriptLeave, At, Sized, IsRun, Call
<1>2. /\ Running.base \in Nat /\ Len(ul) \in Nat /\ ul \in Seq(Elem)
      /\ Running.base <= Len(ul) /\ Settled(ul, Running, Running.base, Len(ul))
      /\ cs \in Seq(Frame) /\ Depth = Len(cs) /\ Depth > 0 /\ Running = cs[Depth]
      /\ Depth \in Nat /\ Running \in Frame
  BY <1>1, Here, RunningFrame
<1>3. Header(ul, Running.base, Len(ul)) /\ Len(ul) = Running.base + 2
  BY <1>1, <1>2 DEF Settled
<1>4. /\ x \in Frame /\ x.k = "run" /\ x.pc = "pop" /\ x.tag = "parse_fcn_file"
  BY <1>1, FrameTypes, NewFrames DEF Tags
<1>5. /\ fr \in Frame /\ fr.k = "script" /\ fr.pc = "done" /\ fr.base = Running.base
  BY <1>1, <1>2, ZenonT(40) DEF Frame, Pcs
<1> HIDE DEF x, fr
<1>6. /\ Len(cs') = Depth + 1 /\ Same(cs, cs', Depth - 1)
      /\ cs'[Depth] = fr /\ cs'[Depth + 1] = x
  <2> DEFINE t == Top(fr)
  <2>1. /\ t \in Seq(Frame) /\ Len(t) = Depth
        /\ \A j \in 1 .. Len(cs) : t[j] = IF j = Depth THEN fr ELSE cs[j]
    BY <1>2, <1>5, ExceptSeq DEF Top, Depth
  <2>2. cs' = Append(t, x)
    BY <1>1
  <2> HIDE DEF t
  <2>3. /\ Len(cs') = Depth + 1 /\ cs'[Depth + 1] = x
        /\ \A j \in 1 .. Depth : cs'[j] = t[j]
    BY <1>4, <2>1, <2>2, AppendProperties
  <2> QED
    BY <1>2, <2>1, <2>3 DEF Same
<1>7. Framed(ul, Running.base, Len(ul), "parse_fcn_file")
  <2>1. \A p \in Running.base + 1 + 1 .. Len(ul) : p = Running.base + 2
    BY <1>2, <1>3
  <2>2. Running.base < Len(ul)
    BY <1>2, <1>3
  <2> QED
    BY <1>3, <2>1, <2>2 DEF Header, Framed, NoMark, MarkAt
<1>8. ~ IsRun(fr) /\ IsRun(x)
  BY <1>4, <1>5 DEF IsRun
<1>9. Placed(cs', ul', Depth) /\ Placed(cs', ul', Depth + 1)
  <2>1. Pending(ul, fr, x, Running.base, Len(ul))
    BY <1>4, <1>5, <1>7 DEF Pending, TagOf
  <2>2. /\ Upper(cs', ul', Depth + 1) = Len(ul) /\ (Depth + 1) - 1 = Depth
        /\ Depth < Len(cs') /\ Depth + 1 > 1
    BY <1>1, <1>2, <1>6 DEF Upper
  <2>3. Ran(ul, fr, x, Running.base, Len(ul))
    BY <1>4, <2>1 DEF Ran
  <2>4. x.pc # "done"
    BY <1>4
  <2>5. Placed(cs', ul', Depth)
    BY <1>6, <1>8, <2>2 DEF Placed
  <2>6. Placed(cs', ul', Depth + 1)
    BY <1>1, <1>5, <1>6, <1>8, <2>2, <2>3, <2>4 DEF Placed
  <2> QED
    BY <2>5, <2>6
<1>10. Pieces(cs', ul')
  <2>1. \A i \in 1 .. Depth : ~ IsRun(cs[i]) => cs[i].base <= Running.base
    BY <1>1, <1>2, BasesBelow
  <2>2. Len(cs') \in {Depth, Depth + 1} /\ Agree(ul, ul', Running.base)
    BY <1>1, <1>6 DEF Agree
  <2>3. cs'[Depth].base = cs[Depth].base /\ (IsRun(cs'[Depth]) <=> IsRun(cs[Depth]))
    BY <1>1, <1>2, <1>5, <1>6, <1>8
  <2>4. Len(cs') = Depth + 1 =>
           /\ Placed(cs', ul', Depth + 1)
           /\ ~ IsRun(cs'[Depth + 1]) =>
                Running.base <= cs'[Depth + 1].base /\ cs'[Depth + 1].base <= Len(ul')
    BY <1>6, <1>8, <1>9
  <2> QED
    BY <1>1, <1>2, <1>6, <1>9, <2>1, <2>2, <2>3, <2>4, PiecesTop
<1>11. Owned(cs', ul')
  <2> SUFFICES ASSUME NEW p \in 1 .. Len(ul), MarkAt(ul, p, "parse_and_execute")
               PROVE  \E i \in 1 .. Len(cs') : Inside(cs'[i]) /\ p = cs'[i].base + 3
    BY <1>1 DEF Owned
  <2>1. PICK i \in 1 .. Len(cs) : Inside(cs[i]) /\ p = cs[i].base + 3
    BY DEF Layout, Owned
  <2>2. i # Depth
    BY <1>2, <1>3, <2>1
  <2>3. i \in 1 .. Depth - 1 /\ i \in 1 .. Len(cs')
    BY <1>2, <1>6, <2>2
  <2> QED
    BY <1>6, <2>1, <2>3 DEF Same
<1> QED
  BY <1>1, <1>10, <1>11 DEF Layout

LEMMA ScriptLayout ==
  ASSUME TypeOK, TypeOK', Layout(cs, ul), Scripts
  PROVE  Layout(cs', ul')
BY ScriptBeginLayout, ScriptGoesLayout, ScriptExitLayout, ScriptLeaveLayout
DEF Scripts

\* The stack without its last frame.
LEMMA ReturnSame ==
  ASSUME StackOK, Depth > 1, Return
  PROVE  Len(cs') = Depth - 1 /\ Same(cs, cs', Depth - 1)
<1>1. Depth - 1 \in Nat /\ Depth - 1 <= Len(cs) /\ Len(cs) = Depth /\ cs \in Seq(Frame)
  BY RunningFrame DEF StackOK
<1>2. \A i \in 1 .. Depth - 1 : cs[i] \in Frame
  BY <1>1, StackFacts
<1> QED
  BY <1>1, <1>2, SubSeqProperties DEF Return, Same

LEMMA LeaveLayout ==
  ASSUME TypeOK, TypeOK', Layout(cs, ul), Leave
  PROVE  Layout(cs', ul')
<1>1. /\ StackOK /\ Return /\ ul' = ul
      /\ cs \in Seq(Frame) /\ cs' \in Seq(Frame) /\ ul \in Seq(Elem)
  BY DEF TypeOK, StackOK, UnwindOK, Leave
<1>2. CASE IsRun(Running)
  <2>1. Running.pc = "done"
    BY <1>2 DEF Leave, At, IsRun
  <2>2. Depth = Len(cs) /\ Depth > 0 /\ Running = cs[Depth] /\ Depth \in Nat
    BY <1>1, RunningFrame DEF Running
  <2>3. Depth > 1
    BY <1>1, <1>2, <2>2, BasesBelow
  <2> QED
    BY <1>1, <1>2, <2>1, <2>2, <2>3, ReturnSame, ReturnedRun
<1>3. CASE ~ IsRun(Running)
  <2>1. Idle(Running.k, Running.pc) /\ Running.k # "main"
    BY <1>3 DEF Leave, At, Idle, IsRun
  <2> QED
    BY <1>1, <2>1, IdleReturns
<1> QED
  BY <1>2, <1>3

\* What a run has left to pop after one element, or that it is done.
LEMMA PoppedPiece ==
  ASSUME NEW u \in Seq(Elem), NEW w, Named(u), NEW o, NEW r, NEW q, NEW lo \in Nat,
         NEW n \in Nat, Len(u) = n + 1, Agree(u, w, n),
         Pending(u, o, r, lo, Len(u)), q.tag = r.tag,
         q.pc = IF r.tag = "one" \/ MarkAt(u, Len(u), r.tag) THEN "done" ELSE "pop"
  PROVE  lo <= n /\ Ran(w, o, q, lo, n)
<1>1. CASE /\ r.tag = "one" /\ o.k \in Popping /\ Len(u) = lo + Size(o) + 1
           /\ o.k # "unw" => NoCleanup(u, lo, Len(u))
  <2>1. Size(o) \in Nat
    BY DEF Size
  <2>2. n = lo + Size(o) /\ lo <= n
    BY <1>1, <2>1
  <2>3. o.k # "unw" => NoCleanup(w, lo, n)
    BY <1>1 DEF NoCleanup, Agree
  <2>4. /\ Sized(o) /\ o.k # "main"
        /\ NoCleanup(w, lo, n) \/ o.k \notin {"try", "catch", "cleanup"}
    BY <1>1, <2>3 DEF Sized, Popping
  <2>5. Settled(w, o, lo, n)
    BY <2>1, <2>2, <2>4, SettledSized
  <2> QED
    BY <1>1, <2>2, <2>5 DEF Ran
<1>2. ASSUME NEW k \in Nat, Framed(u, k, Len(u), r.tag)
      PROVE  /\ k <= n
             /\ MarkAt(u, Len(u), r.tag) => n = k
             /\ ~ MarkAt(u, Len(u), r.tag) => Framed(w, k, n, r.tag)
  <2>1. k < Len(u) /\ k <= n /\ MarkAt(u, k + 1, r.tag)
    BY <1>2 DEF Framed
  <2>2. MarkAt(u, Len(u), r.tag) => n = k
    <3>1. k + 1 < Len(u) => ~ MarkAt(u, Len(u), r.tag)
      BY <1>2, <2>1 DEF Framed, NoMark
    <3> QED
      BY <2>1, <3>1
  <2>3. ASSUME ~ MarkAt(u, Len(u), r.tag)
        PROVE  Framed(w, k, n, r.tag)
    <3>1. k < n
      BY <2>1, <2>3
    <3>2. MarkAt(w, k + 1, r.tag)
      BY <2>1, <3>1 DEF MarkAt, Agree
    <3>3. NoMark(w, k + 1, n, r.tag)
      BY <1>2 DEF Framed, NoMark, MarkAt, Agree
    <3> QED
      BY <3>1, <3>2, <3>3 DEF Framed
  <2> QED
    BY <2>1, <2>2, <2>3
<1>3. CASE /\ o.k \in {"try", "call", "eval", "script"} /\ o.pc \in {"caught", "done"}
           /\ r.tag = TagOf(o) /\ Framed(u, lo, Len(u), r.tag)
  <2>1. lo <= n /\ r.tag # "one"
    BY <1>2, <1>3 DEF TagOf
  <2>2. CASE MarkAt(u, Len(u), r.tag)
    <3>1. n = lo /\ Sized(o) /\ Size(o) = 0 /\ o.k # "main"
      BY <1>2, <1>3, <2>2 DEF Sized, Size
    <3>2. Settled(w, o, lo, n)
      BY <3>1, SettledEmpty
    <3> QED
      BY <2>1, <2>2, <3>2 DEF Ran
  <2>3. CASE ~ MarkAt(u, Len(u), r.tag)
    <3>1. Framed(w, lo, n, q.tag)
      BY <1>2, <1>3, <2>3
    <3> QED
      BY <1>3, <2>1, <2>3, <3>1 DEF Ran, Pending
  <2> QED
    BY <2>2, <2>3
<1>4. CASE /\ o.k = "script" /\ o.pc = "leave" /\ r.tag = "parse_and_execute"
           /\ Header(u, lo, Len(u)) /\ Framed(u, lo + 2, Len(u), r.tag)
  <2>1. lo + 2 <= n /\ lo <= n /\ r.tag # "one" /\ lo + 2 \in Nat
    BY <1>2, <1>4
  <2>2. Header(w, lo, n)
    BY <1>4, <2>1 DEF Header, MarkAt, Agree
  <2>3. CASE MarkAt(u, Len(u), r.tag)
    <3>1. n = lo + 2
      BY <1>2, <1>4, <2>1, <2>3
    <3>2. Settled(w, o, lo, n)
      BY <1>4, <2>1, <2>2, <3>1 DEF Settled, Sized
    <3> QED
      BY <2>1, <2>3, <3>2 DEF Ran
  <2>4. CASE ~ MarkAt(u, Len(u), r.tag)
    <3>1. Framed(w, lo + 2, n, q.tag)
      BY <1>2, <1>4, <2>1, <2>4
    <3> QED
      BY <1>4, <2>1, <2>2, <2>4, <3>1 DEF Ran, Pending
  <2> QED
    BY <2>3, <2>4
<1>5. CASE o.k = "main" /\ o.pc = "read" /\ r.tag = "all" /\ lo = 0
  <2>1. ~ MarkAt(u, Len(u), r.tag)
    BY <1>5 DEF Named
  <2> QED
    BY <1>5, <2>1 DEF Ran, Pending
<1> QED
  BY <1>1, <1>3, <1>4, <1>5 DEF Pending

\* A run, the frame that has called it, and the piece that it pops.
LEMMA RunHere ==
  ASSUME TypeOK, Layout(cs, ul), At("run", "pop")
  PROVE  /\ cs \in Seq(Frame) /\ ul \in Seq(Elem) /\ Depth = Len(cs) /\ Depth \in Nat
         /\ Depth > 1 /\ Running = cs[Depth] /\ IsRun(cs[Depth]) /\ Len(ul) \in Nat
         /\ cs[Depth - 1].base \in Nat /\ cs[Depth - 1].base <= Len(ul)
         /\ Pending(ul, cs[Depth - 1], Running, cs[Depth - 1].base, Len(ul))
<1>1. /\ cs \in Seq(Frame) /\ ul \in Seq(Elem) /\ Depth = Len(cs) /\ Depth \in Nat
      /\ Depth > 0 /\ Running = cs[Depth] /\ IsRun(cs[Depth]) /\ Running.pc = "pop"
  BY RunningFrame DEF TypeOK, StackOK, UnwindOK, Running, At, IsRun
<1>2. /\ Depth > 1 /\ Len(ul) \in Nat /\ Placed(cs, ul, Depth)
      /\ cs[Depth - 1].base \in Nat /\ cs[Depth - 1].base <= Len(ul)
  BY <1>1, BasesBelow
<1>3. Ran(ul, cs[Depth - 1], Running, cs[Depth - 1].base, Len(ul))
  BY <1>1, <1>2 DEF Placed, Upper
<1> QED
  BY <1>1, <1>2, <1>3 DEF Ran

LEMMA RunEmptyLayout ==
  ASSUME TypeOK, TypeOK', Layout(cs, ul), RunEmpty
  PROVE  Layout(cs', ul')
<1> DEFINE o == cs[Depth - 1]
<1>1. /\ StackOK /\ At("run", "pop") /\ ul = <<>> /\ ul' = ul /\ Goto("done")
      /\ ~ Inside(Running)
  BY DEF TypeOK, RunEmpty, At, Inside
<1>2. /\ cs \in Seq(Frame) /\ ul \in Seq(Elem) /\ Depth = Len(cs) /\ Depth \in Nat
      /\ Depth > 1 /\ Running = cs[Depth] /\ IsRun(cs[Depth]) /\ Len(ul) = 0
      /\ o.base \in Nat /\ o.base <= Len(ul)
      /\ Pending(ul, o, Running, o.base, Len(ul))
  BY <1>1, RunHere, EmptySeq
<1> HIDE DEF o
<1>3. o.base = 0 /\ Size(o) \in Nat
  BY <1>2 DEF Size
<1>4. o.k = "main" /\ o.pc = "read"
  BY <1>2, <1>3 DEF Pending, Framed
<1>5. Settled(ul, o, o.base, Len(ul))
  <2>1. Sized(o) /\ Size(o) = 0
    BY <1>4 DEF Sized, Size
  <2> QED
    BY <1>2, <1>3, <2>1, SettledEmpty
<1>6. Went("done")
  BY <1>1, Goings, Zenon DEF Pcs
<1>7. /\ Replaced(cs, cs', Depth) /\ Len(cs') = Depth /\ cs'[Depth].pc = "done"
      /\ cs' \in Seq(Frame)
  BY <1>6 DEF Went, Goes, TypeOK, StackOK
<1>8. Ran(ul, o, cs'[Depth], o.base, Len(ul))
  BY <1>5, <1>7 DEF Ran
<1>9. Changed(ul, ul, o.base)
  BY <1>2, Unchanged
<1>10. /\ Ran(ul, cs[Depth - 1], cs'[Depth], cs[Depth - 1].base, Len(ul))
       /\ Changed(ul, ul, cs[Depth - 1].base) /\ Depth > 0
  BY <1>2, <1>8, <1>9 DEF o
<1>11. Layout(cs', ul)
  BY <1>2, <1>7, <1>10, Popped
<1> QED
  BY <1>1, <1>11

LEMMA RunPopLayout ==
  ASSUME TypeOK, TypeOK', Layout(cs, ul), RunPop
  PROVE  Layout(cs', ul')
<1> DEFINE o == cs[Depth - 1]
           el == ul[Len(ul)]
           pc == IF Running.tag = "one" \/ (el.e = "mark" /\ el.tag = Running.tag)
                 THEN "done" ELSE "pop"
           x == [FrameOf(el.e, "begin") EXCEPT !.brk = el.brk, !.cont = el.cont,
                   !.flag = el.flag, !.base = Len(ul')]
           n == Len(ul) - 1
<1>1. /\ StackOK /\ UnwindOK /\ At("run", "pop") /\ ul # <<>> /\ ~ Inside(Running)
      /\ cs' \in Seq(Frame) /\ ul' \in Seq(Elem)
  BY DEF TypeOK, StackOK, UnwindOK, RunPop, At, Inside
<1>2. /\ cs \in Seq(Frame) /\ ul \in Seq(Elem) /\ Depth = Len(cs) /\ Depth \in Nat
      /\ Depth > 1 /\ Running = cs[Depth] /\ IsRun(cs[Depth]) /\ Len(ul) \in Nat
      /\ o.base \in Nat /\ o.base <= Len(ul)
      /\ Pending(ul, o, Running, o.base, Len(ul))
  BY <1>1, RunHere
<1>3. n \in Nat /\ Len(ul) = n + 1 /\ n <= Len(ul)
  BY <1>1, <1>2, EmptySeq
<1>4. ul' = SubSeq(ul, 1, n)
  BY DEF RunPop
<1>5. /\ el.e \in {"catch", "cleanup"} => Call(x, pc)
      /\ el.e \notin {"catch", "cleanup"} => Goto(pc)
  BY DEF RunPop
<1>6. el.e \in {"catch", "cleanup"} =>
        /\ x \in Frame /\ x.k = el.e /\ x.pc = "begin" /\ x.base = Len(ul')
  <2> SUFFICES ASSUME el.e \in {"catch", "cleanup"}
               PROVE  x \in Frame /\ x.k = el.e /\ x.pc = "begin" /\ x.base = Len(ul')
    OBVIOUS
  <2>1. FrameOf(el.e, "begin") \in Frame
    BY <1>1, FrameTypes DEF FrameKinds, Pcs
  <2>2. el \in Elem /\ Len(ul') \in Nat
    BY <1>1, PoppedGood, LenProperties
  <2>3. el.brk \in BOOLEAN /\ el.cont \in BOOLEAN /\ el.flag \in BOOLEAN
    BY <2>2 DEF Elem
  <2> HIDE DEF el
  <2>4. x \in Frame
    BY <2>1, <2>2, <2>3 DEF Frame, FrameOf
  <2> QED
    BY <2>4 DEF FrameOf
<1>7. /\ pc \in Pcs /\ pc \in {"done", "pop"}
      /\ pc = "done" => Running.tag = "one" \/ el.e = "mark"
      /\ pc = IF Running.tag = "one" \/ MarkAt(ul, Len(ul), Running.tag)
              THEN "done" ELSE "pop"
  BY DEF Pcs, MarkAt
<1> HIDE DEF o, el, pc, x, n
<1>8. /\ Len(ul') = n /\ Agree(ul, ul', n) /\ Grown(ul, ul')
      /\ \A lo \in Nat : lo <= n => Changed(ul, ul', lo)
  BY <1>2, <1>3, <1>4, PoppedChange
<1>9. /\ el.e \in {"catch", "cleanup"} => WentCalling(pc, x)
      /\ el.e \notin {"catch", "cleanup"} => Went(pc)
  BY <1>1, <1>5, <1>6, <1>7, Goings, Zenon
<1>10. /\ Goes(cs', pc) /\ Replaced(cs, cs', Depth) /\ cs'[Depth].pc = pc
       /\ cs'[Depth].tag = Running.tag
  <2>1. Goes(cs', pc)
    BY <1>9 DEF Went, WentCalling
  <2>2. cs'[Depth].tag = Running.tag
    <3> DEFINE fr == [Running EXCEPT !.pc = pc]
    <3>1. Running \in Frame /\ fr \in Frame /\ fr.tag = Running.tag
      BY <1>1, <1>7, RunningFrame DEF Frame
    <3>2. cs' = Top(fr) \/ (x \in Frame /\ cs' = Append(Top(fr), x))
      BY <1>5, <1>6 DEF Goto, Call
    <3> HIDE DEF fr
    <3>3. /\ Top(fr) \in Seq(Frame) /\ Len(Top(fr)) = Depth
          /\ Depth \in 1 .. Len(cs) /\ Top(fr)[Depth] = fr
      BY <1>2, <3>1, ExceptSeq DEF Top, Depth
    <3>4. x \in Frame => Append(Top(fr), x)[Depth] = fr
      BY <1>2, <3>3, AppendProperties
    <3> QED
      BY <3>1, <3>2, <3>3, <3>4
  <2> QED
    BY <2>1, <2>2 DEF Goes
<1>11. o.base <= n /\ Ran(ul', o, cs'[Depth], o.base, n)
  BY <1>2, <1>3, <1>7, <1>8, <1>10, PoppedPiece DEF Layout
<1>12. /\ Ran(ul', cs[Depth - 1], cs'[Depth], cs[Depth - 1].base, Len(ul'))
       /\ Changed(ul, ul', cs[Depth - 1].base) /\ Depth > 0
  BY <1>2, <1>8, <1>11 DEF o
<1>13. CASE el.e \notin {"catch", "cleanup"}
  <2>1. Len(cs') = Depth
    BY <1>9, <1>13 DEF Went
  <2> QED
    BY <1>1, <1>2, <1>10, <1>12, <2>1, Popped
<1>14. CASE el.e \in {"catch", "cleanup"}
  <2>1. Len(cs') = Depth + 1 /\ cs'[Depth + 1] = x
    BY <1>9, <1>14 DEF WentCalling
  <2>2. pc = "done" => Single(o, cs'[Depth])
    <3>1. o.k = "script" \/ o.k \in {"try", "call", "eval"} => TagOf(o) # "one"
      BY DEF TagOf
    <3> QED
      BY <1>2, <1>7, <1>10, <1>14, <3>1 DEF Pending, Single
  <2>3. ~ IsRun(x) /\ Settled(ul', x, n, n) /\ x.base = n
    <3>1. x.k \in {"catch", "cleanup"} /\ x.pc = "begin" /\ x.base = n
      BY <1>6, <1>8, <1>14
    <3>2. Sized(x) /\ Size(x) = 0 /\ ~ IsRun(x) /\ x.k # "main"
      BY <3>1 DEF Sized, Size, IsRun
    <3> QED
      BY <1>3, <3>1, <3>2, SettledEmpty
  <2> QED
    <3>1. cs'[Depth].pc = "done" => Single(cs[Depth - 1], cs'[Depth])
      BY <1>10, <2>2 DEF o
    <3>2. /\ ~ IsRun(cs'[Depth + 1]) /\ cs'[Depth + 1].base = Len(ul')
          /\ Settled(ul', cs'[Depth + 1], Len(ul'), Len(ul'))
      BY <1>8, <2>1, <2>3
    <3> QED
      BY <1>1, <1>2, <1>10, <1>12, <2>1, <3>1, <3>2, Spawned
<1> QED
  BY <1>13, <1>14

LEMMA EvaluatorRunLayout ==
  ASSUME TypeOK, TypeOK', Layout(cs, ul), RunPop \/ RunEmpty
  PROVE  Layout(cs', ul')
BY RunPopLayout, RunEmptyLayout

\* A script that is in parse_and_execute has its marks where it has put them.
LEMMA SetjmpPiece ==
  ASSUME NEW s \in Seq(Frame), NEW u \in Seq(Elem), Layout(s, u),
         NEW i \in 1 .. Len(s), i < Len(s), Inside(s[i]), ~ IsRun(s[Len(s)])
  PROVE  /\ s[i].base + 3 <= Len(u) /\ Header(u, s[i].base, Len(u))
         /\ MarkAt(u, s[i].base + 3, "parse_and_execute")
<1> DEFINE lo == s[i].base
<1>1. /\ Len(s) \in Nat /\ Len(u) \in Nat /\ lo \in Nat /\ i + 1 \in 1 .. Len(s)
      /\ \A j \in 1 .. Len(s) : s[j] \in Frame /\ s[j].base \in Nat
  BY StackFacts, LenProperties
<1>2. /\ Placed(s, u, i) /\ Placed(s, u, i + 1)
      /\ \A j \in 1 .. Len(s) : Placed(s, u, j)
      /\ \A j \in 1 .. Len(s) : ~ IsRun(s[j]) => s[j].base <= Len(u)
  BY <1>1 DEF Layout, Pieces, Ascend
<1>3. /\ ~ IsRun(s[i]) /\ ~ Sized(s[i]) /\ s[i].k = "script"
      /\ s[i].pc \notin {"caught", "done"}
  BY DEF Inside, InScript, IsRun, Sized
<1>4. PICK hi \in Nat : /\ hi <= Len(u) /\ Header(u, lo, hi) /\ lo + 3 <= hi
                        /\ MarkAt(u, lo + 3, "parse_and_execute")
  <2>1. CASE IsRun(s[i + 1])
    <3> DEFINE hi == Upper(s, u, i + 1)
    <3>1. /\ (i + 1) - 1 = i /\ Ran(u, s[i], s[i + 1], lo, hi)
          /\ s[i + 1].pc = "done" => i + 1 = Len(s) \/ Single(s[i], s[i + 1])
      BY <1>1, <1>2, <2>1 DEF Placed
    <3>2. i + 1 # Len(s)
      BY <2>1
    <3>3. s[i + 1].pc # "done"
      BY <1>3, <3>1, <3>2 DEF Single, Popping
    <3>4. Pending(u, s[i], s[i + 1], lo, hi)
      BY <3>1, <3>3 DEF Ran
    <3>5. hi \in Nat /\ hi <= Len(u)
      <4>1. i + 2 \in 1 .. Len(s) /\ (i + 1) + 1 = i + 2 /\ (i + 2) - 1 = i + 1
        BY <1>1, <3>2
      <4>2. ~ IsRun(s[i + 2])
        BY <1>2, <2>1, <4>1 DEF Placed
      <4> QED
        BY <1>1, <1>2, <3>2, <4>1, <4>2 DEF Upper
    <3> HIDE DEF hi
    <3>6. Header(u, lo, hi) /\ Framed(u, lo + 2, hi, "parse_and_execute")
      BY <1>3, <3>4 DEF Pending, Popping
    <3>7. lo + 3 <= hi /\ MarkAt(u, lo + 3, "parse_and_execute")
      <4>1. (lo + 2) + 1 = lo + 3
        BY <1>1
      <4>2. lo + 2 < hi /\ MarkAt(u, (lo + 2) + 1, "parse_and_execute")
        BY <3>6 DEF Framed
      <4> QED
        BY <1>1, <3>5, <4>1, <4>2
    <3> QED
      BY <3>5, <3>6, <3>7
  <2>2. CASE ~ IsRun(s[i + 1])
    <3>1. Upper(s, u, i) = s[i + 1].base
      BY <1>1 DEF Upper
    <3>2. Settled(u, s[i], lo, s[i + 1].base) /\ s[i].pc # "leave"
      BY <1>1, <1>2, <1>3, <2>2, <3>1 DEF Placed
    <3>3. /\ Header(u, lo, s[i + 1].base) /\ lo + 3 <= s[i + 1].base
          /\ MarkAt(u, lo + 3, "parse_and_execute")
      BY <1>3, <3>2 DEF Settled
    <3> QED
      BY <1>1, <1>2, <2>2, <3>3
  <2> QED
    BY <2>1, <2>2
<1> HIDE DEF lo
<1>5. lo + 3 <= Len(u) /\ Header(u, lo, Len(u))
  BY <1>1, <1>4 DEF Header
<1> QED
  BY <1>4, <1>5 DEF lo

LEMMA InterruptLayout ==
  ASSUME TypeOK, TypeOK', Layout(cs, ul), Interrupt
  PROVE  Layout(cs', ul')
<1>1. /\ StackOK /\ cs \in Seq(Frame) /\ cs' \in Seq(Frame) /\ ul \in Seq(Elem)
      /\ ul' = ul /\ Depth \in Nat /\ Depth > 0 /\ Depth = Len(cs)
      /\ Running = cs[Depth] /\ cs[1].k = "main" /\ Len(ul) \in Nat
  BY RunningFrame, LenProperties DEF TypeOK, StackOK, UnwindOK, Running, Interrupt
<1>2. Running.k \in {"list", "while", "for"}
  BY DEF Interrupt, Interruptible, AtStatement, At
<1>3. Setjmps = {j \in 1 .. Depth : Inside(cs[j])}
  BY DEF Setjmps, Inside, InScript
<1>4. PICK i \in Setjmps \cup {1} :
        /\ \A j \in Setjmps : j <= i
        /\ cs' = Append(SubSeq(cs, 1, i - 1), [cs[i] EXCEPT !.pc = "jumped"])
  BY DEF Interrupt
<1>5. i \in 1 .. Len(cs) /\ (Inside(cs[i]) \/ i = 1)
  BY <1>1, <1>3, <1>4
<1> DEFINE fr == [cs[i] EXCEPT !.pc = "jumped"]
           t == SubSeq(cs, 1, i - 1)
<1>6. /\ cs[i] \in Frame /\ fr \in Frame /\ fr.base = cs[i].base /\ fr.k = cs[i].k
      /\ fr.pc = "jumped" /\ cs[i].base \in Nat
  <2>1. cs[i] \in Frame /\ cs[i].base \in Nat
    BY <1>1, <1>5, StackFacts
  <2> QED
    BY <2>1 DEF Frame, Pcs
<1>7. t \in Seq(Frame) /\ Len(t) = i - 1 /\ \A j \in 1 .. i - 1 : t[j] = cs[j]
  <2>1. i - 1 \in Nat /\ \A j \in 1 .. i - 1 : cs[j] \in Frame
    BY <1>1, <1>5, StackFacts
  <2> QED
    BY <2>1, SubSeqProperties
<1>8. cs' = Append(t, fr)
  BY <1>4
<1> HIDE DEF t, fr
<1>9. Len(cs') = i /\ Same(cs, cs', i - 1) /\ cs'[i] = fr
  <2>1. /\ Len(cs') = Len(t) + 1 /\ cs'[Len(t) + 1] = fr
        /\ \A j \in 1 .. Len(t) : cs'[j] = t[j]
    BY <1>6, <1>7, <1>8, AppendProperties
  <2> QED
    BY <1>5, <1>7, <2>1 DEF Same
<1>10. /\ ~ IsRun(cs[i]) /\ ~ IsRun(fr) /\ (Inside(cs[i]) => Inside(fr))
  BY <1>1, <1>5, <1>6 DEF IsRun, Inside, InScript
<1>11. Settled(ul, fr, cs[i].base, Len(ul))
  <2>1. CASE Inside(cs[i])
    <3>1. i < Len(cs) /\ ~ IsRun(cs[Len(cs)])
      BY <1>1, <1>2, <1>5, <2>1 DEF Inside, IsRun
    <3>2. /\ cs[i].base + 3 <= Len(ul) /\ Header(ul, cs[i].base, Len(ul))
          /\ MarkAt(ul, cs[i].base + 3, "parse_and_execute")
      BY <1>1, <1>5, <2>1, <3>1, SetjmpPiece
    <3>3. fr.k = "script" /\ ~ Sized(fr) /\ cs[i].base <= Len(ul)
      BY <1>1, <1>6, <2>1, <3>2 DEF Inside, Sized
    <3> QED
      BY <1>6, <3>2, <3>3 DEF Settled
  <2>2. CASE i = 1
    <3>1. cs[1].base = 0 /\ fr.k = "main" /\ ~ Sized(fr)
      BY <1>1, <1>6, <2>2 DEF Layout, Pieces, Ascend, Sized
    <3> QED
      BY <1>1, <2>2, <3>1 DEF Settled
  <2> QED
    BY <1>5, <2>1, <2>2
<1>12. \A j \in 1 .. Len(cs) : Inside(cs[j]) => j <= i
  BY <1>1, <1>3, <1>4
<1>13. Layout(cs', ul)
  BY <1>1, <1>5, <1>6, <1>9, <1>10, <1>11, <1>12, CutBack
<1> QED
  BY <1>1, <1>13

LEMMA InitLayout ==
  ASSUME Init
  PROVE  Layout(cs, ul)
<1>1. Len(cs) = 1 /\ cs[1].k = "main" /\ cs[1].pc = "read" /\ cs[1].base = 0
  BY DEF Init
<1>2. Len(ul) = 0
  BY DEF Init
<1>3. Placed(cs, ul, 1)
  BY <1>1, <1>2 DEF Placed, IsRun, Upper, Settled, Sized, Size
<1>4. Pieces(cs, ul)
  BY <1>1, <1>2, <1>3 DEF Pieces, Ascend
<1> QED
  BY <1>2, <1>4 DEF Layout, Owned, Named

LEMMA NextLayout ==
  ASSUME TypeOK, TypeOK', Layout(cs, ul), [Next]_vars
  PROVE  Layout(cs', ul')
<1>1. CASE UNCHANGED vars
  <2>1. cs' = cs /\ ul' = ul
    BY <1>1 DEF vars
  <2> QED
    BY <2>1
<1>2. CASE Next
  BY <1>2, MainLayout, ListLayout, StatementLayout, LoopLayout, ProtectionLayout,
     CallLayout, ScriptLayout, EvalLayout, LeaveLayout, EvaluatorRunLayout,
     InterruptLayout DEF Next, Work
<1> QED
  BY <1>1, <1>2

LEMMA LayoutBalanced ==
  ASSUME TypeOK, Layout(cs, ul)
  PROVE  UnwindBalanced
<1>1. \A i \in 1 .. Depth : cs[i].k # "run" => cs[i].base <= Len(ul)
  BY RunningFrame DEF TypeOK, Layout, Pieces, Ascend, IsRun
<1>2. ASSUME Running.k # "run", Running.pc \in {"done", "caught", "cleaned"}
      PROVE  Running.base = Len(ul)
  <2>1. ~ IsRun(Running)
    BY <1>2 DEF IsRun
  <2>2. Settled(ul, Running, Running.base, Len(ul)) /\ Running.base \in Nat
    BY <2>1, Here
  <2>3. CASE Running.pc \in {"done", "caught"}
    BY <2>2, <2>3 DEF Settled, Sized, Size
  <2>4. CASE Running.pc = "cleaned"
    BY <2>2, <2>4 DEF Settled, Sized, Size
  <2> QED
    BY <1>2, <2>3, <2>4
<1> QED
  BY <1>1, <1>2 DEF UnwindBalanced

-----------------------------------------------------------------------------
(***************************************************************************)
(* The theorems                                                            *)
(***************************************************************************)

\* Every construct of the evaluator finds unwind_protect_list, when it is left,
\* as it was when it was entered, and nothing that runs in between has touched
\* the elements below: with any nesting of statements, functions, scripts and
\* evals, errors and returns in each of them, and interrupts that throw the C
\* stack away.  run_unwind_protect () and run_unwind_frame () pop without asking
\* whose element it is, so all cleanup of the interpreter rests on this.
THEOREM Balanced == Spec => []UnwindBalanced
<1>1. Init => Layout(cs, ul)
  BY InitLayout
<1>2. TypeOK /\ TypeOK' /\ Layout(cs, ul) /\ [Next]_vars => Layout(cs, ul)'
  BY NextLayout
<1>3. TypeOK /\ Layout(cs, ul) => UnwindBalanced
  BY LayoutBalanced
<1> QED
  BY <1>1, <1>2, <1>3, TypeCorrect, PTL DEF Spec

\* The elements up to n are kept, and above n there was no cleanup code.
LEMMA CleanupsKept ==
  ASSUME TypeOK, TypeOK', NEW n \in Nat, n <= Len(ul), n <= Len(ul'),
         Agree(ul, ul', n), NoCleanup(ul, n, Len(ul))
  PROVE  Cleanups \subseteq Cleanups'
<1>1. Len(ul) \in Nat /\ Len(ul') \in Nat
  BY LenProperties DEF TypeOK, UnwindOK
<1> SUFFICES ASSUME NEW i \in 1 .. Len(ul), ul[i].e = "cleanup"
             PROVE  i \in 1 .. Len(ul') /\ ul'[i].e = "cleanup"
  BY DEF Cleanups
<1>2. i \in 1 .. n
  <2>1. i \notin n + 1 .. Len(ul)
    BY DEF NoCleanup
  <2> QED
    BY <1>1, <2>1
<1> QED
  BY <1>1, <1>2 DEF Agree

LEMMA PushedKept ==
  ASSUME TypeOK, TypeOK', Agree(ul, ul', Len(ul)), Len(ul) <= Len(ul')
  PROVE  Cleanups \subseteq Cleanups'
<1>1. Len(ul) \in Nat /\ Len(ul) <= Len(ul)
  BY LenProperties DEF TypeOK, UnwindOK
<1>2. NoCleanup(ul, Len(ul), Len(ul))
  BY <1>1 DEF NoCleanup
<1> QED
  BY <1>1, <1>2, CleanupsKept

LEMMA SeqWider ==
  ASSUME NEW S, NEW T, NEW s \in Seq(S)
  PROVE  s \in Seq(S \cup T)
<1>1. PICK n \in Nat : s \in [1 .. n -> S]
  BY SeqDef
<1>2. s \in [1 .. n -> S \cup T]
  BY <1>1
<1> QED
  BY <1>2, SeqDef

LEMMA JoinedKeeps ==
  ASSUME NEW S, NEW T, NEW u \in Seq(S), NEW v \in Seq(T)
  PROVE  u \o v \in Seq(S \cup T) /\ Agree(u, u \o v, Len(u)) /\ Len(u) <= Len(u \o v)
<1>1. u \in Seq(S \cup T)
  BY SeqWider
<1>2. v \in Seq(T \cup S) /\ T \cup S = S \cup T
  BY SeqWider
<1>3. v \in Seq(S \cup T)
  BY <1>2
<1>4. Longer(u, u \o v, v) /\ u \o v \in Seq(S \cup T)
  BY <1>1, <1>3, Joined, ConcatProperties
<1>5. Len(u) \in Nat /\ Len(v) \in Nat
  BY LenProperties
<1> QED
  BY <1>4, <1>5 DEF Longer

\* The operators that the actions push with keep what is on the list.
LEMMA PushedLists ==
  ASSUME NEW u \in Seq(Elem), NEW a, NEW b, NEW c, NEW d, NEW e
  PROVE  \A w \in {Append(u, a), u \o <<a, b>>, u \o <<a, b, c>>,
                   u \o <<a, b, c, d>>, u \o <<a, b, c, d, e>>} :
           /\ Agree(u, w, Len(u)) /\ Len(u) <= Len(w)
           /\ w \in Seq(Elem \cup {a, b, c, d, e})
<1> DEFINE S == {a, b, c, d, e}
<1>1. /\ <<a, b>> \in Seq(S) /\ <<a, b, c>> \in Seq(S) /\ <<a, b, c, d>> \in Seq(S)
      /\ <<a, b, c, d, e>> \in Seq(S)
  <2>1. a \in S /\ b \in S /\ c \in S /\ d \in S /\ e \in S
    OBVIOUS
  <2> HIDE DEF S
  <2> QED
    BY <2>1
<1>2. a \in Elem \cup S
  OBVIOUS
<1> HIDE DEF S
<1>3. \A v \in Seq(S) :
        u \o v \in Seq(Elem \cup S) /\ Agree(u, u \o v, Len(u)) /\ Len(u) <= Len(u \o v)
  BY JoinedKeeps
<1>4. /\ Append(u, a) \in Seq(Elem \cup S) /\ Agree(u, Append(u, a), Len(u))
      /\ Len(u) <= Len(Append(u, a))
  <2>1. u \in Seq(Elem \cup S) /\ Len(u) \in Nat
    BY SeqWider, LenProperties
  <2> QED
    BY <1>2, <2>1, AppendProperties DEF Agree
<1> QED
  BY <1>1, <1>3, <1>4 DEF S

\* Try and Eval push a frame mark and more, and perhaps what restores a flag.
LEMMA OpeningKept ==
  ASSUME TypeOK, TypeOK', NEW hasCatch \in BOOLEAN, Try(hasCatch) \/ Eval(hasCatch)
  PROVE  Cleanups \subseteq Cleanups'
<1>1. ul \in Seq(Elem) /\ Len(ul) \in Nat /\ ul' \in Seq(Elem) /\ Len(ul') \in Nat
  BY LenProperties DEF TypeOK, UnwindOK
<1>2. ASSUME NEW a, NEW b, NEW z, NEW h \in BOOLEAN,
             \/ ul' = (ul \o <<a, b>>) \o (IF h THEN <<z>> ELSE <<>>)
             \/ ul' = Append(ul, a) \o (IF h THEN <<z>> ELSE <<>>)
      PROVE  Cleanups \subseteq Cleanups'
  <2>1. PICK t \in {Append(ul, a), ul \o <<a, b>>} :
          ul' = t \o (IF h THEN <<z>> ELSE <<>>)
    BY <1>2
  <2>2. /\ Agree(ul, t, Len(ul)) /\ Len(ul) <= Len(t)
        /\ t \in Seq(Elem \cup {a, b})
    <3>1. CASE t = ul \o <<a, b>>
      <4>1. <<a, b>> \in Seq({a, b})
        OBVIOUS
      <4> QED
        BY <1>1, <3>1, <4>1, JoinedKeeps
    <3>2. CASE t = Append(ul, a)
      <4>1. ul \in Seq(Elem \cup {a, b}) /\ a \in Elem \cup {a, b}
        BY <1>1, SeqWider
      <4> QED
        BY <1>1, <3>2, <4>1, AppendProperties DEF Agree
    <3> QED
      BY <2>1, <3>1, <3>2
  <2> DEFINE v == IF h THEN <<z>> ELSE <<>>
             S == Elem \cup {a, b}
  <2>3. v \in Seq({z})
    <3>1. <<z>> \in Seq({z}) /\ <<>> \in Seq({z})
      OBVIOUS
    <3> QED
      BY <3>1
  <2>4. t \in Seq(S) /\ ul' = t \o v
    BY <2>1, <2>2
  <2> HIDE DEF v, S
  <2>5. Agree(t, ul', Len(t)) /\ Len(t) <= Len(ul') /\ Len(t) \in Nat
    BY <2>3, <2>4, JoinedKeeps, LenProperties
  <2>6. Agree(ul, ul', Len(ul)) /\ Len(ul) <= Len(ul')
    BY <1>1, <2>2, <2>5 DEF Agree
  <2> QED
    BY <2>6, PushedKept
<1>3. CASE Try(hasCatch)
  <2> DEFINE m == Mark("tree_try_catch::eval")
             k == [ElemOf("catch", NoFn) EXCEPT !.brk = Running.brk,
                     !.cont = Running.cont, !.flag = hasCatch]
             r == Saved("buf")
  <2>1. ul' = (ul \o <<m, k>>) \o (IF hasCatch THEN <<r>> ELSE <<>>)
    BY <1>3 DEF Try
  <2> HIDE DEF m, k, r
  <2> QED
    BY <1>2, <2>1
<1>4. CASE Eval(hasCatch)
  <2> DEFINE m == Mark("Feval")
             r == Saved("buf")
  <2>1. ul' = Append(ul, m) \o (IF hasCatch THEN <<r>> ELSE <<>>)
    BY <1>4 DEF Eval
  <2> HIDE DEF m, r
  <2> QED
    BY <1>2, <2>1
<1> QED
  BY <1>3, <1>4

LEMMA GrowingKept ==
  ASSUME TypeOK, TypeOK',
         \/ UnwindProtect \/ CleanupBegin \/ CatchProtect
         \/ CallBegin \/ CallPush \/ CallBind \/ ScriptBegin \/ EvalFailed
  PROVE  Cleanups \subseteq Cleanups'
<1>1. ul \in Seq(Elem) /\ Len(ul) \in Nat /\ ul' \in Seq(Elem) /\ Len(ul') \in Nat
  BY LenProperties DEF TypeOK, UnwindOK
<1>2. ASSUME NEW a, NEW b, NEW c, NEW d, NEW e,
             \/ ul' = Append(ul, a) \/ ul' = ul \o <<a, b>>
             \/ ul' = ul \o <<a, b, c>> \/ ul' = ul \o <<a, b, c, d>>
             \/ ul' = ul \o <<a, b, c, d, e>>
      PROVE  Cleanups \subseteq Cleanups'
  BY <1>1, <1>2, PushedLists, PushedKept
<1>3. CASE UnwindProtect
  <2> DEFINE k == [ElemOf("cleanup", NoFn) EXCEPT !.brk = Running.brk,
                                                  !.cont = Running.cont]
  <2>1. ul' = Append(ul, k)
    BY <1>3 DEF UnwindProtect
  <2> HIDE DEF k
  <2> QED
    BY <1>2, <2>1
<1>4. CASE CleanupBegin
  <2> DEFINE p == Saved("err")
             q == Saved("ret")
             r == Saved("brk")
  <2>1. ul' = ul \o <<p, q, r>>
    BY <1>4 DEF CleanupBegin
  <2> HIDE DEF p, q, r
  <2> QED
    BY <1>2, <2>1
<1>5. CASE CatchProtect
  <2> DEFINE p == ElemOf("clearerr", NoFn)
             q == Saved("ret")
             r == Saved("brk")
  <2>1. ul' = ul \o <<p, q, r>>
    BY <1>5 DEF CatchProtect
  <2> HIDE DEF p, q, r
  <2> QED
    BY <1>2, <2>1
<1>6. CASE CallBegin
  <2> DEFINE f == Running.f
             p == Mark("func_eval")
             d == fn[f].depth + 1
             q == SavedCount("depth", f, d - 1)
  <2>1. ul' = ul \o <<p, q>>
    BY <1>6 DEF CallBegin
  <2> HIDE DEF f, d, p, q
  <2> QED
    BY <1>2, <2>1
<1>7. CASE CallPush
  <2> DEFINE f == Running.f
             p == ElemOf("popctx", f)
             q == SavedCount("vr", f, fn[f].vr)
             r == ElemOf("delvr", f)
  <2>1. ul' = ul \o <<p, q, r>>
    BY <1>7 DEF CallPush
  <2> HIDE DEF f, p, q, r
  <2> QED
    BY <1>2, <2>1
<1>8. CASE CallBind
  <2> DEFINE f == Running.f
             p == ElemOf("clearsym", f)
             q == ElemOf("tab", cur.tab)
             r == ElemOf("fun", cur.fun)
             s == ElemOf("clearargs", f)
             t == SavedCount("nargs", f, fn[f].nargs)
  <2>1. ul' = ul \o <<p, q, r, s, t>>
    BY <1>8 DEF CallBind
  <2> HIDE DEF f, p, q, r, s, t
  <2> QED
    BY <1>2, <2>1
<1>9. CASE ScriptBegin
  <2> DEFINE p == Mark("parse_fcn_file")
             q == Saved("rsf")
             r == Mark("parse_and_execute")
             s == ElemOf("tab", cur.tab)
  <2>1. ul' = ul \o <<p, q, r, s>>
    BY <1>9 DEF ScriptBegin
  <2> HIDE DEF p, q, r, s
  <2> QED
    BY <1>2, <2>1
<1>10. CASE EvalFailed
  <2> DEFINE p == ElemOf("clearerr", NoFn)
  <2>1. ul' = Append(ul, p)
    BY <1>10 DEF EvalFailed
  <2> HIDE DEF p
  <2> QED
    BY <1>2, <2>1
<1> QED
  BY <1>3, <1>4, <1>5, <1>6, <1>7, <1>8, <1>9, <1>10

\* What is popped without being run: the piece of a try that went well, and a
\* restoring element of catch or cleanup code.
LEMMA DiscardingKept ==
  ASSUME TypeOK, TypeOK', Layout(cs, ul),
         TrySucceeded \/ RestoreBreaking \/ RestoreReturning \/ RestoreLast
  PROVE  Cleanups \subseteq Cleanups'
<1>1. /\ ul \in Seq(Elem) /\ Len(ul) \in Nat /\ Running.k \in {"try", "catch", "cleanup"}
      /\ ~ IsRun(Running)
  BY LenProperties DEF TypeOK, UnwindOK, TrySucceeded, RestoreBreaking,
     RestoreReturning, RestoreLast, At, IsRun
<1>2. /\ Running.base \in Nat /\ Running.base <= Len(ul)
      /\ Settled(ul, Running, Running.base, Len(ul))
  BY <1>1, Here
<1>3. NoCleanup(ul, Running.base, Len(ul))
  BY <1>1, <1>2 DEF Settled
<1>4. ASSUME NEW n \in Nat, Running.base <= n, n <= Len(ul), ul' = SubSeq(ul, 1, n)
      PROVE  Cleanups \subseteq Cleanups'
  <2>1. Len(ul') = n /\ Agree(ul, ul', n)
    BY <1>1, <1>4, PoppedChange
  <2>2. NoCleanup(ul, n, Len(ul)) /\ n <= Len(ul')
    BY <1>2, <1>3, <1>4, <2>1 DEF NoCleanup
  <2> QED
    BY <1>4, <2>1, <2>2, CleanupsKept
<1>5. CASE TrySucceeded
  <2>1. ul' = SubSeq(ul, 1, Latest(Marks("tree_try_catch::eval")) - 1)
    BY <1>5 DEF TrySucceeded, Discarded
  <2>2. Framed(ul, Running.base, Len(ul), "tree_try_catch::eval")
    BY <1>2, <1>5 DEF TrySucceeded, At, Settled, Sized, TagOf
  <2>3. Latest(Marks("tree_try_catch::eval")) = Running.base + 1
    <3>1. Running.base + 1 \in Marks("tree_try_catch::eval")
      BY <1>1, <1>2, <2>2 DEF Framed, MarkAt, Marks
    <3>2. \A q \in Marks("tree_try_catch::eval") : q \in Nat /\ q <= Running.base + 1
      BY <1>1, <1>2, <2>2 DEF Framed, NoMark, MarkAt, Marks
    <3> QED
      BY <3>1, <3>2, LatestIs
  <2>4. ul' = SubSeq(ul, 1, Running.base)
    BY <1>2, <2>1, <2>3
  <2> QED
    BY <1>2, <1>4, <2>4
<1>6. CASE RestoreBreaking \/ RestoreReturning \/ RestoreLast
  <2>1. ul' = ul \/ ul' = SubSeq(ul, 1, Len(ul) - 1)
    BY <1>6 DEF RestoreBreaking, RestoreReturning, RestoreLast
  <2>2. CASE ul' = ul
    BY <2>2 DEF Cleanups
  <2>3. CASE ul' = SubSeq(ul, 1, Len(ul) - 1) /\ ul' # ul
    <3>1. Running.k \in {"catch", "cleanup"} /\ Running.pc \in {"brk", "ret", "err"}
      BY <1>6 DEF RestoreBreaking, RestoreReturning, RestoreLast
    <3>2. Len(ul) - 1 \in Nat /\ Running.base <= Len(ul) - 1
      BY <1>1, <1>2, <3>1 DEF Settled, Sized, Size
    <3> QED
      BY <1>1, <1>4, <2>3, <3>2
  <2> QED
    BY <2>1, <2>2, <2>3
<1> QED
  BY <1>5, <1>6

\* A run pops cleanup code only to start it.
LEMMA PoppingKept ==
  ASSUME TypeOK, TypeOK', RunPop
  PROVE  \/ Cleanups \subseteq Cleanups'
         \/ Running'.k = "cleanup" /\ Running'.pc = "begin"
<1> DEFINE el == ul[Len(ul)]
           n == Len(ul) - 1
<1>1. /\ ul \in Seq(Elem) /\ Len(ul) \in Nat /\ ul # <<>> /\ StackOK
      /\ ul' = SubSeq(ul, 1, n)
  BY LenProperties DEF TypeOK, UnwindOK, RunPop
<1>2. n \in Nat /\ n <= Len(ul) /\ Len(ul) = n + 1
  BY <1>1, EmptySeq
<1>3. CASE el.e = "cleanup"
  <2> DEFINE pc == IF Running.tag = "one" \/ (el.e = "mark" /\ el.tag = Running.tag)
                   THEN "done" ELSE "pop"
             x == [FrameOf(el.e, "begin") EXCEPT !.brk = el.brk, !.cont = el.cont,
                     !.flag = el.flag, !.base = Len(ul')]
             fr == [Running EXCEPT !.pc = pc]
  <2>1. cs' = Append(Top(fr), x)
    BY <1>3 DEF RunPop, Call
  <2>2. x.k = "cleanup" /\ x.pc = "begin"
    BY <1>3 DEF FrameOf
  <2>3. fr \in Frame
    <3>1. pc \in Pcs /\ Running \in Frame
      BY <1>1, RunningFrame DEF Pcs
    <3> HIDE DEF pc
    <3> QED
      BY <3>1 DEF Frame
  <2> HIDE DEF fr, x
  <2>4. Top(fr) \in Seq(Frame)
    <3>1. Depth \in 1 .. Len(cs) /\ cs \in Seq(Frame)
      BY <1>1, RunningFrame DEF StackOK
    <3> QED
      BY <2>3, <3>1, ExceptSeq DEF Top, Depth
  <2>5. Top(fr) \in Seq(Frame \cup {x}) /\ x \in Frame \cup {x}
    BY <2>4, SeqWider
  <2>6. cs'[Len(cs')] = x
    <3>1. /\ Len(cs') = Len(Top(fr)) + 1 /\ cs'[Len(Top(fr)) + 1] = x
      BY <2>1, <2>5, AppendProperties
    <3> QED
      BY <3>1
  <2> QED
    BY <2>2, <2>6 DEF Running, Depth
<1>4. CASE el.e # "cleanup"
  <2>1. NoCleanup(ul, n, Len(ul))
    BY <1>2, <1>4 DEF NoCleanup
  <2>2. Len(ul') = n /\ Agree(ul, ul', n) /\ n <= Len(ul')
    BY <1>1, <1>2, PoppedChange
  <2> QED
    BY <1>2, <2>1, <2>2, CleanupsKept
<1> QED
  BY <1>3, <1>4

LEMMA StepKept ==
  ASSUME TypeOK, TypeOK', Layout(cs, ul), [Next]_vars
  PROVE  \/ Cleanups \subseteq Cleanups'
         \/ Running'.k = "cleanup" /\ Running'.pc = "begin"
<1>1. ASSUME ul' = ul
      PROVE  Cleanups \subseteq Cleanups'
  BY <1>1 DEF Cleanups
<1>2. CASE MainRead \/ MainEval \/ MainJumped \/ ListEnd \/ ListNext \/ Leave
        \/ RunEmpty \/ Interrupt \/ UNCHANGED vars
  BY <1>1, <1>2 DEF MainRead, MainEval, MainJumped, ListEnd, ListNext, Leave,
     RunEmpty, Interrupt, vars
<1>3. CASE Statement
  BY <1>1, <1>3, OpeningKept, GrowingKept
  DEF Statement, Simple, Warn, While, For, If, Source, Raise, SetJump, CallFunction
<1>4. CASE Loops
  BY <1>1, <1>4 DEF Loops, WhileTrue, WhileFalse, WhileFails, LoopAfter, ForNext,
     ForAssignFails, ForEnd
<1>5. CASE Protections
  BY <1>1, <1>5, GrowingKept, DiscardingKept
  DEF Protections, TryFailed, UnwindBodyDone, CatchBind
<1>6. CASE Calls \/ Scripts \/ Evals
  BY <1>1, <1>6, GrowingKept
  DEF Calls, CallBodyDone, CallExit, Scripts, ScriptCommand, ScriptParseError,
      ScriptEnd, ScriptAfter, ScriptJumped, ScriptExit, ScriptLeave, Evals,
      EvalParse, EvalSucceeded, EvalExit
<1>7. CASE RunPop
  BY <1>7, PoppingKept
<1> QED
  BY <1>2, <1>3, <1>4, <1>5, <1>6, <1>7 DEF Next, Work

\* The cleanup part of an unwind_protect is never taken off the list unless it
\* is started: no try that goes well discards that of an unwind_protect inside
\* it, and no catch or cleanup code pops one where it means to pop a flag.
THEOREM NeverDropped == Spec => CleanupNeverDropped
<1>1. Init => Layout(cs, ul)
  BY InitLayout
<1>2. TypeOK /\ TypeOK' /\ Layout(cs, ul) /\ [Next]_vars => Layout(cs, ul)'
  BY NextLayout
<1>3. ASSUME TypeOK, TypeOK', Layout(cs, ul), [Next]_vars
      PROVE  Cardinality(Cleanups') < Cardinality(Cleanups)
               => Running'.k = "cleanup" /\ Running'.pc = "begin"
  <2>1. CASE Cleanups \subseteq Cleanups'
    <3>1. Len(ul') \in Nat
      BY <1>3, LenProperties DEF TypeOK, UnwindOK
    <3>2. IsFiniteSet(Cleanups')
      <4>1. IsFiniteSet(1 .. Len(ul')) /\ Cleanups' \subseteq 1 .. Len(ul')
        BY <3>1, FS_Interval DEF Cleanups
      <4> QED
        BY <4>1, FS_Subset
    <3>3. /\ Cardinality(Cleanups) <= Cardinality(Cleanups')
          /\ IsFiniteSet(Cleanups)
      BY <2>1, <3>2, FS_Subset
    <3>4. Cardinality(Cleanups) \in Nat /\ Cardinality(Cleanups') \in Nat
      BY <3>2, <3>3, FS_CardinalityType
    <3> QED
      BY <3>3, <3>4
  <2> QED
    BY <1>3, <2>1, StepKept
<1> QED
  BY <1>1, <1>2, <1>3, TypeCorrect, PTL DEF Spec, CleanupNeverDropped

=============================================================================

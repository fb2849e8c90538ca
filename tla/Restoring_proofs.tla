-------------------------- MODULE Restoring_proofs --------------------------
(***************************************************************************)
(* What the protections of the evaluator bring back, for every program:    *)
(* messages are held back in a try only, cleanup code does not swallow the *)
(* error that led to it, a function finds the locals of its own activation *)
(* and the prompt finds everything as it was.  And, with interrupts and a  *)
(* terminal left out, a list of statements does not run on through a jump. *)
(*                                                                         *)
(* Layout, of Evaluator_proofs, says how many elements lie between a frame *)
(* and the next.  The invariants here say what these elements are:         *)
(*   Held         a frame finds the elements that it is going to pop;      *)
(*   BufferKnown  the outermost saved value of a flag is 0, and a try's    *)
(*                own copy of it is 0 unless another try is around it;     *)
(*   TextKept     what is in __error_text__ will be cleared;               *)
(*   ErrKept      cleanup code that was reached by an error has the error  *)
(*                on the list or in error_state;                           *)
(*   Restorable   for the members of the functions there is a history, one *)
(*                state for each element of the list: that in which it was *)
(*                pushed, to which popping it leads back;                  *)
(*   InStep       where statements begin neither breaking nor returning is *)
(*                set, and no frame below is at such a place.              *)
(***************************************************************************)
EXTENDS Evaluator_proofs

-----------------------------------------------------------------------------
(***************************************************************************)
(* The elements that a frame relies on                                     *)
(***************************************************************************)

TryBody(fr) == fr.k = "try" /\ fr.pc = "body"
Guards(fr) == fr.k \in {"catch", "cleanup"} /\ fr.pc \in {"brk", "ret", "err"}
Guarding(fr) == (fr.k = "unw" /\ fr.pc = "body") \/ Guards(fr) \/ TryBody(fr)
RunOne(fr) == fr.k = "run" /\ fr.tag = "one"

\* The frames that rely on elements of their own.
Watched(fr) == Guarding(fr) \/ RunOne(fr) \/ (fr.k = "unw" /\ fr.pc = "cleaned")

RestoreAt(u, p, v) == u[p].e = "restore" /\ u[p].tag = v

\* What a try has put on the list, and the number of elements that a frame
\* relies on.
TrySize(fr) == IF fr.flag THEN 3 ELSE 2
Claim(fr) == IF fr.k = "try" THEN TrySize(fr) ELSE Size(fr)

\* The elements that the frame will pop are there.
Finds(u, fr) ==
  LET b == fr.base
  IN /\ fr.k = "unw" /\ fr.pc = "body" => u[b + 1].e = "cleanup"
     /\ Guards(fr) =>
          /\ fr.k = "catch" => u[b + 1].e = "clearerr"
          /\ fr.k = "cleanup" => RestoreAt(u, b + 1, "err")
          /\ fr.pc # "err" => RestoreAt(u, b + 2, "ret")
          /\ fr.pc = "brk" => RestoreAt(u, b + 3, "brk")
     /\ TryBody(fr) =>
          /\ u[b + 1].e = "mark" /\ u[b + 2].e = "catch"
          /\ fr.flag => RestoreAt(u, b + 3, "buf")

\* While the body of a try runs, its list starts where the elements of the try
\* end; afterwards the whole list ends there.
TryEnd(s, u, i) ==
  TryBody(s[i]) =>
    IF i = Len(s) THEN Len(u) = s[i].base + TrySize(s[i])
    ELSE s[i + 1].k = "list" /\ s[i + 1].base = s[i].base + TrySize(s[i])

\* The element on top when o has called run_unwind_protect.
PopsOf(u, o) ==
  /\ u # <<>>
  /\ o.k = "unw" => u[Len(u)].e = "cleanup"
  /\ o.k \in {"catch", "cleanup"} =>
       /\ o.pc \in {"ret", "err", "done"}
       /\ o.pc = "ret" => RestoreAt(u, Len(u), "brk")
       /\ o.pc = "err" => RestoreAt(u, Len(u), "ret")
       /\ o.pc = "done" /\ o.k = "catch" => u[Len(u)].e = "clearerr"
       /\ o.pc = "done" /\ o.k = "cleanup" => RestoreAt(u, Len(u), "err")

RunEnd(s, u, i) ==
  RunOne(s[i]) =>
    /\ i > 1 /\ s[i - 1].k \in Popping
    /\ s[i].pc = "pop" => i = Len(s) /\ PopsOf(u, s[i - 1])

\* A call that has called something is past its bindings.
Waits(fr) == fr.k = "call" => fr.pc \notin {"push", "bind"}

HeldAt(s, u, i) ==
  /\ Finds(u, s[i]) /\ TryEnd(s, u, i) /\ RunEnd(s, u, i)
  /\ i < Len(s) => Waits(s[i])

Held(s, u) == \A i \in 1 .. Len(s) : HeldAt(s, u, i)

-----------------------------------------------------------------------------

LEMMA KeptSame ==
  ASSUME NEW u, NEW w, NEW fr, fr.base \in Nat, NEW n \in Nat, Agree(u, w, n),
         Guarding(fr) => fr.base + Claim(fr) <= n, Finds(u, fr)
  PROVE  Finds(w, fr)
<1> DEFINE b == fr.base
<1>1. ASSUME fr.k = "unw", fr.pc = "body"
      PROVE  w[b + 1].e = "cleanup"
  <2>1. b + 1 <= n
    BY <1>1 DEF Guarding, Claim, Size
  <2>2. w[b + 1] = u[b + 1]
    BY <2>1 DEF Agree
  <2> QED
    BY <1>1, <2>2 DEF Finds
<1>2. ASSUME Guards(fr)
      PROVE  /\ fr.k = "catch" => w[b + 1].e = "clearerr"
             /\ fr.k = "cleanup" => RestoreAt(w, b + 1, "err")
             /\ fr.pc # "err" => RestoreAt(w, b + 2, "ret")
             /\ fr.pc = "brk" => RestoreAt(w, b + 3, "brk")
  <2>1. /\ b + 1 <= n
        /\ fr.pc # "err" => b + 2 <= n
        /\ fr.pc = "brk" => b + 3 <= n
    BY <1>2 DEF Guarding, Guards, Claim, Size
  <2>2. /\ w[b + 1] = u[b + 1]
        /\ fr.pc # "err" => w[b + 2] = u[b + 2]
        /\ fr.pc = "brk" => w[b + 3] = u[b + 3]
    BY <2>1 DEF Agree
  <2> QED
    BY <1>2, <2>2 DEF Finds, RestoreAt
<1>3. ASSUME TryBody(fr)
      PROVE  /\ w[b + 1].e = "mark" /\ w[b + 2].e = "catch"
             /\ fr.flag => RestoreAt(w, b + 3, "buf")
  <2>1. b + 2 <= n /\ (fr.flag => b + 3 <= n)
    BY <1>3 DEF Guarding, TryBody, Claim, TrySize
  <2>2. /\ w[b + 1] = u[b + 1] /\ w[b + 2] = u[b + 2]
        /\ fr.flag => w[b + 3] = u[b + 3]
    BY <2>1 DEF Agree
  <2> QED
    BY <1>3, <2>2 DEF Finds, RestoreAt
<1> QED
  BY <1>1, <1>2, <1>3 DEF Finds

\* The elements that a frame relies on are on the list.
LEMMA Room ==
  ASSUME NEW s \in Seq(Frame), NEW u \in Seq(Elem), Layout(s, u),
         NEW i \in 1 .. Len(s), Guarding(s[i]), TryEnd(s, u, i)
  PROVE  s[i].base \in Nat /\ s[i].base + Claim(s[i]) <= Len(u)
<1>1. /\ Len(s) \in Nat /\ Len(u) \in Nat
      /\ \A j \in 1 .. Len(s) : s[j] \in Frame /\ s[j].base \in Nat
  BY StackFacts, LenProperties
<1>2. ~ IsRun(s[i])
  BY DEF Guarding, Guards, TryBody, IsRun
<1>3. /\ Placed(s, u, i) /\ s[i].base \in Nat
      /\ \A j \in 1 .. Len(s) : ~ IsRun(s[j]) => s[j].base <= Len(u)
  BY <1>1 DEF Layout, Pieces, Ascend
<1>4. CASE TryBody(s[i])
  <2>1. CASE i = Len(s)
    BY <1>1, <1>3, <1>4, <2>1 DEF TryEnd, TryBody, Claim
  <2>2. CASE i # Len(s)
    <3>1. i + 1 \in 1 .. Len(s)
      BY <1>1, <2>2
    <3>2. s[i + 1].k = "list" /\ s[i + 1].base = s[i].base + TrySize(s[i])
      BY <1>4, <2>2 DEF TryEnd
    <3>3. s[i + 1].base <= Len(u)
      BY <1>3, <3>1, <3>2 DEF IsRun
    <3> QED
      BY <1>3, <1>4, <3>2, <3>3 DEF TryBody, Claim
  <2> QED
    BY <2>1, <2>2
<1>5. CASE ~ TryBody(s[i])
  <2>1. /\ Sized(s[i]) /\ Claim(s[i]) = Size(s[i]) /\ Size(s[i]) \in Nat
        /\ s[i].k \notin {"try", "call", "eval", "script", "main"}
    BY <1>5 DEF Guarding, Guards, Sized, Claim, Size
  <2>2. CASE i < Len(s) /\ IsRun(s[i + 1])
    <3> DEFINE r == i + 1
               h == Upper(s, u, r)
    <3>1. r \in 1 .. Len(s) /\ r - 1 = i /\ IsRun(s[r])
      BY <1>1, <2>2
    <3> HIDE DEF r
    <3>2. Placed(s, u, r)
      BY <3>1 DEF Layout, Pieces
    <3>3. Ran(u, s[i], s[r], s[i].base, h)
      BY <3>1, <3>2 DEF Placed
    <3>4. h \in Nat /\ h <= Len(u)
      <4>1. CASE r = Len(s)
        BY <1>1, <4>1 DEF Upper
      <4>2. CASE r # Len(s)
        <5>1. r + 1 \in 1 .. Len(s) /\ (r + 1) - 1 = r
          BY <1>1, <3>1, <4>2
        <5>2. Placed(s, u, r + 1)
          BY <5>1 DEF Layout, Pieces
        <5>3. ~ IsRun(s[r + 1])
          BY <3>1, <5>1, <5>2 DEF Placed
        <5> QED
          BY <1>1, <1>3, <4>2, <5>1, <5>3 DEF Upper
      <4> QED
        BY <4>1, <4>2
    <3> HIDE DEF h
    <3>5. s[i].base + Size(s[i]) <= h
      BY <1>3, <2>1, <3>3, <3>4 DEF Ran, Pending, Settled
    <3> QED
      BY <1>1, <1>3, <2>1, <3>4, <3>5
  <2>3. CASE ~ (i < Len(s) /\ IsRun(s[i + 1]))
    <3>1. Settled(u, s[i], s[i].base, Upper(s, u, i))
      BY <1>2, <1>3, <2>3 DEF Placed
    <3>2. Upper(s, u, i) \in Nat /\ Upper(s, u, i) <= Len(u)
      <4>1. CASE i = Len(s)
        BY <1>1, <4>1 DEF Upper
      <4>2. CASE i # Len(s)
        <5>1. i + 1 \in 1 .. Len(s) /\ ~ IsRun(s[i + 1])
          BY <1>1, <2>3, <4>2
        <5> QED
          BY <1>1, <1>3, <4>2, <5>1 DEF Upper
      <4> QED
        BY <4>1, <4>2
    <3>3. Upper(s, u, i) = s[i].base + Size(s[i])
      BY <2>1, <3>1 DEF Settled
    <3> QED
      BY <1>3, <2>1, <3>2, <3>3
  <2> QED
    BY <2>2, <2>3
<1> QED
  BY <1>4, <1>5

\* The frames below the running one are the same, and if it goes on it is the
\* same construct.
Steps(s, t) ==
  /\ Len(t) >= Len(s) - 1
  /\ \A i \in 1 .. Len(t) : i < Len(s) => t[i] = s[i]
  /\ Len(t) >= Len(s) =>
       t[Len(s)].k = s[Len(s)].k /\ t[Len(s)].base = s[Len(s)].base

\* The list has grown or has been cut.
Along(u, w) == \/ Len(u) <= Len(w) /\ Agree(u, w, Len(u))
               \/ Len(w) <= Len(u) /\ Agree(u, w, Len(w))

LEMMA HeldStep ==
  ASSUME NEW s \in Seq(Frame), NEW t \in Seq(Frame), NEW u \in Seq(Elem),
         NEW w \in Seq(Elem), Layout(s, u), Layout(t, w), Held(s, u), Len(s) > 0,
         Steps(s, t), Along(u, w),
         \A i \in 1 .. Len(t) : i >= Len(s) => HeldAt(t, w, i),
         Len(t) < Len(s) /\ s[Len(s)].k = "list" => Len(w) = s[Len(s)].base
  PROVE  Held(t, w)
<1> DEFINE d == Len(s)
<1>1. /\ d \in Nat /\ Len(t) \in Nat /\ Len(u) \in Nat /\ Len(w) \in Nat
      /\ \A j \in 1 .. Len(s) : s[j] \in Frame /\ s[j].base \in Nat
  BY StackFacts, LenProperties
<1> SUFFICES ASSUME NEW i \in 1 .. Len(t), i < d
             PROVE  HeldAt(t, w, i)
  BY <1>1 DEF Held
<1>2. t[i] = s[i] /\ i \in 1 .. Len(s) /\ HeldAt(s, u, i)
  BY <1>1 DEF Steps, Held
<1>3. TryEnd(t, w, i)
  <2> SUFFICES ASSUME TryBody(s[i])
               PROVE  IF i = Len(t) THEN Len(w) = s[i].base + TrySize(s[i])
                      ELSE /\ t[i + 1].k = "list"
                           /\ t[i + 1].base = s[i].base + TrySize(s[i])
    BY <1>2 DEF TryEnd
  <2>1. s[i + 1].k = "list" /\ s[i + 1].base = s[i].base + TrySize(s[i])
    BY <1>1, <1>2 DEF HeldAt, TryEnd
  <2>2. CASE i = Len(t)
    <3>1. i + 1 = d
      BY <1>1, <2>2 DEF Steps
    <3> QED
      BY <1>1, <2>1, <2>2, <3>1
  <2>3. CASE i # Len(t)
    <3>1. i + 1 \in 1 .. Len(t)
      BY <1>1, <2>3
    <3>2. CASE i + 1 < d
      BY <2>1, <2>3, <3>1, <3>2 DEF Steps
    <3>3. CASE i + 1 = d
      BY <1>1, <2>1, <2>3, <3>1, <3>3 DEF Steps
    <3> QED
      BY <1>1, <3>2, <3>3
  <2> QED
    BY <2>2, <2>3
<1>4. RunEnd(t, w, i)
  <2> SUFFICES ASSUME RunOne(s[i])
               PROVE  i > 1 /\ t[i - 1].k \in Popping /\ s[i].pc # "pop"
    BY <1>2 DEF RunEnd
  <2>1. i > 1 /\ s[i - 1].k \in Popping /\ s[i].pc # "pop"
    BY <1>1, <1>2 DEF HeldAt, RunEnd
  <2>2. i - 1 \in 1 .. Len(t) /\ i - 1 < d
    BY <1>1, <2>1
  <2> QED
    BY <2>1, <2>2 DEF Steps
<1>5. Finds(w, t[i])
  <2>1. ASSUME Guarding(s[i])
        PROVE  s[i].base + Claim(s[i]) <= Len(u) /\ s[i].base + Claim(s[i]) <= Len(w)
    BY <1>2, <1>3, <2>1, Room DEF HeldAt
  <2>2. Finds(u, s[i]) /\ s[i].base \in Nat
    BY <1>1, <1>2 DEF HeldAt
  <2>3. CASE Len(u) <= Len(w) /\ Agree(u, w, Len(u))
    BY <1>1, <1>2, <2>1, <2>2, <2>3, KeptSame
  <2>4. CASE Len(w) <= Len(u) /\ Agree(u, w, Len(w))
    BY <1>1, <1>2, <2>1, <2>2, <2>4, KeptSame
  <2> QED
    BY <2>3, <2>4 DEF Along
<1>6. Waits(t[i])
  BY <1>1, <1>2 DEF HeldAt
<1> QED
  BY <1>3, <1>4, <1>5, <1>6 DEF HeldAt

-----------------------------------------------------------------------------
(***************************************************************************)
(* Steps that neither touch the list nor start to rely on it               *)
(***************************************************************************)

\* A construct k at pc relies on no element and binds nothing.
Calm(k, pc) ==
  /\ k = "unw" => pc \notin {"body", "cleaned"}
  /\ k \in {"catch", "cleanup"} => pc \notin {"brk", "ret", "err"}
  /\ k = "try" => pc # "body"
  /\ k = "call" => pc \notin {"push", "bind"}

Leaves == Len(cs') < Depth /\ Running.pc \in {"done", "cleaned"} /\ g' = g

Ordinary ==
  /\ Steps(cs, cs')
  /\ \A i \in 1 .. Len(cs') : i >= Depth => ~ Watched(cs'[i]) /\ Waits(cs'[i])
  /\ Len(cs') < Depth /\ Running.k = "list" => Len(ul') = Running.base
  /\ RunOne(Running) \/ Running.k \in {"cleanup", "unw"} => Leaves

LEMMA CalmFrame ==
  ASSUME NEW fr, Calm(fr.k, fr.pc), ~ RunOne(fr)
  PROVE  ~ Watched(fr) /\ Waits(fr)
BY DEF Calm, Watched, Waits, Guarding, Guards, TryBody

LEMMA OrdinaryGoes ==
  ASSUME TypeOK, NEW pc, Calm(Running.k, pc), Running.k \notin {"run", "cleanup", "unw"}
  PROVE  /\ Went(pc) => Ordinary
         /\ \A x : WentCalling(pc, x) /\ Calm(x.k, x.pc) /\ ~ RunOne(x) => Ordinary
<1>1. Depth \in Nat \ {0} /\ Len(cs) = Depth /\ Running = cs[Depth]
  BY RunningFrame DEF TypeOK, Running
<1>2. ASSUME Goes(cs', pc), Len(cs') \in {Depth, Depth + 1},
             Len(cs') = Depth + 1 => /\ ~ Watched(cs'[Depth + 1])
                                     /\ Waits(cs'[Depth + 1])
      PROVE  Ordinary
  <2>1. /\ \A i \in 1 .. Depth - 1 : cs'[i] = cs[i]
        /\ cs'[Depth].k = Running.k /\ cs'[Depth].pc = pc
        /\ cs'[Depth].base = Running.base
    BY <1>2 DEF Goes, Replaced, Same
  <2>2. Steps(cs, cs')
    BY <1>1, <1>2, <2>1 DEF Steps
  <2>3. ~ Watched(cs'[Depth]) /\ Waits(cs'[Depth])
    BY <2>1, CalmFrame DEF RunOne
  <2>4. \A i \in 1 .. Len(cs') : i >= Depth => ~ Watched(cs'[i]) /\ Waits(cs'[i])
    <3> SUFFICES ASSUME NEW i \in 1 .. Len(cs'), i >= Depth
                 PROVE  ~ Watched(cs'[i]) /\ Waits(cs'[i])
      OBVIOUS
    <3>1. i = Depth \/ (i = Depth + 1 /\ Len(cs') = Depth + 1)
      BY <1>1, <1>2
    <3> QED
      BY <1>2, <2>3, <3>1
  <2>5. ~ Len(cs') < Depth
    BY <1>1, <1>2
  <2> QED
    BY <2>2, <2>4, <2>5 DEF Ordinary, RunOne
<1>3. Went(pc) => Ordinary
  BY <1>1, <1>2 DEF Went
<1>4. ASSUME NEW x, WentCalling(pc, x), Calm(x.k, x.pc), ~ RunOne(x)
      PROVE  Ordinary
  BY <1>1, <1>2, <1>4, CalmFrame DEF WentCalling
<1> QED
  BY <1>3, <1>4

LEMMA OrdinaryReturns ==
  ASSUME TypeOK, TypeOK', Return, Running.k = "list" => Len(ul') = Running.base,
         RunOne(Running) \/ Running.k \in {"cleanup", "unw"} =>
           Running.pc \in {"done", "cleaned"} /\ g' = g
  PROVE  Ordinary
<1>1. Depth \in Nat \ {0} /\ Len(cs) = Depth /\ Running = cs[Depth] /\ StackOK
  BY RunningFrame DEF TypeOK, Running
<1>2. Depth > 1
  <2> SUFFICES ASSUME Depth = 1
               PROVE  FALSE
    BY <1>1
  <2>1. cs' = <<>>
    BY DEF Return
  <2> QED
    BY <2>1 DEF TypeOK, StackOK
<1>3. Len(cs') = Depth - 1 /\ Same(cs, cs', Depth - 1)
  BY <1>1, <1>2, ReturnSame
<1>4. Steps(cs, cs')
  BY <1>1, <1>3 DEF Steps, Same
<1> QED
  BY <1>1, <1>3, <1>4 DEF Ordinary, Leaves

Quiet ==
  /\ ul' = ul /\ fn' = fn /\ cur'.fun = cur.fun /\ txt' = txt
  /\ g'["buf"] = g["buf"] /\ g'["rsf"] = g["rsf"]
  /\ ~ At("catch", "protect")

\* The running frame has no call in pieces below it.
Whole(fr) == ~ (fr.k = "run" /\ fr.pc = "pop")
             /\ (fr.k = "call" => fr.pc \notin {"push", "bind", "exit"})

LEMMA NewLists ==
  ASSUME TypeOK
  PROVE  \A role \in Roles, n \in 1 .. MaxList, b, c \in BOOLEAN :
           LET x == ListOf(role, n, b, c)
           IN /\ x \in Frame /\ x.k = "list" /\ x.pc = "enter" /\ x.base = Len(ul)
              /\ Calm(x.k, x.pc) /\ ~ RunOne(x)
<1> SUFFICES ASSUME NEW role \in Roles, NEW n \in 1 .. MaxList,
                    NEW b \in BOOLEAN, NEW c \in BOOLEAN
             PROVE  LET x == ListOf(role, n, b, c)
                    IN /\ x \in Frame /\ x.k = "list" /\ x.pc = "enter" /\ x.base = Len(ul)
                       /\ Calm(x.k, x.pc) /\ ~ RunOne(x)
  OBVIOUS
<1> DEFINE x == ListOf(role, n, b, c)
<1>1. x \in Frame
  BY FrameTypes DEF TypeOK
<1>2. x.k = "list" /\ x.pc = "enter" /\ x.base = Len(ul)
  BY DEF ListOf, FrameOf
<1> QED
  BY <1>1, <1>2 DEF Calm, RunOne

LEMMA NewRuns ==
  ASSUME TypeOK
  PROVE  \A tag \in Tags :
           /\ RunOf(tag) \in Frame /\ Calm(RunOf(tag).k, RunOf(tag).pc)
           /\ tag # "one" => ~ RunOne(RunOf(tag))
BY FrameTypes, NewFrames DEF TypeOK, Calm, RunOne

LEMMA MainOrdinary ==
  ASSUME TypeOK, TypeOK', MainRead \/ MainEval \/ MainJumped
  PROVE  Ordinary /\ Quiet /\ Whole(Running)
<1>1. StackOK /\ Running.k = "main" /\ ~ Inside(Running)
  BY DEF TypeOK, MainRead, MainEval, MainJumped, At, Inside
<1>2. Quiet
  BY DEF MainRead, MainEval, MainJumped, At, Quiet, TypeOK, FlagsOK, FnOK, Flags
<1>3. \A pc : Calm(Running.k, pc) /\ Whole(Running)
  BY <1>1 DEF Calm, Whole
<1>4. CASE MainRead
  <2>1. PICK n \in 1 .. MaxList : Call(ListOf("cmd", n, FALSE, FALSE), "eval")
    BY <1>4 DEF MainRead
  <2> DEFINE x == ListOf("cmd", n, FALSE, FALSE)
  <2>2. x \in Frame /\ Calm(x.k, x.pc) /\ ~ RunOne(x)
    <3>1. "cmd" \in Roles /\ TRUE \in BOOLEAN /\ FALSE \in BOOLEAN
      BY DEF Roles
    <3> QED
      BY <2>1, <3>1, NewLists
  <2> HIDE DEF x
  <2>3. WentCalling("eval", x)
    BY <1>1, <2>1, <2>2, Goings, Zenon DEF Pcs, x
  <2> QED
    BY <1>1, <1>2, <1>3, <2>2, <2>3, OrdinaryGoes
<1>5. CASE MainEval
  <2>1. Went("read") \/ Went("quit")
    BY <1>1, <1>5, Goings, Zenon DEF MainEval, Pcs
  <2> QED
    BY <1>1, <1>2, <1>3, <2>1, OrdinaryGoes
<1>6. CASE MainJumped
  <2>1. WentCalling("read", RunOf("all"))
    BY <1>1, <1>6, NewRuns, Goings, Zenon DEF MainJumped, Pcs, Tags
  <2> QED
    BY <1>1, <1>2, <1>3, <2>1, NewRuns, OrdinaryGoes DEF Tags
<1> QED
  BY <1>4, <1>5, <1>6

LEMMA ListOrdinary ==
  ASSUME TypeOK, TypeOK', Layout(cs, ul), ListEnd \/ ListNext
  PROVE  Ordinary /\ Quiet /\ Whole(Running)
<1>1. /\ StackOK /\ Running.k = "list" /\ ~ Inside(Running) /\ ~ RunOne(Running)
      /\ Idle(Running.k, Running.pc) /\ Whole(Running)
  BY DEF TypeOK, ListEnd, ListNext, At, Inside, RunOne, Idle, Whole
<1>2. Quiet
  BY DEF ListEnd, ListNext, At, Quiet
<1>3. CASE ListEnd
  <2>1. Return /\ Len(ul') = Running.base
    BY <1>1, <1>3, IdleHere DEF ListEnd
  <2> QED
    BY <1>1, <1>2, <2>1, OrdinaryReturns
<1>4. CASE ListNext
  <2>1. Went("next") /\ Calm(Running.k, "next")
    BY <1>1, <1>4, Goings, Zenon DEF ListNext, Pcs, Calm
  <2> QED
    BY <1>1, <1>2, <2>1, OrdinaryGoes
<1> QED
  BY <1>3, <1>4

LEMMA LoopOrdinary ==
  ASSUME TypeOK, TypeOK', Loops
  PROVE  Ordinary /\ Quiet /\ Whole(Running)
<1>1. /\ StackOK /\ Running.k \in {"while", "for"} /\ ~ Inside(Running)
      /\ ~ RunOne(Running) /\ Whole(Running)
      /\ \A pc : Calm(Running.k, pc)
  BY DEF TypeOK, Loops, WhileTrue, WhileFalse, WhileFails, LoopAfter, ForNext,
         ForAssignFails, ForEnd, At, Inside, RunOne, Whole, Calm
<1>2. Quiet
  BY DEF Loops, WhileTrue, WhileFalse, WhileFails, LoopAfter, ForNext,
         ForAssignFails, ForEnd, At, Quiet, TypeOK, FlagsOK, Flags
<1>3. ASSUME Return
      PROVE  Ordinary
  BY <1>1, <1>3, OrdinaryReturns
<1>4. ASSUME WhileTrue \/ ForNext
      PROVE  Ordinary
  <2>1. PICK n \in 1 .. MaxList :
          cs' = Append(Counted("after"), ListOf("plain", n, TRUE, TRUE))
    BY <1>4 DEF WhileTrue, ForNext
  <2>2. Running.n > 0
    BY <1>4, Zenon DEF WhileTrue, ForNext
  <2> DEFINE x == ListOf("plain", n, TRUE, TRUE)
  <2>3. x \in Frame /\ Calm(x.k, x.pc) /\ ~ RunOne(x)
    <3>1. "plain" \in Roles /\ TRUE \in BOOLEAN /\ FALSE \in BOOLEAN
      BY DEF Roles
    <3> QED
      BY <2>1, <3>1, NewLists
  <2> HIDE DEF x
  <2>4. WentCalling("after", x)
    BY <1>1, <2>1, <2>2, <2>3, Goings, Zenon DEF Pcs, x
  <2>5. Running.k \notin {"run", "cleanup", "unw"} /\ Calm(Running.k, "after")
    BY <1>1
  <2> QED
    BY <2>3, <2>4, <2>5, OrdinaryGoes
<1>5. ASSUME ForAssignFails
      PROVE  Ordinary
  <2>1. Went("assign")
    BY <1>1, <1>5, Goings, Zenon DEF ForAssignFails, Pcs
  <2> QED
    BY <1>1, <2>1, OrdinaryGoes
<1>6. ASSUME LoopAfter
      PROVE  Ordinary
  <2>1. Return \/ Goto("test") \/ Goto("assign")
    BY <1>6 DEF LoopAfter
  <2>2. Return \/ Went("test") \/ Went("assign")
    BY <1>1, <2>1, Goings, Zenon DEF Pcs
  <2> QED
    BY <1>1, <1>3, <2>2, OrdinaryGoes
<1> QED
  BY <1>1, <1>2, <1>3, <1>4, <1>5, <1>6 DEF Loops, WhileFalse, WhileFails, ForEnd

LEMMA StatementOrdinary ==
  ASSUME TypeOK, TypeOK', Layout(cs, ul), AtStatement,
         \/ Simple \/ Warn \/ While \/ For \/ If \/ Source
         \/ \E e \in {1, -1, -2} : Raise(e)
         \/ \E v \in {"brk", "cont", "ret"} : SetJump(v)
         \/ \E f \in Fn : CallFunction(f)
  PROVE  Ordinary /\ Quiet /\ Whole(Running)
<1>1. /\ Running.k = "list" /\ Whole(Running) /\ Calm(Running.k, "check")
      /\ cs' = Stepped => Went("check")
      /\ \A x \in Frame : cs' = Append(Stepped, x) => WentCalling("check", x)
  BY StatementHere DEF Whole, Calm
<1>2. Quiet
  BY <1>1 DEF Simple, Warn, While, For, If, Source, Raise, SetJump, CallFunction, At, Quiet,
         TypeOK, FlagsOK, Flags
<1>3. ASSUME cs' = Stepped
      PROVE  Ordinary
  BY <1>1, <1>3, OrdinaryGoes
<1>4. ASSUME NEW x \in Frame, cs' = Append(Stepped, x), Calm(x.k, x.pc), ~ RunOne(x)
      PROVE  Ordinary
  BY <1>1, <1>4, OrdinaryGoes
<1>5. ASSUME NEW k \in {"while", "for", "script"}, NEW pc \in {"test", "assign", "begin"},
             NEW n \in Nat, cs' = Append(Stepped, [FrameOf(k, pc) EXCEPT !.n = n])
      PROVE  Ordinary
  <2> DEFINE x == [FrameOf(k, pc) EXCEPT !.n = n]
  <2>1. FrameOf(k, pc) \in Frame
    BY StatementHere, FrameTypes DEF FrameKinds, Pcs
  <2>2. x \in Frame /\ x.k = k
    BY <2>1, NewFrames DEF Frame
  <2>3. cs' = Append(Stepped, x)
    BY <1>5
  <2> HIDE DEF x
  <2>4. Calm(x.k, x.pc) /\ ~ RunOne(x)
    BY <2>2 DEF Calm, RunOne
  <2> QED
    BY <1>4, <2>2, <2>3, <2>4
<1>6. CASE While
  <2>1. /\ cs' = Append(Stepped, [FrameOf("while", "test") EXCEPT !.n = MaxIter])
        /\ MaxIter \in Nat
    BY <1>6, BoundAssumption DEF While
  <2> QED
    BY <1>1, <1>2, <1>5, <2>1
<1>7. CASE For
  <2>1. PICK n \in 0 .. MaxIter :
          cs' = Append(Stepped, [FrameOf("for", "assign") EXCEPT !.n = n])
    BY <1>7 DEF For
  <2> QED
    BY <1>1, <1>2, <1>5, <2>1
<1>8. CASE Source
  <2>1. PICK n \in 1 .. MaxList :
          cs' = Append(Stepped, [FrameOf("script", "begin") EXCEPT !.n = n])
    BY <1>8 DEF Source
  <2> QED
    BY <1>1, <1>2, <1>5, <2>1
<1>9. CASE If
  <2>1. PICK n \in 1 .. MaxList :
          cs' = Append(Stepped, ListOf("plain", n, Running.brk, Running.cont))
    BY <1>9 DEF If
  <2>2. Running.brk \in BOOLEAN /\ Running.cont \in BOOLEAN
    BY StatementHere, SteppedGood
  <2> QED
    BY <1>1, <1>2, <1>4, <2>1, <2>2, NewLists DEF Roles
<1>10. ASSUME NEW f \in Fn, CallFunction(f)
       PROVE  Ordinary
  <2> DEFINE x == [FrameOf("call", "begin") EXCEPT !.f = f]
  <2>1. x \in Frame /\ x.k = "call" /\ x.pc = "begin"
    <3>1. x \in Frame
      BY FrameTypes DEF TypeOK, Pcs
    <3> QED
      BY <3>1 DEF FrameOf
  <2>2. cs' = Append(Stepped, x)
    BY <1>10 DEF CallFunction
  <2> HIDE DEF x
  <2> QED
    BY <1>4, <2>1, <2>2 DEF Calm, RunOne
<1>11. CASE \/ Simple \/ Warn
            \/ \E e \in {1, -1, -2} : Raise(e)
            \/ \E v \in {"brk", "cont", "ret"} : SetJump(v)
  <2>1. cs' = Stepped
    BY <1>11 DEF Simple, Warn, Raise, SetJump
  <2> QED
    BY <1>1, <1>2, <1>3, <2>1
<1> QED
  BY <1>1, <1>2, <1>6, <1>7, <1>8, <1>9, <1>10, <1>11

LEMMA CallOrdinary ==
  ASSUME TypeOK, TypeOK', CallBodyDone \/ CallExit
  PROVE  Ordinary /\ Quiet
<1>1. /\ StackOK /\ Running.k = "call" /\ ~ Inside(Running)
      /\ Calm("call", "exit") /\ Calm("call", "done")
  BY DEF TypeOK, CallBodyDone, CallExit, At, Inside, Calm
<1>2. Quiet
  BY DEF CallBodyDone, CallExit, At, Quiet, TypeOK, FlagsOK, Flags
<1>3. CASE CallBodyDone
  <2>1. Went("exit")
    BY <1>1, <1>3, Goings, Zenon DEF CallBodyDone, Pcs
  <2> QED
    BY <1>1, <1>2, <2>1, OrdinaryGoes
<1>4. CASE CallExit
  <2>1. WentCalling("done", RunOf("func_eval"))
    BY <1>1, <1>4, NewRuns, Goings, Zenon DEF CallExit, Pcs, Tags
  <2>2. LET x == RunOf("func_eval") IN Calm(x.k, x.pc) /\ ~ RunOne(x)
    BY NewRuns DEF Tags
  <2> QED
    BY <1>1, <1>2, <2>1, <2>2, OrdinaryGoes
<1> QED
  BY <1>3, <1>4

LEMMA TryFailedOrdinary ==
  ASSUME TypeOK, TypeOK', TryFailed
  PROVE  Ordinary /\ Quiet /\ Whole(Running)
<1>1. /\ StackOK /\ Running.k = "try" /\ ~ Inside(Running)
      /\ Calm(Running.k, "caught") /\ Whole(Running)
  BY DEF TypeOK, TryFailed, At, Inside, Calm, Whole
<1>2. Quiet
  BY DEF TryFailed, At, Quiet, TypeOK, FlagsOK, Flags
<1>3. WentCalling("caught", RunOf("tree_try_catch::eval"))
  BY <1>1, NewRuns, Goings, Zenon DEF TryFailed, Pcs, Tags
<1>4. LET x == RunOf("tree_try_catch::eval") IN Calm(x.k, x.pc) /\ ~ RunOne(x)
  BY NewRuns DEF Tags
<1> QED
  BY <1>1, <1>2, <1>3, <1>4, OrdinaryGoes

LEMMA EvalOrdinary ==
  ASSUME TypeOK, TypeOK', EvalParse \/ EvalSucceeded \/ EvalExit
  PROVE  Ordinary /\ Quiet /\ Whole(Running)
<1>1. /\ StackOK /\ Running.k = "eval" /\ ~ Inside(Running)
      /\ \A pc : Calm(Running.k, pc) /\ Whole(Running)
  BY DEF TypeOK, EvalParse, EvalSucceeded, EvalExit, At, Inside, Calm, Whole
<1>2. Quiet
  BY <1>1 DEF EvalParse, EvalSucceeded, EvalExit, At, Quiet, TypeOK, FlagsOK, Flags
<1>3. CASE EvalParse
  <2> DEFINE next == IF Running.pc = "parse" THEN "body" ELSE "exit"
  <2>1. next \in Pcs
    BY DEF Pcs
  <2>2. \/ Goto(next)
        \/ \E n \in 1 .. MaxList : Call(ListOf("string", n, g["rsf"] = 1, FALSE), next)
    BY <1>3 DEF EvalParse
  <2> HIDE DEF next
  <2>3. CASE Goto(next)
    <3>1. Went(next)
      BY <1>1, <2>1, <2>3, Goings, Zenon
    <3> QED
      BY <1>1, <1>2, <3>1, OrdinaryGoes
  <2>4. ASSUME NEW n \in 1 .. MaxList,
               Call(ListOf("string", n, g["rsf"] = 1, FALSE), next)
        PROVE  Ordinary
    <3> DEFINE b == (g["rsf"] = 1)
               x == ListOf("string", n, b, FALSE)
    <3>1. b \in BOOLEAN
      OBVIOUS
    <3>2. Call(x, next)
      BY <2>4
    <3> HIDE DEF b
    <3>3. x \in Frame /\ Calm(x.k, x.pc) /\ ~ RunOne(x)
      <4>1. "string" \in Roles /\ FALSE \in BOOLEAN
        BY DEF Roles
      <4> QED
        BY <3>1, <4>1, NewLists
    <3> HIDE DEF x
    <3>4. WentCalling(next, x)
      BY <1>1, <2>1, <3>2, <3>3, Goings, Zenon
    <3> QED
      BY <1>1, <3>3, <3>4, OrdinaryGoes
  <2> QED
    BY <1>1, <1>2, <2>2, <2>3, <2>4
<1>4. CASE EvalSucceeded
  <2>1. Went("exit")
    BY <1>1, <1>4, Goings, Zenon DEF EvalSucceeded, Pcs
  <2> QED
    BY <1>1, <1>2, <2>1, OrdinaryGoes
<1>5. CASE EvalExit
  <2>1. WentCalling("done", RunOf("Feval"))
    BY <1>1, <1>5, NewRuns, Goings, Zenon DEF EvalExit, Pcs, Tags
  <2>2. LET x == RunOf("Feval") IN Calm(x.k, x.pc) /\ ~ RunOne(x)
    BY NewRuns DEF Tags
  <2> QED
    BY <1>1, <1>2, <2>1, <2>2, OrdinaryGoes
<1> QED
  BY <1>3, <1>4, <1>5

LEMMA ScriptOrdinary ==
  ASSUME TypeOK, TypeOK',
         \/ ScriptCommand \/ ScriptParseError \/ ScriptEnd \/ ScriptAfter
         \/ ScriptJumped \/ ScriptExit \/ ScriptLeave
  PROVE  Ordinary /\ Quiet /\ Whole(Running)
<1>1. /\ StackOK /\ Running.k = "script"
      /\ \A pc : Calm(Running.k, pc) /\ Whole(Running)
  BY DEF TypeOK, ScriptCommand, ScriptParseError, ScriptEnd, ScriptAfter,
         ScriptJumped, ScriptExit, ScriptLeave, At, Calm, Whole
<1>2. Quiet
  BY <1>1 DEF ScriptCommand, ScriptParseError, ScriptEnd, ScriptAfter,
         ScriptJumped, ScriptExit, ScriptLeave, At, Quiet, TypeOK, FlagsOK, Flags
<1>3. CASE ScriptCommand
  <2>1. PICK n \in 1 .. MaxList :
          cs' = Append(Counted("after"), ListOf("script", n, TRUE, FALSE))
    BY <1>3, Zenon DEF ScriptCommand
  <2>2. Running.n > 0
    BY <1>3 DEF ScriptCommand
  <2> DEFINE x == ListOf("script", n, TRUE, FALSE)
  <2>3. x \in Frame /\ Calm(x.k, x.pc) /\ ~ RunOne(x)
    <3>1. "script" \in Roles /\ TRUE \in BOOLEAN /\ FALSE \in BOOLEAN
      BY DEF Roles
    <3> QED
      BY <2>1, <3>1, NewLists
  <2> HIDE DEF x
  <2>4. WentCalling("after", x)
    BY <1>1, <2>1, <2>2, <2>3, Goings, Zenon DEF Pcs, InScript, x
  <2> QED
    BY <1>1, <1>2, <2>3, <2>4, OrdinaryGoes
<1>4. CASE ScriptParseError \/ ScriptEnd \/ ScriptAfter \/ ScriptJumped
  <2>1. Goto("exit") \/ Goto("loop")
    BY <1>4 DEF ScriptParseError, ScriptEnd, ScriptAfter, ScriptJumped
  <2>2. Went("exit") \/ Went("loop")
    BY <1>1, <2>1, Goings, Zenon DEF Pcs, InScript
  <2> QED
    BY <1>1, <1>2, <2>2, OrdinaryGoes
<1>5. CASE ScriptExit
  <2>1. WentCalling("leave", RunOf("parse_and_execute"))
    BY <1>1, <1>5, NewRuns, Goings, Zenon DEF ScriptExit, Pcs, Tags, InScript
  <2>2. LET x == RunOf("parse_and_execute") IN Calm(x.k, x.pc) /\ ~ RunOne(x)
    BY NewRuns DEF Tags
  <2> QED
    BY <1>1, <1>2, <2>1, <2>2, OrdinaryGoes
<1>6. CASE ScriptLeave
  <2> DEFINE fr == [Running EXCEPT !.pc = "done"]
             x == RunOf("parse_fcn_file")
  <2>1. /\ fr \in Frame /\ fr.k = "script" /\ fr.pc = "done" /\ fr.base = Running.base
        /\ x \in Frame /\ Calm(x.k, x.pc) /\ ~ RunOne(x)
    <3>1. Running \in Frame
      BY <1>1, RunningFrame
    <3>2. fr \in Frame /\ fr.k = "script" /\ fr.pc = "done" /\ fr.base = Running.base
      BY <1>1, <3>1 DEF Frame, Pcs
    <3> QED
      BY <3>2, NewRuns DEF Tags
  <2>2. cs' = Append(Top(fr), x)
    BY <1>6 DEF ScriptLeave, Call
  <2> HIDE DEF fr, x
  <2>3. Depth \in Nat \ {0} /\ Len(cs) = Depth /\ Running = cs[Depth] /\ cs \in Seq(Frame)
    BY <1>1, RunningFrame DEF Running, StackOK
  <2>4. /\ Top(fr) \in Seq(Frame) /\ Len(Top(fr)) = Depth
        /\ \A j \in 1 .. Depth : Top(fr)[j] = IF j = Depth THEN fr ELSE cs[j]
    BY <2>1, <2>3, ExceptSeq DEF Top
  <2>5. /\ Len(cs') = Depth + 1 /\ cs'[Depth + 1] = x
        /\ \A j \in 1 .. Depth : cs'[j] = IF j = Depth THEN fr ELSE cs[j]
    BY <2>1, <2>2, <2>3, <2>4, AppendProperties
  <2>6. ~ Watched(fr) /\ Waits(fr) /\ ~ Watched(x) /\ Waits(x)
    BY <2>1, CalmFrame DEF Calm, RunOne
  <2>7. Steps(cs, cs')
    BY <1>1, <2>1, <2>3, <2>5 DEF Steps
  <2>8. \A i \in 1 .. Len(cs') : i >= Depth => ~ Watched(cs'[i]) /\ Waits(cs'[i])
    <3> SUFFICES ASSUME NEW i \in 1 .. Len(cs'), i >= Depth
                 PROVE  ~ Watched(cs'[i]) /\ Waits(cs'[i])
      OBVIOUS
    <3>1. i = Depth \/ i = Depth + 1
      BY <2>3, <2>5
    <3> QED
      BY <2>3, <2>5, <2>6, <3>1
  <2>9. ~ Len(cs') < Depth
    BY <2>3, <2>5
  <2> QED
    BY <1>1, <1>2, <2>7, <2>8, <2>9 DEF Ordinary, RunOne
<1> QED
  BY <1>3, <1>4, <1>5, <1>6

LEMMA LeaveOrdinary ==
  ASSUME TypeOK, TypeOK', Leave
  PROVE  Ordinary /\ Quiet /\ Whole(Running)
<1>1. /\ Return /\ Running.k # "list" /\ Whole(Running) /\ g' = g
      /\ Running.k \in {"run", "cleanup", "unw"} => Running.pc \in {"done", "cleaned"}
  BY DEF Leave, At, Whole
<1>2. Quiet
  BY DEF Leave, At, Quiet
<1> QED
  BY <1>1, <1>2, OrdinaryReturns DEF RunOne

\* run_all_unwind_protects comes to the end of the list; no other run does.
LEMMA EmptyOrdinary ==
  ASSUME TypeOK, TypeOK', Held(cs, ul), RunEmpty
  PROVE  Ordinary /\ Quiet /\ ul = <<>>
<1>1. /\ Depth \in Nat \ {0} /\ Len(cs) = Depth /\ Running = cs[Depth]
      /\ StackOK /\ cs \in Seq(Frame) /\ Running \in Frame
  BY RunningFrame DEF TypeOK, Running, StackOK
<1>2. /\ Running.k = "run" /\ Running.pc = "pop" /\ ul = <<>> /\ Goto("done")
  BY DEF RunEmpty, At
<1>3. Quiet
  BY DEF RunEmpty, At, Quiet
<1>4. ~ RunOne(Running)
  <2>1. RunEnd(cs, ul, Depth)
    BY <1>1 DEF Held, HeldAt
  <2> QED
    BY <1>1, <1>2, <2>1 DEF RunEnd, PopsOf
<1> DEFINE fr == [Running EXCEPT !.pc = "done"]
<1>5. /\ fr \in Frame /\ fr.k = "run" /\ fr.tag = Running.tag /\ fr.base = Running.base
      /\ cs' = Top(fr)
  BY <1>1, <1>2 DEF Frame, Pcs, Goto
<1> HIDE DEF fr
<1>6. /\ Len(cs') = Depth
      /\ \A j \in 1 .. Depth : cs'[j] = IF j = Depth THEN fr ELSE cs[j]
  BY <1>1, <1>5, ExceptSeq DEF Top
<1>7. ~ Watched(fr) /\ Waits(fr)
  BY <1>2, <1>4, <1>5, CalmFrame DEF Calm, RunOne
<1>8. Steps(cs, cs')
  BY <1>1, <1>2, <1>5, <1>6 DEF Steps
<1>9. \A i \in 1 .. Len(cs') : i >= Depth => ~ Watched(cs'[i]) /\ Waits(cs'[i])
  <2> SUFFICES ASSUME NEW i \in 1 .. Len(cs'), i >= Depth
               PROVE  ~ Watched(cs'[i]) /\ Waits(cs'[i])
    OBVIOUS
  <2>1. i = Depth
    BY <1>1, <1>6
  <2> QED
    BY <1>1, <1>6, <1>7, <2>1
<1> QED
  BY <1>1, <1>2, <1>3, <1>4, <1>6, <1>8, <1>9 DEF Ordinary

-----------------------------------------------------------------------------
(***************************************************************************)
(* What the actions add to the list                                        *)
(***************************************************************************)

More(k) == Len(ul') = Len(ul) + k /\ Agree(ul, ul', Len(ul)) /\ Len(ul) \in Nat
New(k) == ul'[Len(ul) + k]

LEMMA MoreOf ==
  ASSUME TypeOK
  PROVE  /\ \A a \in Elem : ul' = Append(ul, a) => More(1) /\ New(1) = a
         /\ \A a, b \in Elem : ul' = ul \o <<a, b>> => More(2) /\ New(1) = a /\ New(2) = b
         /\ \A a, b, c \in Elem :
              ul' = ul \o <<a, b, c>>
                => More(3) /\ New(1) = a /\ New(2) = b /\ New(3) = c
         /\ \A a, b, c, d \in Elem :
              ul' = ul \o <<a, b, c, d>>
                => /\ More(4) /\ New(1) = a /\ New(2) = b /\ New(3) = c
                   /\ New(4) = d
         /\ \A a, b, c, d, e \in Elem :
              ul' = ul \o <<a, b, c, d, e>>
                => /\ More(5) /\ New(1) = a /\ New(2) = b /\ New(3) = c
                   /\ New(4) = d /\ New(5) = e
<1>1. Len(ul) \in Nat /\ ul \in Seq(Elem)
  BY LenProperties DEF TypeOK, UnwindOK
<1>2. ASSUME NEW a \in Elem, ul' = Append(ul, a)
      PROVE  More(1) /\ New(1) = a
  <2>1. Longer(ul, ul', <<a>>)
    BY <1>1, <1>2, Pushed
  <2> QED
    BY <1>1, <2>1 DEF Longer, More, New
<1>3. ASSUME NEW a \in Elem, NEW b \in Elem, ul' = ul \o <<a, b>>
      PROVE  More(2) /\ New(1) = a /\ New(2) = b
  <2>1. Longer(ul, ul', <<a, b>>)
    BY <1>1, <1>3, Pushed
  <2> QED
    BY <1>1, <2>1 DEF Longer, More, New
<1>4. ASSUME NEW a \in Elem, NEW b \in Elem, NEW c \in Elem, ul' = ul \o <<a, b, c>>
      PROVE  More(3) /\ New(1) = a /\ New(2) = b /\ New(3) = c
  <2>1. Longer(ul, ul', <<a, b, c>>)
    BY <1>1, <1>4, Pushed
  <2> QED
    BY <1>1, <2>1 DEF Longer, More, New
<1>5. ASSUME NEW a \in Elem, NEW b \in Elem, NEW c \in Elem, NEW d \in Elem,
             ul' = ul \o <<a, b, c, d>>
      PROVE  More(4) /\ New(1) = a /\ New(2) = b /\ New(3) = c /\ New(4) = d
  <2>1. Longer(ul, ul', <<a, b, c, d>>)
    BY <1>1, <1>5, Pushed
  <2> QED
    BY <1>1, <2>1 DEF Longer, More, New
<1>6. ASSUME NEW a \in Elem, NEW b \in Elem, NEW c \in Elem, NEW d \in Elem,
             NEW e \in Elem, ul' = ul \o <<a, b, c, d, e>>
      PROVE  /\ More(5) /\ New(1) = a /\ New(2) = b /\ New(3) = c
             /\ New(4) = d /\ New(5) = e
  <2>1. Longer(ul, ul', <<a, b, c, d, e>>)
    BY <1>1, <1>6, Pushed
  <2> QED
    BY <1>1, <2>1 DEF Longer, More, New
<1> QED
  BY <1>2, <1>3, <1>4, <1>5, <1>6

\* The saved buffer_error_messages comes last, if there is a catch part.
LEMMA MoreSaved ==
  ASSUME TypeOK, NEW t \in Seq(Elem), NEW r \in Elem, NEW b \in BOOLEAN,
         NEW k \in Nat, Len(t) = Len(ul) + k, Agree(ul, t, Len(ul)),
         ul' = t \o (IF b THEN <<r>> ELSE <<>>)
  PROVE  /\ Len(ul') = Len(ul) + (IF b THEN k + 1 ELSE k) /\ Len(ul) \in Nat
         /\ \A p \in 1 .. Len(ul) + k : ul'[p] = t[p]
         /\ Agree(ul, ul', Len(ul))
         /\ b => New(k + 1) = r
<1>1. Len(ul) \in Nat
  BY LenProperties DEF TypeOK, UnwindOK
<1> DEFINE z == IF b THEN <<r>> ELSE <<>>
<1>2. z \in Seq(Elem) /\ Len(z) = (IF b THEN 1 ELSE 0) /\ (b => z[1] = r)
  <2>1. CASE b
    BY <2>1
  <2>2. CASE ~ b
    BY <2>2
  <2> QED
    BY <2>1, <2>2
<1>3. ul' = t \o z
  OBVIOUS
<1> HIDE DEF z
<1>4. Longer(t, ul', z)
  BY <1>2, <1>3, Joined
<1>5. Len(ul') = Len(ul) + k + (IF b THEN 1 ELSE 0)
  BY <1>2, <1>4 DEF Longer
<1>6. \A p \in 1 .. Len(ul) + k : ul'[p] = t[p]
  BY <1>4 DEF Longer, Agree
<1>7. Agree(ul, ul', Len(ul))
  BY <1>1, <1>6 DEF Agree
<1>8. ASSUME b
      PROVE  New(k + 1) = r
  <2>1. 1 \in 1 .. Len(z) /\ Len(t) + 1 = Len(ul) + (k + 1)
    BY <1>1, <1>2, <1>8
  <2> QED
    BY <1>2, <1>4, <1>8, <2>1 DEF Longer, New
<1> QED
  BY <1>1, <1>5, <1>6, <1>7, <1>8

LEMMA EvalPushes ==
  ASSUME TypeOK, NEW b \in BOOLEAN, Eval(b)
  PROVE  /\ More(IF b THEN 2 ELSE 1) /\ New(1) = Mark("Feval")
         /\ b => New(2) = Saved("buf")
<1> DEFINE m == Mark("Feval")
           r == Saved("buf")
           t == Append(ul, m)
<1>1. m \in Elem /\ r \in Elem /\ ul \in Seq(Elem) /\ Len(ul) \in Nat
  BY ElemTypes, LenProperties DEF TypeOK, Tags, Flags, UnwindOK
<1>2. ul' = t \o (IF b THEN <<r>> ELSE <<>>)
  BY DEF Eval
<1> HIDE DEF m, r
<1>3. t \in Seq(Elem) /\ Len(t) = Len(ul) + 1 /\ Agree(ul, t, Len(ul)) /\ t[Len(ul) + 1] = m
  <2>1. t \in Seq(Elem) /\ Len(t) = Len(ul) + 1 /\ t[Len(ul) + 1] = m
    BY <1>1, AppendProperties
  <2>2. \A i \in 1 .. Len(ul) : t[i] = ul[i]
    BY <1>1, AppendProperties
  <2> QED
    BY <2>1, <2>2, Zenon DEF Agree
<1> HIDE DEF t
<1> DEFINE k == 1
<1>4. /\ Len(ul') = Len(ul) + (IF b THEN k + 1 ELSE k)
      /\ \A p \in 1 .. Len(ul) + k : ul'[p] = t[p]
      /\ Agree(ul, ul', Len(ul)) /\ (b => New(k + 1) = r)
  <2>1. k \in Nat /\ Len(t) = Len(ul) + k
    BY <1>3
  <2> HIDE DEF k
  <2> QED
    BY ONLY TypeOK, b \in BOOLEAN, <1>1, <1>2, <1>3, <2>1, MoreSaved
<1>5. New(1) = m
  BY <1>1, <1>3, <1>4 DEF New
<1> QED
  BY <1>1, <1>4, <1>5 DEF More, m, r

LEMMA TryPushes ==
  ASSUME TypeOK, Layout(cs, ul), AtStatement, NEW b \in BOOLEAN, Try(b)
  PROVE  /\ More(IF b THEN 3 ELSE 2) /\ New(1) = Mark("tree_try_catch::eval")
         /\ New(2).e = "catch"
         /\ b => New(3) = Saved("buf")
<1> DEFINE m == Mark("tree_try_catch::eval")
           c == [ElemOf("catch", NoFn) EXCEPT !.brk = Running.brk,
                   !.cont = Running.cont, !.flag = b]
           r == Saved("buf")
           t == ul \o <<m, c>>
<1>1. m \in Elem /\ r \in Elem /\ ul \in Seq(Elem) /\ Len(ul) \in Nat
  BY ElemTypes, LenProperties DEF TypeOK, Tags, Flags, UnwindOK
<1>2. c \in Elem /\ c.e = "catch"
  <2>1. ElemOf("catch", NoFn) \in Elem /\ ElemOf("catch", NoFn).e = "catch"
    BY ElemTypes, Kinds DEF TypeOK, ElemKinds, FnElems
  <2>2. Running.brk \in BOOLEAN /\ Running.cont \in BOOLEAN
    BY StatementHere, SteppedGood
  <2> QED
    BY <2>1, <2>2 DEF Elem
<1>3. ul' = t \o (IF b THEN <<r>> ELSE <<>>)
  BY DEF Try
<1> HIDE DEF m, c, r
<1>4. /\ t \in Seq(Elem) /\ Len(t) = Len(ul) + 2 /\ Agree(ul, t, Len(ul))
      /\ t[Len(ul) + 1] = m /\ t[Len(ul) + 2] = c
  <2>1. t \in Seq(Elem)
    BY <1>1, <1>2
  <2>2. Longer(ul, t, <<m, c>>)
    BY <1>1, <1>2, Pushed
  <2> QED
    BY <2>1, <2>2 DEF Longer
<1> HIDE DEF t
<1> DEFINE k == 2
<1>5. /\ Len(ul') = Len(ul) + (IF b THEN k + 1 ELSE k)
      /\ \A p \in 1 .. Len(ul) + k : ul'[p] = t[p]
      /\ Agree(ul, ul', Len(ul)) /\ (b => New(k + 1) = r)
  <2>1. k \in Nat /\ Len(t) = Len(ul) + k
    BY <1>4
  <2> HIDE DEF k
  <2> QED
    BY ONLY TypeOK, b \in BOOLEAN, <1>1, <1>3, <1>4, <2>1, MoreSaved
<1>6. New(1) = m /\ New(2) = c
  BY <1>1, <1>4, <1>5 DEF New
<1> QED
  BY <1>1, <1>2, <1>5, <1>6 DEF More, m, r

LEMMA UnwindPushes ==
  ASSUME TypeOK, Layout(cs, ul), AtStatement, UnwindProtect
  PROVE  More(1) /\ New(1).e = "cleanup"
<1> DEFINE c == [ElemOf("cleanup", NoFn) EXCEPT !.brk = Running.brk,
                                                !.cont = Running.cont]
<1>1. c \in Elem /\ c.e = "cleanup"
  <2>1. ElemOf("cleanup", NoFn) \in Elem /\ ElemOf("cleanup", NoFn).e = "cleanup"
    BY ElemTypes, Kinds DEF TypeOK, ElemKinds, FnElems
  <2>2. Running.brk \in BOOLEAN /\ Running.cont \in BOOLEAN
    BY StatementHere, SteppedGood
  <2> QED
    BY <2>1, <2>2 DEF Elem
<1>2. ul' = Append(ul, c)
  BY DEF UnwindProtect
<1> HIDE DEF c
<1> QED
  BY <1>1, <1>2, MoreOf

LEMMA GuardPushes ==
  ASSUME TypeOK
  PROVE  /\ CleanupBegin => /\ More(3) /\ New(1) = Saved("err") /\ New(2) = Saved("ret")
                            /\ New(3) = Saved("brk")
         /\ CatchProtect => /\ More(3) /\ New(1) = ElemOf("clearerr", NoFn)
                            /\ New(2) = Saved("ret") /\ New(3) = Saved("brk")
         /\ EvalFailed => More(1) /\ New(1) = ElemOf("clearerr", NoFn)
<1> DEFINE e == Saved("err")
           r == Saved("ret")
           b == Saved("brk")
           c == ElemOf("clearerr", NoFn)
<1>1. e \in Elem /\ r \in Elem /\ b \in Elem /\ c \in Elem
  BY ElemTypes DEF TypeOK, Flags, ElemKinds, FnElems, UnwindOK
<1>2. /\ CleanupBegin => ul' = ul \o <<e, r, b>>
      /\ CatchProtect => ul' = ul \o <<c, r, b>>
      /\ EvalFailed => ul' = Append(ul, c)
  BY DEF CleanupBegin, CatchProtect, EvalFailed
<1> HIDE DEF e, r, b, c
<1>3. /\ CleanupBegin => More(3) /\ New(1) = e /\ New(2) = r /\ New(3) = b
      /\ CatchProtect => More(3) /\ New(1) = c /\ New(2) = r /\ New(3) = b
      /\ EvalFailed => More(1) /\ New(1) = c
  BY <1>1, <1>2, MoreOf
<1> QED
  BY <1>3 DEF e, r, b, c

LEMMA ScriptPushes ==
  ASSUME TypeOK, ScriptBegin
  PROVE  /\ More(4) /\ New(1) = Mark("parse_fcn_file") /\ New(2) = Saved("rsf")
         /\ New(3) = Mark("parse_and_execute") /\ New(4) = ElemOf("tab", cur.tab)
<1> DEFINE a == Mark("parse_fcn_file")
           b == Saved("rsf")
           c == Mark("parse_and_execute")
           d == ElemOf("tab", cur.tab)
<1>1. a \in Elem /\ b \in Elem /\ c \in Elem /\ d \in Elem
  BY ElemTypes DEF TypeOK, Flags, Tags, ElemKinds, FnElems, UnwindOK, FnOK
<1>2. ul' = ul \o <<a, b, c, d>>
  BY DEF ScriptBegin
<1> HIDE DEF a, b, c, d
<1>3. More(4) /\ New(1) = a /\ New(2) = b /\ New(3) = c /\ New(4) = d
  BY <1>1, <1>2, MoreOf
<1> QED
  BY <1>3 DEF a, b, c, d

LEMMA CallBeginPushes ==
  ASSUME TypeOK, CallBegin
  PROVE  /\ More(2) /\ New(1) = Mark("func_eval")
         /\ New(2) = SavedCount("depth", Running.f, fn[Running.f].depth)
<1> DEFINE f == Running.f
           d == fn[f].depth + 1
           a == Mark("func_eval")
           b == SavedCount("depth", f, d - 1)
<1>1. f \in Fn /\ fn[f].depth \in Nat
  BY CalledFunction DEF TypeOK, CallBegin, At
<1>2. d - 1 = fn[f].depth
  BY <1>1
<1>3. b = SavedCount("depth", f, fn[f].depth)
  BY <1>2
<1>4. a \in Elem /\ b \in Elem
  BY <1>1, <1>3, ElemTypes DEF TypeOK, Tags, FnElems
<1>5. ul' = ul \o <<a, b>>
  BY DEF CallBegin
<1> HIDE DEF a, b
<1>6. More(2) /\ New(1) = a /\ New(2) = b
  BY <1>4, <1>5, MoreOf
<1> QED
  BY <1>3, <1>6 DEF a

LEMMA CallPushPushes ==
  ASSUME TypeOK, CallPush
  PROVE  /\ More(3) /\ New(1) = ElemOf("popctx", Running.f)
         /\ New(2) = SavedCount("vr", Running.f, fn[Running.f].vr)
         /\ New(3) = ElemOf("delvr", Running.f)
<1> DEFINE f == Running.f
           a == ElemOf("popctx", f)
           b == SavedCount("vr", f, fn[f].vr)
           c == ElemOf("delvr", f)
<1>1. a \in Elem /\ b \in Elem /\ c \in Elem
  <2>1. f \in Fn /\ fn[f].vr \in Nat
    BY CalledFunction DEF TypeOK, CallPush, At
  <2> QED
    BY <2>1, ElemTypes DEF TypeOK, FnElems
<1>2. ul' = ul \o <<a, b, c>>
  BY DEF CallPush
<1> HIDE DEF a, b, c
<1>3. More(3) /\ New(1) = a /\ New(2) = b /\ New(3) = c
  BY <1>1, <1>2, MoreOf
<1> QED
  BY <1>3 DEF a, b, c

LEMMA CallBindPushes ==
  ASSUME TypeOK, CallBind
  PROVE  /\ More(5) /\ New(1) = ElemOf("clearsym", Running.f)
         /\ New(2) = ElemOf("tab", cur.tab) /\ New(3) = ElemOf("fun", cur.fun)
         /\ New(4) = ElemOf("clearargs", Running.f)
         /\ New(5) = SavedCount("nargs", Running.f, fn[Running.f].nargs)
<1> DEFINE f == Running.f
           a == ElemOf("clearsym", f)
           b == ElemOf("tab", cur.tab)
           c == ElemOf("fun", cur.fun)
           d == ElemOf("clearargs", f)
           e == SavedCount("nargs", f, fn[f].nargs)
<1>1. a \in Elem /\ b \in Elem /\ c \in Elem /\ d \in Elem /\ e \in Elem
  <2>1. f \in Fn /\ fn[f].nargs \in Nat
    BY CalledFunction DEF TypeOK, CallBind, At
  <2>2. a \in Elem /\ d \in Elem /\ e \in Elem
    BY <2>1, ElemTypes DEF TypeOK, FnElems
  <2>3. b \in Elem /\ c \in Elem
    BY ElemTypes DEF TypeOK, ElemKinds, FnElems, FnOK
  <2> QED
    BY <2>2, <2>3
<1>2. ul' = ul \o <<a, b, c, d, e>>
  BY DEF CallBind
<1> HIDE DEF a, b, c, d, e
<1>3. /\ More(5) /\ New(1) = a /\ New(2) = b /\ New(3) = c /\ New(4) = d
      /\ New(5) = e
  BY <1>1, <1>2, MoreOf
<1> QED
  BY <1>3 DEF a, b, c, d, e

-----------------------------------------------------------------------------
(***************************************************************************)
(* The frames keep what they rely on                                       *)
(***************************************************************************)

\* A step after which the frames from the running one on rely on nothing.
Frames ==
  /\ Steps(cs, cs')
  /\ \A i \in 1 .. Len(cs') : i >= Depth =>
       ~ Watched(cs'[i]) /\ (i < Len(cs') => Waits(cs'[i]))
  /\ Len(cs') < Depth /\ Running.k = "list" => Len(ul') = Running.base
  /\ RunOne(Running) \/ Running.k \in {"cleanup", "unw"} => Leaves

LEMMA OrdinaryFrames == Ordinary => Frames
BY DEF Ordinary, Frames

LEMMA EvalStatementOrdinary ==
  ASSUME TypeOK, Layout(cs, ul), AtStatement, NEW b \in BOOLEAN, Eval(b)
  PROVE  Ordinary
<1> DEFINE x == [FrameOf("eval", "parse") EXCEPT !.flag = b]
<1>1. x \in Frame /\ x.k = "eval" /\ cs' = Append(Stepped, x)
  <2>1. FrameOf("eval", "parse") \in Frame /\ FrameOf("eval", "parse").k = "eval"
    BY StatementHere, FrameTypes, NewFrames DEF FrameKinds, Pcs
  <2> QED
    BY <2>1 DEF Frame, Eval
<1> HIDE DEF x
<1>2. WentCalling("check", x) /\ Running.k = "list" /\ Calm(Running.k, "check")
  BY <1>1, StatementHere DEF Calm
<1>3. Calm(x.k, x.pc) /\ ~ RunOne(x)
  BY <1>1 DEF Calm, RunOne
<1> QED
  BY <1>2, <1>3, OrdinaryGoes

LEMMA CallBindOrdinary ==
  ASSUME TypeOK, TypeOK', CallBind
  PROVE  Ordinary
<1>1. /\ StackOK /\ Running.k = "call" /\ ~ Inside(Running)
      /\ Calm(Running.k, "exit") /\ Calm(Running.k, "body") /\ ul' \in Seq(Elem)
  BY DEF TypeOK, CallBind, At, Inside, Calm, UnwindOK
<1>2. CASE Goto("exit")
  <2>1. Went("exit")
    BY <1>1, <1>2, Goings, Zenon DEF Pcs
  <2> QED
    BY <1>1, <2>1, OrdinaryGoes
<1>3. ASSUME NEW n \in 1 .. MaxList,
             Call([ListOf("fcn", n, TRUE, FALSE) EXCEPT !.base = Len(ul')], "body")
      PROVE  Ordinary
  <2> DEFINE x == [ListOf("fcn", n, TRUE, FALSE) EXCEPT !.base = Len(ul')]
  <2>1. x \in Frame /\ x.k = "list"
    <3> DEFINE y == ListOf("fcn", n, TRUE, FALSE)
    <3>1. y \in Frame /\ y.k = "list"
      <4>1. "fcn" \in Roles /\ TRUE \in BOOLEAN /\ FALSE \in BOOLEAN
        BY DEF Roles
      <4> QED
        BY <1>3, <4>1, NewLists
    <3> HIDE DEF y
    <3>2. [y EXCEPT !.base = Len(ul')] \in Frame
      BY <1>1, <3>1, Rebased
    <3>3. [y EXCEPT !.base = Len(ul')].k = "list"
      BY <3>1 DEF Frame
    <3> QED
      BY <3>2, <3>3 DEF y
  <2>2. Call(x, "body")
    BY <1>3
  <2> HIDE DEF x
  <2>3. WentCalling("body", x)
    BY <1>1, <2>1, <2>2, Goings, Zenon DEF Pcs
  <2>4. Calm(x.k, x.pc) /\ ~ RunOne(x)
    BY <2>1 DEF Calm, RunOne
  <2> QED
    BY <1>1, <2>3, <2>4, OrdinaryGoes
<1> QED
  BY <1>2, <1>3 DEF CallBind

LEMMA MovesOrdinary ==
  ASSUME TypeOK, TypeOK', CatchBind \/ ScriptBegin \/ EvalFailed \/ TrySucceeded
  PROVE  Ordinary
<1>1. StackOK /\ Running.k \in {"catch", "script", "eval", "try"}
  BY DEF TypeOK, CatchBind, ScriptBegin, EvalFailed, TrySucceeded, At
<1>2. CASE CatchBind
  <2>1. Goto("protect") /\ ~ Inside(Running) /\ Calm(Running.k, "protect")
    BY <1>2 DEF CatchBind, At, Inside, Calm
  <2>2. Went("protect")
    BY <1>1, <2>1, Goings, Zenon DEF Pcs
  <2> QED
    BY <1>1, <2>1, <2>2, OrdinaryGoes
<1>3. CASE ScriptBegin
  <2>1. Goto("loop") /\ Calm(Running.k, "loop")
    BY <1>3 DEF ScriptBegin, At, Calm
  <2>2. Went("loop")
    BY <1>1, <2>1, Goings, Zenon DEF Pcs, InScript
  <2> QED
    BY <1>1, <2>1, <2>2, OrdinaryGoes
<1>4. CASE EvalFailed
  <2>1. Goto("parse2") /\ ~ Inside(Running) /\ Calm(Running.k, "parse2")
    BY <1>4 DEF EvalFailed, At, Inside, Calm
  <2>2. Went("parse2")
    BY <1>1, <2>1, Goings, Zenon DEF Pcs
  <2> QED
    BY <1>1, <2>1, <2>2, OrdinaryGoes
<1>5. CASE TrySucceeded
  <2>1. Return /\ Running.k = "try"
    BY <1>5 DEF TrySucceeded, At
  <2> QED
    BY <2>1, OrdinaryReturns DEF RunOne
<1> QED
  BY <1>2, <1>3, <1>4, <1>5

LEMMA CallFrames ==
  ASSUME TypeOK, TypeOK', CallBegin \/ CallPush
  PROVE  Frames
<1>1. StackOK /\ Running.k = "call" /\ ~ Inside(Running)
  BY DEF TypeOK, CallBegin, CallPush, At, Inside
<1>2. Goto("exit") \/ Goto("push") \/ Goto("bind")
  BY DEF CallBegin, CallPush
<1>3. PICK pc \in {"exit", "push", "bind"} : Went(pc)
  BY <1>1, <1>2, Goings, Zenon DEF Pcs
<1>4. /\ Depth \in Nat \ {0} /\ Len(cs) = Depth /\ Running = cs[Depth]
      /\ Len(cs') = Depth /\ cs'[Depth].k = "call" /\ cs'[Depth].base = Running.base
      /\ \A i \in 1 .. Depth - 1 : cs'[i] = cs[i]
  BY <1>1, <1>3, RunningFrame DEF Running, Went, Goes, Replaced, Same
<1>5. Steps(cs, cs')
  BY <1>1, <1>4 DEF Steps
<1>6. \A i \in 1 .. Len(cs') : i >= Depth => i = Depth /\ ~ i < Len(cs')
  BY <1>4
<1>7. ~ Watched(cs'[Depth])
  BY <1>4 DEF Watched, Guarding, Guards, TryBody, RunOne
<1> QED
  BY <1>1, <1>4, <1>5, <1>6, <1>7 DEF Frames, RunOne

LEMMA FramesHeld ==
  ASSUME TypeOK, TypeOK', Layout(cs, ul), Layout(cs', ul'), Held(cs, ul), Frames,
         Along(ul, ul')
  PROVE  Held(cs', ul')
<1>1. /\ cs \in Seq(Frame) /\ cs' \in Seq(Frame) /\ ul \in Seq(Elem) /\ ul' \in Seq(Elem)
      /\ Len(cs) = Depth /\ Depth > 0 /\ Running = cs[Len(cs)]
  BY RunningFrame DEF TypeOK, StackOK, UnwindOK, Running
<1>2. \A i \in 1 .. Len(cs') : i >= Len(cs) => HeldAt(cs', ul', i)
  <2> SUFFICES ASSUME NEW i \in 1 .. Len(cs'), i >= Len(cs)
               PROVE  HeldAt(cs', ul', i)
    OBVIOUS
  <2>1. ~ Watched(cs'[i]) /\ (i < Len(cs') => Waits(cs'[i]))
    BY <1>1 DEF Frames
  <2>2. /\ ~ Guards(cs'[i]) /\ ~ TryBody(cs'[i]) /\ ~ RunOne(cs'[i])
        /\ ~ (cs'[i].k = "unw" /\ cs'[i].pc = "body")
    BY <2>1 DEF Watched, Guarding
  <2> QED
    BY <2>1, <2>2 DEF HeldAt, Finds, TryEnd, RunEnd
<1>3. Steps(cs, cs') /\ (Len(cs') < Len(cs) /\ cs[Len(cs)].k = "list"
                           => Len(ul') = cs[Len(cs)].base)
  BY <1>1 DEF Frames
<1> QED
  BY <1>1, <1>2, <1>3, HeldStep

\* A step that does not return.
LEMMA HeldGoesOn ==
  ASSUME TypeOK, TypeOK', Layout(cs, ul), Layout(cs', ul'), Held(cs, ul),
         Steps(cs, cs'), Along(ul, ul'), Len(cs') >= Depth,
         \A i \in 1 .. Len(cs') : i >= Depth => HeldAt(cs', ul', i)
  PROVE  Held(cs', ul')
<1>1. /\ cs \in Seq(Frame) /\ cs' \in Seq(Frame) /\ ul \in Seq(Elem) /\ ul' \in Seq(Elem)
      /\ Len(cs) = Depth /\ Depth > 0 /\ Depth \in Nat /\ Len(cs') \in Nat
  BY RunningFrame, LenProperties DEF TypeOK, StackOK, UnwindOK
<1> QED
  BY SMTT(30), <1>1, HeldStep

-----------------------------------------------------------------------------
(***************************************************************************)
(* The steps after which a frame relies on elements                        *)
(***************************************************************************)

LEMMA SteppedFrame ==
  ASSUME NEW r \in Frame, r.k = "list", r.n > 0
  PROVE  LET fr == [r EXCEPT !.pc = "check", !.n = @ - 1]
         IN fr \in Frame /\ fr.k = r.k /\ fr.pc = "check" /\ fr.base = r.base
<1>1. r.n - 1 \in Nat
  BY DEF Frame
<1> DEFINE fr == [r EXCEPT !.pc = "check", !.n = @ - 1]
<1>2. fr \in Frame
  <2> DEFINE m == r.n - 1
  <2>1. m \in Nat /\ fr = [r EXCEPT !.pc = "check", !.n = m]
    BY <1>1
  <2> HIDE DEF m
  <2>2. [r EXCEPT !.pc = "check", !.n = m] \in Frame
    BY <2>1 DEF Frame, Pcs
  <2> QED
    BY <2>1, <2>2
<1>3. fr.k = r.k /\ fr.pc = "check" /\ fr.base = r.base
  BY DEF Frame
<1> QED
  BY <1>2, <1>3

LEMMA OpensTwo ==
  ASSUME TypeOK, Layout(cs, ul), AtStatement, NEW a \in Frame, NEW x \in Frame,
         cs' = Stepped \o <<a, x>>
  PROVE  /\ Steps(cs, cs') /\ Len(cs') = Depth + 2 /\ Depth \in Nat \ {0}
         /\ cs'[Depth].k = "list" /\ cs'[Depth].pc = "check"
         /\ cs'[Depth + 1] = a /\ cs'[Depth + 2] = x
<1>1. /\ Running.k = "list" /\ Running.n > 0 /\ ~ Inside(Running) /\ StackOK
      /\ Running \in Frame /\ Depth \in Nat \ {0} /\ Len(cs) = Depth
      /\ Running = cs[Depth] /\ cs \in Seq(Frame)
  BY StatementHere, RunningFrame DEF Running, StackOK
<1> DEFINE fr == [Running EXCEPT !.pc = "check", !.n = @ - 1]
           t == Top(fr)
<1>2. fr \in Frame /\ fr.k = Running.k /\ fr.pc = "check" /\ fr.base = Running.base
  BY <1>1, SteppedFrame, Zenon
<1>3. Stepped = t
  BY DEF Stepped, Counted
<1> HIDE DEF fr
<1>4. /\ t \in Seq(Frame) /\ Len(t) = Depth
      /\ \A j \in 1 .. Depth : t[j] = IF j = Depth THEN fr ELSE cs[j]
  BY <1>1, <1>2, ExceptSeq DEF Top
<1> HIDE DEF t
<1> DEFINE v == Append(t, a)
           w == Append(v, x)
<1>5. /\ v \in Seq(Frame) /\ Len(v) = Depth + 1 /\ v[Depth + 1] = a
      /\ \A j \in 1 .. Depth : v[j] = t[j]
  BY <1>4, AppendProperties
<1>6. t \o <<a, x>> = w
  BY <1>4
<1> HIDE DEF v
<1>7. /\ Len(w) = Depth + 2 /\ w[Depth + 2] = x
      /\ \A j \in 1 .. Depth + 1 : w[j] = v[j]
  <2>1. /\ Len(w) = Len(v) + 1 /\ w[Len(v) + 1] = x
        /\ \A j \in 1 .. Len(v) : w[j] = v[j]
    BY <1>5, AppendProperties
  <2> QED
    BY <1>1, <1>5, <2>1
<1>8. cs' = w
  BY <1>3, <1>6
<1> HIDE DEF w
<1>9. /\ Len(cs') = Depth + 2 /\ cs'[Depth + 2] = x /\ cs'[Depth + 1] = a
      /\ cs'[Depth] = fr /\ \A j \in 1 .. Depth - 1 : cs'[j] = cs[j]
  BY <1>1, <1>4, <1>5, <1>7, <1>8
<1>10. Steps(cs, cs')
  <2>1. /\ Len(cs) = Depth /\ Running = cs[Depth] /\ Depth \in Nat
        /\ cs'[Depth].k = cs[Depth].k /\ cs'[Depth].base = cs[Depth].base
    BY <1>1, <1>2, <1>9
  <2>2. \A i \in 1 .. Len(cs') : i < Depth => cs'[i] = cs[i]
    BY ONLY <1>9, <2>1
  <2>3. Len(cs') >= Depth
    BY <1>9, <2>1
  <2> QED
    BY ONLY <2>1, <2>2, <2>3 DEF Steps
<1> QED
  BY <1>1, <1>2, <1>9, <1>10

LEMMA TryMoves ==
  ASSUME TypeOK, TypeOK', Layout(cs, ul), AtStatement, NEW b \in BOOLEAN, Try(b)
  PROVE  /\ Steps(cs, cs') /\ Len(cs') = Depth + 2 /\ Depth \in Nat \ {0}
         /\ cs'[Depth].k = "list" /\ cs'[Depth].pc = "check"
         /\ cs'[Depth + 1].k = "try" /\ cs'[Depth + 1].pc = "body"
         /\ cs'[Depth + 1].flag = b /\ cs'[Depth + 1].n = g["buf"]
         /\ cs'[Depth + 1].base = Len(ul)
         /\ cs'[Depth + 2].k = "list" /\ cs'[Depth + 2].pc = "enter"
         /\ cs'[Depth + 2].base = Len(ul')
<1>1. /\ StackOK /\ UnwindOK /\ ul' \in Seq(Elem)
      /\ Running.brk \in BOOLEAN /\ Running.cont \in BOOLEAN
  BY StatementHere, SteppedGood DEF TypeOK, UnwindOK
<1>2. PICK n \in 1 .. MaxList :
        cs' = Stepped \o
             <<[FrameOf("try", "body") EXCEPT !.flag = b, !.n = g["buf"]],
               [ListOf("try", n, Running.brk, Running.cont)
                  EXCEPT !.base = Len(ul')]>>
  BY DEF Try
<1> DEFINE a == [FrameOf("try", "body") EXCEPT !.flag = b, !.n = g["buf"]]
           x == [ListOf("try", n, Running.brk, Running.cont)
                   EXCEPT !.base = Len(ul')]
<1>3. /\ a \in Frame /\ a.k = "try" /\ a.pc = "body" /\ a.base = Len(ul)
      /\ a.flag = b /\ a.n = g["buf"]
  <2>1. g["buf"] \in Levels("buf") /\ g["buf"] \in Nat
    BY DEF TypeOK, FlagsOK, Flags, Levels
  <2>2. FrameOf("try", "body") \in Frame
    BY <1>1, FrameTypes DEF FrameKinds, Pcs
  <2>3. a \in Frame
    BY <2>1, <2>2 DEF Frame
  <2> QED
    BY <2>3 DEF FrameOf
<1>4. x \in Frame /\ x.k = "list" /\ x.pc = "enter" /\ x.base = Len(ul')
  <2>1. ListOf("try", n, Running.brk, Running.cont) \in Frame
    BY <1>1, CallListGood DEF Roles, Pcs
  <2>2. x \in Frame
    BY <1>1, <2>1, Rebased
  <2> QED
    BY <2>1, <2>2 DEF ListOf, FrameOf
<1>5. cs' = Stepped \o <<a, x>>
  BY <1>2
<1> HIDE DEF a, x
<1> QED
  BY <1>3, <1>4, <1>5, OpensTwo

LEMMA UnwindMoves ==
  ASSUME TypeOK, TypeOK', Layout(cs, ul), AtStatement, UnwindProtect
  PROVE  /\ Steps(cs, cs') /\ Len(cs') = Depth + 2 /\ Depth \in Nat \ {0}
         /\ cs'[Depth].k = "list" /\ cs'[Depth].pc = "check"
         /\ cs'[Depth + 1].k = "unw" /\ cs'[Depth + 1].pc = "body"
         /\ cs'[Depth + 1].base = Len(ul)
         /\ cs'[Depth + 2].k = "list" /\ cs'[Depth + 2].pc = "enter"
<1>1. /\ StackOK /\ UnwindOK /\ ul' \in Seq(Elem)
      /\ Running.brk \in BOOLEAN /\ Running.cont \in BOOLEAN
  BY StatementHere, SteppedGood DEF TypeOK, UnwindOK
<1>2. PICK n \in 1 .. MaxList :
        cs' = Stepped \o
             <<FrameOf("unw", "body"),
               [ListOf("protected", n, Running.brk, Running.cont)
                  EXCEPT !.base = Len(ul')]>>
  BY DEF UnwindProtect
<1> DEFINE a == FrameOf("unw", "body")
           x == [ListOf("protected", n, Running.brk, Running.cont)
                   EXCEPT !.base = Len(ul')]
<1>3. a \in Frame /\ a.k = "unw" /\ a.pc = "body" /\ a.base = Len(ul)
  BY <1>1, FrameTypes, NewFrames DEF FrameKinds, Pcs
<1>4. x \in Frame /\ x.k = "list" /\ x.pc = "enter"
  <2>1. ListOf("protected", n, Running.brk, Running.cont) \in Frame
    BY <1>1, CallListGood DEF Roles, Pcs
  <2>2. x \in Frame
    BY <1>1, <2>1, Rebased
  <2> QED
    BY <2>1, <2>2 DEF ListOf, FrameOf
<1>5. cs' = Stepped \o <<a, x>>
  BY <1>2
<1> HIDE DEF a, x
<1> QED
  BY <1>3, <1>4, <1>5, OpensTwo

\* The running frame goes to pc, and may call something.
Moves(pc) ==
  /\ Steps(cs, cs') /\ Depth \in Nat \ {0} /\ Len(cs) = Depth /\ Running = cs[Depth]
  /\ Len(cs') \in {Depth, Depth + 1}
  /\ cs'[Depth].k = Running.k /\ cs'[Depth].pc = pc /\ cs'[Depth].base = Running.base

LEMMA MovesGoes ==
  ASSUME TypeOK, NEW pc
  PROVE  /\ Went(pc) => Moves(pc) /\ Len(cs') = Depth
         /\ \A x : WentCalling(pc, x) =>
              Moves(pc) /\ Len(cs') = Depth + 1 /\ cs'[Depth + 1] = x
<1>1. Depth \in Nat \ {0} /\ Len(cs) = Depth /\ Running = cs[Depth]
  BY RunningFrame DEF TypeOK, Running
<1>2. ASSUME Goes(cs', pc), Len(cs') \in {Depth, Depth + 1}
      PROVE  Moves(pc)
  <2>1. /\ \A i \in 1 .. Depth - 1 : cs'[i] = cs[i]
        /\ cs'[Depth].k = Running.k /\ cs'[Depth].pc = pc
        /\ cs'[Depth].base = Running.base
    BY <1>2 DEF Goes, Replaced, Same
  <2>2. Steps(cs, cs')
    BY <1>1, <1>2, <2>1 DEF Steps
  <2> QED
    BY <1>1, <1>2, <2>1, <2>2 DEF Moves
<1>3. Went(pc) => Moves(pc) /\ Len(cs') = Depth
  BY <1>1, <1>2 DEF Went
<1>4. ASSUME NEW x, WentCalling(pc, x)
      PROVE  Moves(pc) /\ Len(cs') = Depth + 1 /\ cs'[Depth + 1] = x
  BY <1>1, <1>2, <1>4 DEF WentCalling
<1> QED
  BY <1>3, <1>4

LEMMA GuardMoves ==
  ASSUME TypeOK, TypeOK', CleanupBegin \/ CatchProtect
  PROVE  /\ Moves("brk") /\ Running.k \in {"catch", "cleanup"}
         /\ Len(cs') = Depth + 1 => cs'[Depth + 1].k = "list" /\ cs'[Depth + 1].pc = "enter"
<1>1. /\ StackOK /\ UnwindOK /\ ul' \in Seq(Elem) /\ Running.k \in {"catch", "cleanup"}
      /\ ~ Inside(Running) /\ Running.brk \in BOOLEAN /\ Running.cont \in BOOLEAN
      /\ Depth \in Nat
  BY RunningFrame DEF TypeOK, UnwindOK, CleanupBegin, CatchProtect, At, Inside, Frame
<1>2. ASSUME NEW role \in {"catch", "cleanup"}, NEW n \in 1 .. MaxList,
             Call([ListOf(role, n, Running.brk, Running.cont)
                    EXCEPT !.base = Len(ul')], "brk")
      PROVE  /\ Moves("brk")
             /\ Len(cs') = Depth + 1 => cs'[Depth + 1].k = "list" /\ cs'[Depth + 1].pc = "enter"
  <2> DEFINE x == [ListOf(role, n, Running.brk, Running.cont)
                     EXCEPT !.base = Len(ul')]
  <2>1. x \in Frame /\ x.k = "list" /\ x.pc = "enter"
    <3>1. ListOf(role, n, Running.brk, Running.cont) \in Frame
      BY <1>1, CallListGood DEF Roles, Pcs
    <3>2. x \in Frame
      BY <1>1, <3>1, Rebased
    <3> QED
      BY <3>1, <3>2 DEF ListOf, FrameOf
  <2>2. Call(x, "brk")
    BY <1>2
  <2> HIDE DEF x
  <2>3. WentCalling("brk", x)
    BY <1>1, <2>1, <2>2, Goings, Zenon DEF Pcs
  <2> QED
    BY <2>1, <2>3, MovesGoes
<1>3. ASSUME Goto("brk")
      PROVE  /\ Moves("brk")
             /\ Len(cs') = Depth + 1 => cs'[Depth + 1].k = "list" /\ cs'[Depth + 1].pc = "enter"
  <2>1. Went("brk")
    BY <1>1, <1>3, Goings, Zenon DEF Pcs
  <2>2. Moves("brk") /\ Len(cs') = Depth
    BY <2>1, MovesGoes
  <2> QED
    BY <1>1, <2>2
<1> QED
  BY <1>1, <1>2, <1>3 DEF CleanupBegin, CatchProtect

\* What comes after pc.
After(pc) == IF pc = "brk" THEN "ret" ELSE IF pc = "ret" THEN "err" ELSE "done"

LEMMA RestoreMoves ==
  ASSUME TypeOK, TypeOK', RestoreBreaking \/ RestoreReturning \/ RestoreLast
  PROVE  /\ Moves(After(Running.pc)) /\ Running.k \in {"catch", "cleanup"}
         /\ Running.pc \in {"brk", "ret", "err"}
         /\ \/ /\ Len(cs') = Depth + 1 /\ ul' = ul /\ RunOne(cs'[Depth + 1])
               /\ cs'[Depth + 1].pc = "pop"
            \/ /\ Len(cs') = Depth /\ ul' = SubSeq(ul, 1, Len(ul) - 1)
               /\ Running.pc # "brk"
<1>1. /\ StackOK /\ Running.k \in {"catch", "cleanup"}
      /\ Running.pc \in {"brk", "ret", "err"} /\ ~ Inside(Running)
  BY DEF TypeOK, RestoreBreaking, RestoreReturning, RestoreLast, Inside
<1> DEFINE next == After(Running.pc)
<1>2. next \in Pcs
  BY DEF After, Pcs
<1>3. \/ ul' = ul /\ Call(RunOf("one"), next)
      \/ ul' = SubSeq(ul, 1, Len(ul) - 1) /\ Goto(next) /\ Running.pc # "brk"
  BY DEF RestoreBreaking, RestoreReturning, RestoreLast, After
<1> HIDE DEF next
<1>4. CASE ul' = ul /\ Call(RunOf("one"), next)
  <2>1. WentCalling(next, RunOf("one"))
    BY <1>1, <1>2, <1>4, NewRuns, Goings, Zenon DEF Tags
  <2>2. RunOne(RunOf("one")) /\ RunOf("one").pc = "pop"
    BY NewFrames DEF RunOne
  <2>3. Moves(next) /\ Len(cs') = Depth + 1 /\ cs'[Depth + 1] = RunOf("one")
    BY <2>1, MovesGoes
  <2> QED
    BY <1>1, <1>4, <2>2, <2>3 DEF next
<1>5. CASE ul' = SubSeq(ul, 1, Len(ul) - 1) /\ Goto(next) /\ Running.pc # "brk"
  <2>1. Went(next)
    BY <1>1, <1>2, <1>5, Goings, Zenon
  <2>2. Moves(next) /\ Len(cs') = Depth
    BY <2>1, MovesGoes
  <2> QED
    BY <1>1, <1>5, <2>2 DEF next
<1> QED
  BY <1>3, <1>4, <1>5

LEMMA BodyDoneMoves ==
  ASSUME TypeOK, TypeOK', UnwindBodyDone
  PROVE  /\ Moves("cleaned") /\ Running.k = "unw" /\ Running.pc = "body"
         /\ Len(cs') = Depth + 1 /\ ul' = ul /\ g' = g
         /\ RunOne(cs'[Depth + 1]) /\ cs'[Depth + 1].pc = "pop"
         /\ cs'[Depth].flag => g["err"] # 0
<1>1. /\ StackOK /\ cs \in Seq(Frame) /\ Running.k = "unw" /\ Running.pc = "body"
      /\ ~ Inside(Running) /\ ul' = ul /\ g' = g
      /\ Running \in Frame /\ Depth \in Nat \ {0} /\ Len(cs) = Depth
  BY RunningFrame DEF TypeOK, StackOK, UnwindBodyDone, At, Inside
<1> DEFINE b == (g["err"] # 0)
           fr == [Running EXCEPT !.pc = "cleaned", !.flag = b]
           x == RunOf("one")
<1>2. x \in Frame /\ RunOne(x) /\ x.pc = "pop"
  BY NewRuns, NewFrames DEF RunOne, Tags
<1>3. b \in BOOLEAN /\ cs' = Append(Top([Running EXCEPT !.pc = "cleaned", !.flag = b]), x)
  BY DEF UnwindBodyDone
<1>4. fr \in Frame /\ fr.flag = b
  <2>1. b \in BOOLEAN
    OBVIOUS
  <2> HIDE DEF b
  <2> QED
    BY <1>1, <2>1 DEF Frame, Pcs
<1>5. cs' = Append(Top(fr), x)
  BY <1>3
<1> HIDE DEF b, x
<1>6. WentCalling("cleaned", x)
  BY <1>1, <1>2, <1>3, Goings, Zenon DEF Pcs
<1> HIDE DEF fr
<1>7. cs'[Depth] = fr
  <2>1. Top(fr) \in Seq(Frame) /\ Len(Top(fr)) = Depth /\ Top(fr)[Depth] = fr
    BY <1>1, <1>4, ExceptSeq DEF Top
  <2> QED
    BY <1>1, <1>2, <1>5, <2>1, AppendProperties
<1>8. cs'[Depth].flag => g["err"] # 0
  BY <1>4, <1>7 DEF b
<1>9. Moves("cleaned") /\ Len(cs') = Depth + 1 /\ cs'[Depth + 1] = x
  BY <1>6, MovesGoes
<1> QED
  BY <1>1, <1>2, <1>8, <1>9

LEMMA RunPopMoves ==
  ASSUME TypeOK, TypeOK', Layout(cs, ul), RunPop
  PROVE  LET el == ul[Len(ul)]
             pc == IF Running.tag = "one" \/ (el.e = "mark" /\ el.tag = Running.tag)
                   THEN "done" ELSE "pop"
         IN /\ Moves(pc) /\ At("run", "pop") /\ ul # <<>> /\ el \in Elem
            /\ cs'[Depth].tag = Running.tag
            /\ ul' = SubSeq(ul, 1, Len(ul) - 1)
            /\ IF el.e \in {"catch", "cleanup"}
               THEN /\ Len(cs') = Depth + 1 /\ cs'[Depth + 1].k = el.e
                    /\ cs'[Depth + 1].pc = "begin" /\ cs'[Depth + 1].base = Len(ul')
               ELSE Len(cs') = Depth
<1> DEFINE el == ul[Len(ul)]
           pc == IF Running.tag = "one" \/ (el.e = "mark" /\ el.tag = Running.tag)
                 THEN "done" ELSE "pop"
           x == [FrameOf(el.e, "begin") EXCEPT !.brk = el.brk, !.cont = el.cont,
                   !.flag = el.flag, !.base = Len(ul')]
           fr == [Running EXCEPT !.pc = pc]
<1>1. /\ StackOK /\ UnwindOK /\ At("run", "pop") /\ ul # <<>> /\ ~ Inside(Running)
      /\ cs \in Seq(Frame) /\ ul' \in Seq(Elem) /\ Len(cs) = Depth
      /\ Depth \in Nat \ {0} /\ Running \in Frame
  BY RunningFrame DEF TypeOK, StackOK, UnwindOK, RunPop, At, Inside
<1>2. ul' = SubSeq(ul, 1, Len(ul) - 1)
  BY DEF RunPop
<1>3. /\ el.e \in {"catch", "cleanup"} => Call(x, pc)
      /\ el.e \notin {"catch", "cleanup"} => Goto(pc)
  BY DEF RunPop
<1>4. el \in Elem /\ pc \in Pcs
  BY <1>1, PoppedGood DEF Pcs
<1>5. el.e \in {"catch", "cleanup"} =>
        /\ x \in Frame /\ x.k = el.e /\ x.pc = "begin" /\ x.base = Len(ul')
  <2> SUFFICES ASSUME el.e \in {"catch", "cleanup"}
               PROVE  x \in Frame /\ x.k = el.e /\ x.pc = "begin" /\ x.base = Len(ul')
    OBVIOUS
  <2>1. FrameOf(el.e, "begin") \in Frame
    BY <1>1, FrameTypes DEF FrameKinds, Pcs
  <2>2. Len(ul') \in Nat
    BY <1>1, LenProperties
  <2>3. el.brk \in BOOLEAN /\ el.cont \in BOOLEAN /\ el.flag \in BOOLEAN
    BY <1>4 DEF Elem
  <2> HIDE DEF el
  <2>4. x \in Frame
    BY <2>1, <2>2, <2>3 DEF Frame, FrameOf
  <2> QED
    BY <2>4 DEF FrameOf
<1>6. fr \in Frame /\ fr.tag = Running.tag
  BY <1>1, <1>4 DEF Frame
<1>7. /\ el.e \in {"catch", "cleanup"} => cs' = Append(Top(fr), x)
      /\ el.e \notin {"catch", "cleanup"} => cs' = Top(fr)
  BY <1>3 DEF Goto, Call
<1> HIDE DEF el, pc, x
<1>8. /\ el.e \in {"catch", "cleanup"} => WentCalling(pc, x)
      /\ el.e \notin {"catch", "cleanup"} => Went(pc)
  BY <1>1, <1>3, <1>4, <1>5, Goings, Zenon
<1> HIDE DEF fr
<1>9. cs'[Depth] = fr
  <2>1. Top(fr) \in Seq(Frame) /\ Len(Top(fr)) = Depth /\ Top(fr)[Depth] = fr
    BY <1>1, <1>6, ExceptSeq DEF Top
  <2>2. CASE el.e \in {"catch", "cleanup"}
    <3>1. x \in Frame /\ cs' = Append(Top(fr), x)
      BY <1>5, <1>7, <2>2
    <3>2. cs'[Depth] = Top(fr)[Depth]
      BY <1>1, <2>1, <3>1, AppendProperties
    <3> QED
      BY <2>1, <3>2
  <2>3. CASE el.e \notin {"catch", "cleanup"}
    BY <1>7, <2>1, <2>3
  <2> QED
    BY <2>2, <2>3
<1>10. /\ Moves(pc)
       /\ IF el.e \in {"catch", "cleanup"}
          THEN Len(cs') = Depth + 1 /\ cs'[Depth + 1] = x
          ELSE Len(cs') = Depth
  BY <1>8, MovesGoes
<1>11. /\ Moves(pc) /\ At("run", "pop") /\ ul # <<>> /\ el \in Elem
       /\ cs'[Depth].tag = Running.tag
       /\ ul' = SubSeq(ul, 1, Len(ul) - 1)
       /\ IF el.e \in {"catch", "cleanup"}
          THEN /\ Len(cs') = Depth + 1 /\ cs'[Depth + 1].k = el.e
               /\ cs'[Depth + 1].pc = "begin" /\ cs'[Depth + 1].base = Len(ul')
          ELSE Len(cs') = Depth
  BY <1>1, <1>2, <1>4, <1>5, <1>6, <1>9, <1>10
<1> QED
  BY <1>11 DEF el, pc

\* A longjmp to the script or to main_loop.
LEMMA InterruptMoves ==
  ASSUME TypeOK, Layout(cs, ul), Interrupt
  PROVE  /\ Running.k \in {"list", "while", "for"} /\ Len(cs) = Depth
         /\ Running = cs[Depth] /\ ul' = ul /\ Depth \in Nat \ {0}
         /\ \E i \in 1 .. Depth :
              /\ i < Depth /\ cs[i].k \in {"main", "script"} /\ Len(cs') = i
              /\ cs'[i].k = cs[i].k /\ cs'[i].pc = "jumped"
              /\ \A j \in 1 .. i - 1 : cs'[j] = cs[j]
<1>1. /\ StackOK /\ cs \in Seq(Frame)
      /\ ul' = ul /\ Depth \in Nat \ {0} /\ Depth = Len(cs)
      /\ Running = cs[Depth] /\ cs[1].k = "main"
  BY RunningFrame DEF TypeOK, StackOK, Running, Interrupt
<1>2. Running.k \in {"list", "while", "for"}
  BY DEF Interrupt, Interruptible, AtStatement, At
<1>3. PICK i \in Setjmps \cup {1} :
        cs' = Append(SubSeq(cs, 1, i - 1), [cs[i] EXCEPT !.pc = "jumped"])
  BY DEF Interrupt
<1>4. i \in 1 .. Len(cs) /\ cs[i].k \in {"main", "script"}
  BY <1>1, <1>3 DEF Setjmps
<1> DEFINE fr == [cs[i] EXCEPT !.pc = "jumped"]
           t == SubSeq(cs, 1, i - 1)
<1>5. cs[i] \in Frame /\ fr \in Frame /\ fr.k = cs[i].k /\ fr.pc = "jumped"
  <2>1. cs[i] \in Frame
    BY <1>1, <1>4, StackFacts
  <2> QED
    BY <2>1 DEF Frame, Pcs
<1>6. t \in Seq(Frame) /\ Len(t) = i - 1 /\ \A j \in 1 .. i - 1 : t[j] = cs[j]
  <2>1. i - 1 \in Nat /\ \A j \in 1 .. i - 1 : cs[j] \in Frame
    BY <1>1, <1>4, StackFacts
  <2> QED
    BY <2>1, SubSeqProperties
<1>7. cs' = Append(t, fr)
  BY <1>3
<1> HIDE DEF t, fr
<1>8. Len(cs') = i /\ cs'[i] = fr /\ \A j \in 1 .. i - 1 : cs'[j] = cs[j]
  <2>1. /\ Len(cs') = Len(t) + 1 /\ cs'[Len(t) + 1] = fr
        /\ \A j \in 1 .. Len(t) : cs'[j] = t[j]
    BY <1>5, <1>6, <1>7, AppendProperties
  <2> QED
    BY <1>4, <1>6, <2>1
<1>9. i # Depth /\ i \in 1 .. Depth
  BY <1>1, <1>2, <1>4
<1>10. i < Depth
  BY <1>1, <1>9
<1> QED
  BY <1>1, <1>2, <1>4, <1>5, <1>8, <1>9, <1>10

LEMMA SavedKinds ==
  /\ \A v : /\ Saved(v).e = "restore" /\ Saved(v).tag = v /\ Saved(v).val = g[v]
  /\ \A e, f : ElemOf(e, f).e = e /\ ElemOf(e, f).f = f
  /\ \A e, f, d : /\ SavedCount(e, f, d).e = e /\ SavedCount(e, f, d).f = f
                  /\ SavedCount(e, f, d).d = d
  /\ \A tag : Mark(tag).e = "mark" /\ Mark(tag).tag = tag
BY DEF Saved, ElemOf, SavedCount, Mark

LEMMA CalmHeld ==
  ASSUME NEW s, NEW u, NEW i, ~ Watched(s[i]), i < Len(s) => Waits(s[i])
  PROVE  HeldAt(s, u, i)
<1>1. /\ ~ Guards(s[i]) /\ ~ TryBody(s[i]) /\ ~ RunOne(s[i])
      /\ ~ (s[i].k = "unw" /\ s[i].pc = "body")
  BY DEF Watched, Guarding
<1> QED
  BY <1>1 DEF HeldAt, Finds, TryEnd, RunEnd

LEMMA ListHeld ==
  ASSUME NEW s, NEW u, NEW i, s[i].k \in {"list", "while", "for", "script", "main"}
  PROVE  HeldAt(s, u, i)
<1>1. ~ Watched(s[i]) /\ Waits(s[i])
  BY DEF Watched, Guarding, Guards, TryBody, RunOne, Waits
<1> QED
  BY <1>1, CalmHeld

LEMMA MoreAlong ==
  ASSUME NEW k \in Nat, More(k)
  PROVE  Along(ul, ul') /\ Len(ul') = Len(ul) + k /\ Len(ul) \in Nat
BY DEF More, Along

\* One element less.
LEMMA OneLess ==
  ASSUME TypeOK, ul # <<>>, ul' = SubSeq(ul, 1, Len(ul) - 1)
  PROVE  /\ Len(ul) \in Nat /\ Len(ul) > 0 /\ Len(ul') = Len(ul) - 1
         /\ Agree(ul, ul', Len(ul')) /\ Along(ul, ul')
<1>1. ul \in Seq(Elem) /\ Len(ul) \in Nat /\ Len(ul) > 0
  BY LenProperties, EmptySeq DEF TypeOK, UnwindOK
<1>2. Len(ul) - 1 \in Nat /\ Len(ul) - 1 <= Len(ul)
  BY <1>1
<1>3. Len(ul') = Len(ul) - 1 /\ Agree(ul, ul', Len(ul) - 1)
  BY <1>1, <1>2, PoppedChange
<1> QED
  BY <1>1, <1>2, <1>3 DEF Along

LEMMA TryHeld ==
  ASSUME TypeOK, TypeOK', Layout(cs, ul), Layout(cs', ul'), Held(cs, ul),
         AtStatement, NEW b \in BOOLEAN, Try(b)
  PROVE  Held(cs', ul')
<1> DEFINE m == IF b THEN 3 ELSE 2
           d == Depth
<1>1. /\ Steps(cs, cs') /\ Len(cs') = d + 2 /\ d \in Nat \ {0}
      /\ cs'[d].k = "list"
      /\ cs'[d + 1].k = "try" /\ cs'[d + 1].pc = "body" /\ cs'[d + 1].flag = b
      /\ cs'[d + 1].base = Len(ul)
      /\ cs'[d + 2].k = "list" /\ cs'[d + 2].base = Len(ul')
  BY TryMoves
<1>2. /\ More(m) /\ New(1) = Mark("tree_try_catch::eval") /\ New(2).e = "catch"
      /\ b => New(3) = Saved("buf")
  BY TryPushes
<1>3. m \in Nat
  OBVIOUS
<1> HIDE DEF d
<1>4. HeldAt(cs', ul', d + 1)
  <2> DEFINE fr == cs'[d + 1]
  <2>1. /\ fr.k = "try" /\ fr.pc = "body" /\ fr.flag = b /\ fr.base = Len(ul)
        /\ TrySize(fr) = m
    BY <1>1 DEF TrySize
  <2>2. /\ ul'[fr.base + 1].e = "mark" /\ ul'[fr.base + 2].e = "catch"
        /\ b => RestoreAt(ul', fr.base + 3, "buf")
    BY <1>2, <2>1, SavedKinds DEF New, RestoreAt
  <2>3. /\ (d + 1) + 1 = d + 2 /\ d + 1 # Len(cs')
        /\ cs'[d + 2].base = fr.base + m
    BY <1>1, <1>2, <1>3, <2>1, MoreAlong
  <2> HIDE DEF fr, m
  <2>4. Finds(ul', fr)
    BY <2>1, <2>2 DEF Finds, Guards, TryBody
  <2>5. TryEnd(cs', ul', d + 1)
    BY <1>1, <2>1, <2>3 DEF TryEnd, fr
  <2>6. RunEnd(cs', ul', d + 1) /\ Waits(fr)
    BY <2>1 DEF RunEnd, RunOne, Waits, fr
  <2> QED
    BY <2>4, <2>5, <2>6 DEF HeldAt, fr
<1>5. HeldAt(cs', ul', d) /\ HeldAt(cs', ul', d + 2)
  BY <1>1, ListHeld
<1>6. \A i \in 1 .. Len(cs') : i >= d => HeldAt(cs', ul', i)
  <2> SUFFICES ASSUME NEW i \in 1 .. Len(cs'), i >= d
               PROVE  HeldAt(cs', ul', i)
    OBVIOUS
  <2>1. i = d \/ i = d + 1 \/ i = d + 2
    BY <1>1
  <2> QED
    BY <1>4, <1>5, <2>1
<1>7. Along(ul, ul')
  BY <1>2, <1>3, MoreAlong
<1>8. Len(cs') >= Depth
  BY <1>1 DEF d
<1> QED
  BY <1>1, <1>6, <1>7, <1>8, HeldGoesOn DEF d

LEMMA UnwindHeld ==
  ASSUME TypeOK, TypeOK', Layout(cs, ul), Layout(cs', ul'), Held(cs, ul),
         AtStatement, UnwindProtect
  PROVE  Held(cs', ul')
<1> DEFINE d == Depth
<1>1. /\ Steps(cs, cs') /\ Len(cs') = d + 2 /\ d \in Nat \ {0}
      /\ cs'[d].k = "list"
      /\ cs'[d + 1].k = "unw" /\ cs'[d + 1].pc = "body"
      /\ cs'[d + 1].base = Len(ul) /\ cs'[d + 2].k = "list"
  BY UnwindMoves
<1>2. More(1) /\ New(1).e = "cleanup"
  BY UnwindPushes
<1> HIDE DEF d
<1>3. HeldAt(cs', ul', d + 1)
  <2>1. ul'[cs'[d + 1].base + 1].e = "cleanup"
    BY <1>1, <1>2 DEF New
  <2>2. Finds(ul', cs'[d + 1])
    BY <1>1, <2>1 DEF Finds, Guards, TryBody
  <2> QED
    BY <1>1, <2>2 DEF HeldAt, TryEnd, TryBody, RunEnd, RunOne, Waits
<1>4. HeldAt(cs', ul', d) /\ HeldAt(cs', ul', d + 2)
  BY <1>1, ListHeld
<1>5. \A i \in 1 .. Len(cs') : i >= d => HeldAt(cs', ul', i)
  <2> SUFFICES ASSUME NEW i \in 1 .. Len(cs'), i >= d
               PROVE  HeldAt(cs', ul', i)
    OBVIOUS
  <2>1. i = d \/ i = d + 1 \/ i = d + 2
    BY <1>1
  <2> QED
    BY <1>3, <1>4, <2>1
<1>6. Along(ul, ul') /\ Len(cs') >= Depth
  BY <1>1, <1>2, MoreAlong DEF d
<1> QED
  BY <1>1, <1>5, <1>6, HeldGoesOn DEF d

\* A step after which only the running frame relies on something.
LEMMA HeldMoves ==
  ASSUME TypeOK, TypeOK', Layout(cs, ul), Layout(cs', ul'), Held(cs, ul),
         NEW pc, Moves(pc), Along(ul, ul'), HeldAt(cs', ul', Depth),
         Len(cs') = Depth + 1 => HeldAt(cs', ul', Depth + 1)
  PROVE  Held(cs', ul')
<1>1. /\ Steps(cs, cs') /\ Depth \in Nat \ {0} /\ Len(cs') \in {Depth, Depth + 1}
  BY DEF Moves
<1>2. \A i \in 1 .. Len(cs') : i >= Depth => HeldAt(cs', ul', i)
  <2> SUFFICES ASSUME NEW i \in 1 .. Len(cs'), i >= Depth
               PROVE  HeldAt(cs', ul', i)
    OBVIOUS
  <2>1. i = Depth \/ (i = Depth + 1 /\ Len(cs') = Depth + 1)
    BY <1>1
  <2> QED
    BY <2>1
<1>3. Len(cs') >= Depth
  BY <1>1
<1> QED
  BY <1>1, <1>2, <1>3, HeldGoesOn

LEMMA GuardHeld ==
  ASSUME TypeOK, TypeOK', Layout(cs, ul), Layout(cs', ul'), Held(cs, ul),
         CleanupBegin \/ CatchProtect
  PROVE  Held(cs', ul')
<1>1. /\ Moves("brk") /\ Running.k \in {"catch", "cleanup"}
      /\ Len(cs') = Depth + 1 => cs'[Depth + 1].k = "list"
  BY GuardMoves
<1>2. /\ More(3) /\ New(2) = Saved("ret") /\ New(3) = Saved("brk")
      /\ Running.k = "cleanup" => New(1) = Saved("err")
      /\ Running.k = "catch" => New(1) = ElemOf("clearerr", NoFn)
  BY GuardPushes DEF CleanupBegin, CatchProtect, At
<1>3. Running.base = Len(ul)
  <2>1. Idle(Running.k, Running.pc)
    BY DEF CleanupBegin, CatchProtect, At, Idle
  <2> QED
    BY <2>1, IdleHere
<1>4. /\ cs'[Depth].k = Running.k /\ cs'[Depth].pc = "brk"
      /\ cs'[Depth].base = Len(ul)
  BY <1>1, <1>3 DEF Moves
<1>5. Finds(ul', cs'[Depth])
  <2>1. /\ RestoreAt(ul', Len(ul) + 2, "ret") /\ RestoreAt(ul', Len(ul) + 3, "brk")
        /\ Running.k = "cleanup" => RestoreAt(ul', Len(ul) + 1, "err")
        /\ Running.k = "catch" => ul'[Len(ul) + 1].e = "clearerr"
    BY <1>2, SavedKinds DEF New, RestoreAt
  <2> QED
    BY <1>1, <1>4, <2>1 DEF Finds, TryBody
<1>6. HeldAt(cs', ul', Depth)
  BY <1>1, <1>4, <1>5 DEF HeldAt, TryEnd, TryBody, RunEnd, RunOne, Waits
<1>7. Len(cs') = Depth + 1 => HeldAt(cs', ul', Depth + 1)
  BY <1>1, ListHeld
<1>8. Along(ul, ul')
  BY <1>2, MoreAlong
<1> QED
  BY <1>1, <1>6, <1>7, <1>8, HeldMoves

\* What the catch or cleanup code that runs has on the list.
LEMMA GuardHere ==
  ASSUME TypeOK, Layout(cs, ul), Held(cs, ul), Running.k \in {"catch", "cleanup"},
         Running.pc \in {"brk", "ret", "err"}
  PROVE  LET b == Running.base
             n == IF Running.pc = "brk" THEN 3 ELSE IF Running.pc = "ret" THEN 2 ELSE 1
         IN /\ b \in Nat /\ Len(ul) = b + n /\ n \in {1, 2, 3} /\ ul # <<>>
            /\ Running.k = "catch" => ul[b + 1].e = "clearerr"
            /\ Running.k = "cleanup" => RestoreAt(ul, b + 1, "err")
            /\ Running.pc # "err" => RestoreAt(ul, b + 2, "ret")
            /\ Running.pc = "brk" => RestoreAt(ul, b + 3, "brk")
<1>1. Running = cs[Depth] /\ Depth \in 1 .. Len(cs) /\ ~ IsRun(Running) /\ Sized(Running)
  BY RunningFrame DEF TypeOK, Running, IsRun, Sized
<1>2. HeldAt(cs, ul, Depth)
  BY <1>1 DEF Held
<1>3. Finds(ul, Running)
  BY <1>1, <1>2 DEF HeldAt
<1>4. Guards(Running)
  BY DEF Guards
<1>5. /\ Running.base \in Nat /\ Len(ul) \in Nat /\ ul \in Seq(Elem)
      /\ Len(ul) = Running.base + Size(Running)
  BY <1>1, Here DEF Settled
<1>6. Size(Running) = IF Running.pc = "brk" THEN 3 ELSE IF Running.pc = "ret" THEN 2 ELSE 1
  BY DEF Size
<1>7. ul # <<>>
  BY <1>5, <1>6, EmptySeq
<1> QED
  BY <1>3, <1>4, <1>5, <1>6, <1>7 DEF Finds

LEMMA RestoreHeld ==
  ASSUME TypeOK, TypeOK', Layout(cs, ul), Layout(cs', ul'), Held(cs, ul),
         RestoreBreaking \/ RestoreReturning \/ RestoreLast
  PROVE  Held(cs', ul')
<1> DEFINE b == Running.base
           pc == Running.pc
           fr == cs'[Depth]
           n == IF pc = "brk" THEN 3 ELSE IF pc = "ret" THEN 2 ELSE 1
<1>1. /\ Moves(After(pc)) /\ Running.k \in {"catch", "cleanup"}
      /\ pc \in {"brk", "ret", "err"}
      /\ \/ /\ Len(cs') = Depth + 1 /\ ul' = ul /\ RunOne(cs'[Depth + 1])
            /\ cs'[Depth + 1].pc = "pop"
         \/ /\ Len(cs') = Depth /\ ul' = SubSeq(ul, 1, Len(ul) - 1) /\ pc # "brk"
  BY RestoreMoves
<1>2. /\ b \in Nat /\ Len(ul) = b + n /\ n \in {1, 2, 3} /\ ul # <<>>
      /\ Running.k = "catch" => ul[b + 1].e = "clearerr"
      /\ Running.k = "cleanup" => RestoreAt(ul, b + 1, "err")
      /\ pc # "err" => RestoreAt(ul, b + 2, "ret")
      /\ pc = "brk" => RestoreAt(ul, b + 3, "brk")
  BY <1>1, GuardHere
<1>3. /\ fr.k = Running.k /\ fr.pc = After(pc) /\ fr.base = b /\ Depth \in Nat \ {0}
  BY <1>1 DEF Moves
<1>4. /\ fr.pc \in {"ret", "err", "done"} /\ (fr.pc = "ret" <=> pc = "brk")
      /\ (fr.pc = "err" <=> pc = "ret") /\ (fr.pc = "done" <=> pc = "err")
  BY <1>1, <1>3 DEF After
<1>5. /\ Along(ul, ul') /\ \A p \in 1 .. Len(ul) - 1 : ul'[p] = ul[p]
  <2>1. CASE ul' = ul
    <3>1. ul \in Seq(Elem) /\ Len(ul) \in Nat
      BY LenProperties DEF TypeOK, UnwindOK
    <3> QED
      BY <2>1, <3>1 DEF Along, Agree
  <2>2. CASE ul' = SubSeq(ul, 1, Len(ul) - 1)
    BY <1>2, <2>2, OneLess DEF Agree
  <2> QED
    BY <1>1, <2>1, <2>2
<1> HIDE DEF fr, b, pc
<1>6. Finds(ul', fr)
  <2> SUFFICES ASSUME Guards(fr)
               PROVE  /\ fr.k = "catch" => ul'[b + 1].e = "clearerr"
                      /\ fr.k = "cleanup" => RestoreAt(ul', b + 1, "err")
                      /\ fr.pc # "err" => RestoreAt(ul', b + 2, "ret")
                      /\ fr.pc = "brk" => RestoreAt(ul', b + 3, "brk")
    BY <1>1, <1>3 DEF Finds, TryBody
  <2>1. pc \in {"brk", "ret"} /\ (fr.pc # "err" => pc = "brk") /\ fr.pc # "brk"
    BY <1>1, <1>4 DEF Guards
  <2>2. b + 1 <= Len(ul) - 1 /\ (fr.pc # "err" => b + 2 <= Len(ul) - 1)
    BY <1>2, <2>1
  <2>3. ul'[b + 1] = ul[b + 1] /\ (fr.pc # "err" => ul'[b + 2] = ul[b + 2])
    BY <1>2, <1>5, <2>2
  <2> QED
    BY <1>2, <1>3, <2>1, <2>3 DEF RestoreAt
<1>7. HeldAt(cs', ul', Depth)
  <2>1. ~ TryBody(fr) /\ ~ RunOne(fr) /\ Waits(fr)
    BY <1>1, <1>3 DEF TryBody, RunOne, Waits
  <2> QED
    BY <1>6, <2>1 DEF HeldAt, TryEnd, RunEnd, fr
<1>8. ASSUME Len(cs') = Depth + 1
      PROVE  HeldAt(cs', ul', Depth + 1)
  <2>1. ul' = ul /\ RunOne(cs'[Depth + 1]) /\ cs'[Depth + 1].pc = "pop"
    BY <1>1, <1>3, <1>8
  <2>2. PopsOf(ul', fr)
    <3>1. /\ pc = "brk" => Len(ul) = b + 3
          /\ pc = "ret" => Len(ul) = b + 2
          /\ pc = "err" => Len(ul) = b + 1
      BY <1>2
    <3> QED
      BY <1>1, <1>2, <1>3, <1>4, <2>1, <3>1 DEF PopsOf
  <2>3. Depth + 1 > 1 /\ (Depth + 1) - 1 = Depth
    BY <1>3
  <2>4. RunEnd(cs', ul', Depth + 1)
    BY <1>1, <1>3, <1>8, <2>1, <2>2, <2>3 DEF RunEnd, Popping, fr
  <2>5. Finds(ul', cs'[Depth + 1]) /\ TryEnd(cs', ul', Depth + 1) /\ Waits(cs'[Depth + 1])
    BY <2>1 DEF RunOne, Finds, Guards, TryBody, TryEnd, Waits
  <2> QED
    BY <2>4, <2>5 DEF HeldAt
<1>9. Moves(After(pc))
  BY <1>1
<1> QED
  BY <1>5, <1>7, <1>8, <1>9, HeldMoves

LEMMA BodyDoneHeld ==
  ASSUME TypeOK, TypeOK', Layout(cs, ul), Layout(cs', ul'), Held(cs, ul), UnwindBodyDone
  PROVE  Held(cs', ul')
<1>1. /\ Moves("cleaned") /\ Running.k = "unw" /\ Running.pc = "body"
      /\ Len(cs') = Depth + 1 /\ ul' = ul
      /\ RunOne(cs'[Depth + 1]) /\ cs'[Depth + 1].pc = "pop"
  BY BodyDoneMoves
<1>2. /\ Depth \in Nat \ {0} /\ cs'[Depth].k = "unw" /\ cs'[Depth].pc = "cleaned"
      /\ Running = cs[Depth] /\ Len(cs) = Depth
  BY <1>1 DEF Moves
<1>3. /\ Running.base \in Nat /\ ul \in Seq(Elem) /\ Len(ul) = Running.base + 1
  <2>1. ~ IsRun(Running) /\ Sized(Running) /\ Size(Running) = 1
    BY <1>1 DEF IsRun, Sized, Size
  <2> QED
    BY <2>1, Here DEF Settled
<1>4. ul[Len(ul)].e = "cleanup" /\ ul # <<>>
  <2>1. Finds(ul, Running)
    BY <1>2 DEF Held, HeldAt
  <2> QED
    BY <1>1, <1>3, <2>1, EmptySeq DEF Finds
<1>5. HeldAt(cs', ul', Depth)
  BY <1>2 DEF HeldAt, Finds, Guards, TryBody, TryEnd, RunEnd, RunOne, Waits
<1>6. HeldAt(cs', ul', Depth + 1)
  <2>1. PopsOf(ul', cs'[Depth])
    BY <1>1, <1>2, <1>4 DEF PopsOf
  <2>2. Depth + 1 > 1 /\ (Depth + 1) - 1 = Depth
    BY <1>2
  <2>3. RunEnd(cs', ul', Depth + 1)
    BY <1>1, <1>2, <2>1, <2>2 DEF RunEnd, Popping
  <2>4. Finds(ul', cs'[Depth + 1]) /\ TryEnd(cs', ul', Depth + 1) /\ Waits(cs'[Depth + 1])
    BY <1>1 DEF RunOne, Finds, Guards, TryBody, TryEnd, Waits
  <2> QED
    BY <2>3, <2>4 DEF HeldAt
<1>7. Along(ul, ul')
  BY <1>1, <1>3 DEF Along, Agree
<1> QED
  BY <1>1, <1>5, <1>6, <1>7, HeldMoves

LEMMA RunPopHeld ==
  ASSUME TypeOK, TypeOK', Layout(cs, ul), Layout(cs', ul'), Held(cs, ul), RunPop
  PROVE  Held(cs', ul')
<1>1. PICK pc : /\ Moves(pc) /\ At("run", "pop") /\ cs'[Depth].tag = Running.tag
                /\ Running.tag = "one" => pc = "done"
                /\ ul # <<>> /\ ul' = SubSeq(ul, 1, Len(ul) - 1)
                /\ Len(cs') = Depth + 1 => /\ cs'[Depth + 1].k \in {"catch", "cleanup"}
                                           /\ cs'[Depth + 1].pc = "begin"
  <2> DEFINE el == ul[Len(ul)]
             pc == IF Running.tag = "one" \/ (el.e = "mark" /\ el.tag = Running.tag)
                   THEN "done" ELSE "pop"
  <2>1. /\ Moves(pc) /\ At("run", "pop") /\ cs'[Depth].tag = Running.tag
        /\ ul # <<>> /\ ul' = SubSeq(ul, 1, Len(ul) - 1)
        /\ IF el.e \in {"catch", "cleanup"}
           THEN Len(cs') = Depth + 1 /\ cs'[Depth + 1].k = el.e /\ cs'[Depth + 1].pc = "begin"
           ELSE Len(cs') = Depth
    BY RunPopMoves
  <2>2. Running.tag = "one" => pc = "done"
    OBVIOUS
  <2>3. Depth \in Nat
    BY <2>1 DEF Moves
  <2> HIDE DEF el, pc
  <2> QED
    BY <2>1, <2>2, <2>3
<1>2. /\ Depth \in Nat \ {0} /\ cs'[Depth].k = "run" /\ cs'[Depth].pc = pc
      /\ Running = cs[Depth] /\ Len(cs) = Depth /\ Steps(cs, cs') /\ Running.k = "run"
      /\ Len(cs') \in {Depth, Depth + 1}
  BY <1>1 DEF Moves, At
<1>3. RunEnd(cs', ul', Depth)
  <2> SUFFICES ASSUME Running.tag = "one"
               PROVE  Depth > 1 /\ cs'[Depth - 1].k \in Popping /\ cs'[Depth].pc # "pop"
    BY <1>1, <1>2 DEF RunEnd, RunOne
  <2>1. RunEnd(cs, ul, Depth)
    BY <1>2 DEF Held, HeldAt
  <2>2. Depth > 1 /\ cs[Depth - 1].k \in Popping
    BY <1>2, <2>1 DEF RunEnd, RunOne
  <2>3. cs'[Depth - 1] = cs[Depth - 1]
    BY <1>2, <2>2 DEF Steps
  <2> QED
    BY <1>1, <1>2, <2>2, <2>3
<1>4. HeldAt(cs', ul', Depth)
  <2>1. Finds(ul', cs'[Depth]) /\ TryEnd(cs', ul', Depth) /\ Waits(cs'[Depth])
    BY <1>2 DEF RunOne, Finds, Guards, TryBody, TryEnd, Waits
  <2> QED
    BY <1>3, <2>1 DEF HeldAt
<1>5. ASSUME Len(cs') = Depth + 1
      PROVE  HeldAt(cs', ul', Depth + 1)
  <2>1. ~ Watched(cs'[Depth + 1]) /\ Waits(cs'[Depth + 1])
    BY <1>1, <1>5 DEF Watched, Guarding, Guards, TryBody, RunOne, Waits
  <2> QED
    BY <2>1, CalmHeld
<1>6. Along(ul, ul')
  BY <1>1, OneLess
<1> QED
  BY <1>1, <1>4, <1>5, <1>6, HeldMoves

LEMMA InterruptHeld ==
  ASSUME TypeOK, Layout(cs, ul), Held(cs, ul), Interrupt
  PROVE  Held(cs', ul')
<1>1. /\ Running.k \in {"list", "while", "for"} /\ Len(cs) = Depth
      /\ Running = cs[Depth] /\ ul' = ul /\ Depth \in Nat \ {0}
  BY InterruptMoves
<1>2. PICK i \in 1 .. Depth :
        /\ i < Depth /\ cs[i].k \in {"main", "script"} /\ Len(cs') = i
        /\ cs'[i].k = cs[i].k /\ cs'[i].pc = "jumped"
        /\ \A j \in 1 .. i - 1 : cs'[j] = cs[j]
  BY InterruptMoves
<1> SUFFICES ASSUME NEW j \in 1 .. i
             PROVE  HeldAt(cs', ul', j)
  BY <1>2 DEF Held
<1>3. CASE j = i
  BY <1>2, <1>3, ListHeld
<1>4. CASE j # i
  <2>1. j \in 1 .. i - 1 /\ j \in 1 .. Len(cs) /\ j < Len(cs) /\ j + 1 \in 1 .. i
    BY <1>1, <1>2, <1>4
  <2>2. cs'[j] = cs[j] /\ HeldAt(cs, ul, j)
    BY <1>2, <2>1 DEF Held
  <2>3. TryEnd(cs', ul', j)
    <3> SUFFICES ASSUME TryBody(cs[j])
                 PROVE  /\ cs'[j + 1].k = "list"
                        /\ cs'[j + 1].base = cs[j].base + TrySize(cs[j])
      BY <1>2, <1>4, <2>2 DEF TryEnd
    <3>1. cs[j + 1].k = "list" /\ cs[j + 1].base = cs[j].base + TrySize(cs[j])
      BY <2>1, <2>2 DEF HeldAt, TryEnd
    <3>2. j + 1 # i
      BY <1>2, <3>1
    <3>3. cs'[j + 1] = cs[j + 1]
      BY <1>2, <2>1, <3>2
    <3> QED
      BY <3>1, <3>3
  <2>4. RunEnd(cs', ul', j)
    <3> SUFFICES ASSUME RunOne(cs[j])
                 PROVE  j > 1 /\ cs'[j - 1].k \in Popping /\ cs[j].pc # "pop"
      BY <2>2 DEF RunEnd
    <3>1. j > 1 /\ cs[j - 1].k \in Popping /\ cs[j].pc # "pop"
      BY <2>1, <2>2 DEF HeldAt, RunEnd
    <3>2. cs'[j - 1] = cs[j - 1]
      BY <1>2, <2>1, <3>1
    <3> QED
      BY <3>1, <3>2
  <2> QED
    BY <1>1, <2>1, <2>2, <2>3, <2>4 DEF HeldAt
<1> QED
  BY <1>3, <1>4


\* What a try that succeeds drops.
LEMMA TryCut ==
  ASSUME TypeOK, Layout(cs, ul), Held(cs, ul), TrySucceeded
  PROVE  /\ Running.base \in Nat /\ Len(ul) \in Nat
         /\ Len(ul) = Running.base + TrySize(Running) /\ TryBody(Running)
         /\ Len(ul') = Running.base /\ Agree(ul, ul', Running.base)
         /\ ul[Running.base + 1].e = "mark" /\ ul[Running.base + 2].e = "catch"
         /\ Running.flag => RestoreAt(ul, Running.base + 3, "buf")
<1>1. /\ StackOK /\ UnwindOK /\ Running.k = "try" /\ Running.pc = "body" /\ ~ IsRun(Running)
      /\ Depth \in Nat \ {0} /\ Len(cs) = Depth /\ Running = cs[Depth] /\ TryBody(Running)
  BY RunningFrame DEF TypeOK, TrySucceeded, At, IsRun, Running, TryBody
<1>2. /\ Running.base \in Nat /\ Len(ul) \in Nat /\ ul \in Seq(Elem)
      /\ Running.base <= Len(ul)
      /\ Settled(ul, Running, Running.base, Len(ul))
  BY <1>1, Here
<1>3. Framed(ul, Running.base, Len(ul), "tree_try_catch::eval")
  BY <1>1, <1>2 DEF Settled, Sized, TagOf
<1>4. Latest(Marks("tree_try_catch::eval")) = Running.base + 1
  <2>1. Running.base + 1 \in Marks("tree_try_catch::eval")
    BY <1>2, <1>3 DEF Framed, MarkAt, Marks
  <2>2. \A q \in Marks("tree_try_catch::eval") : q \in Nat /\ q <= Running.base + 1
    BY <1>2, <1>3 DEF Framed, NoMark, MarkAt, Marks
  <2> QED
    BY <2>1, <2>2, LatestIs
<1>5. ul' = SubSeq(ul, 1, Running.base)
  BY <1>2, <1>4 DEF TrySucceeded, Discarded
<1>6. Len(ul') = Running.base /\ Agree(ul, ul', Running.base)
  BY <1>2, <1>5, PoppedChange
<1>7. HeldAt(cs, ul, Depth)
  BY <1>1 DEF Held
<1>8. /\ Finds(ul, Running)
      /\ Len(ul) = Running.base + TrySize(Running)
  BY <1>1, <1>7 DEF HeldAt, TryEnd
<1> QED
  BY <1>1, <1>2, <1>6, <1>8 DEF Finds

LEMMA SameAlong == ASSUME TypeOK, ul' = ul PROVE Along(ul, ul')
<1>1. Len(ul) \in Nat
  BY LenProperties DEF TypeOK, UnwindOK
<1> QED
  BY <1>1 DEF Along, Agree

LEMMA PushedAlong ==
  ASSUME TypeOK
  PROVE  /\ ScriptBegin \/ CallBegin \/ CallPush \/ CallBind \/ EvalFailed => Along(ul, ul')
         /\ \A b \in BOOLEAN : Eval(b) => Along(ul, ul')
<1>1. ScriptBegin => Along(ul, ul')
  BY ScriptPushes, MoreAlong
<1>2. CallBegin => Along(ul, ul')
  BY CallBeginPushes, MoreAlong
<1>3. CallPush => Along(ul, ul')
  BY CallPushPushes, MoreAlong
<1>4. CallBind => Along(ul, ul')
  BY CallBindPushes, MoreAlong
<1>5. EvalFailed => Along(ul, ul')
  BY GuardPushes, MoreAlong
<1>6. ASSUME NEW b \in BOOLEAN, Eval(b)
      PROVE  Along(ul, ul')
  <2> DEFINE k == IF b THEN 2 ELSE 1
  <2>1. k \in Nat /\ More(k)
    BY <1>6, EvalPushes
  <2> QED
    BY <2>1, MoreAlong
<1> QED
  BY <1>1, <1>2, <1>3, <1>4, <1>5, <1>6

\* The actions that are Ordinary and Quiet.
Easy ==
  \/ MainRead \/ MainEval \/ MainJumped \/ ListEnd \/ ListNext \/ Loops
  \/ /\ AtStatement
     /\ \/ Simple \/ Warn \/ While \/ For \/ If \/ Source
        \/ \E e \in {1, -1, -2} : Raise(e)
        \/ \E v \in {"brk", "cont", "ret"} : SetJump(v)
        \/ \E f \in Fn : CallFunction(f)
  \/ CallBodyDone \/ CallExit \/ TryFailed
  \/ EvalParse \/ EvalSucceeded \/ EvalExit
  \/ ScriptCommand \/ ScriptParseError \/ ScriptEnd \/ ScriptAfter
  \/ ScriptJumped \/ ScriptExit \/ ScriptLeave
  \/ Leave \/ RunEmpty

LEMMA EasySteps ==
  ASSUME TypeOK, TypeOK', Layout(cs, ul), Held(cs, ul), Easy
  PROVE  Ordinary /\ Quiet /\ (Whole(Running) \/ ul = <<>> \/ CallBodyDone \/ CallExit)
<1>1. CASE MainRead \/ MainEval \/ MainJumped
  BY <1>1, MainOrdinary
<1>2. CASE ListEnd \/ ListNext
  BY <1>2, ListOrdinary
<1>3. CASE Loops
  BY <1>3, LoopOrdinary
<1>4. ASSUME AtStatement,
             \/ Simple \/ Warn \/ While \/ For \/ If \/ Source
             \/ \E e \in {1, -1, -2} : Raise(e)
             \/ \E v \in {"brk", "cont", "ret"} : SetJump(v)
             \/ \E f \in Fn : CallFunction(f)
      PROVE  Ordinary /\ Quiet /\ Whole(Running)
  BY <1>4, StatementOrdinary
<1>5. CASE CallBodyDone \/ CallExit
  BY <1>5, CallOrdinary
<1>6. CASE TryFailed
  BY <1>6, TryFailedOrdinary
<1>7. CASE EvalParse \/ EvalSucceeded \/ EvalExit
  BY <1>7, EvalOrdinary
<1>8. CASE \/ ScriptCommand \/ ScriptParseError \/ ScriptEnd \/ ScriptAfter
           \/ ScriptJumped \/ ScriptExit \/ ScriptLeave
  BY <1>8, ScriptOrdinary
<1>9. CASE Leave
  BY <1>9, LeaveOrdinary
<1>10. CASE RunEmpty
  BY <1>10, EmptyOrdinary
<1> QED
  BY <1>1, <1>2, <1>3, <1>4, <1>5, <1>6, <1>7, <1>8, <1>9, <1>10 DEF Easy

\* Every step is Easy or one of the steps treated one by one.
LEMMA NextSteps ==
  ASSUME Next
  PROVE  \/ Easy \/ UnwindBodyDone \/ TrySucceeded \/ CleanupBegin \/ CatchBind \/ CatchProtect
         \/ RestoreBreaking \/ RestoreReturning \/ RestoreLast
         \/ CallBegin \/ CallPush \/ CallBind \/ ScriptBegin \/ EvalFailed
         \/ RunPop \/ Interrupt
         \/ AtStatement /\ \/ UnwindProtect
                           \/ \E b \in BOOLEAN : Try(b) \/ Eval(b)
BY Zenon DEF Next, Work, Statement, Protections, Calls, Scripts, Evals, Easy

LEMMA NextHeld ==
  ASSUME TypeOK, TypeOK', Layout(cs, ul), Held(cs, ul), [Next]_vars
  PROVE  Held(cs', ul')
<1>1. Layout(cs', ul')
  BY NextLayout
<1>2. CASE UNCHANGED vars
  <2>1. cs' = cs /\ ul' = ul
    BY <1>2 DEF vars
  <2> QED
    BY <2>1
<1>3. CASE Easy
  <2>1. Frames /\ ul' = ul
    BY <1>3, EasySteps, OrdinaryFrames DEF Quiet
  <2> QED
    BY <1>1, <2>1, SameAlong, FramesHeld
<1>4. CASE TrySucceeded
  <2>1. Along(ul, ul')
    <3>1. TrySize(Running) \in Nat
      BY DEF TrySize
    <3> QED
      BY <1>4, <3>1, TryCut DEF Along
  <2> QED
    BY <1>1, <1>4, <2>1, MovesOrdinary, OrdinaryFrames, FramesHeld
<1>5. CASE CatchBind
  <2>1. ul' = ul
    BY <1>5 DEF CatchBind
  <2> QED
    BY <1>1, <1>5, <2>1, SameAlong, MovesOrdinary, OrdinaryFrames, FramesHeld
<1>6. CASE ScriptBegin \/ EvalFailed
  BY <1>1, <1>6, PushedAlong, MovesOrdinary, OrdinaryFrames, FramesHeld
<1>7. CASE CallBegin \/ CallPush
  BY <1>1, <1>7, PushedAlong, CallFrames, FramesHeld
<1>8. CASE CallBind
  BY <1>1, <1>8, PushedAlong, CallBindOrdinary, OrdinaryFrames, FramesHeld
<1>9. ASSUME AtStatement, NEW b \in BOOLEAN, Eval(b)
      PROVE  Held(cs', ul')
  BY <1>1, <1>9, PushedAlong, EvalStatementOrdinary, OrdinaryFrames, FramesHeld
<1>10. ASSUME AtStatement, NEW b \in BOOLEAN, Try(b)
       PROVE  Held(cs', ul')
  BY <1>1, <1>10, TryHeld
<1>11. ASSUME AtStatement, UnwindProtect
       PROVE  Held(cs', ul')
  BY <1>1, <1>11, UnwindHeld
<1>12. CASE CleanupBegin \/ CatchProtect
  BY <1>1, <1>12, GuardHeld
<1>13. CASE RestoreBreaking \/ RestoreReturning \/ RestoreLast
  BY <1>1, <1>13, RestoreHeld
<1>14. CASE UnwindBodyDone
  BY <1>1, <1>14, BodyDoneHeld
<1>15. CASE RunPop
  BY <1>1, <1>15, RunPopHeld
<1>16. CASE Interrupt
  BY <1>16, InterruptHeld
<1> QED
  BY <1>2, <1>3, <1>4, <1>5, <1>6, <1>7, <1>8, <1>9, <1>10, <1>11, <1>12, <1>13,
     <1>14, <1>15, <1>16, NextSteps

LEMMA InitHeld == Init => Held(cs, ul)
<1> SUFFICES ASSUME Init
             PROVE  Held(cs, ul)
  OBVIOUS
<1>1. Len(cs) = 1 /\ cs[1].k = "main"
  BY DEF Init
<1> QED
  BY <1>1, ListHeld DEF Held

\* unwind_protect_list grows or is cut, it is never rewritten.
LEMMA NextAlong ==
  ASSUME TypeOK, TypeOK', Layout(cs, ul), Held(cs, ul), [Next]_vars
  PROVE  Along(ul, ul')
<1>1. CASE UNCHANGED vars \/ Easy \/ UnwindBodyDone \/ CatchBind \/ Interrupt
  <2>1. ul' = ul
    BY <1>1, EasySteps DEF vars, Quiet, UnwindBodyDone, CatchBind, Interrupt
  <2> QED
    BY <2>1, SameAlong
<1>2. CASE TrySucceeded
  <2>1. TrySize(Running) \in Nat
    BY DEF TrySize
  <2> QED
    BY <1>2, <2>1, TryCut DEF Along
<1>3. CASE CleanupBegin \/ CatchProtect
  BY <1>3, GuardPushes, MoreAlong
<1>4. CASE CallBegin \/ CallPush \/ CallBind \/ ScriptBegin \/ EvalFailed
  BY <1>4, PushedAlong
<1>5. CASE RestoreBreaking \/ RestoreReturning \/ RestoreLast
  <2>1. CASE ul' = ul
    BY <2>1, SameAlong
  <2>2. CASE ul' = SubSeq(ul, 1, Len(ul) - 1)
    <3>1. Running.k \in {"catch", "cleanup"} /\ Running.pc \in {"brk", "ret", "err"}
      BY <1>5, RestoreMoves
    <3>2. ul # <<>>
      BY <3>1, GuardHere
    <3> QED
      BY <2>2, <3>2, OneLess
  <2> QED
    BY <1>5, <2>1, <2>2, RestoreMoves
<1>6. CASE RunPop
  <2>1. ul # <<>> /\ ul' = SubSeq(ul, 1, Len(ul) - 1)
    BY <1>6 DEF RunPop
  <2> QED
    BY <2>1, OneLess
<1>7. ASSUME AtStatement, NEW b \in BOOLEAN, Eval(b)
      PROVE  Along(ul, ul')
  BY <1>7, PushedAlong
<1>8. ASSUME AtStatement, NEW b \in BOOLEAN, Try(b)
      PROVE  Along(ul, ul')
  <2> DEFINE k == IF b THEN 3 ELSE 2
  <2>1. k \in Nat /\ More(k)
    BY <1>8, TryPushes
  <2> QED
    BY <2>1, MoreAlong
<1>9. ASSUME AtStatement, UnwindProtect
      PROVE  Along(ul, ul')
  BY <1>9, UnwindPushes, MoreAlong
<1> QED
  BY <1>1, <1>2, <1>3, <1>4, <1>5, <1>6, <1>7, <1>8, <1>9, NextSteps

-----------------------------------------------------------------------------
(***************************************************************************)
(* buffer_error_messages and reading_script_file                           *)
(***************************************************************************)

Saves(u, v, n) == \E p \in 1 .. n : RestoreAt(u, p, v)

\* The outermost protection of v puts it back to 0, and without any v is 0.
Replays(u, h, v) ==
  /\ \A p \in 1 .. Len(u) : RestoreAt(u, p, v) /\ ~ Saves(u, v, p - 1) => u[p].val = 0
  /\ ~ Saves(u, v, Len(u)) => h[v] = 0

LEMMA ReplaysGrown ==
  ASSUME TypeOK, NEW v, Replays(ul, g, v), NEW k \in Nat, More(k),
         \A j \in 1 .. k : RestoreAt(ul', Len(ul) + j, v) => ul'[Len(ul) + j].val = g[v],
         \/ g'[v] = g[v] \/ g'[v] = 0
         \/ \E j \in 1 .. k : RestoreAt(ul', Len(ul) + j, v)
  PROVE  Replays(ul', g', v)
<1>1. Len(ul) \in Nat /\ Len(ul') = Len(ul) + k /\ \A p \in 1 .. Len(ul) : ul'[p] = ul[p]
  BY DEF More, Agree
<1>2. \A n \in 0 .. Len(ul) : Saves(ul', v, n) <=> Saves(ul, v, n)
  BY <1>1 DEF Saves, RestoreAt
<1>3. ASSUME NEW p \in 1 .. Len(ul'), RestoreAt(ul', p, v), ~ Saves(ul', v, p - 1)
      PROVE  ul'[p].val = 0
  <2>1. CASE p <= Len(ul)
    <3>1. p \in 1 .. Len(ul) /\ p - 1 \in 0 .. Len(ul)
      BY <1>1, <2>1
    <3>2. RestoreAt(ul, p, v) /\ ~ Saves(ul, v, p - 1)
      BY <1>1, <1>2, <1>3, <3>1 DEF RestoreAt
    <3> QED
      BY <1>1, <3>1, <3>2 DEF Replays
  <2>2. CASE p > Len(ul)
    <3>1. PICK j \in 1 .. k : p = Len(ul) + j
      <4>1. p - Len(ul) \in 1 .. k /\ p = Len(ul) + (p - Len(ul))
        BY <1>1, <2>2
      <4> QED
        BY <4>1
    <3>2. ~ Saves(ul', v, Len(ul))
      BY <1>1, <1>3, <2>2 DEF Saves
    <3>3. g[v] = 0
      BY <1>1, <1>2, <3>2 DEF Replays
    <3> QED
      BY <1>3, <3>1, <3>3
  <2> QED
    BY <1>1, <2>1, <2>2
<1>4. ASSUME ~ Saves(ul', v, Len(ul'))
      PROVE  g'[v] = 0
  <2>1. ~ Saves(ul', v, Len(ul))
    BY <1>1, <1>4 DEF Saves
  <2>2. g[v] = 0
    BY <1>1, <1>2, <2>1 DEF Replays
  <2>3. \A j \in 1 .. k : Len(ul) + j \in 1 .. Len(ul')
    BY <1>1
  <2>4. ~ \E j \in 1 .. k : RestoreAt(ul', Len(ul) + j, v)
    BY <1>4, <2>3 DEF Saves
  <2> QED
    BY <2>2, <2>4
<1> QED
  BY <1>3, <1>4 DEF Replays

LEMMA ReplaysCut ==
  ASSUME NEW v, Replays(ul, g, v), Len(ul) \in Nat, Len(ul') \in Nat, Len(ul') <= Len(ul),
         Agree(ul, ul', Len(ul')),
         \/ g'[v] = g[v] /\ \A p \in Len(ul') + 1 .. Len(ul) : ~ RestoreAt(ul, p, v)
         \/ ~ Saves(ul, v, Len(ul')) => g'[v] = 0
  PROVE  Replays(ul', g', v)
<1>1. \A n \in 0 .. Len(ul') : Saves(ul', v, n) <=> Saves(ul, v, n)
  BY SMTT(30) DEF Saves, RestoreAt, Agree
<1>2. ASSUME NEW p \in 1 .. Len(ul'), RestoreAt(ul', p, v), ~ Saves(ul', v, p - 1)
      PROVE  ul'[p].val = 0
  <2>1. p \in 1 .. Len(ul) /\ p - 1 \in 0 .. Len(ul') /\ ul'[p] = ul[p]
    BY DEF Agree
  <2> QED
    BY <1>1, <1>2, <2>1 DEF Replays, RestoreAt
<1>3. ASSUME ~ Saves(ul', v, Len(ul'))
      PROVE  g'[v] = 0
  <2>1. ~ Saves(ul, v, Len(ul'))
    BY <1>1, <1>3
  <2>2. CASE g'[v] = g[v] /\ \A p \in Len(ul') + 1 .. Len(ul) : ~ RestoreAt(ul, p, v)
    <3>1. ~ Saves(ul, v, Len(ul))
      BY <2>1, <2>2 DEF Saves
    <3> QED
      BY <2>2, <3>1 DEF Replays
  <2> QED
    BY <2>1, <2>2
<1> QED
  BY <1>2, <1>3 DEF Replays

LEMMA ReplaysSame ==
  ASSUME NEW v, Replays(ul, g, v), ul' = ul, g'[v] = g[v] \/ g'[v] = 0
  PROVE  Replays(ul', g', v)
BY DEF Replays

\* What a try finds in buffer_error_messages, which it keeps in a variable of
\* its own, is 0 unless something below it restores the flag.
TriesKnow(s, u) ==
  \A i \in 1 .. Len(s) :
    TryBody(s[i]) /\ ~ Saves(u, "buf", s[i].base) => s[i].n = 0

Restores == {"buf", "rsf"}

LEMMA OneOf == \A k \in {1, 2, 3} : \A j \in 1 .. k :
                 j = 1 \/ (j = 2 /\ k > 1) \/ (j = 3 /\ k = 3)
OBVIOUS

\* The steps that push elements of which none saves v.
LEMMA PushedReplays ==
  ASSUME TypeOK, NEW v \in Restores, Replays(ul, g, v), NEW k \in Nat, More(k),
         \A j \in 1 .. k : ~ RestoreAt(ul', Len(ul) + j, v),
         g'[v] = g[v] \/ g'[v] = 0
  PROVE  Replays(ul', g', v)
BY ReplaysGrown

LEMMA GuardReplays ==
  ASSUME TypeOK, NEW v \in Restores, Replays(ul, g, v),
         CleanupBegin \/ CatchProtect \/ EvalFailed
  PROVE  Replays(ul', g', v)
<1>1. v \in Flags /\ v \notin {"err", "ret", "brk"} /\ g \in [Flags -> FlagValues]
  BY DEF Restores, Flags, TypeOK, FlagsOK
<1>2. CASE CleanupBegin
  <2>1. /\ More(3) /\ New(1) = Saved("err") /\ New(2) = Saved("ret")
        /\ New(3) = Saved("brk")
    BY <1>2, GuardPushes
  <2>2. \A j \in 1 .. 3 : ~ RestoreAt(ul', Len(ul) + j, v)
    BY <1>1, <2>1, SavedKinds, OneOf DEF New, RestoreAt
  <2>3. g'[v] = g[v]
    BY <1>1, <1>2 DEF CleanupBegin
  <2> QED
    BY <2>1, <2>2, <2>3, PushedReplays
<1>3. CASE CatchProtect
  <2>1. /\ More(3) /\ New(1) = ElemOf("clearerr", NoFn) /\ New(2) = Saved("ret")
        /\ New(3) = Saved("brk")
    BY <1>3, GuardPushes
  <2>2. \A j \in 1 .. 3 : ~ RestoreAt(ul', Len(ul) + j, v)
    BY <1>1, <2>1, SavedKinds, OneOf DEF New, RestoreAt
  <2>3. g'[v] = g[v]
    BY <1>1, <1>3 DEF CatchProtect
  <2> QED
    BY <2>1, <2>2, <2>3, PushedReplays
<1>4. CASE EvalFailed
  <2>1. More(1) /\ New(1) = ElemOf("clearerr", NoFn)
    BY <1>4, GuardPushes
  <2>2. \A j \in 1 .. 1 : ~ RestoreAt(ul', Len(ul) + j, v)
    BY <1>1, <2>1, SavedKinds DEF New, RestoreAt
  <2>3. g' = [g EXCEPT !["err"] = 0, !["buf"] = 0]
    BY <1>4 DEF EvalFailed
  <2>4. g'[v] = IF v = "buf" THEN 0 ELSE g[v]
    BY SMTT(30), <1>1, <2>3
  <2> QED
    BY <2>1, <2>2, <2>4, PushedReplays
<1> QED
  BY <1>2, <1>3, <1>4

LEMMA CallReplays ==
  ASSUME TypeOK, NEW v \in Restores, Replays(ul, g, v), CallBegin \/ CallPush \/ CallBind
  PROVE  Replays(ul', g', v)
<1>1. v \in Flags /\ v \notin {"err", "ret", "brk"} /\ g \in [Flags -> FlagValues]
  BY DEF Restores, Flags, TypeOK, FlagsOK
<1>2. g'[v] = g[v]
  BY <1>1 DEF CallBegin, CallPush, CallBind
<1>3. CASE CallBegin
  <2>1. /\ More(2) /\ New(1) = Mark("func_eval")
        /\ New(2) = SavedCount("depth", Running.f, fn[Running.f].depth)
    BY <1>3, CallBeginPushes
  <2>2. \A j \in 1 .. 2 : ~ RestoreAt(ul', Len(ul) + j, v)
    BY <2>1, SavedKinds, OneOf DEF New, RestoreAt
  <2> QED
    BY <1>2, <2>1, <2>2, PushedReplays
<1>4. CASE CallPush
  <2>1. /\ More(3) /\ New(1) = ElemOf("popctx", Running.f)
        /\ New(2) = SavedCount("vr", Running.f, fn[Running.f].vr)
        /\ New(3) = ElemOf("delvr", Running.f)
    BY <1>4, CallPushPushes
  <2>2. \A j \in 1 .. 3 : ~ RestoreAt(ul', Len(ul) + j, v)
    BY <2>1, SavedKinds, OneOf DEF New, RestoreAt
  <2> QED
    BY <1>2, <2>1, <2>2, PushedReplays
<1>5. CASE CallBind
  <2>1. /\ More(5) /\ New(1) = ElemOf("clearsym", Running.f)
        /\ New(2) = ElemOf("tab", cur.tab) /\ New(3) = ElemOf("fun", cur.fun)
        /\ New(4) = ElemOf("clearargs", Running.f)
        /\ New(5) = SavedCount("nargs", Running.f, fn[Running.f].nargs)
    BY <1>5, CallBindPushes
  <2>2. \A j \in 1 .. 5 : ~ RestoreAt(ul', Len(ul) + j, v)
    <3>1. \A j \in 1 .. 5 : j \in {1, 2, 3, 4, 5}
      OBVIOUS
    <3>2. \A j \in {1, 2, 3, 4, 5} : New(j).e # "restore"
      BY <2>1, SavedKinds
    <3> QED
      BY <3>1, <3>2 DEF New, RestoreAt
  <2> QED
    BY <1>2, <2>1, <2>2, PushedReplays
<1> QED
  BY <1>3, <1>4, <1>5

\* The steps that save v before they set it.
LEMMA SetReplays ==
  ASSUME TypeOK, Layout(cs, ul), NEW v \in Restores, Replays(ul, g, v),
         \/ ScriptBegin
         \/ AtStatement /\ (UnwindProtect \/ \E b \in BOOLEAN : Try(b) \/ Eval(b))
  PROVE  Replays(ul', g', v)
<1>1. v \in Flags /\ v \in {"buf", "rsf"} /\ g \in [Flags -> FlagValues]
  BY DEF Restores, Flags, TypeOK, FlagsOK
<1>2. CASE ScriptBegin
  <2>1. /\ More(4) /\ New(1) = Mark("parse_fcn_file") /\ New(2) = Saved("rsf")
        /\ New(3) = Mark("parse_and_execute") /\ New(4) = ElemOf("tab", cur.tab)
    BY <1>2, ScriptPushes
  <2>2. /\ \A j \in 1 .. 4 : RestoreAt(ul', Len(ul) + j, v) => j = 2
        /\ New(2).e = "restore" /\ New(2).tag = "rsf" /\ New(2).val = g["rsf"]
    <3>1. \A j \in 1 .. 4 : j \in {1, 2, 3, 4}
      OBVIOUS
    <3>2. \A j \in {1, 3, 4} : New(j).e # "restore"
      BY <2>1, SavedKinds
    <3> QED
      BY <2>1, <3>1, <3>2, SavedKinds DEF New, RestoreAt
  <2>3. g'[v] = g[v] \/ v = "rsf"
    BY <1>1, <1>2 DEF ScriptBegin
  <2>4. v = "rsf" => \E j \in 1 .. 4 : RestoreAt(ul', Len(ul) + j, v)
    <3>1. 2 \in 1 .. 4
      OBVIOUS
    <3> QED
      BY <2>2, <3>1 DEF RestoreAt, New
  <2>5. \A j \in 1 .. 4 : RestoreAt(ul', Len(ul) + j, v) => ul'[Len(ul) + j].val = g[v]
    BY <1>1, <2>2 DEF RestoreAt, New
  <2> QED
    BY <2>1, <2>3, <2>4, <2>5, ReplaysGrown
<1>3. ASSUME AtStatement, UnwindProtect
      PROVE  Replays(ul', g', v)
  <2>1. More(1) /\ New(1).e = "cleanup"
    BY <1>3, UnwindPushes
  <2>2. \A j \in 1 .. 1 : ~ RestoreAt(ul', Len(ul) + j, v)
    BY <2>1 DEF New, RestoreAt
  <2>3. g'[v] = g[v]
    BY <1>3 DEF UnwindProtect
  <2> QED
    BY <2>1, <2>2, <2>3, PushedReplays
<1>4. ASSUME NEW b \in BOOLEAN, NEW k \in {1, 2, 3}, More(k),
             \A j \in 1 .. k : RestoreAt(ul', Len(ul) + j, v) => b /\ New(j) = Saved("buf"),
             b => New(k) = Saved("buf"),
             g' = IF b THEN [g EXCEPT !["buf"] = 1] ELSE g
      PROVE  Replays(ul', g', v)
  <2>1. g'[v] = g[v] \/ (b /\ v = "buf")
    BY <1>1, <1>4
  <2>2. b /\ v = "buf" => \E j \in 1 .. k : RestoreAt(ul', Len(ul) + j, v)
    <3>1. k \in 1 .. k
      OBVIOUS
    <3> QED
      BY <1>4, <3>1, SavedKinds DEF RestoreAt, New
  <2>3. \A j \in 1 .. k : RestoreAt(ul', Len(ul) + j, v) => ul'[Len(ul) + j].val = g[v]
    BY <1>4, SavedKinds DEF RestoreAt, New
  <2> QED
    BY <1>4, <2>1, <2>2, <2>3, ReplaysGrown
<1>5. ASSUME AtStatement, NEW b \in BOOLEAN, Try(b)
      PROVE  Replays(ul', g', v)
  <2> DEFINE k == IF b THEN 3 ELSE 2
  <2>1. /\ More(k) /\ New(1) = Mark("tree_try_catch::eval") /\ New(2).e = "catch"
        /\ b => New(3) = Saved("buf")
    BY <1>5, TryPushes
  <2>2. New(1).e # "restore" /\ New(2).e # "restore"
    BY <2>1, SavedKinds
  <2>3. \A j \in 1 .. k : RestoreAt(ul', Len(ul) + j, v) => b /\ New(j) = Saved("buf")
    <3> SUFFICES ASSUME NEW j \in 1 .. k, RestoreAt(ul', Len(ul) + j, v)
                 PROVE  b /\ New(j) = Saved("buf")
      OBVIOUS
    <3>1. j \notin {1, 2}
      BY <2>2 DEF RestoreAt, New
    <3>2. b /\ j = 3
      BY <3>1
    <3> QED
      BY <2>1, <3>2
  <2>4. g' = IF b THEN [g EXCEPT !["buf"] = 1] ELSE g
    BY <1>5, Zenon DEF Try
  <2>5. k \in {1, 2, 3} /\ (b => New(k) = Saved("buf"))
    BY <2>1
  <2> HIDE DEF k
  <2> QED
    BY <1>4, <2>1, <2>3, <2>4, <2>5
<1>6. ASSUME AtStatement, NEW b \in BOOLEAN, Eval(b)
      PROVE  Replays(ul', g', v)
  <2> DEFINE k == IF b THEN 2 ELSE 1
  <2>1. /\ More(k) /\ New(1) = Mark("Feval") /\ (b => New(2) = Saved("buf"))
    BY <1>6, EvalPushes
  <2>2. New(1).e # "restore"
    BY <2>1, SavedKinds
  <2>3. \A j \in 1 .. k : RestoreAt(ul', Len(ul) + j, v) => b /\ New(j) = Saved("buf")
    <3> SUFFICES ASSUME NEW j \in 1 .. k, RestoreAt(ul', Len(ul) + j, v)
                 PROVE  b /\ New(j) = Saved("buf")
      OBVIOUS
    <3>1. j # 1
      BY <2>2 DEF RestoreAt, New
    <3>2. b /\ j = 2
      BY <3>1
    <3> QED
      BY <2>1, <3>2
  <2>4. g' = IF b THEN [g EXCEPT !["buf"] = 1] ELSE g
    BY <1>6 DEF Eval
  <2>5. k \in {1, 2, 3} /\ (b => New(k) = Saved("buf"))
    BY <2>1
  <2> HIDE DEF k
  <2> QED
    BY <1>4, <2>1, <2>3, <2>4, <2>5
<1> QED
  BY <1>2, <1>3, <1>5, <1>6

\* The steps that take elements off the list.
LEMMA CutReplays ==
  ASSUME TypeOK, TypeOK', Layout(cs, ul), Held(cs, ul), TriesKnow(cs, ul),
         NEW v \in Restores, Replays(ul, g, v),
         TrySucceeded \/ RestoreBreaking \/ RestoreReturning \/ RestoreLast \/ RunPop
  PROVE  Replays(ul', g', v)
<1>1. /\ v \in Flags /\ v \notin {"err", "ret", "brk"} /\ g \in [Flags -> FlagValues]
      /\ v \in {"buf", "rsf"}
  BY DEF Restores, Flags, TypeOK, FlagsOK
<1>2. Len(ul) \in Nat /\ Len(ul') \in Nat /\ Depth \in Nat \ {0} /\ Len(cs) = Depth
  BY LenProperties, RunningFrame DEF TypeOK, UnwindOK
<1>3. CASE TrySucceeded
  <2> DEFINE b == Running.base
  <2>1. /\ b \in Nat /\ Len(ul) = b + TrySize(Running) /\ TryBody(Running)
        /\ Len(ul') = b /\ Agree(ul, ul', b)
        /\ ul[b + 1].e = "mark" /\ ul[b + 2].e = "catch"
        /\ Running.flag => RestoreAt(ul, b + 3, "buf")
    BY <1>3, TryCut
  <2>2. g' = [g EXCEPT !["err"] = 0, !["buf"] = Running.n]
    BY <1>3 DEF TrySucceeded
  <2>3. CASE v = "buf"
    <3>1. ~ Saves(ul, "buf", Running.base) => Running.n = 0
      BY <1>2, <2>1 DEF TriesKnow, Running
    <3>2. g'["buf"] = Running.n
      BY <1>1, <2>2, <2>3
    <3> HIDE DEF b
    <3>3. ~ Saves(ul, v, Len(ul')) => g'[v] = 0
      BY <2>1, <2>3, <3>1, <3>2 DEF b
    <3>4. Agree(ul, ul', Len(ul')) /\ Len(ul') <= Len(ul)
      BY <1>2, <2>1 DEF TrySize
    <3> QED
      BY <1>2, <3>3, <3>4, ReplaysCut
  <2>4. CASE v = "rsf"
    <3>1. g'[v] = g[v]
      BY <1>1, <2>2, <2>4
    <3> HIDE DEF b
    <3>2. \A p \in Len(ul') + 1 .. Len(ul) : ~ RestoreAt(ul, p, v)
      <4> SUFFICES ASSUME NEW p \in Len(ul') + 1 .. Len(ul)
                   PROVE  ~ RestoreAt(ul, p, v)
        OBVIOUS
      <4>1. p = b + 1 \/ p = b + 2 \/ (Running.flag /\ p = b + 3)
        BY <1>2, <2>1 DEF TrySize
      <4> QED
        BY <2>1, <2>4, <4>1 DEF RestoreAt
    <3>3. Agree(ul, ul', Len(ul')) /\ Len(ul') <= Len(ul)
      BY <1>2, <2>1 DEF TrySize
    <3> QED
      BY <1>2, <3>1, <3>2, <3>3, ReplaysCut
  <2> QED
    BY <1>1, <2>3, <2>4
<1>4. CASE RestoreBreaking \/ RestoreReturning \/ RestoreLast
  <2>1. g'[v] = g[v]
    BY <1>1, <1>4 DEF RestoreBreaking, RestoreReturning, RestoreLast
  <2>2. /\ Running.k \in {"catch", "cleanup"} /\ Running.pc \in {"brk", "ret", "err"}
        /\ ul' = ul \/ (ul' = SubSeq(ul, 1, Len(ul) - 1) /\ Running.pc # "brk")
    BY <1>4, RestoreMoves
  <2>3. CASE ul' = ul
    BY <2>1, <2>3, ReplaysSame
  <2>4. CASE ul' = SubSeq(ul, 1, Len(ul) - 1) /\ Running.pc # "brk"
    <3>1. ul # <<>> /\ ~ RestoreAt(ul, Len(ul), v)
      <4> DEFINE b == Running.base
      <4>1. /\ b \in Nat /\ ul # <<>>
            /\ Running.k = "catch" => ul[b + 1].e = "clearerr"
            /\ Running.k = "cleanup" => RestoreAt(ul, b + 1, "err")
            /\ Running.pc # "err" => RestoreAt(ul, b + 2, "ret")
            /\ Len(ul) = b + (IF Running.pc = "brk" THEN 3
                              ELSE IF Running.pc = "ret" THEN 2 ELSE 1)
        BY <2>2, GuardHere
      <4>2. CASE Running.pc = "ret"
        BY <1>1, <4>1, <4>2 DEF RestoreAt
      <4>3. CASE Running.pc = "err"
        BY <1>1, <2>2, <4>1, <4>3 DEF RestoreAt
      <4> QED
        BY <2>2, <2>4, <4>1, <4>2, <4>3
    <3>2. Len(ul') = Len(ul) - 1 /\ Agree(ul, ul', Len(ul')) /\ Len(ul) > 0
      BY <2>4, <3>1, OneLess
    <3>3. \A p \in Len(ul') + 1 .. Len(ul) : ~ RestoreAt(ul, p, v)
      BY <1>2, <3>1, <3>2
    <3> QED
      BY <1>2, <2>1, <3>2, <3>3, ReplaysCut
  <2> QED
    BY <2>2, <2>3, <2>4
<1>5. CASE RunPop
  <2> DEFINE el == ul[Len(ul)]
  <2>1. ul # <<>> /\ ul' = SubSeq(ul, 1, Len(ul) - 1)
        /\ g' = IF el.e = "restore" THEN [g EXCEPT ![el.tag] = el.val] ELSE g
    BY <1>5 DEF RunPop
  <2>2. Len(ul') = Len(ul) - 1 /\ Agree(ul, ul', Len(ul')) /\ Len(ul) > 0
    BY <2>1, OneLess
  <2>3. CASE RestoreAt(ul, Len(ul), v)
    <3>1. ~ Saves(ul, v, Len(ul) - 1) => el.val = 0
      BY <1>2, <2>2, <2>3 DEF Replays
    <3>2. g'[v] = el.val
      BY <1>1, <2>1, <2>3 DEF RestoreAt
    <3>3. ~ Saves(ul, v, Len(ul')) => g'[v] = 0
      BY <2>2, <3>1, <3>2
    <3>4. Len(ul') <= Len(ul)
      BY <1>2, <2>2
    <3> QED
      BY <1>2, <2>2, <3>3, <3>4, ReplaysCut
  <2>4. CASE ~ RestoreAt(ul, Len(ul), v)
    <3>1. g'[v] = g[v]
      BY <1>1, <2>1, <2>4 DEF RestoreAt
    <3>2. \A p \in Len(ul') + 1 .. Len(ul) : ~ RestoreAt(ul, p, v)
      BY <1>2, <2>2, <2>4
    <3>3. Len(ul') <= Len(ul)
      BY <1>2, <2>2
    <3> QED
      BY <1>2, <2>2, <3>1, <3>2, <3>3, ReplaysCut
  <2> QED
    BY <2>3, <2>4
<1> QED
  BY <1>3, <1>4, <1>5

LEMMA NextReplays ==
  ASSUME TypeOK, TypeOK', Layout(cs, ul), Held(cs, ul), TriesKnow(cs, ul),
         NEW v \in Restores, Replays(ul, g, v), [Next]_vars
  PROVE  Replays(ul', g', v)
<1>1. v \in Flags /\ g \in [Flags -> FlagValues] /\ v \in {"buf", "rsf"}
  BY DEF Restores, Flags, TypeOK, FlagsOK
<1>2. CASE UNCHANGED vars \/ Easy \/ UnwindBodyDone \/ Interrupt
  <2>1. ul' = ul /\ g'[v] = g[v]
    BY <1>1, <1>2, EasySteps DEF vars, Quiet, UnwindBodyDone, Interrupt
  <2> QED
    BY <2>1, ReplaysSame
<1>3. CASE CatchBind
  <2>1. ul' = ul /\ (g'[v] = g[v] \/ g'[v] = 0)
    BY <1>1, <1>3 DEF CatchBind, Flags
  <2> QED
    BY <2>1, ReplaysSame
<1> QED
  BY <1>2, <1>3, GuardReplays, CallReplays, SetReplays, CutReplays, NextSteps

\* The only step that starts the body of a try is Try.
LEMMA NewTry ==
  ASSUME TypeOK, TypeOK', Layout(cs, ul), Held(cs, ul), [Next]_vars,
         NEW i \in 1 .. Len(cs'), TryBody(cs'[i])
  PROVE  \/ i \in 1 .. Len(cs) /\ cs'[i] = cs[i]
         \/ /\ cs'[i].n = g["buf"] /\ cs'[i].base = Len(ul) /\ Len(ul) \in Nat
            /\ Agree(ul, ul', Len(ul))
<1>1. Depth \in Nat \ {0} /\ Len(cs) = Depth /\ Len(cs') \in Nat
  BY LenProperties, RunningFrame DEF TypeOK, StackOK
<1> DEFINE Old == i \in 1 .. Len(cs) /\ cs'[i] = cs[i]
<1>2. ASSUME Steps(cs, cs'), i < Depth
      PROVE  Old
  BY <1>1, <1>2 DEF Steps
<1>3. CASE UNCHANGED vars
  BY <1>3 DEF vars
<1>4. ASSUME Frames
      PROVE  Old
  <2>1. i >= Depth => ~ TryBody(cs'[i])
    BY <1>4 DEF Frames, Watched, Guarding
  <2> QED
    BY <1>1, <1>2, <1>4, <2>1 DEF Frames
<1>5. CASE Easy \/ TrySucceeded \/ CatchBind \/ ScriptBegin \/ EvalFailed \/ CallBegin
           \/ CallPush \/ CallBind
  BY <1>4, <1>5, EasySteps, OrdinaryFrames, MovesOrdinary, CallFrames, CallBindOrdinary
<1>6. ASSUME AtStatement, NEW b \in BOOLEAN, Eval(b)
      PROVE  Old
  BY <1>4, <1>6, EvalStatementOrdinary, OrdinaryFrames
<1>7. ASSUME NEW pc, Moves(pc), Running.k # "try", Len(cs') = Depth + 1 => cs'[Depth + 1].k # "try"
      PROVE  Old
  <2>1. cs'[Depth].k # "try" /\ Len(cs') \in {Depth, Depth + 1} /\ Depth \in Nat
    BY <1>7 DEF Moves
  <2>2. i # Depth /\ ~ (Len(cs') = Depth + 1 /\ i = Depth + 1)
    BY <1>1, <1>7, <2>1 DEF TryBody
  <2>3. i < Depth
    BY <1>1, <2>1, <2>2
  <2> QED
    BY <1>2, <1>7, <2>3 DEF Moves
<1>8. CASE CleanupBegin \/ CatchProtect
  <2>1. Moves("brk") /\ Running.k # "try" /\ (Len(cs') = Depth + 1 => cs'[Depth + 1].k # "try")
    BY <1>8, GuardMoves
  <2> QED
    BY <1>7, <2>1
<1>9. CASE RestoreBreaking \/ RestoreReturning \/ RestoreLast
  <2>1. /\ Moves(After(Running.pc)) /\ Running.k # "try"
        /\ Len(cs') = Depth + 1 => cs'[Depth + 1].k # "try"
    BY <1>1, <1>9, RestoreMoves DEF RunOne
  <2> QED
    BY <1>7, <2>1
<1>10. CASE UnwindBodyDone
  <2>1. Moves("cleaned") /\ Running.k # "try" /\ (Len(cs') = Depth + 1 => cs'[Depth + 1].k # "try")
    BY <1>10, BodyDoneMoves DEF RunOne
  <2> QED
    BY <1>7, <2>1
<1>11. CASE RunPop
  <2> DEFINE el == ul[Len(ul)]
             pc == IF Running.tag = "one" \/ (el.e = "mark" /\ el.tag = Running.tag)
                   THEN "done" ELSE "pop"
  <2>1. /\ Moves(pc) /\ At("run", "pop")
        /\ IF el.e \in {"catch", "cleanup"}
           THEN Len(cs') = Depth + 1 /\ cs'[Depth + 1].k = el.e
           ELSE Len(cs') = Depth
    BY <1>11, RunPopMoves
  <2>2. Running.k # "try" /\ (Len(cs') = Depth + 1 => cs'[Depth + 1].k # "try")
    BY <1>1, <2>1 DEF At
  <2> HIDE DEF pc, el
  <2> QED
    BY <1>7, <2>1, <2>2
<1>12. CASE Interrupt
  <2>1. PICK j \in 1 .. Depth :
          /\ j < Depth /\ cs[j].k \in {"main", "script"} /\ Len(cs') = j
          /\ cs'[j].k = cs[j].k /\ cs'[j].pc = "jumped"
          /\ \A l \in 1 .. j - 1 : cs'[l] = cs[l]
    BY <1>12, InterruptMoves
  <2>2. i # j
    BY <2>1 DEF TryBody
  <2> QED
    BY <1>1, <2>1, <2>2
<1>13. ASSUME AtStatement, UnwindProtect
       PROVE  Old
  <2>1. /\ Steps(cs, cs') /\ Len(cs') = Depth + 2 /\ cs'[Depth].k = "list"
        /\ cs'[Depth + 1].k = "unw" /\ cs'[Depth + 2].k = "list"
    BY <1>13, UnwindMoves
  <2>2. i # Depth /\ i # Depth + 1 /\ i # Depth + 2
    BY <2>1 DEF TryBody
  <2> QED
    BY <1>1, <1>2, <2>1, <2>2
<1>14. ASSUME AtStatement, NEW b \in BOOLEAN, Try(b)
       PROVE  \/ Old
              \/ /\ cs'[i].n = g["buf"] /\ cs'[i].base = Len(ul) /\ Len(ul) \in Nat
                 /\ Agree(ul, ul', Len(ul))
  <2>1. /\ Steps(cs, cs') /\ Len(cs') = Depth + 2 /\ cs'[Depth].k = "list"
        /\ cs'[Depth + 1].n = g["buf"] /\ cs'[Depth + 1].base = Len(ul)
        /\ cs'[Depth + 2].k = "list"
    BY <1>14, TryMoves
  <2>2. More(IF b THEN 3 ELSE 2)
    BY <1>14, TryPushes
  <2>3. i # Depth /\ i # Depth + 2
    BY <2>1 DEF TryBody
  <2>4. CASE i < Depth
    BY <1>2, <2>1, <2>4
  <2>5. CASE i = Depth + 1
    BY <2>1, <2>2, <2>5 DEF More
  <2> QED
    BY <1>1, <2>1, <2>3, <2>4, <2>5
<1> QED
  BY <1>3, <1>5, <1>6, <1>8, <1>9, <1>10, <1>11, <1>12, <1>13, <1>14, NextSteps

LEMMA NextTriesKnow ==
  ASSUME TypeOK, TypeOK', Layout(cs, ul), Held(cs, ul), Replays(ul, g, "buf"),
         TriesKnow(cs, ul), [Next]_vars
  PROVE  TriesKnow(cs', ul')
<1>1. /\ Len(cs) \in Nat /\ Len(cs') \in Nat /\ Len(ul) \in Nat /\ Len(ul') \in Nat
      /\ cs \in Seq(Frame) /\ cs' \in Seq(Frame) /\ ul \in Seq(Elem) /\ ul' \in Seq(Elem)
  BY LenProperties DEF TypeOK, StackOK, UnwindOK
<1>2. Held(cs', ul') /\ Layout(cs', ul') /\ Along(ul, ul')
  BY NextHeld, NextLayout, NextAlong
<1> SUFFICES ASSUME NEW i \in 1 .. Len(cs'), TryBody(cs'[i]),
                    ~ Saves(ul', "buf", cs'[i].base)
             PROVE  cs'[i].n = 0
  BY DEF TriesKnow
<1>3. CASE i \in 1 .. Len(cs) /\ cs'[i] = cs[i]
  <2> DEFINE b == cs[i].base
  <2>1. b \in Nat /\ b <= Len(ul) /\ b <= Len(ul')
    <3>1. TryEnd(cs, ul, i) /\ TryEnd(cs', ul', i) /\ Guarding(cs[i]) /\ Guarding(cs'[i])
      BY <1>2, <1>3 DEF Held, HeldAt, Guarding
    <3>2. /\ cs[i].base \in Nat /\ cs[i].base + Claim(cs[i]) <= Len(ul)
          /\ cs'[i].base + Claim(cs'[i]) <= Len(ul')
      BY <1>1, <1>2, <1>3, <3>1, Room
    <3>3. Claim(cs[i]) \in {2, 3}
      BY <1>3 DEF Claim, TryBody, TrySize
    <3> QED
      BY <1>1, <1>3, <3>2, <3>3
  <2>2. \A p \in 1 .. b : ul'[p] = ul[p]
    <3> HIDE DEF b
    <3> SUFFICES ASSUME NEW p \in 1 .. b
                 PROVE  ul'[p] = ul[p]
      OBVIOUS
    <3>1. p \in 1 .. Len(ul) /\ p \in 1 .. Len(ul')
      BY <1>1, <2>1
    <3> QED
      BY ONLY <1>2, <3>1 DEF Along, Agree
  <2>3. ~ Saves(ul, "buf", b)
    BY <1>3, <2>2 DEF Saves, RestoreAt
  <2> QED
    BY <1>3, <2>3 DEF TriesKnow
<1>4. CASE /\ cs'[i].n = g["buf"] /\ cs'[i].base = Len(ul) /\ Len(ul) \in Nat
           /\ Agree(ul, ul', Len(ul))
  <2>1. ~ Saves(ul, "buf", Len(ul))
    BY <1>4 DEF Saves, RestoreAt, Agree
  <2> QED
    BY <1>4, <2>1 DEF Replays
<1> QED
  BY <1>3, <1>4, NewTry

BufferKnown == TriesKnow(cs, ul) /\ \A v \in Restores : Replays(ul, g, v)

LEMMA InitBuffer == Init => BufferKnown
<1> SUFFICES ASSUME Init
             PROVE  BufferKnown
  OBVIOUS
<1>1. Len(cs) = 1 /\ cs[1].k = "main" /\ Len(ul) = 0 /\ \A v \in Restores : g[v] = 0
  BY EmptySeq DEF Init, Restores, Flags
<1>2. TriesKnow(cs, ul)
  BY <1>1 DEF TriesKnow, TryBody
<1>3. \A v \in Restores : Replays(ul, g, v)
  BY <1>1 DEF Replays
<1> QED
  BY <1>2, <1>3 DEF BufferKnown

LEMMA NextBuffer ==
  ASSUME TypeOK, TypeOK', Layout(cs, ul), Held(cs, ul), BufferKnown, [Next]_vars
  PROVE  BufferKnown'
<1>1. "buf" \in Restores
  BY DEF Restores
<1> QED
  BY <1>1, NextReplays, NextTriesKnow DEF BufferKnown

LEMMA BufferMarked ==
  ASSUME TypeOK, BufferKnown
  PROVE  BufferedOnlyInTry
<1>1. Replays(ul, g, "buf")
  BY DEF BufferKnown, Restores
<1> QED
  BY <1>1 DEF BufferedOnlyInTry, Replays, Saves, RestoreAt, BufferMarks

\* Error messages are never held back without a pending restoration of
\* buffer_error_messages that will let them out again.
THEOREM MessagesComeBack == Spec => []BufferedOnlyInTry
<1>1. Init => Layout(cs, ul) /\ Held(cs, ul) /\ BufferKnown
  BY InitLayout, InitHeld, InitBuffer
<1>2. TypeOK /\ TypeOK' /\ Layout(cs, ul) /\ Held(cs, ul) /\ BufferKnown /\ [Next]_vars
        => (Layout(cs, ul) /\ Held(cs, ul) /\ BufferKnown)'
  BY NextLayout, NextHeld, NextBuffer
<1>3. TypeOK /\ BufferKnown => BufferedOnlyInTry
  BY BufferMarked
<1> QED
  BY <1>1, <1>2, <1>3, TypeCorrect, PTL DEF Spec

-----------------------------------------------------------------------------
(***************************************************************************)
(* __error_text__                                                          *)
(***************************************************************************)

Clears(u) == \E p \in 1 .. Len(u) : u[p].e = "clearerr"

\* While __error_text__ holds messages, something is pending that empties it.
TextKept == txt # {} => At("catch", "protect") \/ Clears(ul)

LEMMA ClearsMore ==
  ASSUME NEW k \in Nat, More(k), Clears(ul) \/ (k > 0 /\ New(1).e = "clearerr")
  PROVE  Clears(ul')
<1>1. Len(ul) \in Nat /\ Len(ul') = Len(ul) + k /\ \A p \in 1 .. Len(ul) : ul'[p] = ul[p]
  BY DEF More, Agree
<1>2. CASE Clears(ul)
  <2>1. PICK p \in 1 .. Len(ul) : ul[p].e = "clearerr"
    BY <1>2 DEF Clears
  <2>2. p \in 1 .. Len(ul') /\ ul'[p].e = "clearerr"
    BY <1>1, <2>1
  <2> QED
    BY <2>2 DEF Clears
<1>3. CASE k > 0 /\ New(1).e = "clearerr"
  <2>1. Len(ul) + 1 \in 1 .. Len(ul') /\ ul'[Len(ul) + 1].e = "clearerr"
    BY <1>1, <1>3 DEF New
  <2> QED
    BY <2>1 DEF Clears
<1> QED
  BY <1>2, <1>3

LEMMA ClearsCut ==
  ASSUME Len(ul) \in Nat, Len(ul') \in Nat, Len(ul') <= Len(ul), Agree(ul, ul', Len(ul')),
         \A p \in Len(ul') + 1 .. Len(ul) : ul[p].e # "clearerr", Clears(ul)
  PROVE  Clears(ul')
<1>1. PICK p \in 1 .. Len(ul) : ul[p].e = "clearerr"
  BY DEF Clears
<1>2. p \in 1 .. Len(ul') /\ ul'[p].e = "clearerr"
  BY <1>1 DEF Agree
<1> QED
  BY <1>2 DEF Clears

\* The step keeps the text and what will empty it.
LEMMA TextStays ==
  ASSUME TextKept, txt' = txt, ~ At("catch", "protect"), Clears(ul) => Clears(ul')
  PROVE  TextKept'
BY DEF TextKept

LEMMA PushText ==
  ASSUME TypeOK, Layout(cs, ul), TextKept,
         \/ CleanupBegin \/ CallBegin \/ CallPush \/ CallBind \/ ScriptBegin
         \/ AtStatement /\ (UnwindProtect \/ \E b \in BOOLEAN : Try(b) \/ Eval(b))
  PROVE  TextKept'
<1>1. txt' = txt
  BY Zenon
     DEF CleanupBegin, CallBegin, CallPush, CallBind, ScriptBegin, UnwindProtect, Try, Eval
<1>2. ~ At("catch", "protect")
  BY Zenon DEF CleanupBegin, CallBegin, CallPush, CallBind, ScriptBegin, AtStatement, At
<1>3. PICK k \in Nat : More(k)
  <2>1. CASE CleanupBegin
    BY <2>1, GuardPushes
  <2>2. CASE CallBegin
    BY <2>2, CallBeginPushes
  <2>3. CASE CallPush
    BY <2>3, CallPushPushes
  <2>4. CASE CallBind
    BY <2>4, CallBindPushes
  <2>5. CASE ScriptBegin
    BY <2>5, ScriptPushes
  <2>6. ASSUME AtStatement, UnwindProtect
        PROVE  \E k \in Nat : More(k)
    BY <2>6, UnwindPushes
  <2>7. ASSUME AtStatement, NEW b \in BOOLEAN, Try(b)
        PROVE  \E k \in Nat : More(k)
    <3>1. More(IF b THEN 3 ELSE 2) /\ (IF b THEN 3 ELSE 2) \in Nat
      BY <2>7, TryPushes
    <3> QED
      BY <3>1
  <2>8. ASSUME AtStatement, NEW b \in BOOLEAN, Eval(b)
        PROVE  \E k \in Nat : More(k)
    <3>1. More(IF b THEN 2 ELSE 1) /\ (IF b THEN 2 ELSE 1) \in Nat
      BY <2>8, EvalPushes
    <3> QED
      BY <3>1
  <2> QED
    BY <2>1, <2>2, <2>3, <2>4, <2>5, <2>6, <2>7, <2>8
<1>4. Clears(ul) => Clears(ul')
  BY <1>3, ClearsMore
<1> QED
  BY <1>1, <1>2, <1>4, TextStays, Zenon

LEMMA CutText ==
  ASSUME TypeOK, TypeOK', Layout(cs, ul), Held(cs, ul), TextKept,
         TrySucceeded \/ RestoreBreaking \/ RestoreReturning \/ RestoreLast
  PROVE  TextKept'
<1>1. txt' = txt /\ ~ At("catch", "protect")
  BY DEF TrySucceeded, RestoreBreaking, RestoreReturning, RestoreLast, At
<1>2. Len(ul) \in Nat /\ Len(ul') \in Nat
  BY LenProperties DEF TypeOK, UnwindOK
<1>3. CASE TrySucceeded
  <2> DEFINE b == Running.base
  <2>1. /\ b \in Nat /\ Len(ul) = b + TrySize(Running)
        /\ Len(ul') = b /\ Agree(ul, ul', b)
        /\ ul[b + 1].e = "mark" /\ ul[b + 2].e = "catch"
        /\ Running.flag => RestoreAt(ul, b + 3, "buf")
    BY <1>3, TryCut
  <2> HIDE DEF b
  <2>2. \A p \in Len(ul') + 1 .. Len(ul) : ul[p].e # "clearerr"
    <3> SUFFICES ASSUME NEW p \in Len(ul') + 1 .. Len(ul)
                 PROVE  ul[p].e # "clearerr"
      OBVIOUS
    <3>1. p = b + 1 \/ p = b + 2 \/ (Running.flag /\ p = b + 3)
      BY <1>2, <2>1 DEF TrySize
    <3> QED
      BY <2>1, <3>1 DEF RestoreAt
  <2>3. Agree(ul, ul', Len(ul')) /\ Len(ul') <= Len(ul)
    BY <1>2, <2>1 DEF TrySize
  <2> QED
    BY <1>1, <1>2, <2>2, <2>3, ClearsCut, TextStays
<1>4. CASE RestoreBreaking \/ RestoreReturning \/ RestoreLast
  <2>1. /\ Running.k \in {"catch", "cleanup"} /\ Running.pc \in {"brk", "ret", "err"}
        /\ \/ ul' = ul
           \/ /\ ul' = SubSeq(ul, 1, Len(ul) - 1) /\ Running.pc # "brk"
              /\ Running.pc = "err" => Running.k = "cleanup"
    BY <1>4 DEF RestoreBreaking, RestoreReturning, RestoreLast, At
  <2>2. CASE ul' = ul
    BY <1>1, <2>2, TextStays
  <2>3. CASE /\ ul' = SubSeq(ul, 1, Len(ul) - 1) /\ Running.pc # "brk"
             /\ Running.pc = "err" => Running.k = "cleanup"
    <3>1. ul # <<>> /\ ul[Len(ul)].e = "restore"
      <4> DEFINE b == Running.base
      <4>1. /\ b \in Nat /\ ul # <<>>
            /\ Running.k = "cleanup" => RestoreAt(ul, b + 1, "err")
            /\ Running.pc # "err" => RestoreAt(ul, b + 2, "ret")
            /\ Len(ul) = b + (IF Running.pc = "brk" THEN 3
                              ELSE IF Running.pc = "ret" THEN 2 ELSE 1)
        BY <2>1, GuardHere
      <4>2. CASE Running.pc = "ret"
        BY <4>1, <4>2 DEF RestoreAt
      <4>3. CASE Running.pc = "err"
        BY <2>3, <4>1, <4>3 DEF RestoreAt
      <4> QED
        BY <2>1, <2>3, <4>1, <4>2, <4>3
    <3>2. Len(ul') = Len(ul) - 1 /\ Agree(ul, ul', Len(ul')) /\ Len(ul) > 0
      BY <2>3, <3>1, OneLess
    <3>3. \A p \in Len(ul') + 1 .. Len(ul) : ul[p].e # "clearerr"
      BY <1>2, <3>1, <3>2
    <3>4. Len(ul') <= Len(ul)
      BY <1>2, <3>2
    <3> QED
      BY <1>1, <1>2, <3>2, <3>3, <3>4, ClearsCut, TextStays
  <2> QED
    BY <2>1, <2>2, <2>3
<1> QED
  BY <1>3, <1>4

LEMMA RunPopText ==
  ASSUME TypeOK, TypeOK', TextKept, RunPop
  PROVE  TextKept'
<1> DEFINE el == ul[Len(ul)]
<1>1. Len(ul) \in Nat /\ Len(ul') \in Nat
  BY LenProperties DEF TypeOK, UnwindOK
<1>2. ul # <<>> /\ ul' = SubSeq(ul, 1, Len(ul) - 1) /\ ~ At("catch", "protect")
  BY DEF RunPop, At
<1>3. IF el.e = "clearerr" THEN txt' = {} ELSE txt' = txt
  BY DEF RunPop
<1>4. CASE el.e = "clearerr"
  BY <1>3, <1>4 DEF TextKept
<1>5. CASE el.e # "clearerr"
  <2>1. Len(ul') = Len(ul) - 1 /\ Agree(ul, ul', Len(ul')) /\ Len(ul) > 0
    BY <1>2, OneLess
  <2>2. \A p \in Len(ul') + 1 .. Len(ul) : ul[p].e # "clearerr"
    BY <1>1, <1>5, <2>1
  <2>3. Len(ul') <= Len(ul)
    BY <1>1, <2>1
  <2> QED
    BY <1>1, <1>2, <1>3, <1>5, <2>1, <2>2, <2>3, ClearsCut, TextStays
<1> QED
  BY <1>4, <1>5

LEMMA NextText ==
  ASSUME TypeOK, TypeOK', Layout(cs, ul), Held(cs, ul), TextKept, [Next]_vars
  PROVE  TextKept'
<1>1. CASE UNCHANGED vars
  <2>1. cs' = cs /\ ul' = ul /\ txt' = txt
    BY <1>1 DEF vars
  <2> QED
    BY <2>1 DEF TextKept, At, Running, Depth
<1>2. CASE Easy \/ UnwindBodyDone \/ Interrupt
  <2>1. ul' = ul /\ txt' = txt /\ ~ At("catch", "protect")
    <3>1. CASE Easy
      BY <3>1, EasySteps DEF Quiet
    <3>2. CASE UnwindBodyDone
      BY <3>2 DEF UnwindBodyDone, At
    <3>3. CASE Interrupt
      BY <3>3 DEF Interrupt, Interruptible, AtStatement, At
    <3> QED
      BY <1>2, <3>1, <3>2, <3>3
  <2> QED
    BY <2>1, TextStays
<1>3. CASE CatchBind
  <2>1. StackOK /\ ~ Inside(Running) /\ Goto("protect") /\ Running.k = "catch"
    BY <1>3 DEF TypeOK, CatchBind, At, Inside
  <2>2. Went("protect")
    BY <2>1, Goings, Zenon DEF Pcs
  <2>3. Depth' = Depth /\ Depth' = Len(cs')
    BY <2>2, MovesGoes DEF Depth
  <2>4. cs'[Depth].k = "catch" /\ cs'[Depth].pc = "protect"
    BY <2>1, <2>2, MovesGoes DEF Moves
  <2>5. At("catch", "protect")'
    BY <2>3, <2>4 DEF At, Running
  <2> QED
    BY <2>5 DEF TextKept
<1>4. CASE CatchProtect \/ EvalFailed
  <2>1. \E k \in Nat : k > 0 /\ More(k) /\ New(1) = ElemOf("clearerr", NoFn)
    BY <1>4, GuardPushes
  <2>2. Clears(ul')
    BY <2>1, ClearsMore, SavedKinds
  <2> QED
    BY <2>2 DEF TextKept
<1> QED
  BY <1>1, <1>2, <1>3, <1>4, PushText, CutText, RunPopText, NextSteps

LEMMA InitText == Init => TextKept
BY DEF Init, TextKept

-----------------------------------------------------------------------------
(***************************************************************************)
(* error_state over the cleanup code                                       *)
(***************************************************************************)

Cleaned(fr) == fr.k = "unw" /\ fr.pc = "cleaned"
SavedError(u, fr) == u[fr.base + 1].val # 0

\* From the end of a body that has failed, either error_state is set or the
\* cleanup code that runs has saved that it was.
ErrAt(s, u, h, i) ==
  LET c == s[i + 2]
      r == s[i + 3]
  IN /\ i < Len(s) => RunOne(s[i + 1])
     /\ i + 1 < Len(s) => c.k = "cleanup"
     /\ s[i].flag =>
          /\ Len(s) <= i + 1 => h # 0
          /\ i + 2 <= Len(s) =>
               \/ c.pc \in {"begin", "done"} /\ Len(s) = i + 2 /\ h # 0
               \/ c.pc \in {"brk", "ret", "err"} /\ SavedError(u, c)
               \/ /\ c.pc = "done" /\ Len(s) = i + 3 /\ RunOne(r)
                  /\ \/ r.pc = "pop" /\ SavedError(u, c)
                     \/ r.pc = "done" /\ h # 0

ErrKept(s, u, h) == \A i \in 1 .. Len(s) : Cleaned(s[i]) => ErrAt(s, u, h, i)

\* The first element of a cleanup that has started stays.
LEMMA SavedStays ==
  ASSUME TypeOK, TypeOK', Layout(cs, ul), Layout(cs', ul'), Held(cs, ul), Held(cs', ul'),
         Along(ul, ul'), NEW j \in 1 .. Len(cs), j <= Len(cs'),
         Guards(cs[j]), Guards(cs'[j]), cs'[j].base = cs[j].base, SavedError(ul, cs[j])
  PROVE  SavedError(ul', cs'[j])
<1>1. /\ cs \in Seq(Frame) /\ cs' \in Seq(Frame) /\ ul \in Seq(Elem) /\ ul' \in Seq(Elem)
      /\ Len(ul) \in Nat /\ Len(ul') \in Nat /\ Len(cs) \in Nat /\ Len(cs') \in Nat
  BY LenProperties DEF TypeOK, StackOK, UnwindOK
<1>2. j \in 1 .. Len(cs') /\ Guarding(cs[j]) /\ Guarding(cs'[j])
  BY <1>1 DEF Guarding
<1>3. TryEnd(cs, ul, j) /\ TryEnd(cs', ul', j)
  BY <1>2 DEF Held, HeldAt
<1>4. /\ cs[j].base \in Nat /\ cs[j].base + Claim(cs[j]) <= Len(ul)
      /\ cs'[j].base + Claim(cs'[j]) <= Len(ul')
  BY <1>1, <1>2, <1>3, Room
<1>5. Claim(cs[j]) \in {1, 2, 3} /\ Claim(cs'[j]) \in {1, 2, 3}
  BY DEF Guards, Claim, Size
<1> DEFINE b == cs[j].base + 1
<1>6. b \in 1 .. Len(ul) /\ b \in 1 .. Len(ul')
  BY SMTT(30), <1>1, <1>4, <1>5
<1> HIDE DEF b
<1>7. ul'[b] = ul[b]
  BY ONLY <1>6, Along(ul, ul') DEF Along, Agree
<1> QED
  BY <1>7 DEF SavedError, b

\* A step of frames that stand above the cleanup, or a return.
LEMMA ErrBelow ==
  ASSUME TypeOK, TypeOK', Layout(cs, ul), Layout(cs', ul'), Held(cs, ul), Held(cs', ul'),
         Along(ul, ul'), Steps(cs, cs'), NEW i \in 1 .. Len(cs'), i < Depth,
         Cleaned(cs[i]), ErrAt(cs, ul, g["err"], i),
         RunOne(Running) \/ (Running.k = "cleanup" /\ i + 2 = Depth) => Leaves
  PROVE  ErrAt(cs', ul', g'["err"], i)
<1>1. Depth \in Nat \ {0} /\ Len(cs) = Depth /\ Running = cs[Depth] /\ Len(cs') \in Nat
  BY LenProperties, RunningFrame DEF TypeOK, StackOK, Running
<1>2. cs'[i] = cs[i] /\ Len(cs') >= Depth - 1
  BY <1>1 DEF Steps
<1>3. CASE i + 1 = Depth
  <2>1. RunOne(Running)
    BY <1>1, <1>3 DEF ErrAt
  <2>2. Len(cs') = i /\ g' = g
    BY <1>1, <1>2, <1>3, <2>1 DEF Leaves
  <2>3. cs[i].flag => g["err"] # 0
    BY <1>1, <1>3 DEF ErrAt
  <2> QED
    BY <1>1, <1>2, <2>2, <2>3 DEF ErrAt
<1>4. CASE i + 2 = Depth
  <2>1. Running.k = "cleanup" /\ RunOne(cs[i + 1])
    BY <1>1, <1>4 DEF ErrAt
  <2>2. Len(cs') = i + 1 /\ g' = g /\ Running.pc \in {"done", "cleaned"}
    BY <1>1, <1>2, <1>4, <2>1 DEF Leaves
  <2>3. cs'[i + 1] = cs[i + 1]
    <3>1. i + 1 \in 1 .. Len(cs') /\ i + 1 < Len(cs)
      BY <1>1, <1>4, <2>2
    <3> QED
      BY <3>1 DEF Steps
  <2>4. cs[i].flag => g["err"] # 0
    BY <1>1, <1>4, <2>2 DEF ErrAt
  <2> QED
    BY <1>1, <1>2, <2>1, <2>2, <2>3, <2>4 DEF ErrAt
<1>5. CASE i + 2 < Depth
  <2> DEFINE j == i + 2
  <2>1. /\ j \in 1 .. Len(cs) /\ j < Len(cs) /\ j \in 1 .. Len(cs') /\ j <= Len(cs')
        /\ i + 1 \in 1 .. Len(cs') /\ i + 1 < Len(cs)
    BY <1>1, <1>2, <1>5
  <2>2. cs'[j] = cs[j] /\ cs'[i + 1] = cs[i + 1]
    BY <2>1 DEF Steps
  <2>3. RunOne(cs[i + 1]) /\ cs[j].k = "cleanup"
    BY <1>1, <1>5 DEF ErrAt
  <2>4. CASE cs[j].pc \in {"brk", "ret", "err"} /\ (cs[i].flag => SavedError(ul, cs[j]))
    <3>1. Guards(cs[j])
      BY <2>3, <2>4 DEF Guards
    <3> HIDE DEF j
    <3>2. cs[i].flag => SavedError(ul', cs'[j])
      BY <2>1, <2>2, <2>4, <3>1, SavedStays
    <3>3. ~ Len(cs') <= i + 1
      BY <1>1, <1>2, <1>5
    <3> QED
      BY <1>2, <2>2, <2>3, <2>4, <3>2, <3>3 DEF ErrAt, j
  <2>5. CASE cs[i].flag /\ cs[j].pc \notin {"brk", "ret", "err"}
    <3>1. /\ cs[j].pc = "done" /\ Depth = i + 3 /\ RunOne(Running)
          /\ \/ Running.pc = "pop" /\ SavedError(ul, cs[j])
             \/ Running.pc = "done" /\ g["err"] # 0
      BY <1>1, <1>5, <2>5 DEF ErrAt
    <3>2. Len(cs') = i + 2 /\ g' = g /\ g["err"] # 0
      BY <1>1, <1>2, <3>1 DEF Leaves
    <3> QED
      BY <1>2, <2>2, <2>3, <3>1, <3>2 DEF ErrAt
  <2>6. CASE ~ cs[i].flag
    BY <1>2, <2>2, <2>3, <2>6 DEF ErrAt
  <2>7. cs[i].flag /\ cs[j].pc \in {"brk", "ret", "err"} => SavedError(ul, cs[j])
    BY <1>1, <1>5 DEF ErrAt
  <2> QED
    BY <2>4, <2>5, <2>6, <2>7
<1> QED
  BY <1>1, <1>3, <1>4, <1>5

\* The frame of a step that goes on.
LEMMA MovesFrame ==
  ASSUME NEW pc, Moves(pc), NEW i \in 1 .. Len(cs'), Cleaned(cs'[i]),
         ~ (Running.k = "unw" /\ pc = "cleaned"),
         Len(cs') = Depth + 1 => ~ Cleaned(cs'[Depth + 1])
  PROVE  i < Depth /\ i \in 1 .. Len(cs) /\ cs'[i] = cs[i]
<1>1. i # Depth
  BY DEF Moves, Cleaned
<1>2. i < Depth
  <2>1. Depth \in Nat /\ (Len(cs') = Depth \/ Len(cs') = Depth + 1)
    BY DEF Moves
  <2> QED
    BY <1>1, <2>1
<1>3. i \in 1 .. Len(cs) /\ i < Len(cs)
  BY <1>2 DEF Moves
<1> QED
  BY <1>2, <1>3 DEF Moves, Steps

LEMMA CleanupBeginErr ==
  ASSUME TypeOK, TypeOK', Layout(cs, ul), Held(cs, ul), ErrKept(cs, ul, g["err"]),
         CleanupBegin
  PROVE  ErrKept(cs', ul', g'["err"])
<1> SUFFICES ASSUME NEW i \in 1 .. Len(cs'), Cleaned(cs'[i])
             PROVE  ErrAt(cs', ul', g'["err"], i)
  BY DEF ErrKept
<1>1. /\ Depth \in Nat \ {0} /\ Len(cs) = Depth /\ Running = cs[Depth] /\ Len(cs') \in Nat
      /\ StackOK /\ UnwindOK
  BY LenProperties, RunningFrame DEF TypeOK, StackOK, Running
<1>2. /\ Moves("brk") /\ Running.k = "cleanup" /\ Running.pc = "begin"
      /\ Len(cs') = Depth + 1 => cs'[Depth + 1].k = "list"
  BY GuardMoves DEF CleanupBegin, At
<1>3. i < Depth /\ i \in 1 .. Len(cs) /\ cs'[i] = cs[i]
  BY <1>2, MovesFrame DEF Cleaned
<1>4. Layout(cs', ul') /\ Held(cs', ul') /\ Along(ul, ul')
  BY NextLayout, NextHeld, NextAlong DEF Next, Work, Protections
<1>5. Cleaned(cs[i]) /\ ErrAt(cs, ul, g["err"], i)
  BY <1>3 DEF ErrKept
<1>6. CASE i + 2 = Depth
  <2>1. RunOne(cs[i + 1]) /\ cs'[i + 1] = cs[i + 1]
    <3>1. i + 1 \in 1 .. Len(cs') /\ i + 1 < Len(cs)
      BY <1>1, <1>2, <1>6 DEF Moves
    <3> QED
      BY <1>2, <1>5, <3>1 DEF Moves, Steps, ErrAt
  <2>2. cs[i].flag => g["err"] # 0
    BY <1>1, <1>2, <1>5, <1>6 DEF ErrAt
  <2>3. cs'[i + 2].k = "cleanup" /\ cs'[i + 2].pc = "brk" /\ Len(cs') >= i + 2
        /\ cs'[i + 2].base = Running.base
    BY <1>1, <1>2, <1>6 DEF Moves
  <2>4. Len(ul) = Running.base
    <3>1. Idle(Running.k, Running.pc)
      BY <1>2 DEF Idle
    <3> QED
      BY <3>1, IdleHere
  <2>5. ul'[Running.base + 1].val = g["err"]
    BY <2>4, GuardPushes, SavedKinds DEF New
  <2>6. cs[i].flag => SavedError(ul', cs'[i + 2])
    BY <2>2, <2>3, <2>5 DEF SavedError
  <2> QED
    BY <1>1, <1>3, <2>1, <2>3, <2>6 DEF ErrAt
<1>7. CASE i + 2 # Depth
  BY <1>2, <1>3, <1>4, <1>5, <1>7, ErrBelow DEF Moves, RunOne
<1> QED
  BY <1>6, <1>7

\* The last protection of a cleanup lies alone above its base, and in the end
\* below what its run pops.
LEMMA RestoresErr ==
  ASSUME TypeOK, TypeOK', Layout(cs, ul), Held(cs, ul), ErrKept(cs, ul, g["err"]),
         RestoreBreaking \/ RestoreReturning \/ RestoreLast
  PROVE  ErrKept(cs', ul', g'["err"])
<1> SUFFICES ASSUME NEW i \in 1 .. Len(cs'), Cleaned(cs'[i])
             PROVE  ErrAt(cs', ul', g'["err"], i)
  BY DEF ErrKept
<1>1. /\ Depth \in Nat \ {0} /\ Len(cs) = Depth /\ Running = cs[Depth] /\ Len(cs') \in Nat
      /\ g \in [Flags -> FlagValues]
  BY LenProperties, RunningFrame DEF TypeOK, StackOK, Running, FlagsOK
<1>2. /\ Moves(After(Running.pc)) /\ Running.k \in {"catch", "cleanup"}
      /\ Running.pc \in {"brk", "ret", "err"}
      /\ \/ /\ Len(cs') = Depth + 1 /\ ul' = ul /\ RunOne(cs'[Depth + 1])
            /\ cs'[Depth + 1].pc = "pop"
         \/ /\ Len(cs') = Depth /\ ul' = SubSeq(ul, 1, Len(ul) - 1)
            /\ Running.pc # "brk"
  BY RestoreMoves
<1>3. i < Depth /\ i \in 1 .. Len(cs) /\ cs'[i] = cs[i]
  <2>1. Len(cs') = Depth + 1 => ~ Cleaned(cs'[Depth + 1])
    BY <1>1, <1>2 DEF Cleaned, RunOne
  <2> QED
    BY <1>2, <2>1, MovesFrame
<1>4. Layout(cs', ul') /\ Held(cs', ul') /\ Along(ul, ul')
  BY NextLayout, NextHeld, NextAlong DEF Next, Work, Protections
<1>5. Cleaned(cs[i]) /\ ErrAt(cs, ul, g["err"], i)
  BY <1>3 DEF ErrKept
<1>6. CASE i + 2 = Depth
  <2> DEFINE c == cs'[i + 2]
             b == Running.base
  <2>1. RunOne(cs[i + 1]) /\ cs'[i + 1] = cs[i + 1] /\ Running.k = "cleanup"
    <3>1. i + 1 \in 1 .. Len(cs') /\ i + 1 < Len(cs)
      BY <1>1, <1>2, <1>6
    <3> QED
      BY <1>1, <1>2, <1>5, <1>6, <3>1 DEF Moves, Steps, ErrAt
  <2>2. cs[i].flag => SavedError(ul, Running)
    BY <1>1, <1>2, <1>5, <1>6 DEF ErrAt
  <2>3. c.k = "cleanup" /\ c.pc = After(Running.pc) /\ Len(cs') >= i + 2 /\ c.base = b
    BY <1>1, <1>2, <1>6, <2>1 DEF Moves
  <2>4. /\ b \in Nat /\ ul # <<>>
        /\ Len(ul) = b + (IF Running.pc = "brk" THEN 3
                          ELSE IF Running.pc = "ret" THEN 2 ELSE 1)
    BY <1>2, GuardHere
  <2>5. CASE Running.pc \in {"brk", "ret"}
    <3>1. b + 1 \in 1 .. Len(ul') /\ ul'[b + 1] = ul[b + 1]
      <4>1. CASE ul' = ul
        BY <2>4, <2>5, <4>1
      <4>2. CASE ul' = SubSeq(ul, 1, Len(ul) - 1) /\ Running.pc # "brk"
        <5>1. Len(ul') = Len(ul) - 1 /\ Agree(ul, ul', Len(ul'))
          BY <2>4, <4>2, OneLess
        <5>2. b + 1 \in 1 .. Len(ul')
          BY <2>4, <2>5, <4>2, <5>1
        <5> QED
          BY <5>1, <5>2 DEF Agree
      <4> QED
        BY <1>2, <4>1, <4>2
    <3>2. cs[i].flag => SavedError(ul', c)
      BY <2>2, <2>3, <3>1 DEF SavedError
    <3>3. c.pc \in {"ret", "err"}
      BY <2>3, <2>5 DEF After
    <3>4. ~ Len(cs') <= i + 1
      BY <1>1, <2>3
    <3> QED
      BY <1>3, <2>1, <2>3, <3>2, <3>3, <3>4 DEF ErrAt
  <2>6. CASE Running.pc = "err"
    <3>1. RestoreLast /\ c.pc = "done"
      BY <2>3, <2>6 DEF RestoreBreaking, RestoreReturning, At, After
    <3>2. CASE g["err"] # 0
      <4>1. Len(cs') = i + 2
        <5>1. ul' # ul
          <6>1. ul' = SubSeq(ul, 1, Len(ul) - 1)
            BY <2>1, <3>1, <3>2 DEF RestoreLast
          <6>2. Len(ul') = Len(ul) - 1 /\ Len(ul) \in Nat
            BY <2>4, <6>1, OneLess
          <6> QED
            BY <6>2
        <5> QED
          BY <1>1, <1>2, <1>6, <5>1
      <4>2. g'["err"] # 0
        BY <3>1, <3>2 DEF RestoreLast
      <4> QED
        BY <1>1, <1>3, <2>1, <2>3, <3>1, <4>1, <4>2 DEF ErrAt
    <3>3. CASE g["err"] = 0
      <4>1. ul' = ul
        BY <3>1, <3>3 DEF RestoreLast
      <4>2. Len(cs') = i + 3 /\ RunOne(cs'[i + 3]) /\ cs'[i + 3].pc = "pop"
        <5>1. ul' # SubSeq(ul, 1, Len(ul) - 1)
          <6> SUFFICES ASSUME ul' = SubSeq(ul, 1, Len(ul) - 1)
                       PROVE  FALSE
            OBVIOUS
          <6>1. Len(ul') = Len(ul) - 1 /\ Len(ul) \in Nat
            BY <2>4, OneLess
          <6> QED
            BY <4>1, <6>1
        <5>2. i + 3 = Depth + 1
          BY <1>1, <1>6
        <5> QED
          BY <1>2, <5>1, <5>2
      <4>3. cs[i].flag => SavedError(ul', c)
        BY <2>2, <2>3, <4>1 DEF SavedError
      <4>4. ~ Len(cs') <= i + 1
        BY <4>2
      <4> QED
        BY <1>3, <2>1, <2>3, <3>1, <4>2, <4>3, <4>4 DEF ErrAt
    <3> QED
      BY <3>2, <3>3
  <2> QED
    BY <1>2, <2>5, <2>6
<1>7. CASE i + 2 # Depth
  BY <1>2, <1>3, <1>4, <1>5, <1>7, ErrBelow DEF Moves, RunOne
<1> QED
  BY <1>6, <1>7

LEMMA BodyDoneErr ==
  ASSUME TypeOK, TypeOK', Layout(cs, ul), Held(cs, ul), ErrKept(cs, ul, g["err"]),
         UnwindBodyDone
  PROVE  ErrKept(cs', ul', g'["err"])
<1> SUFFICES ASSUME NEW i \in 1 .. Len(cs'), Cleaned(cs'[i])
             PROVE  ErrAt(cs', ul', g'["err"], i)
  BY DEF ErrKept
<1>1. /\ Depth \in Nat \ {0} /\ Len(cs) = Depth /\ Running = cs[Depth] /\ Len(cs') \in Nat
  BY LenProperties, RunningFrame DEF TypeOK, StackOK, Running
<1>2. /\ Moves("cleaned") /\ Running.k = "unw" /\ Running.pc = "body"
      /\ Len(cs') = Depth + 1 /\ ul' = ul /\ g' = g
      /\ RunOne(cs'[Depth + 1]) /\ cs'[Depth + 1].pc = "pop"
      /\ cs'[Depth].flag => g["err"] # 0
  BY BodyDoneMoves
<1>3. CASE i < Depth
  <2>1. cs'[i] = cs[i] /\ i \in 1 .. Len(cs)
    BY <1>1, <1>2, <1>3 DEF Moves, Steps
  <2>2. Layout(cs', ul') /\ Held(cs', ul') /\ Along(ul, ul')
    BY NextLayout, NextHeld, NextAlong DEF Next, Work, Protections
  <2>3. Cleaned(cs[i]) /\ ErrAt(cs, ul, g["err"], i)
    BY <2>1 DEF ErrKept
  <2> QED
    BY <1>2, <1>3, <2>2, <2>3, ErrBelow DEF Moves, RunOne
<1>4. CASE i = Depth
  BY <1>1, <1>2, <1>4 DEF ErrAt
<1>5. i # Depth + 1
  BY <1>2 DEF Cleaned, RunOne
<1> QED
  BY <1>1, <1>2, <1>3, <1>4, <1>5

\* One element is popped.
LEMMA RunPopErr ==
  ASSUME TypeOK, TypeOK', Layout(cs, ul), Held(cs, ul), ErrKept(cs, ul, g["err"]),
         RunPop
  PROVE  ErrKept(cs', ul', g'["err"])
<1> SUFFICES ASSUME NEW i \in 1 .. Len(cs'), Cleaned(cs'[i])
             PROVE  ErrAt(cs', ul', g'["err"], i)
  BY DEF ErrKept
<1> DEFINE el == ul[Len(ul)]
           pc == IF Running.tag = "one" \/ (el.e = "mark" /\ el.tag = Running.tag)
                 THEN "done" ELSE "pop"
<1>1. /\ Depth \in Nat \ {0} /\ Len(cs) = Depth /\ Running = cs[Depth] /\ Len(cs') \in Nat
      /\ g \in [Flags -> FlagValues] /\ Len(ul) \in Nat /\ StackOK
  BY LenProperties, RunningFrame DEF TypeOK, StackOK, Running, FlagsOK, UnwindOK
<1>2. /\ Moves(pc) /\ Running.k = "run" /\ Running.pc = "pop" /\ ul # <<>>
      /\ cs'[Depth].tag = Running.tag
      /\ ul' = SubSeq(ul, 1, Len(ul) - 1)
      /\ IF el.e \in {"catch", "cleanup"}
         THEN /\ Len(cs') = Depth + 1 /\ cs'[Depth + 1].k = el.e
              /\ cs'[Depth + 1].pc = "begin"
         ELSE Len(cs') = Depth
  BY RunPopMoves DEF At
<1>3. g' = IF el.e = "restore" THEN [g EXCEPT ![el.tag] = el.val] ELSE g
  BY DEF RunPop
<1>4. i < Depth /\ i \in 1 .. Len(cs) /\ cs'[i] = cs[i]
  <2>1. Len(cs') = Depth + 1 => ~ Cleaned(cs'[Depth + 1])
    BY <1>1, <1>2 DEF Cleaned
  <2> HIDE DEF pc, el
  <2> QED
    BY <1>2, <2>1, MovesFrame
<1>5. Layout(cs', ul') /\ Held(cs', ul') /\ Along(ul, ul')
  BY NextLayout, NextHeld, NextAlong DEF Next, Work
<1>6. Cleaned(cs[i]) /\ ErrAt(cs, ul, g["err"], i)
  BY <1>4 DEF ErrKept
<1>7. CASE ~ RunOne(Running)
  <2> HIDE DEF pc, el
  <2> QED
    BY <1>2, <1>4, <1>5, <1>6, <1>7, ErrBelow DEF Moves
<1>8. CASE RunOne(Running)
  <2>1. Running.tag = "one" /\ pc = "done" /\ cs'[Depth].k = "run" /\ cs'[Depth].pc = "done"
    BY <1>2, <1>8 DEF RunOne, Moves
  <2>2. PopsOf(ul, cs[Depth - 1]) /\ Depth - 1 \in 1 .. Len(cs)
    BY <1>1, <1>2, <1>8 DEF Held, HeldAt, RunEnd
  <2> HIDE DEF pc
  <2>3. CASE i + 1 = Depth
    <3>1. el.e = "cleanup"
      <4>1. Depth - 1 = i
        BY <1>1, <2>3
      <4> QED
        BY <1>6, <2>2, <4>1 DEF PopsOf, Cleaned
    <3>2. g' = g /\ (cs[i].flag => g["err"] # 0)
      BY <1>1, <1>3, <1>6, <2>3, <3>1 DEF ErrAt
    <3>3. Len(cs') = i + 2 /\ cs'[i + 2].k = "cleanup" /\ cs'[i + 2].pc = "begin"
          /\ RunOne(cs'[i + 1])
      <4>1. i + 2 = Depth + 1
        BY <1>1, <2>3
      <4> QED
        BY <1>2, <2>1, <2>3, <3>1, <4>1 DEF RunOne
    <3> QED
      BY <1>1, <1>4, <3>2, <3>3 DEF ErrAt
  <2>4. i + 2 # Depth
    BY <1>1, <1>2, <1>6 DEF ErrAt
  <2>5. CASE i + 2 < Depth
    <3> DEFINE j == i + 2
    <3>1. /\ j \in 1 .. Len(cs) /\ j < Len(cs) /\ j \in 1 .. Len(cs') /\ j <= Len(cs')
          /\ i + 1 \in 1 .. Len(cs') /\ i + 1 < Len(cs)
      BY <1>1, <1>2, <2>5 DEF Moves
    <3>2. cs'[j] = cs[j] /\ cs'[i + 1] = cs[i + 1]
      BY <1>2, <3>1 DEF Moves, Steps
    <3>3. RunOne(cs[i + 1]) /\ cs[j].k = "cleanup" /\ ~ Len(cs') <= i + 1
      BY <1>1, <1>6, <2>5, <3>1 DEF ErrAt
    <3>4. CASE cs[j].pc \in {"brk", "ret", "err"}
      <4>1. cs[i].flag => SavedError(ul, cs[j])
        BY <1>1, <1>6, <2>5, <3>4 DEF ErrAt
      <4>2. Guards(cs[j])
        BY <3>3, <3>4 DEF Guards
      <4> HIDE DEF j
      <4>3. cs[i].flag => SavedError(ul', cs'[j])
        BY <1>5, <3>1, <3>2, <4>1, <4>2, SavedStays
      <4> QED
        BY <1>4, <3>2, <3>3, <3>4, <4>3 DEF ErrAt, j
    <3>5. CASE cs[j].pc \notin {"brk", "ret", "err"} /\ cs[i].flag
      <4>1. cs[j].pc = "done" /\ Depth = i + 3 /\ SavedError(ul, cs[j])
        BY <1>1, <1>2, <1>6, <2>5, <3>5 DEF ErrAt
      <4>2. Depth - 1 = j
        BY <1>1, <4>1
      <4>3. el.e = "restore" /\ el.tag = "err"
        BY <2>2, <3>3, <4>1, <4>2 DEF PopsOf, RestoreAt
      <4>4. Len(ul) = cs[j].base + 1
        <5>1. Pending(ul, cs[Depth - 1], Running, cs[Depth - 1].base, Len(ul))
          BY <1>1, <1>2, RunHere DEF At
        <5>2. cs[j].base \in Nat
          BY <1>1, <3>1, StackFacts DEF StackOK
        <5> QED
          BY SMTT(30), <2>1, <3>3, <4>1, <4>2, <5>1, <5>2 DEF Pending, Size, TagOf
      <4>5. g'["err"] # 0
        BY <1>1, <1>3, <4>1, <4>3, <4>4 DEF SavedError, Flags
      <4>6. Len(cs') = i + 3 /\ RunOne(cs'[i + 3]) /\ cs'[i + 3].pc = "done"
        BY <1>1, <1>2, <2>1, <4>1, <4>3 DEF RunOne
      <4> QED
        BY <1>4, <3>2, <3>3, <4>1, <4>5, <4>6 DEF ErrAt
    <3>6. CASE ~ cs[i].flag
      BY <1>4, <3>2, <3>3, <3>6 DEF ErrAt
    <3> QED
      BY <3>4, <3>5, <3>6
  <2>6. i + 1 = Depth \/ i + 2 = Depth \/ i + 2 < Depth
    BY <1>1, <1>4
  <2> QED
    BY <2>3, <2>4, <2>5, <2>6
<1> QED
  BY <1>7, <1>8

\* What is thrown away by an interrupt ends above the cleanup code or below it.
LEMMA InterruptErr ==
  ASSUME TypeOK, TypeOK', Layout(cs, ul), Held(cs, ul), ErrKept(cs, ul, g["err"]),
         Interrupt
  PROVE  ErrKept(cs', ul', g'["err"])
<1> SUFFICES ASSUME NEW i \in 1 .. Len(cs'), Cleaned(cs'[i])
             PROVE  ErrAt(cs', ul', g'["err"], i)
  BY DEF ErrKept
<1>1. /\ Running.k \in {"list", "while", "for"} /\ Len(cs) = Depth
      /\ Running = cs[Depth] /\ ul' = ul /\ Depth \in Nat \ {0}
  BY InterruptMoves
<1>2. PICK j \in 1 .. Depth :
        /\ j < Depth /\ cs[j].k \in {"main", "script"} /\ Len(cs') = j
        /\ cs'[j].k = cs[j].k /\ cs'[j].pc = "jumped"
        /\ \A l \in 1 .. j - 1 : cs'[l] = cs[l]
  BY InterruptMoves
<1>3. i < j /\ cs'[i] = cs[i] /\ i \in 1 .. Len(cs)
  <2>1. i # j
    BY <1>2 DEF Cleaned
  <2> QED
    BY <1>1, <1>2, <2>1
<1>4. Cleaned(cs[i]) /\ ErrAt(cs, ul, g["err"], i)
  BY <1>3 DEF ErrKept
<1>5. i + 1 # j
  BY <1>1, <1>2, <1>3, <1>4 DEF ErrAt, RunOne
<1>6. i + 2 # j
  BY <1>1, <1>2, <1>3, <1>4 DEF ErrAt, RunOne
<1>7. i + 2 < j /\ cs'[i + 1] = cs[i + 1] /\ cs'[i + 2] = cs[i + 2]
  BY <1>2, <1>3, <1>5, <1>6
<1>8. /\ RunOne(cs[i + 1]) /\ cs[i + 2].k = "cleanup"
      /\ cs[i].flag => cs[i + 2].pc \in {"brk", "ret", "err"} /\ SavedError(ul, cs[i + 2])
  BY <1>1, <1>2, <1>4, <1>7 DEF ErrAt, RunOne
<1>9. ~ Len(cs') <= i + 1
  BY <1>2, <1>7
<1> QED
  BY <1>1, <1>3, <1>7, <1>8, <1>9 DEF ErrAt

LEMMA NextErr ==
  ASSUME TypeOK, TypeOK', Layout(cs, ul), Held(cs, ul), ErrKept(cs, ul, g["err"]),
         [Next]_vars
  PROVE  ErrKept(cs', ul', g'["err"])
<1>1. /\ Depth \in Nat \ {0} /\ Len(cs) = Depth /\ Running = cs[Depth] /\ Len(cs') \in Nat
  BY LenProperties, RunningFrame DEF TypeOK, StackOK, Running
<1>2. Layout(cs', ul') /\ Held(cs', ul') /\ Along(ul, ul')
  BY NextLayout, NextHeld, NextAlong
<1>3. CASE UNCHANGED vars
  <2>1. cs' = cs /\ ul' = ul /\ g' = g
    BY <1>3 DEF vars
  <2> QED
    BY <2>1
<1>4. ASSUME Steps(cs, cs'), RunOne(Running) \/ Running.k = "cleanup" => Leaves,
             \A i \in 1 .. Len(cs') : i >= Depth => ~ Cleaned(cs'[i])
      PROVE  ErrKept(cs', ul', g'["err"])
  <2> SUFFICES ASSUME NEW i \in 1 .. Len(cs'), Cleaned(cs'[i])
               PROVE  ErrAt(cs', ul', g'["err"], i)
    BY DEF ErrKept
  <2>1. i < Depth /\ cs'[i] = cs[i] /\ i \in 1 .. Len(cs)
    BY <1>1, <1>4 DEF Steps
  <2>2. Cleaned(cs[i]) /\ ErrAt(cs, ul, g["err"], i)
    BY <2>1 DEF ErrKept
  <2> QED
    BY <1>2, <1>4, <2>1, <2>2, ErrBelow
<1>5. ASSUME Frames
      PROVE  ErrKept(cs', ul', g'["err"])
  <2>1. \A i \in 1 .. Len(cs') : i >= Depth => ~ Cleaned(cs'[i])
    BY <1>5 DEF Frames, Watched, Cleaned
  <2> QED
    BY <1>4, <1>5, <2>1 DEF Frames
<1>6. CASE Easy \/ TrySucceeded \/ CatchBind \/ ScriptBegin \/ EvalFailed \/ CallBegin
           \/ CallPush \/ CallBind
  BY <1>5, <1>6, EasySteps, OrdinaryFrames, MovesOrdinary, CallFrames, CallBindOrdinary
<1>7. ASSUME AtStatement, NEW b \in BOOLEAN, Eval(b)
      PROVE  ErrKept(cs', ul', g'["err"])
  BY <1>5, <1>7, EvalStatementOrdinary, OrdinaryFrames
<1>8. CASE CatchProtect
  <2>1. /\ Moves("brk") /\ Len(cs') = Depth + 1 => cs'[Depth + 1].k = "list"
        /\ Running.k = "catch"
    BY <1>8, GuardMoves DEF CatchProtect, At
  <2>2. \A i \in 1 .. Len(cs') : i >= Depth => ~ Cleaned(cs'[i])
    <3> SUFFICES ASSUME NEW i \in 1 .. Len(cs'), i >= Depth
                 PROVE  ~ Cleaned(cs'[i])
      OBVIOUS
    <3>1. i = Depth \/ (i = Depth + 1 /\ Len(cs') = Depth + 1)
      BY <1>1, <1>8, GuardMoves DEF Moves
    <3>2. Moves("brk") /\ (Len(cs') = Depth + 1 => cs'[Depth + 1].k = "list")
      BY <1>8, GuardMoves
    <3> QED
      BY <3>1, <3>2 DEF Moves, Cleaned
  <2>3. Steps(cs, cs') /\ Running.k = "catch"
    BY <1>8, GuardMoves DEF CatchProtect, At, Moves
  <2> QED
    BY <1>4, <2>2, <2>3 DEF RunOne
<1>9. ASSUME AtStatement, NEW b \in BOOLEAN, Try(b)
      PROVE  ErrKept(cs', ul', g'["err"])
  <2>1. /\ Steps(cs, cs') /\ Len(cs') = Depth + 2 /\ cs'[Depth].k = "list"
        /\ cs'[Depth + 1].k = "try" /\ cs'[Depth + 2].k = "list" /\ Running.k = "list"
    BY <1>9, TryMoves DEF AtStatement
  <2>2. \A i \in 1 .. Len(cs') : i >= Depth => i \in {Depth, Depth + 1, Depth + 2}
    BY <1>1, <2>1
  <2>3. \A i \in {Depth, Depth + 1, Depth + 2} : ~ Cleaned(cs'[i])
    BY <2>1 DEF Cleaned
  <2> QED
    BY <1>4, <2>1, <2>2, <2>3 DEF RunOne
<1>10. ASSUME AtStatement, UnwindProtect
       PROVE  ErrKept(cs', ul', g'["err"])
  <2>1. /\ Steps(cs, cs') /\ Len(cs') = Depth + 2 /\ cs'[Depth].k = "list"
        /\ cs'[Depth + 1].pc = "body" /\ cs'[Depth + 2].k = "list" /\ Running.k = "list"
    BY <1>10, UnwindMoves DEF AtStatement
  <2>2. \A i \in 1 .. Len(cs') : i >= Depth => i \in {Depth, Depth + 1, Depth + 2}
    BY <1>1, <2>1
  <2>3. \A i \in {Depth, Depth + 1, Depth + 2} : ~ Cleaned(cs'[i])
    BY <2>1 DEF Cleaned
  <2> QED
    BY <1>4, <2>1, <2>2, <2>3 DEF RunOne
<1> QED
  BY <1>3, <1>6, <1>7, <1>8, <1>9, <1>10, CleanupBeginErr, RestoresErr, BodyDoneErr,
     RunPopErr, InterruptErr, NextSteps

LEMMA InitErr == Init => ErrKept(cs, ul, g["err"])
<1> SUFFICES ASSUME Init
             PROVE  ErrKept(cs, ul, g["err"])
  OBVIOUS
<1>1. Len(cs) = 1 /\ cs[1].k = "main"
  BY DEF Init
<1> QED
  BY <1>1 DEF ErrKept, Cleaned

LEMMA ErrSurvives ==
  ASSUME TypeOK, ErrKept(cs, ul, g["err"])
  PROVE  ErrorSurvivesCleanup
<1> SUFFICES ASSUME At("unw", "cleaned"), Running.flag
             PROVE  g["err"] # 0
  BY DEF ErrorSurvivesCleanup
<1>1. /\ Depth \in Nat \ {0} /\ Len(cs) = Depth /\ Running = cs[Depth]
  BY RunningFrame DEF TypeOK, Running
<1>2. ErrAt(cs, ul, g["err"], Depth)
  BY <1>1 DEF ErrKept, Cleaned, At
<1> QED
  BY <1>1, <1>2 DEF ErrAt

\* An error in the body of an unwind_protect outlives its cleanup code,
\* whatever that code contains: another unwind_protect, a try that catches
\* errors of its own, an error, a return, or a script that is interrupted.
THEOREM ErrorOutlivesCleanup == Spec => []ErrorSurvivesCleanup
<1>1. Init => Layout(cs, ul) /\ Held(cs, ul) /\ ErrKept(cs, ul, g["err"])
  BY InitLayout, InitHeld, InitErr
<1>2. TypeOK /\ TypeOK' /\ Layout(cs, ul) /\ Held(cs, ul) /\ ErrKept(cs, ul, g["err"])
        /\ [Next]_vars
        => (Layout(cs, ul) /\ Held(cs, ul) /\ ErrKept(cs, ul, g["err"]))'
  BY NextLayout, NextHeld, NextErr
<1>3. TypeOK /\ ErrKept(cs, ul, g["err"]) => ErrorSurvivesCleanup
  BY ErrSurvives
<1> QED
  BY <1>1, <1>2, <1>3, TypeCorrect, PTL DEF Spec

-----------------------------------------------------------------------------
(***************************************************************************)
(* What popping brings back                                                *)
(***************************************************************************)

\* The elements that do not concern calls: they are pushed, and run_unwind_protect
\* and run_unwind_frame stop, where no call is in pieces.
Foreign == {"mark", "restore", "catch", "cleanup", "clearerr"}

\* The outer activations whose locals are saved when there are a of them.
Outer(a) == [i \in 1 .. a - 1 |-> i]

\* The locals, the argument count and the return list are those of the last
\* activation.
Bound(s) ==
  /\ s.ctx = Outer(s.depth) /\ s.sym = s.depth /\ s.nargs = s.depth
  /\ s.depth > 0 => s.vr = s.depth

Active(h, c) == c # NoFn => c \in Fn /\ h[c].depth > 0
AllBound(h, c) == (\A f \in Fn : Bound(h[f])) /\ Active(h, c)

\* f has been called once more and has no context yet, and then no locals yet.
Deepened(h, c, f) ==
  /\ \A e \in Fn \ {f} : Bound(h[e])
  /\ LET s == h[f]
     IN /\ s.depth > 1 /\ s.ctx = Outer(s.depth - 1)
        /\ s.sym = s.depth - 1 /\ s.nargs = s.depth - 1 /\ s.vr = s.depth - 1
  /\ Active(h, c)

Opened(h, c, f) ==
  /\ \A e \in Fn \ {f} : Bound(h[e])
  /\ LET s == h[f]
     IN /\ s.depth > 0 /\ s.ctx = Outer(s.depth)
        /\ s.sym = 0 /\ s.nargs = s.depth - 1
        /\ s.depth > 1 => s.vr = s.depth
  /\ Active(h, c)

\* The state s is the one that popping el makes of t.  The vr_list of the first
\* activation is not protected.
Undoes(el, s, t) ==
  CASE el.e = "depth" ->
         /\ s.depth = el.d
         /\ s.ctx = t.ctx /\ s.sym = t.sym /\ s.nargs = t.nargs /\ s.vr = t.vr
    [] el.e = "popctx" ->
         /\ t.ctx = Append(s.ctx, s.sym)
         /\ s.depth = t.depth /\ s.nargs = t.nargs /\ s.vr = t.vr
    [] el.e = "vr" ->
         /\ s.vr = el.d
         /\ s.depth = t.depth /\ s.ctx = t.ctx /\ s.sym = t.sym /\ s.nargs = t.nargs
    [] el.e = "delvr" ->
         /\ s.vr = 0
         /\ s.depth = t.depth /\ s.ctx = t.ctx /\ s.sym = t.sym /\ s.nargs = t.nargs
    [] el.e = "clearsym" ->
         /\ s.sym = 0 /\ t.sym # 0 /\ (s.ctx # <<>> => s.vr = t.vr)
         /\ s.depth = t.depth /\ s.ctx = t.ctx /\ s.nargs = t.nargs
    [] el.e = "clearargs" -> s = t
    [] el.e = "nargs" ->
         /\ s.nargs = el.d
         /\ s.depth = t.depth /\ s.ctx = t.ctx /\ s.sym = t.sym /\ s.vr = t.vr

\* From the functions as they are in i, with caller d, el leads back to h and c.
Link(h, c, el, i, d) ==
  /\ IF el.e \in FnElems
     THEN Undoes(el, h[el.f], i[el.f]) /\ \A f \in Fn \ {el.f} : i[f] = h[f]
     ELSE i = h
  /\ IF el.e = "fun" THEN el.f = c ELSE d = c
  /\ el.e \in Foreign => AllBound(h, c)

Past(n) == [0 .. n -> [Fn -> FnState]]
Callers(n) == [0 .. n -> Fn \cup {NoFn}]

Clean(h, c) ==
  /\ \A f \in Fn : h[f].depth = 0 /\ h[f].ctx = <<>> /\ h[f].sym = 0 /\ h[f].nargs = 0
  /\ c = NoFn

Tells(H, C, u, n) ==
  /\ Clean(H[0], C[0])
  /\ \A p \in 1 .. n : Link(H[p - 1], C[p - 1], u[p], H[p], C[p])

\* Popping the first n elements of u leads from h and c back to the beginning.
Reaches(u, n, h, c) ==
  \E H \in Past(n), C \in Callers(n) : Tells(H, C, u, n) /\ H[n] = h /\ C[n] = c

LEMMA ReachAgree ==
  ASSUME NEW u, NEW w, NEW n \in Nat, NEW h, NEW c, Agree(u, w, n), Reaches(u, n, h, c)
  PROVE  Reaches(w, n, h, c)
<1>1. PICK H \in Past(n), C \in Callers(n) : Tells(H, C, u, n) /\ H[n] = h /\ C[n] = c
  BY DEF Reaches
<1>2. Tells(H, C, w, n)
  BY <1>1 DEF Tells, Agree
<1> QED
  BY <1>1, <1>2 DEF Reaches

LEMMA ReachTyped ==
  ASSUME NEW u, NEW n \in Nat, NEW h, NEW c, Reaches(u, n, h, c)
  PROVE  h \in [Fn -> FnState] /\ c \in Fn \cup {NoFn}
BY DEF Reaches, Past, Callers

LEMMA ReachNone ==
  ASSUME NEW u, NEW h \in [Fn -> FnState], NEW c \in Fn \cup {NoFn}
  PROVE  Reaches(u, 0, h, c) <=> Clean(h, c)
<1>1. ASSUME Clean(h, c)
      PROVE  Reaches(u, 0, h, c)
  <2> DEFINE H == [p \in 0 .. 0 |-> h]
             C == [p \in 0 .. 0 |-> c]
  <2>1. H \in Past(0) /\ C \in Callers(0) /\ H[0] = h /\ C[0] = c
    BY DEF Past, Callers
  <2> HIDE DEF H, C
  <2>2. Tells(H, C, u, 0)
    BY <1>1, <2>1 DEF Tells
  <2> QED
    BY <2>1, <2>2 DEF Reaches
<1>2. ASSUME Reaches(u, 0, h, c)
      PROVE  Clean(h, c)
  BY <1>2 DEF Reaches, Tells
<1> QED
  BY <1>1, <1>2

LEMMA ReachMore ==
  ASSUME NEW u, NEW n \in Nat, NEW h, NEW c, Reaches(u, n, h, c),
         NEW i \in [Fn -> FnState], NEW d \in Fn \cup {NoFn}, Link(h, c, u[n + 1], i, d)
  PROVE  Reaches(u, n + 1, i, d)
<1>1. PICK H \in Past(n), C \in Callers(n) : Tells(H, C, u, n) /\ H[n] = h /\ C[n] = c
  BY DEF Reaches
<1> DEFINE J == [p \in 0 .. n + 1 |-> IF p = n + 1 THEN i ELSE H[p]]
           D == [p \in 0 .. n + 1 |-> IF p = n + 1 THEN d ELSE C[p]]
<1>2. /\ J[n + 1] = i /\ D[n + 1] = d
      /\ \A p \in 0 .. n : J[p] = H[p] /\ D[p] = C[p]
  OBVIOUS
<1>3. J \in Past(n + 1)
  <2>1. \A p \in 0 .. n + 1 : (IF p = n + 1 THEN i ELSE H[p]) \in [Fn -> FnState]
    <3> SUFFICES ASSUME NEW p \in 0 .. n + 1, p # n + 1
                 PROVE  H[p] \in [Fn -> FnState]
      OBVIOUS
    <3>1. p \in 0 .. n
      OBVIOUS
    <3> QED
      BY <3>1 DEF Past
  <2> QED
    BY <2>1 DEF Past
<1>4. D \in Callers(n + 1)
  <2>1. \A p \in 0 .. n + 1 : (IF p = n + 1 THEN d ELSE C[p]) \in Fn \cup {NoFn}
    <3> SUFFICES ASSUME NEW p \in 0 .. n + 1, p # n + 1
                 PROVE  C[p] \in Fn \cup {NoFn}
      OBVIOUS
    <3>1. p \in 0 .. n
      OBVIOUS
    <3> QED
      BY <3>1 DEF Callers
  <2> QED
    BY <2>1 DEF Callers
<1> HIDE DEF J, D
<1>5. Tells(J, D, u, n + 1)
  <2>1. Clean(J[0], D[0])
    BY <1>1, <1>2 DEF Tells
  <2>2. ASSUME NEW p \in 1 .. n + 1
        PROVE  Link(J[p - 1], D[p - 1], u[p], J[p], D[p])
    <3>1. CASE p = n + 1
      <4>1. p - 1 = n /\ n \in 0 .. n
        BY <3>1
      <4>2. J[p - 1] = h /\ D[p - 1] = c /\ J[p] = i /\ D[p] = d
        BY <1>1, <1>2, <3>1, <4>1
      <4> QED
        BY <3>1, <4>2
    <3>2. CASE p # n + 1
      <4>1. p \in 1 .. n /\ p \in 0 .. n /\ p - 1 \in 0 .. n
        BY <3>2
      <4>2. J[p - 1] = H[p - 1] /\ D[p - 1] = C[p - 1] /\ J[p] = H[p] /\ D[p] = C[p]
        BY <1>2, <4>1
      <4> QED
        BY <1>1, <4>1, <4>2 DEF Tells
    <3> QED
      BY <3>1, <3>2
  <2> QED
    BY <2>1, <2>2 DEF Tells
<1> QED
  BY <1>2, <1>3, <1>4, <1>5 DEF Reaches

LEMMA ReachLess ==
  ASSUME NEW u, NEW n \in Nat, n > 0, NEW i, NEW d, Reaches(u, n, i, d)
  PROVE  \E h \in [Fn -> FnState], c \in Fn \cup {NoFn} :
           Reaches(u, n - 1, h, c) /\ Link(h, c, u[n], i, d)
<1>1. PICK H \in Past(n), C \in Callers(n) : Tells(H, C, u, n) /\ H[n] = i /\ C[n] = d
  BY DEF Reaches
<1> DEFINE m == n - 1
           J == [p \in 0 .. m |-> H[p]]
           D == [p \in 0 .. m |-> C[p]]
<1>2. m \in Nat /\ \A p \in 0 .. m : p \in 0 .. n
  OBVIOUS
<1>3. \A p \in 0 .. m : J[p] = H[p] /\ D[p] = C[p]
  OBVIOUS
<1> HIDE DEF m
<1>4. J \in Past(m) /\ D \in Callers(m)
  BY <1>2 DEF Past, Callers
<1> HIDE DEF J, D
<1>5. Tells(J, D, u, m)
  <2>1. 0 \in 0 .. m /\ Clean(J[0], D[0])
    BY <1>1, <1>2, <1>3 DEF Tells
  <2>2. ASSUME NEW p \in 1 .. m
        PROVE  Link(J[p - 1], D[p - 1], u[p], J[p], D[p])
    <3>1. p \in 0 .. m /\ p - 1 \in 0 .. m /\ p \in 1 .. n
      BY <1>2 DEF m
    <3>2. J[p - 1] = H[p - 1] /\ D[p - 1] = C[p - 1] /\ J[p] = H[p] /\ D[p] = C[p]
      BY <1>3, <3>1
    <3> QED
      BY <1>1, <3>1, <3>2 DEF Tells
  <2> QED
    BY <2>1, <2>2 DEF Tells
<1>6. m \in 0 .. m /\ J[m] \in [Fn -> FnState] /\ D[m] \in Fn \cup {NoFn}
  BY <1>2, <1>4 DEF Past, Callers
<1>7. Reaches(u, m, J[m], D[m])
  BY <1>4, <1>5 DEF Reaches
<1>8. Link(J[m], D[m], u[n], i, d)
  <2>1. n \in 1 .. n /\ n - 1 = m
    BY DEF m
  <2> QED
    BY <1>1, <1>3, <1>6, <2>1 DEF Tells
<1>9. n - 1 = m
  BY DEF m
<1> QED
  BY <1>6, <1>7, <1>8, <1>9

\* An element that does not concern calls comes off without changing anything,
\* where no call is in pieces.
LEMMA ReachForeign ==
  ASSUME NEW u, NEW n \in Nat, n > 0, NEW i, NEW d, Reaches(u, n, i, d),
         u[n].e \in Foreign
  PROVE  Reaches(u, n - 1, i, d) /\ AllBound(i, d)
<1>1. PICK h \in [Fn -> FnState], c \in Fn \cup {NoFn} :
        Reaches(u, n - 1, h, c) /\ Link(h, c, u[n], i, d)
  BY ReachLess
<1>2. i = h /\ d = c /\ AllBound(h, c)
  BY <1>1 DEF Link, Foreign, FnElems
<1> QED
  BY <1>1, <1>2

-----------------------------------------------------------------------------
(***************************************************************************)
(* The functions are what the list says                                    *)
(***************************************************************************)

Like(x, s) ==
  /\ x.depth = s.depth /\ x.ctx = s.ctx /\ x.sym = s.sym /\ x.nargs = s.nargs
  /\ s.sym # 0 \/ s.ctx # <<>> => x.vr = s.vr

Now(m, k, h, c) == (\A f \in Fn : Like(m[f], h[f])) /\ k = c

Rests(r, h, c) ==
  /\ Whole(r) => AllBound(h, c)
  /\ r.k = "call" /\ r.pc = "push" => Deepened(h, c, r.f)
  /\ r.k = "call" /\ r.pc = "bind" => Opened(h, c, r.f)

\* r runs, u is the list, m are the functions and k is the one that runs.
Restorable(r, u, m, k) ==
  \E h, c : Reaches(u, Len(u), h, c) /\ Now(m, k, h, c) /\ Rests(r, h, c)

LEMMA RestsWhole ==
  ASSUME NEW r, NEW h, NEW c, Waits(r), Whole(r) => AllBound(h, c)
  PROVE  Rests(r, h, c)
BY DEF Rests, Waits

\* Elements pushed where no call is in pieces.
LEMMA ReachPush ==
  ASSUME NEW w, NEW n \in Nat, NEW h, NEW c, Reaches(w, n, h, c), AllBound(h, c),
         w[n + 1].e \in Foreign \cup {"tab"}
  PROVE  Reaches(w, n + 1, h, c)
<1>1. h \in [Fn -> FnState] /\ c \in Fn \cup {NoFn}
  BY ReachTyped
<1>2. Link(h, c, w[n + 1], h, c)
  BY DEF Link, Foreign, FnElems
<1> QED
  BY <1>1, <1>2, ReachMore

LEMMA ReachPushes ==
  ASSUME NEW k \in Nat, k <= 4, More(k), NEW h, NEW c, Reaches(ul, Len(ul), h, c),
         AllBound(h, c) \/ k = 0,
         \A j \in 1 .. k : New(j).e \in Foreign \cup {"tab"}
  PROVE  Reaches(ul', Len(ul'), h, c)
<1> DEFINE n == Len(ul)
<1>1. n \in Nat /\ Len(ul') = n + k /\ Agree(ul, ul', n)
  BY DEF More
<1>2. Reaches(ul', n, h, c)
  BY <1>1, ReachAgree
<1>3. \A j \in 1 .. k : ul'[n + j].e \in Foreign \cup {"tab"}
  BY DEF New
<1> HIDE DEF n
<1>4. CASE k = 0
  BY <1>1, <1>2, <1>4
<1>5. CASE k > 0
  <2>1. ul'[n + 1].e \in Foreign \cup {"tab"} /\ AllBound(h, c)
    BY <1>3, <1>5
  <2>2. Reaches(ul', n + 1, h, c)
    BY <1>1, <1>2, <2>1, ReachPush
  <2>3. CASE k = 1
    BY <1>1, <2>2, <2>3
  <2>4. CASE k > 1
    <3>1. ul'[(n + 1) + 1].e \in Foreign \cup {"tab"} /\ n + 1 \in Nat
      <4>1. 2 \in 1 .. k /\ (n + 1) + 1 = n + 2 /\ n + 1 \in Nat
        BY <1>1, <2>4
      <4> QED
        BY <1>3, <4>1
    <3>2. Reaches(ul', (n + 1) + 1, h, c)
      BY <2>1, <2>2, <3>1, ReachPush
    <3>3. (n + 1) + 1 = n + 2 /\ n + 2 \in Nat
      BY <1>1
    <3>4. CASE k = 2
      BY <1>1, <3>2, <3>3, <3>4
    <3>5. CASE k > 2
      <4>1. ul'[(n + 2) + 1].e \in Foreign \cup {"tab"}
        <5>1. 3 \in 1 .. k /\ (n + 2) + 1 = n + 3
          BY <1>1, <3>5
        <5> QED
          BY <1>3, <5>1
      <4>2. Reaches(ul', (n + 2) + 1, h, c)
        BY <2>1, <3>2, <3>3, <4>1, ReachPush
      <4>3. (n + 2) + 1 = n + 3 /\ n + 3 \in Nat
        BY <1>1
      <4>4. CASE k = 3
        BY <1>1, <4>2, <4>3, <4>4
      <4>5. CASE k = 4
        <5>1. ul'[(n + 3) + 1].e \in Foreign \cup {"tab"}
          <6>1. 4 \in 1 .. k /\ (n + 3) + 1 = n + 4
            BY <1>1, <4>5
          <6> QED
            BY <1>3, <6>1
        <5>2. Reaches(ul', (n + 3) + 1, h, c)
          BY <2>1, <4>2, <4>3, <5>1, ReachPush
        <5>3. (n + 3) + 1 = n + 4
          BY <1>1
        <5> QED
          BY <1>1, <4>5, <5>2, <5>3
      <4> QED
        BY <3>5, <4>4, <4>5
    <3> QED
      BY <2>4, <3>4, <3>5
  <2> QED
    BY <1>5, <2>3, <2>4
<1> QED
  BY <1>4, <1>5

\* A step that pushes such elements, none at all included, and leaves the
\* functions alone.
LEMMA PushRestorable ==
  ASSUME Restorable(Running, ul, fn, cur.fun), fn' = fn, cur'.fun = cur.fun,
         NEW k \in Nat, k <= 4, More(k), \A j \in 1 .. k : New(j).e \in Foreign \cup {"tab"},
         Waits(Running'), Whole(Running) \/ (k = 0 /\ ~ Whole(Running'))
  PROVE  Restorable(Running', ul', fn', cur'.fun)
<1>1. PICK h, c : /\ Reaches(ul, Len(ul), h, c) /\ Now(fn, cur.fun, h, c)
                  /\ Rests(Running, h, c)
  BY DEF Restorable
<1>2. AllBound(h, c) \/ (k = 0 /\ ~ Whole(Running'))
  BY <1>1 DEF Rests
<1>3. Reaches(ul', Len(ul'), h, c)
  BY <1>1, <1>2, ReachPushes
<1>4. Rests(Running', h, c)
  BY <1>2, RestsWhole
<1> QED
  BY <1>1, <1>3, <1>4 DEF Restorable

LEMMA OuterFacts ==
  /\ Outer(0) = <<>> /\ Outer(1) = <<>>
  /\ \A a \in Nat : Outer(a) \in Seq(Nat) /\ (a > 0 => Len(Outer(a)) = a - 1)
  /\ \A a \in Nat : a > 1 => Outer(a) = Append(Outer(a - 1), a - 1)
<1>1. ASSUME NEW a \in Nat
      PROVE  Outer(a) \in Seq(Nat) /\ (a > 0 => Len(Outer(a)) = a - 1)
             /\ (a <= 1 => Len(Outer(a)) = 0)
  <2>1. CASE a > 0
    <3>1. a - 1 \in Nat /\ Outer(a) \in [1 .. a - 1 -> Nat]
      BY <2>1 DEF Outer
    <3> QED
      BY <2>1, <3>1
  <2>2. CASE a = 0
    <3>1. Outer(a) \in [1 .. 0 -> Nat]
      BY <2>2 DEF Outer
    <3>2. Outer(a) \in Seq(Nat) /\ Len(Outer(a)) = 0
      BY <3>1
    <3> QED
      BY <2>2, <3>2
  <2> QED
    BY <2>1, <2>2
<1>2. Outer(0) = <<>> /\ Outer(1) = <<>>
  BY <1>1, EmptySeq
<1>3. ASSUME NEW a \in Nat, a > 1
      PROVE  Outer(a) = Append(Outer(a - 1), a - 1)
  <2>1. a - 1 \in Nat /\ a - 1 > 0
    BY <1>3
  <2> DEFINE s == Outer(a)
             t == Append(Outer(a - 1), a - 1)
  <2>2. s \in Seq(Nat) /\ Len(s) = a - 1
    BY <1>1, <1>3
  <2>3. Outer(a - 1) \in Seq(Nat) /\ Len(Outer(a - 1)) = (a - 1) - 1
    BY <1>1, <2>1
  <2>4. t \in Seq(Nat) /\ Len(t) = a - 1
    BY <1>3, <2>1, <2>3, AppendProperties
  <2>5. ASSUME NEW i \in 1 .. a - 1
        PROVE  s[i] = t[i]
    <3>1. s[i] = i
      BY DEF Outer
    <3>2. CASE i = a - 1
      BY <2>1, <2>3, <3>1, <3>2, AppendProperties
    <3>3. CASE i # a - 1
      <4>1. i \in 1 .. (a - 1) - 1
        BY <1>3, <3>3
      <4>2. t[i] = Outer(a - 1)[i]
        BY <2>1, <2>3, <4>1, AppendProperties
      <4>3. Outer(a - 1)[i] = i
        BY <4>1 DEF Outer
      <4> QED
        BY <3>1, <4>2, <4>3
    <3> QED
      BY <3>2, <3>3
  <2> HIDE DEF s, t
  <2>6. s = t
    BY <2>2, <2>4, <2>5, SeqEqual
  <2> QED
    BY <2>6 DEF s, t
<1> QED
  BY <1>1, <1>2, <1>3

\* Where nothing is on the list no call is in pieces.
LEMMA CleanBound ==
  ASSUME NEW h \in [Fn -> FnState], NEW c, Clean(h, c)
  PROVE  AllBound(h, c)
<1>1. ASSUME NEW f \in Fn
      PROVE  Bound(h[f])
  BY OuterFacts DEF Clean, Bound
<1> QED
  BY <1>1 DEF AllBound, Active, Clean

\* A step that leaves the list and the functions alone.
LEMMA StaysRestorable ==
  ASSUME Restorable(Running, ul, fn, cur.fun), ul' = ul, fn' = fn, cur'.fun = cur.fun,
         Waits(Running'), Whole(Running) \/ ul = <<>> \/ ~ Whole(Running')
  PROVE  Restorable(Running', ul', fn', cur'.fun)
<1>1. PICK h, c : /\ Reaches(ul, Len(ul), h, c) /\ Now(fn, cur.fun, h, c)
                  /\ Rests(Running, h, c)
  BY DEF Restorable
<1>2. Whole(Running') => AllBound(h, c)
  <2>1. CASE Whole(Running)
    BY <1>1, <2>1 DEF Rests
  <2>2. CASE ul = <<>>
    <3>1. Reaches(ul, 0, h, c)
      BY <1>1, <2>2
    <3>2. h \in [Fn -> FnState] /\ c \in Fn \cup {NoFn}
      BY <3>1, ReachTyped
    <3> QED
      BY <3>1, <3>2, ReachNone, CleanBound
  <2> QED
    BY <2>1, <2>2
<1>3. Rests(Running', h, c)
  BY <1>2, RestsWhole
<1> QED
  BY <1>1, <1>3 DEF Restorable

LEMMA RunningNext ==
  ASSUME TypeOK'
  PROVE  Running' = cs'[Len(cs')] /\ Len(cs') \in Nat \ {0}
<1>1. cs' \in Seq(Frame) /\ cs' # <<>>
  BY DEF TypeOK, StackOK
<1>2. Len(cs') \in Nat \ {0}
  BY <1>1, LenProperties, EmptySeq
<1> QED
  BY <1>2 DEF Running, Depth

LEMMA OrdinaryWaits ==
  ASSUME TypeOK, TypeOK', Held(cs, ul), Ordinary
  PROVE  Waits(Running')
<1>1. /\ Running' = cs'[Len(cs')] /\ Len(cs') \in Nat \ {0}
      /\ Len(cs) = Depth /\ Depth \in Nat \ {0}
  BY RunningNext, RunningFrame DEF TypeOK
<1>2. CASE Len(cs') >= Depth
  BY <1>1, <1>2 DEF Ordinary
<1>3. CASE Len(cs') < Depth
  <2>1. cs'[Len(cs')] = cs[Len(cs')]
    BY <1>1, <1>3 DEF Ordinary, Steps
  <2>2. Waits(cs[Len(cs')])
    BY <1>1, <1>3 DEF Held, HeldAt
  <2> QED
    BY <1>1, <2>1, <2>2
<1> QED
  BY <1>1, <1>2, <1>3

LEMMA MovesWaits ==
  ASSUME TypeOK', NEW pc, Moves(pc), Running.k # "call",
         Len(cs') = Depth + 1 => cs'[Depth + 1].k # "call"
  PROVE  Waits(Running')
<1>1. Running' = cs'[Len(cs')]
  BY RunningNext
<1>2. Len(cs') \in {Depth, Depth + 1} /\ cs'[Depth].k = Running.k
  BY DEF Moves
<1> QED
  BY <1>1, <1>2 DEF Waits

LEMMA EasyRestorable ==
  ASSUME TypeOK, TypeOK', Layout(cs, ul), Held(cs, ul),
         Restorable(Running, ul, fn, cur.fun), Easy
  PROVE  Restorable(Running', ul', fn', cur'.fun)
<1>1. Ordinary /\ Quiet /\ (Whole(Running) \/ ul = <<>> \/ CallBodyDone \/ CallExit)
  BY EasySteps
<1>2. Waits(Running')
  BY <1>1, OrdinaryWaits
<1>3. CallBodyDone => Whole(Running)
  BY DEF CallBodyDone, At, Whole
<1>4. ASSUME CallExit
      PROVE  ~ Whole(Running')
  <2>1. StackOK /\ UnwindOK /\ Running.k = "call"
    BY <1>4 DEF TypeOK, CallExit, At
  <2>2. Call(RunOf("func_eval"), "done") /\ RunOf("func_eval") \in Frame
    BY <1>4, <2>1, FrameTypes DEF CallExit, Tags
  <2>3. WentCalling("done", RunOf("func_eval"))
    BY <2>1, <2>2, Goings, Zenon DEF Pcs, Inside
  <2>4. Running' = RunOf("func_eval")
    BY <2>3, RunningNext DEF WentCalling
  <2> QED
    BY <2>4, NewFrames DEF Whole
<1> QED
  BY <1>1, <1>2, <1>3, <1>4, StaysRestorable DEF Quiet

\* Elements of that kind are dropped or popped, one to three of them.
LEMMA CutRestorable ==
  ASSUME Restorable(Running, ul, fn, cur.fun), fn' = fn, cur'.fun = cur.fun,
         Len(ul') \in Nat, NEW k \in 1 .. 3, Len(ul) = Len(ul') + k,
         Agree(ul, ul', Len(ul')), \A j \in 1 .. k : ul[Len(ul') + j].e \in Foreign,
         Waits(Running')
  PROVE  Restorable(Running', ul', fn', cur'.fun)
<1>1. PICK h, c : /\ Reaches(ul, Len(ul), h, c) /\ Now(fn, cur.fun, h, c)
                  /\ Rests(Running, h, c)
  BY DEF Restorable
<1> DEFINE n == Len(ul')
<1>2. n \in Nat /\ Reaches(ul, n + k, h, c) /\ Agree(ul, ul', n)
      /\ \A j \in 1 .. k : ul[n + j].e \in Foreign
  BY <1>1
<1> HIDE DEF n
<1>3. ASSUME NEW m \in Nat, m \in 1 .. k, Reaches(ul, n + m, h, c)
      PROVE  Reaches(ul, n + (m - 1), h, c) /\ AllBound(h, c)
  <2>1. n + m \in Nat /\ n + m > 0 /\ (n + m) - 1 = n + (m - 1)
    BY <1>2, <1>3
  <2> QED
    BY <1>2, <1>3, <2>1, ReachForeign
<1>4. AllBound(h, c)
  BY <1>2, <1>3
<1>5. k = 3 => Reaches(ul, n + 2, h, c)
  BY <1>2, <1>3
<1>6. k >= 2 => Reaches(ul, n + 1, h, c)
  <2>1. k = 2 => Reaches(ul, n + (2 - 1), h, c)
    BY <1>2, <1>3
  <2>2. k = 3 => Reaches(ul, n + (2 - 1), h, c)
    BY <1>3, <1>5
  <2> QED
    BY <2>1, <2>2
<1>7. Reaches(ul, n, h, c)
  <2>1. Reaches(ul, n + 1, h, c)
    BY <1>2, <1>6
  <2>2. Reaches(ul, n + (1 - 1), h, c)
    BY <1>3, <2>1
  <2> QED
    BY <1>2, <2>2
<1>8. Reaches(ul', Len(ul'), h, c)
  BY <1>2, <1>7, ReachAgree DEF n
<1>9. Rests(Running', h, c)
  BY <1>4, RestsWhole
<1> QED
  BY <1>1, <1>8, <1>9 DEF Restorable

LEMMA StillRestorable ==
  ASSUME TypeOK, TypeOK', Layout(cs, ul), Held(cs, ul),
         Restorable(Running, ul, fn, cur.fun),
         UnwindBodyDone \/ CatchBind \/ Interrupt
  PROVE  Restorable(Running', ul', fn', cur'.fun)
<1>1. ul' = ul /\ fn' = fn /\ cur'.fun = cur.fun
  BY DEF UnwindBodyDone, CatchBind, Interrupt
<1>2. Whole(Running)
  <2>1. Running.k \in {"unw", "catch", "list", "while", "for"}
    BY InterruptMoves DEF UnwindBodyDone, CatchBind, At
  <2> QED
    BY <2>1 DEF Whole
<1>3. ASSUME UnwindBodyDone
      PROVE  Waits(Running')
  <2>1. /\ Moves("cleaned") /\ Running.k = "unw" /\ cs'[Depth + 1].k = "run"
    BY <1>3, BodyDoneMoves DEF RunOne
  <2> QED
    BY <2>1, MovesWaits
<1>4. CatchBind => Waits(Running')
  BY MovesOrdinary, OrdinaryWaits
<1>5. ASSUME Interrupt
      PROVE  Waits(Running')
  <2>1. Running'.k \in {"main", "script"}
    BY <1>5, InterruptMoves, RunningNext
  <2> QED
    BY <2>1 DEF Waits
<1> QED
  BY <1>1, <1>2, <1>3, <1>4, <1>5, StaysRestorable

LEMMA PushesRestorable ==
  ASSUME TypeOK, TypeOK', Layout(cs, ul), Held(cs, ul),
         Restorable(Running, ul, fn, cur.fun),
         CleanupBegin \/ CatchProtect \/ EvalFailed \/ ScriptBegin
  PROVE  Restorable(Running', ul', fn', cur'.fun)
<1>1. fn' = fn /\ cur'.fun = cur.fun
  BY DEF CleanupBegin, CatchProtect, EvalFailed, ScriptBegin
<1>2. Whole(Running)
  BY DEF CleanupBegin, CatchProtect, EvalFailed, ScriptBegin, At, Whole
<1>3. Waits(Running')
  <2>1. CASE CleanupBegin \/ CatchProtect
    <3>1. Moves("brk") /\ Running.k # "call" /\ (Len(cs') = Depth + 1 => cs'[Depth + 1].k # "call")
      BY <2>1, GuardMoves
    <3> QED
      BY <3>1, MovesWaits
  <2>2. CASE EvalFailed \/ ScriptBegin
    BY <2>2, MovesOrdinary, OrdinaryWaits
  <2> QED
    BY <2>1, <2>2
<1>4. \E k \in Nat : k <= 4 /\ More(k) /\ \A j \in 1 .. k : New(j).e \in Foreign \cup {"tab"}
  <2>1. CASE CleanupBegin \/ CatchProtect
    <3>1. More(3) /\ New(1).e \in Foreign /\ New(2).e \in Foreign /\ New(3).e \in Foreign
      BY <2>1, GuardPushes, SavedKinds DEF Foreign
    <3> QED
      BY <3>1
  <2>2. CASE EvalFailed
    <3>1. More(1) /\ New(1).e \in Foreign
      BY <2>2, GuardPushes, SavedKinds DEF Foreign
    <3> QED
      BY <3>1
  <2>3. CASE ScriptBegin
    <3>1. /\ More(4) /\ New(1).e \in Foreign /\ New(2).e \in Foreign
          /\ New(3).e \in Foreign /\ New(4).e = "tab"
      BY <2>3, ScriptPushes, SavedKinds DEF Foreign
    <3>2. \A j \in 1 .. 4 : j = 1 \/ j = 2 \/ j = 3 \/ j = 4
      OBVIOUS
    <3> QED
      BY <3>1, <3>2
  <2> QED
    BY <2>1, <2>2, <2>3
<1> QED
  BY <1>1, <1>2, <1>3, <1>4, PushRestorable

LEMMA OpensRestorable ==
  ASSUME TypeOK, TypeOK', Layout(cs, ul), Held(cs, ul),
         Restorable(Running, ul, fn, cur.fun), AtStatement,
         UnwindProtect \/ \E b \in BOOLEAN : Try(b) \/ Eval(b)
  PROVE  Restorable(Running', ul', fn', cur'.fun)
<1>1. fn' = fn /\ cur'.fun = cur.fun
  BY Zenon DEF UnwindProtect, Try, Eval
<1>2. Whole(Running)
  BY DEF AtStatement, Whole
<1> DEFINE Adds == \E k \in Nat :
             k <= 4 /\ More(k) /\ \A j \in 1 .. k : New(j).e \in Foreign \cup {"tab"}
<1>3. Waits(Running') /\ Adds
  <2>1. CASE UnwindProtect
    <3>1. Running'.k = "list"
      <4>1. Len(cs') = Depth + 2 /\ cs'[Depth + 2].k = "list"
        BY <2>1, UnwindMoves
      <4> QED
        BY <4>1, RunningNext
    <3>2. More(1) /\ New(1).e \in Foreign
      BY <2>1, UnwindPushes DEF Foreign
    <3> QED
      BY <3>1, <3>2 DEF Waits
  <2>2. ASSUME NEW b \in BOOLEAN, Try(b)
        PROVE  Waits(Running') /\ Adds
    <3>1. Running'.k = "list"
      <4>1. Len(cs') = Depth + 2 /\ cs'[Depth + 2].k = "list"
        BY <2>2, TryMoves
      <4> QED
        BY <4>1, RunningNext
    <3>2. /\ More(IF b THEN 3 ELSE 2) /\ New(1).e \in Foreign /\ New(2).e \in Foreign
          /\ b => New(3).e \in Foreign
      BY <2>2, TryPushes, SavedKinds DEF Foreign
    <3> QED
      BY <3>1, <3>2 DEF Waits
  <2>3. ASSUME NEW b \in BOOLEAN, Eval(b)
        PROVE  Waits(Running') /\ Adds
    <3>1. Waits(Running')
      BY <2>3, EvalStatementOrdinary, OrdinaryWaits
    <3>2. /\ More(IF b THEN 2 ELSE 1) /\ New(1).e \in Foreign
          /\ b => New(2).e \in Foreign
      BY <2>3, EvalPushes, SavedKinds DEF Foreign
    <3> QED
      BY <3>1, <3>2
  <2> QED
    BY <2>1, <2>2, <2>3
<1> QED
  BY <1>1, <1>2, <1>3, PushRestorable

LEMMA CutsRestorable ==
  ASSUME TypeOK, TypeOK', Layout(cs, ul), Held(cs, ul),
         Restorable(Running, ul, fn, cur.fun),
         TrySucceeded \/ RestoreBreaking \/ RestoreReturning \/ RestoreLast
  PROVE  Restorable(Running', ul', fn', cur'.fun)
<1>1. fn' = fn /\ cur'.fun = cur.fun
  BY DEF TrySucceeded, RestoreBreaking, RestoreReturning, RestoreLast
<1>2. CASE TrySucceeded
  <2> DEFINE b == Running.base
             k == TrySize(Running)
  <2>1. /\ b \in Nat /\ k \in 1 .. 3 /\ Len(ul) = b + k /\ Len(ul') = b
        /\ Agree(ul, ul', b)
        /\ ul[b + 1].e \in Foreign /\ ul[b + 2].e \in Foreign
        /\ k = 3 => ul[b + 3].e \in Foreign
    BY <1>2, TryCut DEF TrySize, Foreign, RestoreAt
  <2>2. Waits(Running')
    BY <1>2, MovesOrdinary, OrdinaryWaits
  <2> HIDE DEF b, k
  <2>3. \A j \in 1 .. k : ul[b + j].e \in Foreign
    BY <2>1
  <2> QED
    BY <1>1, <2>1, <2>2, <2>3, CutRestorable
<1>3. CASE RestoreBreaking \/ RestoreReturning \/ RestoreLast
  <2>1. /\ Moves(After(Running.pc)) /\ Running.k \in {"catch", "cleanup"}
        /\ Running.pc \in {"brk", "ret", "err"}
        /\ \/ Len(cs') = Depth + 1 /\ ul' = ul /\ cs'[Depth + 1].k = "run"
           \/ Len(cs') = Depth /\ ul' = SubSeq(ul, 1, Len(ul) - 1)
    BY <1>3, RestoreMoves DEF RunOne
  <2>2. Depth \in Nat
    BY RunningFrame DEF TypeOK
  <2>3. Waits(Running')
    BY <2>1, <2>2, MovesWaits
  <2>4. Whole(Running)
    BY <2>1 DEF Whole
  <2>5. CASE ul' = ul
    BY <1>1, <2>3, <2>4, <2>5, StaysRestorable
  <2>6. CASE ul' = SubSeq(ul, 1, Len(ul) - 1)
    <3>1. ul # <<>> /\ ul[Len(ul)].e \in Foreign
      BY <2>1, GuardHere DEF RestoreAt, Foreign
    <3>2. /\ Len(ul) \in Nat /\ Len(ul) > 0 /\ Len(ul') = Len(ul) - 1
          /\ Agree(ul, ul', Len(ul'))
      BY <2>6, <3>1, OneLess
    <3>3. Len(ul') \in Nat /\ Len(ul) = Len(ul') + 1 /\ 1 \in 1 .. 3
          /\ \A j \in 1 .. 1 : ul[Len(ul') + j].e \in Foreign
      BY <3>1, <3>2
    <3> QED
      BY <1>1, <2>3, <3>2, <3>3, CutRestorable
  <2> QED
    BY <2>1, <2>5, <2>6
<1> QED
  BY <1>2, <1>3

\* What FnAfter makes of a function is what the element takes it back to.
LEMMA LikeAfter ==
  ASSUME TypeOK, NEW el \in Elem, el.e \in FnElems, NEW s \in FnState, NEW t \in FnState,
         Like(fn[el.f], t), Undoes(el, s, t)
  PROVE  Like(FnAfter(el), s)
<1> DEFINE x == fn[el.f]
<1>1. x \in FnState
  BY DEF TypeOK, FnOK, Elem
<1>2. x.ctx \in Seq(Nat) /\ s.ctx \in Seq(Nat) /\ t.ctx \in Seq(Nat) /\ s.sym \in Nat
  BY <1>1 DEF FnState
<1>3. CASE el.e = "depth"
  <2>1. FnAfter(el) = [x EXCEPT !.depth = el.d]
    BY <1>3 DEF FnAfter
  <2>2. /\ s.depth = el.d /\ s.ctx = t.ctx /\ s.sym = t.sym /\ s.nargs = t.nargs
        /\ s.vr = t.vr
    BY <1>3 DEF Undoes
  <2> QED
    BY <1>1, <2>1, <2>2 DEF Like, FnState
<1>4. CASE el.e = "popctx"
  <2>1. /\ t.ctx = Append(s.ctx, s.sym) /\ s.depth = t.depth /\ s.nargs = t.nargs
        /\ s.vr = t.vr
    BY <1>4 DEF Undoes
  <2>2. /\ Len(s.ctx) \in Nat /\ Len(t.ctx) = Len(s.ctx) + 1
        /\ t.ctx[Len(s.ctx) + 1] = s.sym
        /\ \A i \in 1 .. Len(s.ctx) : t.ctx[i] = s.ctx[i]
    BY <1>2, <2>1, LenProperties, AppendProperties
  <2>3. t.ctx # <<>>
    BY <1>2, <2>2, EmptySeq
  <2>4. x.ctx = t.ctx /\ x.vr = t.vr
    BY <2>3 DEF Like
  <2>5. FnAfter(el) = [x EXCEPT !.sym = t.ctx[Len(t.ctx)],
                                !.ctx = SubSeq(t.ctx, 1, Len(t.ctx) - 1)]
    BY <1>4, <2>3, <2>4 DEF FnAfter
  <2>6. t.ctx[Len(t.ctx)] = s.sym
    BY <2>2
  <2>7. SubSeq(t.ctx, 1, Len(t.ctx) - 1) = s.ctx
    <3> DEFINE n == Len(s.ctx)
               w == SubSeq(t.ctx, 1, n)
    <3>1. n \in Nat /\ Len(t.ctx) - 1 = n
      BY <2>2
    <3>2. \A i \in 1 .. n : t.ctx[i] = s.ctx[i] /\ t.ctx[i] \in Nat
      BY <1>2, <2>2, ElementOfSeq
    <3> HIDE DEF n
    <3>3. w \in Seq(Nat) /\ Len(w) = n /\ \A i \in 1 .. n : w[i] = t.ctx[i]
      BY <3>1, <3>2, SubSeqProperties
    <3> HIDE DEF w
    <3>4. \A i \in 1 .. n : w[i] = s.ctx[i]
      BY <3>2, <3>3
    <3>5. w = s.ctx
      BY <1>2, <3>3, <3>4, SeqEqual DEF n
    <3> QED
      BY <3>1, <3>5 DEF w
  <2>8. FnAfter(el) = [x EXCEPT !.sym = s.sym, !.ctx = s.ctx]
    BY <2>5, <2>6, <2>7
  <2>9. /\ FnAfter(el).sym = s.sym /\ FnAfter(el).ctx = s.ctx
        /\ FnAfter(el).depth = x.depth /\ FnAfter(el).nargs = x.nargs
        /\ FnAfter(el).vr = x.vr
    BY <1>1, <2>8 DEF FnState
  <2> QED
    BY <2>1, <2>4, <2>9 DEF Like
<1>5. CASE el.e = "vr" \/ el.e = "delvr"
  <2>1. FnAfter(el) = [x EXCEPT !.vr = IF el.e = "vr" THEN el.d ELSE 0]
    BY <1>5 DEF FnAfter
  <2>2. /\ s.vr = (IF el.e = "vr" THEN el.d ELSE 0) /\ s.depth = t.depth
        /\ s.ctx = t.ctx /\ s.sym = t.sym /\ s.nargs = t.nargs
    BY <1>5 DEF Undoes
  <2> QED
    BY <1>1, <2>1, <2>2 DEF Like, FnState
<1>6. CASE el.e = "clearsym"
  <2>1. FnAfter(el) = [x EXCEPT !.sym = 0]
    BY <1>6 DEF FnAfter
  <2>2. /\ s.sym = 0 /\ t.sym # 0 /\ (s.ctx # <<>> => s.vr = t.vr)
        /\ s.depth = t.depth /\ s.ctx = t.ctx /\ s.nargs = t.nargs
    BY <1>6 DEF Undoes
  <2> QED
    BY <1>1, <2>1, <2>2 DEF Like, FnState
<1>7. CASE el.e = "clearargs"
  <2>1. FnAfter(el) = [x EXCEPT !.args = 0]
    BY <1>7 DEF FnAfter
  <2>2. s = t
    BY <1>7 DEF Undoes
  <2> QED
    BY <1>1, <2>1, <2>2 DEF Like, FnState
<1>8. CASE el.e = "nargs"
  <2>1. FnAfter(el) = [x EXCEPT !.nargs = el.d]
    BY <1>8 DEF FnAfter
  <2>2. /\ s.nargs = el.d /\ s.depth = t.depth /\ s.ctx = t.ctx /\ s.sym = t.sym
        /\ s.vr = t.vr
    BY <1>8 DEF Undoes
  <2> QED
    BY <1>1, <2>1, <2>2 DEF Like, FnState
<1> QED
  BY <1>3, <1>4, <1>5, <1>6, <1>7, <1>8 DEF FnElems

\* Popping an element of a call leads to the state from which it was pushed.
LEMMA PoppedNow ==
  ASSUME TypeOK, RunPop, NEW el \in Elem, el = ul[Len(ul)], el.e \notin Foreign,
         NEW h, NEW c, Now(fn, cur.fun, h, c), h \in [Fn -> FnState],
         NEW i \in [Fn -> FnState], NEW d, Link(i, d, el, h, c)
  PROVE  Now(fn', cur'.fun, i, d)
<1>1. /\ fn' = IF el.e \in FnElems THEN [fn EXCEPT ![el.f] = FnAfter(el)] ELSE fn
      /\ cur' = CASE el.e = "tab" -> [cur EXCEPT !.tab = el.f]
                  [] el.e = "fun" -> [cur EXCEPT !.fun = el.f]
                  [] OTHER -> cur
  BY DEF RunPop
<1>2. fn \in [Fn -> FnState] /\ cur \in [fun : Fn \cup {NoFn}, tab : Fn \cup {NoFn}]
  BY DEF TypeOK, FnOK
<1>3. cur'.fun = d
  <2>1. CASE el.e = "fun"
    <3>1. el.f = d
      BY <2>1 DEF Link
    <3>2. cur'.fun = el.f
      BY <1>1, <1>2, <2>1
    <3> QED
      BY <3>1, <3>2
  <2>2. CASE el.e # "fun"
    <3>1. c = d
      BY <2>2 DEF Link
    <3>2. cur'.fun = cur.fun
      BY <1>1, <1>2, <2>2
    <3> QED
      BY <3>1, <3>2 DEF Now
  <2> QED
    BY <2>1, <2>2
<1>4. ASSUME NEW f \in Fn
      PROVE  Like(fn'[f], i[f])
  <2>1. Like(fn[f], h[f])
    BY DEF Now
  <2>2. CASE el.e \in FnElems /\ f = el.f
    <3>1. Undoes(el, i[f], h[f])
      BY <2>2 DEF Link
    <3>2. fn'[f] = FnAfter(el)
      BY <1>1, <1>2, <2>2
    <3>3. i[f] \in FnState /\ h[f] \in FnState
      OBVIOUS
    <3>4. Like(FnAfter(el), i[f])
      BY <2>1, <2>2, <3>1, <3>3, LikeAfter
    <3> QED
      BY <3>2, <3>4
  <2>3. CASE ~ (el.e \in FnElems /\ f = el.f)
    <3>1. h[f] = i[f]
      BY <2>3 DEF Link
    <3>2. fn'[f] = fn[f]
      BY <1>1, <1>2, <2>3
    <3> QED
      BY <2>1, <3>1, <3>2
  <2> QED
    BY <2>2, <2>3
<1> QED
  BY <1>3, <1>4 DEF Now

LEMMA RunPopRestorable ==
  ASSUME TypeOK, TypeOK', Layout(cs, ul), Held(cs, ul),
         Restorable(Running, ul, fn, cur.fun), RunPop
  PROVE  Restorable(Running', ul', fn', cur'.fun)
<1> DEFINE el == ul[Len(ul)]
           pc == IF Running.tag = "one" \/ (el.e = "mark" /\ el.tag = Running.tag)
                 THEN "done" ELSE "pop"
<1>1. /\ Depth \in Nat \ {0} /\ Len(cs) = Depth /\ Running = cs[Depth]
      /\ Running' = cs'[Len(cs')]
  BY RunningFrame, RunningNext DEF TypeOK, Running
<1>2. /\ Moves(pc) /\ Running.k = "run" /\ Running.pc = "pop" /\ ul # <<>> /\ el \in Elem
      /\ ul' = SubSeq(ul, 1, Len(ul) - 1)
      /\ IF el.e \in {"catch", "cleanup"}
         THEN Len(cs') = Depth + 1 /\ cs'[Depth + 1].k = el.e
         ELSE Len(cs') = Depth
  BY RunPopMoves DEF At
<1>3. /\ Len(ul) \in Nat /\ Len(ul) > 0 /\ Len(ul') = Len(ul) - 1
      /\ Agree(ul, ul', Len(ul'))
  BY <1>2, OneLess
<1>4. CASE el.e \in Foreign
  <2>1. fn' = fn /\ cur'.fun = cur.fun
    BY <1>4 DEF RunPop, Foreign, FnElems
  <2>2. Waits(Running')
    <3>1. Len(cs') = Depth + 1 => cs'[Depth + 1].k # "call"
      BY <1>1, <1>2
    <3> HIDE DEF el, pc
    <3> QED
      BY <1>2, <3>1, MovesWaits
  <2>3. Len(ul') \in Nat /\ Len(ul) = Len(ul') + 1 /\ 1 \in 1 .. 3
    BY <1>3
  <2>4. \A j \in 1 .. 1 : ul[Len(ul') + j].e \in Foreign
    BY <1>3, <1>4
  <2> HIDE DEF el, pc
  <2> QED
    BY <1>3, <2>1, <2>2, <2>3, <2>4, CutRestorable
<1>5. CASE el.e \notin Foreign
  <2>1. Running.tag # "one"
    <3> SUFFICES ASSUME Running.tag = "one"
                 PROVE  FALSE
      OBVIOUS
    <3>1. RunEnd(cs, ul, Depth) /\ RunOne(cs[Depth])
      BY <1>1, <1>2 DEF Held, HeldAt, RunOne
    <3>2. PopsOf(ul, cs[Depth - 1]) /\ cs[Depth - 1].k \in Popping
      BY <1>1, <1>2, <3>1 DEF RunEnd
    <3> QED
      BY <1>5, <3>2 DEF PopsOf, Popping, RestoreAt, Foreign
  <2>2. pc = "pop" /\ Len(cs') = Depth
    BY <1>1, <1>2, <1>5, <2>1 DEF Foreign
  <2>3. Running'.k = "run" /\ Running'.pc = "pop"
    BY <1>1, <1>2, <2>2 DEF Moves
  <2>4. PICK h, c : Reaches(ul, Len(ul), h, c) /\ Now(fn, cur.fun, h, c)
    BY DEF Restorable
  <2>5. h \in [Fn -> FnState]
    BY <1>3, <2>4, ReachTyped
  <2>6. PICK i \in [Fn -> FnState], d \in Fn \cup {NoFn} :
          Reaches(ul, Len(ul) - 1, i, d) /\ Link(i, d, ul[Len(ul)], h, c)
    BY <1>3, <2>4, ReachLess
  <2>7. Now(fn', cur'.fun, i, d)
    BY <1>2, <1>5, <2>4, <2>5, <2>6, PoppedNow
  <2>8. Reaches(ul', Len(ul'), i, d)
    BY <1>3, <2>6, ReachAgree
  <2>9. Rests(Running', i, d)
    BY <2>3 DEF Rests, Whole
  <2> QED
    BY <2>7, <2>8, <2>9 DEF Restorable
<1> QED
  BY <1>4, <1>5

LEMMA AlteredState ==
  ASSUME NEW h \in [Fn -> FnState], NEW f \in Fn, NEW s \in FnState
  PROVE  /\ [h EXCEPT ![f] = s] \in [Fn -> FnState] /\ [h EXCEPT ![f] = s][f] = s
         /\ \A e \in Fn \ {f} : [h EXCEPT ![f] = s][e] = h[e]
OBVIOUS

\* An element of a function that leads from s back to the state in h.
LEMMA ReachFn ==
  ASSUME NEW w, NEW n \in Nat, NEW h, NEW c, Reaches(w, n, h, c), w[n + 1].e \in FnElems,
         NEW f \in Fn, w[n + 1].f = f, NEW s \in FnState, Undoes(w[n + 1], h[f], s)
  PROVE  Reaches(w, n + 1, [h EXCEPT ![f] = s], c)
<1> DEFINE i == [h EXCEPT ![f] = s]
<1>1. h \in [Fn -> FnState] /\ c \in Fn \cup {NoFn}
  BY ReachTyped
<1>2. i \in [Fn -> FnState] /\ i[f] = s /\ \A e \in Fn \ {f} : i[e] = h[e]
  BY <1>1, AlteredState
<1> HIDE DEF i
<1>3. Link(h, c, w[n + 1], i, c)
  BY <1>2 DEF Link, Foreign, FnElems
<1>4. Reaches(w, n + 1, i, c)
  BY <1>1, <1>2, <1>3, ReachMore
<1> QED
  BY <1>4 DEF i

LEMMA CallBeginRestorable ==
  ASSUME TypeOK, TypeOK', Restorable(Running, ul, fn, cur.fun), CallBegin
  PROVE  Restorable(Running', ul', fn', cur'.fun)
<1> DEFINE f == Running.f
           a == fn[f].depth
<1>1. PICK h, c : /\ Reaches(ul, Len(ul), h, c) /\ Now(fn, cur.fun, h, c)
                  /\ Rests(Running, h, c)
  BY DEF Restorable
<1>2. Running.k = "call" /\ Running.pc = "begin"
  BY DEF CallBegin, At
<1>3. f \in Fn /\ a \in Nat /\ fn \in [Fn -> FnState]
  BY <1>2, CalledFunction DEF TypeOK, FnOK
<1>4. /\ More(2) /\ New(1).e = "mark" /\ New(2).e = "depth" /\ New(2).f = f
      /\ New(2).d = a
  BY CallBeginPushes, SavedKinds
<1>5. Len(ul) \in Nat /\ Len(ul') = Len(ul) + 2 /\ Agree(ul, ul', Len(ul))
  BY <1>4 DEF More
<1>6. h \in [Fn -> FnState] /\ c \in Fn \cup {NoFn}
  BY <1>1, <1>5, ReachTyped
<1>7. AllBound(h, c) /\ h[f].depth = a
  BY <1>1, <1>2, <1>3 DEF Rests, Whole, Now, Like
<1> HIDE DEF f
<1>8. Reaches(ul', Len(ul) + 1, h, c)
  <2>1. Reaches(ul', Len(ul), h, c)
    BY <1>1, <1>5, ReachAgree
  <2>2. ul'[Len(ul) + 1].e \in Foreign
    BY <1>4 DEF New, Foreign
  <2> QED
    BY <1>5, <1>7, <2>1, <2>2, ReachPush
<1> DEFINE s == [h[f] EXCEPT !.depth = a + 1]
           i == [h EXCEPT ![f] = s]
<1>9. /\ s \in FnState /\ s.depth = a + 1 /\ s.ctx = h[f].ctx /\ s.sym = h[f].sym
      /\ s.nargs = h[f].nargs /\ s.vr = h[f].vr
  <2>1. h[f] \in FnState /\ a + 1 \in Nat
    BY <1>3, <1>6
  <2> HIDE DEF a
  <2> QED
    BY <2>1 DEF FnState
<1> HIDE DEF s, a
<1>10. i \in [Fn -> FnState] /\ i[f] = s /\ \A e \in Fn \ {f} : i[e] = h[e]
  BY <1>3, <1>6, <1>9, AlteredState
<1>11. Reaches(ul', Len(ul'), i, c)
  <2>1. Undoes(New(2), h[f], s)
    BY <1>4, <1>7, <1>9 DEF Undoes
  <2>2. ul'[(Len(ul) + 1) + 1] = New(2) /\ Len(ul) + 1 \in Nat /\ (Len(ul) + 1) + 1 = Len(ul')
    BY <1>5 DEF New
  <2>3. New(2).e \in FnElems
    BY <1>4 DEF FnElems
  <2> HIDE DEF i
  <2>4. Reaches(ul', (Len(ul) + 1) + 1, [h EXCEPT ![f] = s], c)
    BY <1>3, <1>4, <1>8, <1>9, <2>1, <2>2, <2>3, ReachFn
  <2> QED
    BY <2>2, <2>4 DEF i
<1> HIDE DEF i
<1>12. Now(fn', cur'.fun, i, c)
  <2>1. fn' = [fn EXCEPT ![f].depth = a + 1] /\ cur' = cur
    BY DEF CallBegin, f, a
  <2>2. ASSUME NEW e \in Fn
        PROVE  Like(fn'[e], i[e])
    <3>1. Like(fn[e], h[e])
      BY <1>1 DEF Now
    <3>2. CASE e = f
      <4>1. /\ fn'[f].depth = a + 1 /\ fn'[f].ctx = fn[f].ctx /\ fn'[f].sym = fn[f].sym
            /\ fn'[f].nargs = fn[f].nargs /\ fn'[f].vr = fn[f].vr
        BY <1>3, <2>1 DEF FnState
      <4> QED
        BY <1>9, <1>10, <3>1, <3>2, <4>1 DEF Like
    <3>3. CASE e # f
      BY <1>3, <1>10, <2>1, <3>1, <3>3
    <3> QED
      BY <3>2, <3>3
  <2> QED
    BY <1>1, <2>1, <2>2 DEF Now
<1>13. Active(i, c) /\ \A e \in Fn \ {f} : Bound(i[e])
  BY <1>3, <1>7, <1>9, <1>10 DEF AllBound, Active
<1>14. Bound(h[f])
  BY <1>3, <1>7 DEF AllBound
<1>15. PICK pc \in {"exit", "push", "bind"} :
         /\ Running' = [Running EXCEPT !.pc = pc]
         /\ pc = "push" => a + 1 > 1
         /\ pc = "bind" => ~ a + 1 > 1
  <2>1. PICK pc \in {"exit", "push", "bind"} :
          Goto(pc) /\ (pc = "push" => a + 1 > 1) /\ (pc = "bind" => ~ a + 1 > 1)
    BY DEF CallBegin, NeedsContext, f, a
  <2>2. cs' = [cs EXCEPT ![Depth] = [Running EXCEPT !.pc = pc]]
    BY <2>1 DEF Goto, Top
  <2>3. Len(cs) = Depth /\ Depth \in Nat \ {0} /\ cs \in Seq(Frame)
    BY RunningFrame DEF TypeOK, StackOK
  <2>4. Len(cs') = Depth /\ cs'[Depth] = [Running EXCEPT !.pc = pc]
    BY <2>2, <2>3
  <2> QED
    BY <2>1, <2>4, RunningNext
<1>16. Running'.k = "call" /\ Running'.f = f /\ Running'.pc = pc
  <2>1. Running \in Frame
    BY RunningFrame DEF TypeOK
  <2> QED
    BY <1>2, <1>15, <2>1 DEF Frame, f
<1>17. Rests(Running', i, c)
  <2>1. CASE pc = "exit"
    BY <1>16, <2>1 DEF Rests, Whole
  <2>2. CASE pc = "push"
    <3>1. a > 0 /\ a + 1 > 1 /\ (a + 1) - 1 = a
      BY <1>3, <1>15, <2>2 DEF a
    <3>2. Deepened(i, c, f)
      BY <1>7, <1>9, <1>10, <1>13, <1>14, <3>1 DEF Deepened, Bound
    <3> QED
      BY <1>16, <2>2, <3>2 DEF Rests, Whole
  <2>3. CASE pc = "bind"
    <3>1. a = 0
      BY <1>3, <1>15, <2>3 DEF a
    <3>2. s.depth = 1 /\ s.ctx = Outer(s.depth) /\ s.sym = 0 /\ s.nargs = 0
      BY <1>7, <1>9, <1>14, <3>1, OuterFacts DEF Bound
    <3>3. Opened(i, c, f)
      BY <1>10, <1>13, <3>2 DEF Opened
    <3> QED
      BY <1>16, <2>3, <3>3 DEF Rests, Whole
  <2> QED
    BY <2>1, <2>2, <2>3
<1> QED
  BY <1>11, <1>12, <1>17 DEF Restorable

LEMMA CallPushRestorable ==
  ASSUME TypeOK, TypeOK', Restorable(Running, ul, fn, cur.fun), CallPush
  PROVE  Restorable(Running', ul', fn', cur'.fun)
<1> DEFINE f == Running.f
           n == Len(ul)
<1>1. PICK h, c : /\ Reaches(ul, Len(ul), h, c) /\ Now(fn, cur.fun, h, c)
                  /\ Rests(Running, h, c)
  BY DEF Restorable
<1>2. Running.k = "call" /\ Running.pc = "push" /\ StackOK
  BY DEF CallPush, At, TypeOK
<1>3. /\ f \in Fn /\ fn \in [Fn -> FnState] /\ fn[f].depth \in Nat /\ fn[f].vr \in Nat
      /\ fn[f].sym \in Nat /\ fn[f].ctx \in Seq(Nat)
  BY <1>2, CalledFunction DEF TypeOK, FnOK
<1>4. /\ More(3) /\ New(1).e = "popctx" /\ New(1).f = f
      /\ New(2).e = "vr" /\ New(2).f = f /\ New(2).d = fn[f].vr
      /\ New(3).e = "delvr" /\ New(3).f = f
  BY CallPushPushes, SavedKinds
<1>5. n \in Nat /\ Len(ul') = n + 3 /\ Agree(ul, ul', n)
  BY <1>4 DEF More
<1>6. h \in [Fn -> FnState] /\ c \in Fn \cup {NoFn}
  BY <1>1, <1>5, ReachTyped
<1>7. Deepened(h, c, f)
  BY <1>1, <1>2 DEF Rests
<1>8. Reaches(ul', n, h, c)
  BY <1>1, <1>5, ReachAgree
<1>9. /\ ul'[n + 1] = New(1) /\ ul'[(n + 1) + 1] = New(2) /\ ul'[(n + 2) + 1] = New(3)
      /\ n + 1 \in Nat /\ (n + 1) + 1 = n + 2 /\ n + 2 \in Nat /\ (n + 2) + 1 = n + 3
  BY <1>5 DEF New
<1> DEFINE a == h[f].depth
<1>10. /\ a \in Nat /\ a > 1 /\ h[f].ctx = Outer(a - 1) /\ h[f].sym = a - 1
       /\ h[f].nargs = a - 1 /\ h[f].vr = a - 1 /\ h[f] \in FnState
       /\ \A e \in Fn \ {f} : Bound(h[e])
  BY <1>3, <1>6, <1>7 DEF Deepened, FnState
<1> HIDE DEF a, n, f
<1>11. Outer(a) = Append(h[f].ctx, h[f].sym) /\ Outer(a) \in Seq(Nat)
  BY <1>10, OuterFacts
<1> DEFINE s == [h[f] EXCEPT !.ctx = Outer(a), !.sym = 0]
           t == [s EXCEPT !.vr = 0]
           r == [t EXCEPT !.vr = a]
           i == [h EXCEPT ![f] = s]
           j == [i EXCEPT ![f] = t]
           k == [j EXCEPT ![f] = r]
<1>12. /\ s \in FnState /\ s.depth = h[f].depth /\ s.ctx = Outer(a) /\ s.sym = 0
       /\ s.nargs = h[f].nargs /\ s.vr = h[f].vr
  BY <1>10, <1>11 DEF FnState
<1> HIDE DEF s
<1>13. /\ t \in FnState /\ t.depth = s.depth /\ t.ctx = s.ctx /\ t.sym = s.sym
       /\ t.nargs = s.nargs /\ t.vr = 0
  BY <1>12 DEF FnState
<1> HIDE DEF t
<1>14. /\ r \in FnState /\ r.depth = t.depth /\ r.ctx = t.ctx /\ r.sym = t.sym
       /\ r.nargs = t.nargs /\ r.vr = a
  BY <1>10, <1>13 DEF FnState
<1> HIDE DEF r
<1>15. i \in [Fn -> FnState] /\ i[f] = s /\ \A e \in Fn \ {f} : i[e] = h[e]
  BY <1>3, <1>6, <1>12, AlteredState
<1>16. Reaches(ul', n + 1, i, c)
  <2>1. Undoes(New(1), h[f], s)
    BY <1>4, <1>11, <1>12 DEF Undoes
  <2>2. New(1).e \in FnElems
    BY <1>4 DEF FnElems
  <2> QED
    BY <1>3, <1>4, <1>5, <1>8, <1>9, <1>12, <2>1, <2>2, ReachFn
<1> HIDE DEF i
<1>17. j \in [Fn -> FnState] /\ j[f] = t /\ \A e \in Fn \ {f} : j[e] = i[e]
  BY <1>3, <1>13, <1>15, AlteredState
<1>18. Reaches(ul', n + 2, j, c)
  <2>1. fn[f].vr = h[f].vr
    <3>1. Like(fn[f], h[f]) /\ h[f].sym # 0
      BY <1>1, <1>3, <1>10 DEF Now
    <3> QED
      BY <3>1 DEF Like
  <2>2. Undoes(New(2), i[f], t)
    BY <1>4, <1>12, <1>13, <1>15, <2>1 DEF Undoes
  <2>3. New(2).e \in FnElems
    BY <1>4 DEF FnElems
  <2>4. Reaches(ul', (n + 1) + 1, [i EXCEPT ![f] = t], c)
    BY <1>3, <1>4, <1>9, <1>13, <1>16, <2>2, <2>3, ReachFn
  <2> QED
    BY <1>9, <2>4
<1> HIDE DEF j
<1>19. k \in [Fn -> FnState] /\ k[f] = r /\ \A e \in Fn \ {f} : k[e] = j[e]
  BY <1>3, <1>14, <1>17, AlteredState
<1>20. Reaches(ul', Len(ul'), k, c)
  <2>1. Undoes(New(3), j[f], r)
    BY <1>4, <1>13, <1>14, <1>17 DEF Undoes
  <2>2. New(3).e \in FnElems
    BY <1>4 DEF FnElems
  <2>3. Reaches(ul', (n + 2) + 1, [j EXCEPT ![f] = r], c)
    BY <1>3, <1>4, <1>9, <1>14, <1>18, <2>1, <2>2, ReachFn
  <2> QED
    BY <1>5, <1>9, <2>3
<1> HIDE DEF k
<1>21. /\ k[f].depth = a /\ k[f].ctx = Outer(a) /\ k[f].sym = 0 /\ k[f].nargs = a - 1
       /\ k[f].vr = a
       /\ \A e \in Fn \ {f} : k[e] = h[e]
  <2>1. h[f].depth = a
    BY DEF a
  <2> QED
    BY <1>10, <1>12, <1>13, <1>14, <1>15, <1>17, <1>19, <2>1
<1>22. Now(fn', cur'.fun, k, c)
  <2>1. /\ fn' = [fn EXCEPT ![f].ctx = Append(@, fn[f].sym), ![f].sym = 0,
                            ![f].vr = fn[f].depth]
        /\ cur' = cur
    BY DEF CallPush, f
  <2>2. ASSUME NEW e \in Fn
        PROVE  Like(fn'[e], k[e])
    <3>1. Like(fn[e], h[e])
      BY <1>1 DEF Now
    <3>2. CASE e = f
      <4>1. fn[f] \in FnState /\ fn'[f] = [fn[f] EXCEPT !.ctx = Append(@, fn[f].sym), !.sym = 0,
                                            !.vr = fn[f].depth]
        BY <1>3, <2>1
      <4>2. /\ fn'[f].depth = fn[f].depth /\ fn'[f].ctx = Append(fn[f].ctx, fn[f].sym)
            /\ fn'[f].sym = 0 /\ fn'[f].nargs = fn[f].nargs /\ fn'[f].vr = fn[f].depth
        BY <4>1 DEF FnState
      <4>3. fn[f].depth = a /\ fn[f].ctx = h[f].ctx /\ fn[f].sym = h[f].sym
            /\ fn[f].nargs = a - 1
        BY <1>10, <3>1, <3>2 DEF Like, a
      <4>4. Append(fn[f].ctx, fn[f].sym) = Outer(a)
        BY <1>11, <4>3
      <4> QED
        BY <1>21, <3>2, <4>2, <4>3, <4>4 DEF Like
    <3>3. CASE e # f
      BY <1>3, <1>21, <2>1, <3>1, <3>3
    <3> QED
      BY <3>2, <3>3
  <2> QED
    BY <1>1, <2>1, <2>2 DEF Now
<1>23. Opened(k, c, f)
  <2>1. Active(k, c)
    BY <1>7, <1>10, <1>21 DEF Deepened, Active
  <2>2. a > 0
    BY <1>10
  <2> QED
    BY <1>10, <1>21, <2>1, <2>2 DEF Opened
<1>24. Running'.k = "call" /\ Running'.f = f /\ Running'.pc = "bind"
  <2>1. cs' = [cs EXCEPT ![Depth] = [Running EXCEPT !.pc = "bind"]]
    BY DEF CallPush, Goto, Top
  <2>2. Len(cs) = Depth /\ Depth \in Nat \ {0} /\ cs \in Seq(Frame) /\ Running \in Frame
    BY RunningFrame DEF TypeOK, StackOK
  <2>3. Running' = [Running EXCEPT !.pc = "bind"]
    BY <2>1, <2>2, RunningNext
  <2> QED
    BY <1>2, <2>2, <2>3 DEF Frame, f
<1>25. Rests(Running', k, c)
  BY <1>23, <1>24 DEF Rests, Whole
<1> QED
  BY <1>20, <1>22, <1>25 DEF Restorable

LEMMA CallBindRestorable ==
  ASSUME TypeOK, TypeOK', Held(cs, ul), Restorable(Running, ul, fn, cur.fun), CallBind
  PROVE  Restorable(Running', ul', fn', cur'.fun)
<1> DEFINE f == Running.f
           n == Len(ul)
<1>1. PICK h, c : /\ Reaches(ul, Len(ul), h, c) /\ Now(fn, cur.fun, h, c)
                  /\ Rests(Running, h, c)
  BY DEF Restorable
<1>2. Running.k = "call" /\ Running.pc = "bind"
  BY DEF CallBind, At
<1>3. f \in Fn /\ fn \in [Fn -> FnState] /\ fn[f].nargs \in Nat /\ fn[f].depth \in Nat
  BY <1>2, CalledFunction DEF TypeOK, FnOK
<1>4. /\ More(5) /\ New(1).e = "clearsym" /\ New(1).f = f
      /\ New(2).e = "tab" /\ New(3).e = "fun" /\ New(3).f = cur.fun
      /\ New(4).e = "clearargs" /\ New(4).f = f
      /\ New(5).e = "nargs" /\ New(5).f = f /\ New(5).d = fn[f].nargs
  BY CallBindPushes, SavedKinds
<1>5. n \in Nat /\ Len(ul') = n + 5 /\ Agree(ul, ul', n)
  BY <1>4 DEF More
<1>6. h \in [Fn -> FnState] /\ c \in Fn \cup {NoFn}
  BY <1>1, <1>5, ReachTyped
<1>7. Opened(h, c, f)
  BY <1>1, <1>2 DEF Rests
<1>8. Reaches(ul', n, h, c)
  BY <1>1, <1>5, ReachAgree
<1>9. /\ ul'[n + 1] = New(1) /\ ul'[(n + 1) + 1] = New(2) /\ ul'[(n + 2) + 1] = New(3)
      /\ ul'[(n + 3) + 1] = New(4) /\ ul'[(n + 4) + 1] = New(5)
      /\ n + 1 \in Nat /\ (n + 1) + 1 = n + 2 /\ n + 2 \in Nat /\ (n + 2) + 1 = n + 3
      /\ n + 3 \in Nat /\ (n + 3) + 1 = n + 4 /\ n + 4 \in Nat /\ (n + 4) + 1 = n + 5
  BY <1>5 DEF New
<1> DEFINE a == h[f].depth
<1>10. /\ a \in Nat /\ a > 0 /\ h[f].ctx = Outer(a) /\ h[f].sym = 0
       /\ h[f].nargs = a - 1 /\ (a > 1 => h[f].vr = a) /\ h[f] \in FnState
       /\ \A e \in Fn \ {f} : Bound(h[e])
  BY <1>3, <1>6, <1>7 DEF Opened, FnState
<1>11. fn[f].nargs = h[f].nargs /\ fn[f].depth = a /\ fn[f].ctx = h[f].ctx /\ cur.fun = c
  BY <1>1, <1>3 DEF Now, Like
<1> HIDE DEF a, n, f
<1> DEFINE s == [h[f] EXCEPT !.sym = a, !.vr = a]
           t == [s EXCEPT !.nargs = a]
           i == [h EXCEPT ![f] = s]
           j == [i EXCEPT ![f] = t]
<1>12. /\ s \in FnState /\ s.depth = h[f].depth /\ s.ctx = h[f].ctx /\ s.sym = a
       /\ s.nargs = h[f].nargs /\ s.vr = a
  BY <1>10 DEF FnState
<1> HIDE DEF s
<1>13. /\ t \in FnState /\ t.depth = s.depth /\ t.ctx = s.ctx /\ t.sym = s.sym
       /\ t.nargs = a /\ t.vr = s.vr
  BY <1>10, <1>12 DEF FnState
<1> HIDE DEF t
<1>14. i \in [Fn -> FnState] /\ i[f] = s /\ \A e \in Fn \ {f} : i[e] = h[e]
  BY <1>3, <1>6, <1>12, AlteredState
<1>15. Reaches(ul', n + 1, i, c)
  <2>1. h[f].ctx # <<>> => h[f].vr = a
    <3>1. a = 1 => h[f].ctx = <<>>
      BY <1>10, OuterFacts
    <3>2. a = 1 \/ a > 1
      BY <1>10
    <3> QED
      BY <1>10, <3>1, <3>2
  <2>2. Undoes(New(1), h[f], s)
    <3>1. a # 0 /\ h[f].sym = 0
      BY <1>10
    <3>2. /\ s.depth = h[f].depth /\ s.ctx = h[f].ctx /\ s.sym = a
          /\ s.nargs = h[f].nargs /\ s.vr = a /\ New(1).e = "clearsym"
      BY <1>4, <1>12
    <3> QED
      BY <2>1, <3>1, <3>2 DEF Undoes
  <2>3. New(1).e \in FnElems
    BY <1>4 DEF FnElems
  <2> QED
    BY <1>3, <1>4, <1>5, <1>8, <1>9, <1>12, <2>2, <2>3, ReachFn
<1> HIDE DEF i
<1>16. Reaches(ul', n + 2, i, c)
  <2>1. Link(i, c, New(2), i, c)
    BY <1>4 DEF Link, Foreign, FnElems
  <2> QED
    BY <1>6, <1>9, <1>14, <1>15, <2>1, ReachMore
<1>17. Reaches(ul', n + 3, i, f)
  <2>1. Link(i, c, New(3), i, f)
    BY <1>4, <1>11 DEF Link, Foreign, FnElems
  <2> QED
    BY <1>3, <1>9, <1>14, <1>16, <2>1, ReachMore
<1>18. Reaches(ul', n + 4, i, f)
  <2>1. Link(i, f, New(4), i, f)
    BY <1>4 DEF Link, Undoes, Foreign, FnElems
  <2> QED
    BY <1>3, <1>9, <1>14, <1>17, <2>1, ReachMore
<1>19. j \in [Fn -> FnState] /\ j[f] = t /\ \A e \in Fn \ {f} : j[e] = i[e]
  BY <1>3, <1>13, <1>14, AlteredState
<1>20. Reaches(ul', Len(ul'), j, f)
  <2>1. Undoes(New(5), i[f], t)
    BY <1>4, <1>11, <1>12, <1>13, <1>14 DEF Undoes
  <2>2. New(5).e \in FnElems
    BY <1>4 DEF FnElems
  <2>3. Reaches(ul', (n + 4) + 1, [i EXCEPT ![f] = t], f)
    BY <1>3, <1>4, <1>9, <1>13, <1>18, <2>1, <2>2, ReachFn
  <2> QED
    BY <1>5, <1>9, <2>3
<1> HIDE DEF j
<1>21. /\ j[f].depth = a /\ j[f].ctx = Outer(a) /\ j[f].sym = a /\ j[f].nargs = a
       /\ j[f].vr = a
       /\ \A e \in Fn \ {f} : j[e] = h[e]
  <2>1. h[f].depth = a
    BY DEF a
  <2> QED
    BY <1>10, <1>12, <1>13, <1>14, <1>19, <2>1
<1>22. Now(fn', cur'.fun, j, f)
  <2>1. /\ fn' = [fn EXCEPT ![f].sym = a, ![f].args = a, ![f].nargs = a, ![f].vr = a]
        /\ cur' = [fun |-> f, tab |-> f]
    BY <1>11 DEF CallBind, f
  <2>2. ASSUME NEW e \in Fn
        PROVE  Like(fn'[e], j[e])
    <3>1. Like(fn[e], h[e])
      BY <1>1 DEF Now
    <3>2. CASE e = f
      <4>1. /\ fn[f] \in FnState
            /\ fn'[f] = [fn[f] EXCEPT !.sym = a, !.args = a, !.nargs = a, !.vr = a]
        BY <1>3, <2>1
      <4>2. /\ fn'[f].depth = fn[f].depth /\ fn'[f].ctx = fn[f].ctx
            /\ fn'[f].sym = a /\ fn'[f].nargs = a /\ fn'[f].vr = a
        BY <4>1 DEF FnState
      <4> QED
        BY <1>10, <1>11, <1>21, <3>2, <4>2 DEF Like
    <3>3. CASE e # f
      BY <1>3, <1>21, <2>1, <3>1, <3>3
    <3> QED
      BY <3>2, <3>3
  <2>3. cur'.fun = f
    BY <2>1
  <2> QED
    BY <2>2, <2>3 DEF Now
<1>23. AllBound(j, f)
  <2>1. Bound(j[f])
    BY <1>21 DEF Bound
  <2>2. \A e \in Fn \ {f} : Bound(j[e])
    BY <1>10, <1>21
  <2> QED
    BY <1>3, <1>10, <1>21, <2>1, <2>2 DEF AllBound, Active
<1>24. Waits(Running')
  BY CallBindOrdinary, OrdinaryWaits
<1>25. Rests(Running', j, f)
  BY <1>23, <1>24, RestsWhole
<1> QED
  BY <1>20, <1>22, <1>25 DEF Restorable

LEMMA NextRestorable ==
  ASSUME TypeOK, TypeOK', Layout(cs, ul), Held(cs, ul),
         Restorable(Running, ul, fn, cur.fun), [Next]_vars
  PROVE  Restorable(Running', ul', fn', cur'.fun)
<1>1. CASE UNCHANGED vars
  BY <1>1 DEF vars, Running, Depth
<1>2. CASE Next
  BY <1>2, NextSteps, EasyRestorable, StillRestorable, PushesRestorable, OpensRestorable,
     CutsRestorable, CallBeginRestorable, CallPushRestorable, CallBindRestorable,
     RunPopRestorable
<1> QED
  BY <1>1, <1>2

LEMMA InitRestorable == Init => Restorable(Running, ul, fn, cur.fun)
<1> SUFFICES ASSUME Init
             PROVE  Restorable(Running, ul, fn, cur.fun)
  OBVIOUS
<1>1. fn \in [Fn -> FnState] /\ NoFn \in Fn \cup {NoFn}
  BY InitTypes DEF TypeOK, FnOK
<1>2. Clean(fn, NoFn)
  BY DEF Init, Clean
<1>3. ul = <<>> /\ Len(ul) = 0 /\ cur.fun = NoFn
  BY DEF Init
<1>4. Reaches(ul, Len(ul), fn, NoFn)
  BY <1>1, <1>2, <1>3, ReachNone
<1>5. Waits(Running)
  BY DEF Init, Running, Depth, Waits
<1>6. Rests(Running, fn, NoFn)
  BY <1>1, <1>2, <1>5, CleanBound, RestsWhole
<1>7. Now(fn, cur.fun, fn, NoFn)
  BY <1>3 DEF Now, Like
<1> QED
  BY <1>4, <1>6, <1>7 DEF Restorable

LEMMA LocalsBound ==
  ASSUME TypeOK, Restorable(Running, ul, fn, cur.fun)
  PROVE  LocalsOfActivation
<1> SUFFICES ASSUME AtStatement, cur.fun # NoFn
             PROVE  LET s == fn[cur.fun]
                    IN s.sym = s.depth /\ s.nargs = s.depth /\ s.vr = s.depth
  BY DEF LocalsOfActivation
<1>1. PICK h, c : /\ Reaches(ul, Len(ul), h, c) /\ Now(fn, cur.fun, h, c)
                  /\ Rests(Running, h, c)
  BY DEF Restorable
<1>2. AllBound(h, c)
  BY <1>1 DEF Rests, AtStatement, Whole
<1>3. cur.fun = c /\ c \in Fn /\ h[c].depth > 0
  BY <1>1, <1>2 DEF Now, AllBound, Active
<1>4. Len(ul) \in Nat
  BY LenProperties DEF TypeOK, UnwindOK
<1>5. h[c].depth \in Nat
  BY <1>1, <1>3, <1>4, ReachTyped DEF FnState
<1>6. Bound(h[c]) /\ Like(fn[c], h[c])
  BY <1>1, <1>2, <1>3 DEF AllBound, Now
<1>7. h[c].sym # 0
  BY <1>3, <1>5, <1>6 DEF Bound
<1> QED
  BY <1>3, <1>6, <1>7 DEF Bound, Like

\* The statements of a function see the locals, the argument count and the
\* return list of their own activation: popping takes the members of every
\* tree_function back through the states in which the protections were pushed,
\* also when an error or an interrupt ends several activations at once.
THEOREM OwnActivation == Spec => []LocalsOfActivation
<1> DEFINE Inv == Restorable(Running, ul, fn, cur.fun)
<1>1. Init => Layout(cs, ul) /\ Held(cs, ul) /\ Inv
  BY InitLayout, InitHeld, InitRestorable
<1>2. TypeOK /\ TypeOK' /\ Layout(cs, ul) /\ Held(cs, ul) /\ Inv /\ [Next]_vars
        => (Layout(cs, ul) /\ Held(cs, ul) /\ Inv)'
  BY NextLayout, NextHeld, NextRestorable
<1>3. TypeOK /\ Inv => LocalsOfActivation
  BY LocalsBound
<1> HIDE DEF Inv
<1> QED
  BY <1>1, <1>2, <1>3, TypeCorrect, PTL DEF Spec

\* Nothing is left on the list at the prompt.
LEMMA PromptEmpty ==
  ASSUME TypeOK, Layout(cs, ul), AtPrompt
  PROVE  ul = <<>>
<1>1. Depth = 1 /\ Running.k = "main" /\ Running.pc = "read" /\ Running = cs[1]
  BY DEF AtPrompt, At, Running
<1>2. Running.base = Len(ul)
  BY <1>1, IdleHere DEF Idle
<1>3. Running.base = 0
  BY <1>1 DEF Layout, Pieces, Ascend
<1> QED
  BY <1>2, <1>3, EmptySeq DEF TypeOK, UnwindOK

LEMMA PromptRestored ==
  ASSUME TypeOK, Layout(cs, ul), BufferKnown, TextKept,
         Restorable(Running, ul, fn, cur.fun)
  PROVE  PromptClean
<1> SUFFICES ASSUME AtPrompt
             PROVE  /\ ul = <<>> /\ g["buf"] = 0 /\ g["rsf"] = 0 /\ txt = {}
                    /\ cur.fun = NoFn
                    /\ \A f \in Fn : fn[f].depth = 0 /\ fn[f].ctx = <<>> /\ fn[f].sym = 0
  BY DEF PromptClean
<1>1. ul = <<>> /\ Len(ul) = 0
  BY PromptEmpty
<1>2. ASSUME NEW v \in Restores
      PROVE  g[v] = 0
  BY <1>1 DEF BufferKnown, Replays, Saves
<1>3. txt = {}
  <2>1. ~ At("catch", "protect")
    BY DEF AtPrompt, At
  <2> QED
    BY <1>1, <2>1 DEF TextKept, Clears
<1>4. PICK h, c : Reaches(ul, Len(ul), h, c) /\ Now(fn, cur.fun, h, c)
  BY DEF Restorable
<1>5. h \in [Fn -> FnState] /\ c \in Fn \cup {NoFn}
  BY <1>1, <1>4, ReachTyped
<1>6. Clean(h, c)
  BY <1>1, <1>4, <1>5, ReachNone
<1>7. cur.fun = NoFn
  BY <1>4, <1>6 DEF Now, Clean
<1>8. ASSUME NEW f \in Fn
      PROVE  fn[f].depth = 0 /\ fn[f].ctx = <<>> /\ fn[f].sym = 0
  BY <1>4, <1>6 DEF Now, Like, Clean
<1> QED
  BY <1>1, <1>2, <1>3, <1>7, <1>8 DEF Restores

\* However a command has ended, the prompt finds the evaluator as it was at the
\* start: nothing to unwind, no message held back, no error text, no script, no
\* running function, no activation and no saved or live locals.
THEOREM CleanPrompt == Spec => []PromptClean
<1> DEFINE Inv == BufferKnown /\ TextKept /\ Restorable(Running, ul, fn, cur.fun)
<1>1. Init => Layout(cs, ul) /\ Held(cs, ul) /\ Inv
  BY InitLayout, InitHeld, InitBuffer, InitText, InitRestorable
<1>2. TypeOK /\ TypeOK' /\ Layout(cs, ul) /\ Held(cs, ul) /\ Inv /\ [Next]_vars
        => (Layout(cs, ul) /\ Held(cs, ul) /\ Inv)'
  BY NextLayout, NextHeld, NextBuffer, NextText, NextRestorable
<1>3. TypeOK /\ Layout(cs, ul) /\ Inv => PromptClean
  BY PromptRestored
<1> HIDE DEF Inv
<1> QED
  BY <1>1, <1>2, <1>3, TypeCorrect, PTL DEF Spec

-----------------------------------------------------------------------------
(***************************************************************************)
(* Statements and jumps                                                    *)
(***************************************************************************)

\* Where brk and ret are unset, and so may a list of statements begin.
Starts(k, pc) ==
  \/ k = "main" /\ pc = "read"
  \/ k = "list" /\ pc \in {"enter", "next"}
  \/ k = "while" /\ pc = "test"
  \/ k = "for" /\ pc = "assign"
  \/ k = "call" /\ pc \in {"begin", "push", "bind"}
  \/ k = "script" /\ pc \in {"begin", "loop"}
  \/ k = "eval" /\ pc = "parse"

\* No frame has been jumped to or evaluates the second string of an eval.
Straight(fr) == fr.pc \notin {"jumped", "parse2"} /\ (fr.k = "eval" => ~ fr.flag)

Stopped(s) ==
  /\ \A i \in 1 .. Len(s) : Straight(s[i])
  /\ \A i \in 1 .. Len(s) : i < Len(s) => ~ Starts(s[i].k, s[i].pc)

Unset(fr, h) ==
  /\ Starts(fr.k, fr.pc) => h["brk"] = 0 /\ h["ret"] = 0
  /\ fr.k = "list" /\ fr.pc = "next" => h["err"] = 0

InStep(s, h) == Stopped(s) /\ Unset(s[Len(s)], h)

\* The restrictions under which NothingRunsWhileJumping holds.
Batch == ~ Interactive /\ MaxIntr = 0 /\ "eval2" \notin StmtKinds

LEMMA AtBottom ==
  ASSUME TypeOK
  PROVE  /\ cs \in Seq(Frame) /\ Depth \in Nat \ {0} /\ Len(cs) = Depth
         /\ Running = cs[Depth] /\ Running \in Frame /\ StackOK
  BY RunningFrame DEF TypeOK, StackOK, Running

\* The running frame goes on at pc as fr, and the others stay.
LEMMA StoppedMoves ==
  ASSUME TypeOK, TypeOK', Stopped(cs), NEW k \in {0, 1}, Len(cs') = Depth + k,
         \A i \in 1 .. Depth - 1 : cs'[i] = cs[i], Straight(cs'[Depth]),
         k = 1 => ~ Starts(cs'[Depth].k, cs'[Depth].pc) /\ Straight(cs'[Depth + 1])
  PROVE  Stopped(cs') /\ Running' = cs'[Depth + k]
<1>1. Len(cs) = Depth /\ Depth \in Nat \ {0}
  BY AtBottom
<1>2. Running' = cs'[Depth + k]
  BY DEF Running, Depth
<1>3. \A i \in 1 .. Len(cs') : i \in 1 .. Depth - 1 \/ i = Depth \/ (k = 1 /\ i = Depth + 1)
  BY <1>1
<1>4. \A i \in 1 .. Depth - 1 : i \in 1 .. Len(cs) /\ i < Len(cs)
  BY <1>1
<1>5. ASSUME NEW i \in 1 .. Len(cs')
      PROVE  Straight(cs'[i])
  BY <1>3, <1>4 DEF Stopped
<1>6. ASSUME NEW i \in 1 .. Len(cs'), i < Len(cs')
      PROVE  ~ Starts(cs'[i].k, cs'[i].pc)
  <2>1. CASE i \in 1 .. Depth - 1
    BY <1>4, <2>1 DEF Stopped
  <2>2. CASE i = Depth
    BY <1>1, <1>6, <2>2
  <2> QED
    BY <1>1, <1>3, <1>6, <2>1, <2>2
<1> QED
  BY <1>2, <1>5, <1>6 DEF Stopped

\* The flags when the running frame goes on to where nothing starts.
LEMMA NotStarting ==
  ASSUME NEW fr, ~ Starts(fr.k, fr.pc), NEW h
  PROVE  Unset(fr, h)
  BY DEF Unset, Starts

LEMMA InStepGoes ==
  ASSUME TypeOK, TypeOK', InStep(cs, g), NEW pc, pc \notin {"jumped", "parse2"},
         Running.k = "eval" => ~ cs'[Depth].flag
  PROVE  /\ Went(pc) /\ ~ Starts(Running.k, pc) => InStep(cs', g')
         /\ Went(pc) /\ g'["brk"] = 0 /\ g'["ret"] = 0
              /\ (Running.k = "list" /\ pc = "next" => g'["err"] = 0) => InStep(cs', g')
         /\ \A x : /\ WentCalling(pc, x) /\ ~ Starts(Running.k, pc) /\ Straight(x)
                   /\ ~ Starts(x.k, x.pc) \/ (g'["brk"] = 0 /\ g'["ret"] = 0 /\ x.pc # "next")
                => InStep(cs', g')
<1>1. Len(cs) = Depth /\ Depth \in Nat \ {0} /\ Running = cs[Depth]
  BY AtBottom
<1>2. Stopped(cs)
  BY DEF InStep
<1>3. ASSUME Goes(cs', pc)
      PROVE  /\ \A i \in 1 .. Depth - 1 : cs'[i] = cs[i]
             /\ cs'[Depth].k = Running.k /\ cs'[Depth].pc = pc /\ Straight(cs'[Depth])
  BY <1>3 DEF Goes, Replaced, Same, Straight
<1>4. ASSUME Went(pc)
      PROVE  Stopped(cs') /\ cs'[Len(cs')].k = Running.k /\ cs'[Len(cs')].pc = pc
  <2>1. Len(cs') = Depth + 0 /\ Len(cs') = Depth /\ Goes(cs', pc)
    BY <1>1, <1>4 DEF Went
  <2> QED
    BY <1>2, <1>3, <2>1, StoppedMoves
<1>5. ASSUME NEW x, WentCalling(pc, x), ~ Starts(Running.k, pc), Straight(x)
      PROVE  Stopped(cs') /\ cs'[Len(cs')] = x
  <2>1. Len(cs') = Depth + 1 /\ Goes(cs', pc) /\ cs'[Depth + 1] = x
    BY <1>5 DEF WentCalling
  <2> QED
    BY <1>2, <1>3, <1>5, <2>1, StoppedMoves
<1>6. ASSUME Went(pc), ~ Starts(Running.k, pc)
      PROVE  InStep(cs', g')
  BY <1>4, <1>6, NotStarting DEF InStep
<1>7. ASSUME Went(pc), g'["brk"] = 0, g'["ret"] = 0,
             Running.k = "list" /\ pc = "next" => g'["err"] = 0
      PROVE  InStep(cs', g')
  BY <1>4, <1>7 DEF InStep, Unset
<1>8. ASSUME NEW x, WentCalling(pc, x), ~ Starts(Running.k, pc), Straight(x),
             ~ Starts(x.k, x.pc) \/ (g'["brk"] = 0 /\ g'["ret"] = 0 /\ x.pc # "next")
      PROVE  InStep(cs', g')
  <2>1. Stopped(cs') /\ cs'[Len(cs')] = x
    BY <1>5, <1>8
  <2>2. Unset(x, g')
    <3>1. CASE ~ Starts(x.k, x.pc)
      BY <3>1, NotStarting
    <3>2. CASE g'["brk"] = 0 /\ g'["ret"] = 0 /\ x.pc # "next"
      BY <3>2 DEF Unset
    <3> QED
      BY <1>8, <3>1, <3>2
  <2> QED
    BY <2>1, <2>2 DEF InStep
<1> QED
  BY <1>6, <1>7, <1>8

LEMMA InStepReturns ==
  ASSUME TypeOK, TypeOK', InStep(cs, g), Return, Running.k # "main"
  PROVE  InStep(cs', g')
<1>1. Len(cs) = Depth /\ Depth \in Nat \ {0} /\ Running = cs[Depth] /\ StackOK
  BY AtBottom
<1>2. Depth > 1
  BY <1>1 DEF TypeOK, StackOK
<1>3. Len(cs') = Depth - 1 /\ Same(cs, cs', Depth - 1)
  BY <1>1, <1>2, ReturnSame
<1>4. \A i \in 1 .. Len(cs') : cs'[i] = cs[i] /\ i \in 1 .. Len(cs) /\ i < Len(cs)
  BY <1>1, <1>3 DEF Same
<1>5. Len(cs') \in 1 .. Len(cs')
  BY <1>1, <1>2, <1>3
<1>6. \A i \in 1 .. Len(cs') : Straight(cs'[i]) /\ ~ Starts(cs'[i].k, cs'[i].pc)
  BY <1>4 DEF InStep, Stopped
<1> QED
  BY <1>5, <1>6, NotStarting DEF InStep, Stopped

\* Where the running frame is, nothing is set.
LEMMA UnsetHere ==
  ASSUME TypeOK, InStep(cs, g)
  PROVE  /\ Straight(Running)
         /\ Starts(Running.k, Running.pc) => g["brk"] = 0 /\ g["ret"] = 0
         /\ At("list", "next") => g["err"] = 0
<1>1. Len(cs) = Depth /\ Depth \in Nat \ {0} /\ Running = cs[Depth]
  BY AtBottom
<1>2. Len(cs) \in 1 .. Len(cs)
  BY <1>1
<1> QED
  BY <1>1, <1>2 DEF InStep, Stopped, Unset, At

\* A list that is called where nothing is set.
LEMMA ListStarts ==
  ASSUME TypeOK, TypeOK', InStep(cs, g), NEW pc, pc \notin {"jumped", "parse2"},
         Running.k # "eval", ~ Starts(Running.k, pc), NEW x, WentCalling(pc, x),
         x.k # "eval", x.pc \notin {"next", "jumped", "parse2"},
         g'["brk"] = 0, g'["ret"] = 0
  PROVE  InStep(cs', g')
<1>1. Straight(x)
  BY DEF Straight
<1> QED
  BY <1>1, InStepGoes

\* A frame that starts nothing.
LEMMA RunStarts ==
  ASSUME TypeOK, TypeOK', InStep(cs, g), NEW pc, pc \notin {"jumped", "parse2"},
         Running.k = "eval" => ~ cs'[Depth].flag, ~ Starts(Running.k, pc),
         NEW x, WentCalling(pc, x), x.k \in {"run", "catch", "cleanup"},
         x.pc \notin {"jumped", "parse2"}
  PROVE  InStep(cs', g')
<1>1. Straight(x) /\ ~ Starts(x.k, x.pc)
  BY DEF Straight, Starts
<1> QED
  BY <1>1, InStepGoes

LEMMA MainInStep ==
  ASSUME TypeOK, TypeOK', InStep(cs, g), Batch, MainRead \/ MainEval \/ MainJumped
  PROVE  InStep(cs', g')
<1>1. StackOK /\ Running.k = "main" /\ ~ Inside(Running) /\ g \in [Flags -> FlagValues]
  BY DEF TypeOK, FlagsOK, MainRead, MainEval, MainJumped, At, Inside
<1>2. ~ MainJumped
  BY UnsetHere DEF MainJumped, At, Straight
<1>3. CASE MainRead
  <2>1. PICK n \in 1 .. MaxList : Call(ListOf("cmd", n, FALSE, FALSE), "eval")
    BY <1>3 DEF MainRead
  <2> DEFINE x == ListOf("cmd", n, FALSE, FALSE)
  <2>2. x \in Frame /\ x.k = "list" /\ x.pc = "enter"
    <3>1. "cmd" \in Roles /\ FALSE \in BOOLEAN
      BY DEF Roles
    <3> QED
      BY <2>1, <3>1, NewLists
  <2> HIDE DEF x
  <2>3. WentCalling("eval", x)
    BY <1>1, <2>1, <2>2, Goings, Zenon DEF Pcs, x
  <2>4. g'["brk"] = 0 /\ g'["ret"] = 0
    <3>1. g["brk"] = 0 /\ g["ret"] = 0
      BY <1>3, UnsetHere DEF MainRead, At, Starts
    <3> QED
      BY <1>1, <1>3, <3>1 DEF MainRead, Flags
  <2> QED
    BY <1>1, <2>2, <2>3, <2>4, ListStarts DEF Starts
<1>4. CASE MainEval
  <2>1. /\ g' = [g EXCEPT !["ret"] = 0, !["brk"] = Less(@)]
        /\ Goto(IF g["ret"] # 0 \/ g["brk"] # 0 \/ g["err"] # 0
                THEN "quit" ELSE "read")
    BY <1>4 DEF MainEval, Batch
  <2>2. CASE g["ret"] # 0 \/ g["brk"] # 0 \/ g["err"] # 0
    <3>1. Went("quit")
      BY <1>1, <2>1, <2>2, Goings, Zenon DEF Pcs
    <3> QED
      BY <1>1, <3>1, InStepGoes DEF Starts
  <2>3. CASE g["ret"] = 0 /\ g["brk"] = 0 /\ g["err"] = 0
    <3>1. Went("read")
      BY <1>1, <2>1, <2>3, Goings, Zenon DEF Pcs
    <3>2. g'["brk"] = 0 /\ g'["ret"] = 0
      BY <1>1, <2>1, <2>3 DEF Less, Flags
    <3> QED
      BY <1>1, <3>1, <3>2, InStepGoes
  <2> QED
    BY <2>2, <2>3
<1> QED
  BY <1>2, <1>3, <1>4

LEMMA ListInStep ==
  ASSUME TypeOK, TypeOK', InStep(cs, g), ListEnd \/ ListNext
  PROVE  InStep(cs', g')
<1>1. StackOK /\ Running.k = "list" /\ ~ Inside(Running)
  BY DEF TypeOK, ListEnd, ListNext, At, Inside
<1>2. CASE ListEnd
  BY <1>1, <1>2, InStepReturns DEF ListEnd
<1>3. CASE ListNext
  <2>1. Went("next")
    BY <1>1, <1>3, Goings, Zenon DEF ListNext, Pcs
  <2>2. g'["brk"] = 0 /\ g'["ret"] = 0 /\ g'["err"] = 0
    BY <1>3 DEF ListNext, Jumping
  <2> QED
    BY <1>1, <2>1, <2>2, InStepGoes
<1> QED
  BY <1>2, <1>3

LEMMA LoopInStep ==
  ASSUME TypeOK, TypeOK', InStep(cs, g), Loops
  PROVE  InStep(cs', g')
<1>1. /\ StackOK /\ Running.k \in {"while", "for"} /\ ~ Inside(Running)
      /\ g \in [Flags -> FlagValues]
  BY DEF TypeOK, FlagsOK, Loops, WhileTrue, WhileFalse, WhileFails, LoopAfter, ForNext,
         ForAssignFails, ForEnd, At, Inside
<1>2. CASE WhileFalse \/ WhileFails \/ ForEnd
  BY <1>1, <1>2, InStepReturns DEF WhileFalse, WhileFails, ForEnd
<1>3. CASE WhileTrue \/ ForNext
  <2>1. PICK n \in 1 .. MaxList :
          cs' = Append(Counted("after"), ListOf("plain", n, TRUE, TRUE))
    BY <1>3 DEF WhileTrue, ForNext
  <2>2. Running.n > 0
    BY <1>3 DEF WhileTrue, ForNext
  <2> DEFINE x == ListOf("plain", n, TRUE, TRUE)
  <2>3. x \in Frame /\ x.k = "list" /\ x.pc = "enter"
    <3>1. "plain" \in Roles /\ TRUE \in BOOLEAN
      BY DEF Roles
    <3> QED
      BY <2>1, <3>1, NewLists
  <2> HIDE DEF x
  <2>4. WentCalling("after", x)
    BY <1>1, <2>1, <2>2, <2>3, Goings, Zenon DEF Pcs, x
  <2>5. g'["brk"] = 0 /\ g'["ret"] = 0
    BY <1>3, UnsetHere DEF WhileTrue, ForNext, At, Starts
  <2> QED
    BY <1>1, <2>3, <2>4, <2>5, ListStarts DEF Starts
<1>4. CASE ForAssignFails
  <2>1. Went("assign")
    BY <1>1, <1>4, Goings, Zenon DEF ForAssignFails, Pcs
  <2>2. g["brk"] = 0 /\ g["ret"] = 0
    BY <1>4, UnsetHere DEF ForAssignFails, At, Starts
  <2>3. g'["brk"] = 0 /\ g'["ret"] = 0
    BY <1>1, <1>4, <2>2 DEF ForAssignFails, Flags
  <2> QED
    BY <1>1, <2>1, <2>3, InStepGoes
<1>5. CASE LoopAfter
  <2>1. CASE Return
    BY <1>1, <2>1, InStepReturns
  <2>2. CASE ~ Return
    <3>1. /\ g' = [g EXCEPT !["cont"] = Less(@), !["brk"] = Less(@)]
          /\ g["ret"] = 0 /\ g["brk"] = 0
          /\ Goto(IF Running.k = "while" THEN "test" ELSE "assign")
      BY <1>5, <2>2 DEF LoopAfter
    <3>2. PICK pc \in {"test", "assign"} : Goto(pc)
      BY <3>1
    <3>3. Went(pc)
      BY <1>1, <3>2, Goings, Zenon DEF Pcs
    <3>4. g'["brk"] = 0 /\ g'["ret"] = 0
      BY <1>1, <3>1 DEF Less, Flags
    <3> QED
      BY <1>1, <3>3, <3>4, InStepGoes
  <2> QED
    BY <2>1, <2>2
<1> QED
  BY <1>2, <1>3, <1>4, <1>5 DEF Loops

LEMMA NumberedFrames ==
  ASSUME TypeOK
  PROVE  \A k \in {"while", "for", "script"}, pc \in {"test", "assign", "begin"}, n \in Nat :
           LET x == [FrameOf(k, pc) EXCEPT !.n = n]
           IN x \in Frame /\ x.k = k /\ x.pc = pc
<1> SUFFICES ASSUME NEW k \in {"while", "for", "script"},
                    NEW pc \in {"test", "assign", "begin"}, NEW n \in Nat
             PROVE  LET x == [FrameOf(k, pc) EXCEPT !.n = n]
                    IN x \in Frame /\ x.k = k /\ x.pc = pc
  OBVIOUS
<1> DEFINE y == FrameOf(k, pc)
<1>1. y \in Frame /\ y.k = k /\ y.pc = pc
  <2>1. k \in FrameKinds \ {"call"} /\ pc \in Pcs
    BY DEF FrameKinds, Pcs
  <2> QED
    BY <2>1, FrameTypes, NewFrames DEF TypeOK
<1> HIDE DEF y
<1>2. [y EXCEPT !.n = n] \in Frame
  BY <1>1 DEF Frame
<1>3. [y EXCEPT !.n = n].k = k /\ [y EXCEPT !.n = n].pc = pc
  BY <1>1 DEF Frame
<1> QED
  BY <1>2, <1>3 DEF y

\* A statement that starts a frame of its own, or none.
LEMMA PlainStatementInStep ==
  ASSUME TypeOK, TypeOK', Layout(cs, ul), InStep(cs, g), AtStatement,
         \/ Simple \/ Warn \/ While \/ For \/ If \/ Source
         \/ \E e \in {1, -1, -2} : Raise(e)
         \/ \E v \in {"brk", "cont", "ret"} : SetJump(v)
         \/ \E f \in Fn : CallFunction(f)
  PROVE  InStep(cs', g')
<1>1. /\ Running.k = "list" /\ StackOK /\ Running.n > 0
      /\ Running.brk \in BOOLEAN /\ Running.cont \in BOOLEAN
      /\ g["brk"] = 0 /\ g["ret"] = 0
  BY StatementHere, SteppedGood, UnsetHere DEF AtStatement, Starts
<1>2. ASSUME cs' = Stepped
      PROVE  InStep(cs', g')
  BY <1>1, <1>2, StatementHere, InStepGoes DEF Starts
<1>3. ASSUME NEW x \in Frame, cs' = Append(Stepped, x), x.k # "eval",
             x.pc \notin {"next", "jumped", "parse2"}, g' = g
      PROVE  InStep(cs', g')
  <2>1. WentCalling("check", x)
    BY <1>3, StatementHere
  <2> QED
    BY <1>1, <1>3, <2>1, ListStarts DEF Starts
<1>4. CASE While
  <2> DEFINE x == [FrameOf("while", "test") EXCEPT !.n = MaxIter]
  <2>2. x \in Frame /\ x.k = "while" /\ x.pc = "test"
    BY BoundAssumption, NumberedFrames
  <2> QED
    BY <1>3, <1>4, <2>2 DEF While
<1>5. CASE For
  <2>1. PICK n \in 0 .. MaxIter :
          cs' = Append(Stepped, [FrameOf("for", "assign") EXCEPT !.n = n])
    BY <1>5 DEF For
  <2> DEFINE x == [FrameOf("for", "assign") EXCEPT !.n = n]
  <2>3. x \in Frame /\ x.k = "for" /\ x.pc = "assign"
    BY <2>1, BoundAssumption, NumberedFrames
  <2> QED
    BY <1>3, <1>5, <2>1, <2>3 DEF For
<1>6. CASE If
  <2>1. PICK n \in 1 .. MaxList :
          cs' = Append(Stepped, ListOf("plain", n, Running.brk, Running.cont))
    BY <1>6 DEF If
  <2>2. LET x == ListOf("plain", n, Running.brk, Running.cont)
        IN x \in Frame /\ x.k = "list" /\ x.pc = "enter"
    <3>1. "plain" \in Roles
      BY DEF Roles
    <3> QED
      BY <1>1, <2>1, <3>1, NewLists
  <2> QED
    BY <1>3, <1>6, <2>1, <2>2 DEF If
<1>7. CASE Source
  <2>1. PICK n \in 1 .. MaxList :
          cs' = Append(Stepped, [FrameOf("script", "begin") EXCEPT !.n = n])
    BY <1>7 DEF Source
  <2> DEFINE x == [FrameOf("script", "begin") EXCEPT !.n = n]
  <2>3. x \in Frame /\ x.k = "script" /\ x.pc = "begin"
    BY <2>1, BoundAssumption, NumberedFrames
  <2> QED
    BY <1>3, <1>7, <2>1, <2>3 DEF Source
<1>8. CASE \E f \in Fn : CallFunction(f)
  <2>1. PICK f \in Fn : CallFunction(f)
    BY <1>8
  <2> DEFINE x == [FrameOf("call", "begin") EXCEPT !.f = f]
  <2>2. x \in Frame /\ x.k = "call" /\ x.pc = "begin"
    <3>1. x \in Frame
      BY <1>1, FrameTypes DEF TypeOK, Pcs
    <3> QED
      BY <3>1 DEF FrameOf
  <2> QED
    BY <1>3, <2>1, <2>2 DEF CallFunction
<1> QED
  BY <1>2, <1>4, <1>5, <1>6, <1>7, <1>8 DEF Simple, Warn, Raise, SetJump

\* A statement that starts a frame and a list in it.
LEMMA OpensInStep ==
  ASSUME TypeOK, TypeOK', Layout(cs, ul), InStep(cs, g), AtStatement,
         UnwindProtect \/ \E b \in BOOLEAN : Try(b)
  PROVE  InStep(cs', g')
<1>1. Len(cs) = Depth /\ Depth \in Nat \ {0} /\ g \in [Flags -> FlagValues]
  BY AtBottom DEF TypeOK, FlagsOK
<1>2. /\ Steps(cs, cs') /\ Len(cs') = Depth + 2
      /\ cs'[Depth].k = "list" /\ cs'[Depth].pc = "check"
      /\ cs'[Depth + 1].k \in {"try", "unw"} /\ cs'[Depth + 1].pc = "body"
      /\ cs'[Depth + 2].k = "list" /\ cs'[Depth + 2].pc = "enter"
  BY TryMoves, UnwindMoves
<1>3. g'["brk"] = 0 /\ g'["ret"] = 0
  <2>1. g["brk"] = 0 /\ g["ret"] = 0
    BY UnsetHere DEF AtStatement, Starts
  <2> QED
    BY <1>1, <2>1 DEF UnwindProtect, Try, Flags
<1>4. \A i \in 1 .. Len(cs') :
        \/ i \in 1 .. Len(cs) /\ i < Len(cs) /\ cs'[i] = cs[i]
        \/ i = Depth \/ i = Depth + 1 \/ i = Len(cs')
  BY <1>1, <1>2 DEF Steps
<1>5. \A i \in 1 .. Len(cs') : Straight(cs'[i])
  BY <1>2, <1>4 DEF InStep, Stopped, Straight
<1>6. \A i \in 1 .. Len(cs') : i < Len(cs') => ~ Starts(cs'[i].k, cs'[i].pc)
  BY <1>2, <1>4 DEF InStep, Stopped, Starts
<1> QED
  BY <1>2, <1>3, <1>5, <1>6 DEF InStep, Stopped, Unset

LEMMA EvalStatementInStep ==
  ASSUME TypeOK, TypeOK', Layout(cs, ul), InStep(cs, g), Batch, AtStatement,
         NEW b \in BOOLEAN, Eval(b)
  PROVE  InStep(cs', g')
<1>1. ~ b /\ g' = g
  BY DEF Eval, Batch
<1>2. StackOK /\ UnwindOK /\ Running.k = "list" /\ g["brk"] = 0 /\ g["ret"] = 0
  BY UnsetHere DEF TypeOK, AtStatement, Starts
<1> DEFINE x == [FrameOf("eval", "parse") EXCEPT !.flag = b]
<1>3. x \in Frame /\ x.k = "eval" /\ x.pc = "parse" /\ ~ x.flag
  <2> DEFINE y == FrameOf("eval", "parse")
  <2>1. y \in Frame /\ y.k = "eval" /\ y.pc = "parse"
    BY <1>2, FrameTypes, NewFrames DEF FrameKinds, Pcs
  <2> HIDE DEF y
  <2>2. [y EXCEPT !.flag = b] \in Frame
    BY <2>1 DEF Frame
  <2>3. /\ [y EXCEPT !.flag = b].k = "eval" /\ [y EXCEPT !.flag = b].pc = "parse"
        /\ ~ [y EXCEPT !.flag = b].flag
    BY <1>1, <2>1 DEF Frame
  <2> QED
    BY <2>2, <2>3 DEF y
<1>4. cs' = Append(Stepped, x)
  BY DEF Eval
<1> HIDE DEF x
<1>5. WentCalling("check", x)
  BY <1>3, <1>4, StatementHere
<1>6. Straight(x) /\ g'["brk"] = 0 /\ g'["ret"] = 0
  BY <1>1, <1>2, <1>3 DEF Straight
<1> QED
  BY <1>2, <1>3, <1>5, <1>6, InStepGoes DEF Starts

LEMMA TryInStep ==
  ASSUME TypeOK, TypeOK', InStep(cs, g), TryFailed \/ TrySucceeded \/ UnwindBodyDone
  PROVE  InStep(cs', g')
<1>1. StackOK /\ Running.k \in {"try", "unw"} /\ ~ Inside(Running)
  BY DEF TypeOK, TryFailed, TrySucceeded, UnwindBodyDone, At, Inside
<1>2. CASE TryFailed
  <2>1. WentCalling("caught", RunOf("tree_try_catch::eval"))
    BY <1>1, <1>2, NewRuns, Goings, Zenon DEF TryFailed, Pcs, Tags
  <2> QED
    BY <1>1, <2>1, NewFrames, RunStarts DEF Starts
<1>3. CASE TrySucceeded
  BY <1>1, <1>3, InStepReturns DEF TrySucceeded
<1>4. CASE UnwindBodyDone
  <2> DEFINE b == (g["err"] # 0)
  <2>1. b \in BOOLEAN /\ cs' = Append(Top([Running EXCEPT !.pc = "cleaned", !.flag = b]),
                                      RunOf("one"))
    BY <1>4 DEF UnwindBodyDone
  <2> HIDE DEF b
  <2>2. WentCalling("cleaned", RunOf("one"))
    <3>1. RunOf("one") \in Frame /\ "cleaned" \in Pcs
      BY NewRuns DEF Tags, Pcs
    <3> QED
      BY <1>1, <2>1, <3>1, Goings, Zenon
  <2> QED
    BY <1>1, <2>2, NewFrames, RunStarts DEF Starts
<1> QED
  BY <1>2, <1>3, <1>4

\* Where the steps of catch and cleanup code lead.
LEMMA GuardInStep ==
  ASSUME TypeOK, TypeOK', InStep(cs, g),
         \/ CleanupBegin \/ CatchBind \/ CatchProtect
         \/ RestoreBreaking \/ RestoreReturning \/ RestoreLast
  PROVE  InStep(cs', g')
<1>1. /\ StackOK /\ Running.k \in {"catch", "cleanup"} /\ ~ Inside(Running)
      /\ Len(cs) = Depth /\ Depth \in Nat \ {0} /\ g \in [Flags -> FlagValues]
      /\ Stopped(cs)
  BY AtBottom DEF TypeOK, FlagsOK, InStep, CleanupBegin, CatchBind, CatchProtect,
         RestoreBreaking, RestoreReturning, RestoreLast, At, Inside
<1>2. ASSUME NEW pc, Moves(pc), pc \notin {"jumped", "parse2"}
      PROVE  /\ \A i \in 1 .. Depth - 1 : cs'[i] = cs[i]
             /\ Straight(cs'[Depth]) /\ ~ Starts(cs'[Depth].k, cs'[Depth].pc)
  BY <1>1, <1>2 DEF Moves, Steps, Straight, Starts
<1>3. ASSUME NEW pc, Moves(pc), pc \notin {"jumped", "parse2"}, Len(cs') = Depth
      PROVE  InStep(cs', g')
  <2>1. Stopped(cs') /\ Running' = cs'[Depth + 0]
    BY <1>1, <1>2, <1>3, StoppedMoves
  <2> QED
    BY <1>1, <1>2, <1>3, <2>1, NotStarting DEF InStep
<1>4. ASSUME NEW pc, Moves(pc), pc \notin {"jumped", "parse2"}, Len(cs') = Depth + 1,
             Straight(cs'[Depth + 1]), Unset(cs'[Depth + 1], g')
      PROVE  InStep(cs', g')
  <2>1. Stopped(cs')
    BY <1>1, <1>2, <1>4, StoppedMoves
  <2> QED
    BY <1>4, <2>1 DEF InStep
<1>5. CASE CatchBind
  <2>1. Went("protect")
    BY <1>1, <1>5, Goings, Zenon DEF CatchBind, Pcs
  <2> QED
    BY <1>1, <2>1, InStepGoes DEF Starts
<1>6. CASE CleanupBegin \/ CatchProtect
  <2>1. Moves("brk") /\ (Len(cs') = Depth + 1 => cs'[Depth + 1].k = "list" /\ cs'[Depth + 1].pc = "enter")
    BY <1>6, GuardMoves
  <2>2. g'["brk"] = 0 /\ g'["ret"] = 0
    BY <1>1, <1>6 DEF CleanupBegin, CatchProtect, Flags
  <2>3. CASE Len(cs') = Depth + 1
    BY <1>4, <2>1, <2>2, <2>3 DEF Straight, Unset
  <2>4. CASE Len(cs') = Depth
    BY <1>3, <2>1, <2>4
  <2> QED
    BY <2>1, <2>3, <2>4 DEF Moves
<1>7. CASE RestoreBreaking \/ RestoreReturning \/ RestoreLast
  <2>1. /\ Moves(After(Running.pc)) /\ Running.pc \in {"brk", "ret", "err"}
        /\ \/ Len(cs') = Depth + 1 /\ RunOne(cs'[Depth + 1]) /\ cs'[Depth + 1].pc = "pop"
           \/ Len(cs') = Depth
    BY <1>7, RestoreMoves
  <2>2. After(Running.pc) \notin {"jumped", "parse2"}
    BY <2>1 DEF After
  <2>3. CASE Len(cs') = Depth
    BY <1>3, <2>1, <2>2, <2>3
  <2>4. CASE Len(cs') = Depth + 1 /\ RunOne(cs'[Depth + 1]) /\ cs'[Depth + 1].pc = "pop"
    <3>1. Straight(cs'[Depth + 1]) /\ Unset(cs'[Depth + 1], g')
      BY <2>4 DEF RunOne, Straight, Unset, Starts
    <3> QED
      BY <1>4, <2>1, <2>2, <2>4, <3>1
  <2> QED
    BY <2>1, <2>3, <2>4
<1> QED
  BY <1>5, <1>6, <1>7

LEMMA CallInStep ==
  ASSUME TypeOK, TypeOK', InStep(cs, g), Calls
  PROVE  InStep(cs', g')
<1>1. /\ StackOK /\ Running.k = "call" /\ ~ Inside(Running)
      /\ g \in [Flags -> FlagValues] /\ ul' \in Seq(Elem)
  BY DEF TypeOK, FlagsOK, UnwindOK, Calls, CallBegin, CallPush, CallBind, CallBodyDone,
         CallExit, At, Inside
<1>2. ASSUME Goto("exit")
      PROVE  InStep(cs', g')
  <2>1. Went("exit")
    BY <1>1, <1>2, Goings, Zenon DEF Pcs
  <2> QED
    BY <1>1, <2>1, InStepGoes DEF Starts
<1>3. ASSUME CallBegin \/ CallPush \/ CallBind
      PROVE  g'["brk"] = 0 /\ g'["ret"] = 0
  <2>1. g["brk"] = 0 /\ g["ret"] = 0
    BY <1>3, UnsetHere DEF CallBegin, CallPush, CallBind, At, Starts
  <2>2. g' = g \/ g' = [g EXCEPT !["err"] = 1]
    BY <1>3, Zenon DEF CallBegin, CallPush, CallBind
  <2>3. g'["brk"] = g["brk"] /\ g'["ret"] = g["ret"]
    BY <2>2, <1>1 DEF Flags
  <2> QED
    BY <2>1, <2>3
<1>4. CASE CallBegin \/ CallPush
  <2>1. PICK pc \in {"exit", "push", "bind"} : Goto(pc)
    BY <1>4 DEF CallBegin, CallPush
  <2>2. Went(pc)
    BY <1>1, <2>1, Goings, Zenon DEF Pcs
  <2> QED
    BY <1>1, <1>3, <1>4, <2>2, InStepGoes
<1>5. CASE CallBind
  <2>1. ASSUME NEW n \in 1 .. MaxList,
               Call([ListOf("fcn", n, TRUE, FALSE) EXCEPT !.base = Len(ul')], "body")
        PROVE  InStep(cs', g')
    <3> DEFINE y == ListOf("fcn", n, TRUE, FALSE)
               x == [y EXCEPT !.base = Len(ul')]
    <3>1. y \in Frame /\ y.k = "list" /\ y.pc = "enter"
      <4>1. "fcn" \in Roles /\ TRUE \in BOOLEAN /\ FALSE \in BOOLEAN
        BY DEF Roles
      <4> QED
        BY <2>1, <4>1, NewLists
    <3>2. Call(x, "body")
      BY <2>1
    <3> HIDE DEF y
    <3>3. x \in Frame
      BY <1>1, <3>1, Rebased
    <3>4. x.k = "list" /\ x.pc = "enter"
      BY <3>1 DEF Frame
    <3> HIDE DEF x
    <3>5. WentCalling("body", x)
      BY <1>1, <3>2, <3>3, Goings, Zenon DEF Pcs
    <3> QED
      BY <1>1, <1>3, <1>5, <3>4, <3>5, ListStarts DEF Starts
  <2> QED
    BY <1>2, <1>5, <2>1 DEF CallBind
<1>6. CASE CallBodyDone
  BY <1>2, <1>6 DEF CallBodyDone
<1>7. CASE CallExit
  <2>1. WentCalling("done", RunOf("func_eval"))
    BY <1>1, <1>7, NewRuns, Goings, Zenon DEF CallExit, Pcs, Tags
  <2> QED
    BY <1>1, <2>1, NewFrames, RunStarts DEF Starts
<1> QED
  BY <1>4, <1>5, <1>6, <1>7, Zenon DEF Calls

LEMMA ScriptInStep ==
  ASSUME TypeOK, TypeOK', InStep(cs, g), Scripts
  PROVE  InStep(cs', g')
<1>1. /\ StackOK /\ Running.k = "script" /\ g \in [Flags -> FlagValues]
  BY DEF TypeOK, FlagsOK, Scripts, ScriptBegin, ScriptCommand, ScriptParseError,
         ScriptEnd, ScriptAfter, ScriptJumped, ScriptExit, ScriptLeave, At
<1>2. ~ ScriptJumped
  BY UnsetHere DEF ScriptJumped, At, Straight
<1>3. ASSUME Goto("exit")
      PROVE  InStep(cs', g')
  <2>1. Went("exit")
    BY <1>1, <1>3, Goings, Zenon DEF Pcs, InScript
  <2> QED
    BY <1>1, <2>1, InStepGoes DEF Starts
<1>4. ASSUME ScriptBegin \/ ScriptCommand
      PROVE  g'["brk"] = 0 /\ g'["ret"] = 0
  <2>1. g["brk"] = 0 /\ g["ret"] = 0
    BY <1>4, UnsetHere DEF ScriptBegin, ScriptCommand, At, Starts
  <2> QED
    BY <1>1, <1>4, <2>1 DEF ScriptBegin, ScriptCommand, Flags
<1>5. CASE ScriptBegin
  <2>1. Went("loop")
    BY <1>1, <1>5, Goings, Zenon DEF ScriptBegin, Pcs, InScript
  <2> QED
    BY <1>1, <1>4, <1>5, <2>1, InStepGoes
<1>6. CASE ScriptCommand
  <2>1. PICK n \in 1 .. MaxList :
          cs' = Append(Counted("after"), ListOf("script", n, TRUE, FALSE))
    BY <1>6 DEF ScriptCommand
  <2>2. Running.n > 0
    BY <1>6 DEF ScriptCommand
  <2> DEFINE x == ListOf("script", n, TRUE, FALSE)
  <2>3. x \in Frame /\ x.k = "list" /\ x.pc = "enter"
    <3>1. "script" \in Roles /\ TRUE \in BOOLEAN /\ FALSE \in BOOLEAN
      BY DEF Roles
    <3> QED
      BY <2>1, <3>1, NewLists
  <2> HIDE DEF x
  <2>4. WentCalling("after", x)
    BY <1>1, <2>1, <2>2, <2>3, Goings, Zenon DEF Pcs, InScript, x
  <2> QED
    BY <1>1, <1>4, <1>6, <2>3, <2>4, ListStarts DEF Starts
<1>7. CASE ScriptParseError \/ ScriptEnd
  BY <1>3, <1>7 DEF ScriptParseError, ScriptEnd
<1>8. CASE ScriptAfter
  <2>1. /\ g' = [g EXCEPT !["ret"] = 0, !["brk"] = Less(@)]
        /\ Goto(IF g["err"] # 0 \/ g["ret"] # 0 \/ g["brk"] # 0
                THEN "exit" ELSE "loop")
    BY <1>8 DEF ScriptAfter
  <2>2. CASE g["err"] # 0 \/ g["ret"] # 0 \/ g["brk"] # 0
    BY <1>3, <2>1, <2>2
  <2>3. CASE g["err"] = 0 /\ g["ret"] = 0 /\ g["brk"] = 0
    <3>1. Went("loop")
      BY <1>1, <2>1, <2>3, Goings, Zenon DEF Pcs, InScript
    <3>2. g'["brk"] = 0 /\ g'["ret"] = 0
      BY <1>1, <2>1, <2>3 DEF Less, Flags
    <3> QED
      BY <1>1, <3>1, <3>2, InStepGoes
  <2> QED
    BY <2>2, <2>3
<1>9. CASE ScriptExit
  <2>1. WentCalling("leave", RunOf("parse_and_execute"))
    BY <1>1, <1>9, NewRuns, Goings, Zenon DEF ScriptExit, Pcs, Tags, InScript
  <2> QED
    BY <1>1, <2>1, NewFrames, RunStarts DEF Starts
<1>10. CASE ScriptLeave
  <2> DEFINE fr == [Running EXCEPT !.pc = "done"]
             x == RunOf("parse_fcn_file")
  <2>1. /\ Depth \in Nat \ {0} /\ Len(cs) = Depth /\ Running = cs[Depth]
        /\ cs \in Seq(Frame) /\ Running \in Frame
    BY AtBottom
  <2>2. /\ fr \in Frame /\ fr.k = "script" /\ fr.pc = "done"
        /\ x \in Frame /\ x.k = "run" /\ x.pc \notin {"jumped", "parse2"}
    <3>1. fr \in Frame /\ fr.k = "script" /\ fr.pc = "done"
      BY <1>1, <2>1 DEF Frame, Pcs
    <3> QED
      BY <3>1, NewRuns, NewFrames DEF Tags
  <2>3. cs' = Append(Top(fr), x)
    BY <1>10 DEF ScriptLeave, Call
  <2> HIDE DEF fr, x
  <2>4. /\ Top(fr) \in Seq(Frame) /\ Len(Top(fr)) = Depth
        /\ \A j \in 1 .. Depth : Top(fr)[j] = IF j = Depth THEN fr ELSE cs[j]
    BY <2>1, <2>2, ExceptSeq DEF Top
  <2>5. /\ Len(cs') = Depth + 1 /\ cs'[Depth + 1] = x
        /\ \A j \in 1 .. Depth : cs'[j] = IF j = Depth THEN fr ELSE cs[j]
    BY <2>1, <2>2, <2>3, <2>4, AppendProperties
  <2>6. cs'[Depth] = fr /\ \A j \in 1 .. Depth - 1 : cs'[j] = cs[j]
    BY <2>1, <2>5
  <2>7. Straight(fr) /\ ~ Starts(fr.k, fr.pc) /\ Straight(x) /\ ~ Starts(x.k, x.pc)
    BY <2>2 DEF Straight, Starts
  <2>8. Stopped(cs)
    BY DEF InStep
  <2>9. Stopped(cs') /\ cs'[Len(cs')] = x
    BY <2>1, <2>5, <2>6, <2>7, <2>8, StoppedMoves
  <2> QED
    BY <2>7, <2>9, NotStarting DEF InStep
<1> QED
  BY <1>2, <1>5, <1>6, <1>7, <1>8, <1>9, <1>10 DEF Scripts

\* An eval keeps what kind of eval it is.
LEMMA FlagStays ==
  ASSUME TypeOK, NEW pc \in Pcs, Running.k = "eval",
         Goto(pc) \/ \E x \in Frame : Call(x, pc)
  PROVE  cs'[Depth].flag = Running.flag
<1> DEFINE fr == [Running EXCEPT !.pc = pc]
<1>1. /\ Depth \in Nat \ {0} /\ Len(cs) = Depth
      /\ cs \in Seq(Frame) /\ Running \in Frame
  BY AtBottom
<1>2. fr \in Frame /\ fr.flag = Running.flag
  BY <1>1 DEF Frame
<1>3. cs' = Top(fr) \/ \E x \in Frame : cs' = Append(Top(fr), x)
  BY DEF Goto, Call
<1> HIDE DEF fr
<1>4. Top(fr) \in Seq(Frame) /\ Len(Top(fr)) = Depth /\ Top(fr)[Depth] = fr
  BY <1>1, <1>2, ExceptSeq DEF Top
<1>5. CASE cs' = Top(fr)
  BY <1>2, <1>4, <1>5
<1>6. CASE \E x \in Frame : cs' = Append(Top(fr), x)
  <2>1. PICK x \in Frame : cs' = Append(Top(fr), x)
    BY <1>6
  <2>2. cs'[Depth] = Top(fr)[Depth]
    BY <1>1, <1>4, <2>1, AppendProperties
  <2> QED
    BY <1>2, <1>4, <2>2
<1> QED
  BY <1>3, <1>5, <1>6

LEMMA EvalsInStep ==
  ASSUME TypeOK, TypeOK', InStep(cs, g),
         EvalParse \/ EvalFailed \/ EvalSucceeded \/ EvalExit
  PROVE  InStep(cs', g')
<1>1. /\ StackOK /\ Running.k = "eval" /\ ~ Inside(Running)
      /\ g \in [Flags -> FlagValues]
  BY DEF TypeOK, FlagsOK, EvalParse, EvalFailed, EvalSucceeded, EvalExit, At, Inside
<1>2. ~ Running.flag /\ Running.pc # "parse2"
  BY <1>1, UnsetHere DEF Straight
<1>3. ~ EvalFailed
  BY <1>2 DEF EvalFailed
<1>4. ASSUME NEW pc \in Pcs, Goto(pc) \/ \E x \in Frame : Call(x, pc)
      PROVE  ~ cs'[Depth].flag
  BY <1>1, <1>2, <1>4, FlagStays
<1>5. CASE EvalParse
  <2>1. Running.pc = "parse"
    BY <1>2, <1>5 DEF EvalParse
  <2>2. g["brk"] = 0 /\ g["ret"] = 0
    BY <1>1, <2>1, UnsetHere DEF Starts
  <2>3. g'["brk"] = 0 /\ g'["ret"] = 0
    BY <1>1, <1>5, <2>2 DEF EvalParse, Flags
  <2>4. \/ Goto("body")
        \/ \E n \in 1 .. MaxList : Call(ListOf("string", n, g["rsf"] = 1, FALSE), "body")
    BY <1>5, <2>1 DEF EvalParse
  <2>5. "body" \in Pcs
    BY DEF Pcs
  <2>6. CASE Goto("body")
    <3>1. Went("body")
      BY <1>1, <2>5, <2>6, Goings, Zenon
    <3>2. ~ cs'[Depth].flag
      BY <1>4, <2>5, <2>6
    <3> QED
      BY <1>1, <3>1, <3>2, InStepGoes DEF Starts
  <2>7. ASSUME NEW n \in 1 .. MaxList, Call(ListOf("string", n, g["rsf"] = 1, FALSE), "body")
        PROVE  InStep(cs', g')
    <3> DEFINE x == ListOf("string", n, g["rsf"] = 1, FALSE)
    <3>1. x \in Frame /\ x.k = "list" /\ x.pc = "enter"
      <4>1. "string" \in Roles /\ (g["rsf"] = 1) \in BOOLEAN /\ FALSE \in BOOLEAN
        BY DEF Roles
      <4> QED
        BY <2>7, <4>1, NewLists
    <3>2. Call(x, "body")
      BY <2>7
    <3> HIDE DEF x
    <3>3. WentCalling("body", x)
      BY <1>1, <2>5, <3>1, <3>2, Goings, Zenon
    <3>4. ~ cs'[Depth].flag
      BY <1>4, <2>5, <3>1, <3>2
    <3>5. Straight(x)
      BY <3>1 DEF Straight
    <3> QED
      BY <1>1, <2>3, <3>1, <3>3, <3>4, <3>5, InStepGoes DEF Starts
  <2> QED
    BY <2>4, <2>6, <2>7
<1>6. CASE EvalSucceeded
  <2>1. Goto("exit") /\ "exit" \in Pcs
    BY <1>6 DEF EvalSucceeded, Pcs
  <2>2. Went("exit")
    BY <1>1, <2>1, Goings, Zenon
  <2>3. ~ cs'[Depth].flag
    BY <1>4, <2>1
  <2> QED
    BY <1>1, <2>2, <2>3, InStepGoes DEF Starts
<1>7. CASE EvalExit
  <2>1. Call(RunOf("Feval"), "done") /\ "done" \in Pcs /\ RunOf("Feval") \in Frame
    BY <1>7, NewRuns DEF EvalExit, Pcs, Tags
  <2>2. WentCalling("done", RunOf("Feval"))
    BY <1>1, <2>1, Goings, Zenon
  <2>3. ~ cs'[Depth].flag
    BY <1>4, <2>1
  <2> QED
    BY <1>1, <2>2, <2>3, NewFrames, RunStarts DEF Starts
<1> QED
  BY <1>3, <1>5, <1>6, <1>7

LEMMA LeaveInStep ==
  ASSUME TypeOK, TypeOK', InStep(cs, g), Leave
  PROVE  InStep(cs', g')
<1>1. Return /\ Running.k # "main"
  BY DEF Leave, At
<1> QED
  BY <1>1, InStepReturns

LEMMA RunInStep ==
  ASSUME TypeOK, TypeOK', Layout(cs, ul), InStep(cs, g), RunPop \/ RunEmpty
  PROVE  InStep(cs', g')
<1>1. StackOK /\ Running.k = "run" /\ ~ Inside(Running)
  BY DEF TypeOK, RunPop, RunEmpty, At, Inside
<1>2. CASE RunEmpty
  <2>1. Went("done")
    BY <1>1, <1>2, Goings, Zenon DEF RunEmpty, Pcs
  <2> QED
    BY <1>1, <2>1, InStepGoes DEF Starts
<1>3. CASE RunPop
  <2>1. PICK pc \in {"done", "pop"} :
          /\ Moves(pc)
          /\ \/ Len(cs') = Depth
             \/ /\ Len(cs') = Depth + 1 /\ cs'[Depth + 1].k \in {"catch", "cleanup"}
                /\ cs'[Depth + 1].pc = "begin"
    BY <1>3, RunPopMoves
  <2>2. /\ Depth \in Nat \ {0} /\ Len(cs) = Depth /\ Steps(cs, cs')
        /\ cs'[Depth].k = "run" /\ cs'[Depth].pc = pc
    BY <1>1, <2>1 DEF Moves
  <2>3. \A i \in 1 .. Depth - 1 : cs'[i] = cs[i]
    BY <2>1, <2>2 DEF Steps
  <2>4. Straight(cs'[Depth]) /\ ~ Starts(cs'[Depth].k, cs'[Depth].pc)
    BY <2>1, <2>2 DEF Straight, Starts
  <2>5. Stopped(cs)
    BY DEF InStep
  <2>6. CASE Len(cs') = Depth
    <3>1. Len(cs') = Depth + 0
      BY <2>2, <2>6
    <3>2. Stopped(cs')
      BY <2>2, <2>3, <2>4, <2>5, <3>1, StoppedMoves
    <3> QED
      BY <2>4, <2>6, <3>2, NotStarting DEF InStep
  <2>7. CASE /\ Len(cs') = Depth + 1 /\ cs'[Depth + 1].k \in {"catch", "cleanup"}
             /\ cs'[Depth + 1].pc = "begin"
    <3>1. /\ Straight(cs'[Depth + 1])
          /\ ~ Starts(cs'[Depth + 1].k, cs'[Depth + 1].pc)
      BY <2>7 DEF Straight, Starts
    <3>2. Stopped(cs')
      BY <2>2, <2>3, <2>4, <2>5, <2>7, <3>1, StoppedMoves
    <3> QED
      BY <2>7, <3>1, <3>2, NotStarting DEF InStep
  <2> QED
    BY <2>1, <2>6, <2>7
<1> QED
  BY <1>2, <1>3

LEMMA NextInStep ==
  ASSUME TypeOK, TypeOK', Layout(cs, ul), InStep(cs, g), Batch, [Next]_vars
  PROVE  InStep(cs', g')
<1>1. CASE UNCHANGED vars
  BY <1>1 DEF vars
<1>2. ~ Interrupt
  BY DEF Interrupt, Batch, TypeOK, IntrOK
<1>3. CASE Statement
  <2>1. AtStatement
    BY <1>3 DEF Statement
  <2>2. CASE \/ Simple \/ Warn \/ While \/ For \/ If \/ Source
             \/ \E e \in {1, -1, -2} : Raise(e)
             \/ \E v \in {"brk", "cont", "ret"} : SetJump(v)
             \/ \E f \in Fn : CallFunction(f)
    BY <2>1, <2>2, PlainStatementInStep
  <2>3. CASE UnwindProtect \/ \E b \in BOOLEAN : Try(b)
    BY <2>1, <2>3, OpensInStep
  <2>4. CASE \E b \in BOOLEAN : Eval(b)
    BY <2>1, <2>4, EvalStatementInStep
  <2> QED
    BY <1>3, <2>2, <2>3, <2>4 DEF Statement
<1>4. CASE Loops \/ Protections \/ Calls \/ Scripts \/ Evals
  BY <1>4, LoopInStep, TryInStep, GuardInStep, CallInStep, ScriptInStep, EvalsInStep
     DEF Protections, Evals
<1>5. CASE MainRead \/ MainEval \/ MainJumped \/ ListEnd \/ ListNext
  BY <1>5, MainInStep, ListInStep
<1>6. CASE Leave \/ RunPop \/ RunEmpty
  BY <1>6, LeaveInStep, RunInStep
<1> QED
  BY <1>1, <1>2, <1>3, <1>4, <1>5, <1>6 DEF Next, Work

LEMMA InitInStep == Init => InStep(cs, g)
<1> SUFFICES ASSUME Init
             PROVE  InStep(cs, g)
  OBVIOUS
<1>1. Len(cs) = 1 /\ cs[1].k = "main" /\ cs[1].pc = "read"
  BY DEF Init
<1>2. g["brk"] = 0 /\ g["ret"] = 0
  BY DEF Init, Flags
<1>3. Stopped(cs)
  BY <1>1 DEF Stopped, Straight
<1> QED
  BY <1>1, <1>2, <1>3 DEF InStep, Unset

LEMMA InStepRuns ==
  ASSUME TypeOK, InStep(cs, g)
  PROVE  NothingRunsWhileJumping
<1> SUFFICES ASSUME AtStatement
             PROVE  g["err"] = 0 /\ g["brk"] = 0 /\ g["ret"] = 0
  BY DEF NothingRunsWhileJumping
<1>1. Running.k = "list" /\ Running.pc \in {"enter", "next"}
  BY DEF AtStatement
<1>2. g["brk"] = 0 /\ g["ret"] = 0
  BY <1>1, UnsetHere DEF Starts
<1>3. g["err"] = 0
  BY UnsetHere DEF AtStatement, At
<1> QED
  BY <1>2, <1>3

\* A list of statements goes on only while nothing is being jumped over: no
\* error is pending and neither breaking nor returning is set, whatever the
\* loops, functions, scripts, protections and strings it runs have done.  That
\* is so when the commands come from a file or a pipe, no interrupt ends a
\* command in the middle of a jump, and no eval has a second string.
THEOREM StatementsInStep ==
  ~ Interactive /\ MaxIntr = 0 /\ "eval2" \notin StmtKinds /\ Spec
    => []NothingRunsWhileJumping
<1> SUFFICES ASSUME Batch
             PROVE  Spec => []NothingRunsWhileJumping
  BY DEF Batch
<1>1. Init => Layout(cs, ul) /\ InStep(cs, g)
  BY InitLayout, InitInStep
<1>2. TypeOK /\ TypeOK' /\ Layout(cs, ul) /\ InStep(cs, g) /\ [Next]_vars
        => (Layout(cs, ul) /\ InStep(cs, g))'
  BY NextLayout, NextInStep
<1>3. TypeOK /\ InStep(cs, g) => NothingRunsWhileJumping
  BY InStepRuns
<1> QED
  BY <1>1, <1>2, <1>3, TypeCorrect, PTL DEF Spec
=============================================================================

--------------------------- MODULE Children_proofs ---------------------------
(***************************************************************************)
(* Proofs about the child processes, for every set of commands, any number *)
(* of processes and any number of interrupts: the types, the disposition   *)
(* of SIGCHLD, the plotter that is not lost and is on the list, the        *)
(* temporary files and, unless pages are output immediately, the pager and *)
(* SIGINT at the prompt.                                                   *)
(*                                                                         *)
(* What every step does to the C stack and to the data is summed up first, *)
(* by the kind and the pc of the running frame (Summary).  The invariants  *)
(* are then proved one after the other from that summary and from the few  *)
(* actions that touch what the invariant is about.                         *)
(***************************************************************************)
EXTENDS Children, SequenceTheorems, FiniteSetTheorems, TLAPS

-----------------------------------------------------------------------------
(***************************************************************************)
(* The inductive invariant                                                 *)
(***************************************************************************)

\* Who calls whom: the kind of the caller, where it goes on, and the callee.
\* A remove that calls the handler of the plotter is replaced by it.
CallSites ==
  {<<"main", "prompt", "flush">>, <<"main", "run", "error">>,
   <<"main", "run", "send">>, <<"main", "run", "closeplot">>,
   <<"main", "run", "system">>, <<"main", "run", "insert">>,
   <<"main", "run", "wait">>, <<"main", "jumped", "cleancmd">>,
   <<"chld", "int", "plotdeath">>,
   <<"flush", "clear", "sync">>, <<"flush", "end", "clear">>,
   <<"error", "end", "flush">>, <<"sync", "check", "insert">>,
   <<"clear", "removed", "remove">>, <<"clear", "removed", "plotdeath">>,
   <<"clear", "deleted", "wait">>,
   <<"openplot", "deleted", "wait">>, <<"openplot", "done", "error">>,
   <<"openplot", "done", "insert">>, <<"send", "opened", "openplot">>,
   <<"closeplot", "removed", "remove">>, <<"closeplot", "removed", "plotdeath">>,
   <<"closeplot", "sent", "send">>, <<"closeplot", "deleted", "wait">>,
   <<"plotdeath", "warn", "closeplot">>, <<"plotdeath", "done", "flush">>,
   <<"system", "add", "insert">>, <<"system", "status", "wait">>,
   <<"system", "done", "cleancmd">>,
   <<"cleancmd", "removed", "remove">>, <<"cleancmd", "removed", "plotdeath">>,
   <<"cleancmd", "deleted", "wait">>}
CallSite(k, pc, callee) ==
  \/ <<k, pc, callee>> \in CallSites
  \/ Immediate /\ <<k, pc, callee>> = <<"main", "run", "sync">>

\* A frame on top of another: the handler, or one that has been called.
Above(fr, new) == new.k = "chld" \/ CallSite(fr.k, fr.pc, new.k)
WellCalled == \A i \in 2 .. Depth : cs[i].k # "main" /\ Above(cs[i - 1], cs[i])

\* What a frame works on.
FrameOK(fr) ==
  /\ fr.k = "insert" => /\ fr.pc \in {"begin", "pid", "handler", "file"}
                        /\ fr.h = "file" => fr.p > 0
                        /\ fr.pc # "begin" => fr.i \in 1 .. Len(list)
  /\ fr.k = "remove" /\ fr.pc = "call" => fr.i \in 1 .. Len(list)
  /\ fr.k = "chld" => fr.p \in 0 .. Len(list) /\ fr.i > 0
  /\ fr.k = "system" /\ fr.pc = "read" => cmd.obj > 0
FramesOK == \A i \in 1 .. Depth : FrameOK(cs[i])

\* The flush that has set flushing_output_to_pager, and its protection.
Active(fr) == fr.k = "flush" /\ fr.pc # "begin"
Flushing == {i \in 1 .. Depth : Active(cs[i])}
FlushPending == ul # <<>> /\ ul[Len(ul)].e = "flush"

\* A command that is protected is being read or waited for.
Reading(fr) == fr.k = "system" /\ fr.pc \in {"read", "status", "cleanup"}
ReadingCmd == Depth > 1 /\ Reading(cs[2])

\* At most the protection of a command and after it that of a flush; they are those
\* of the frames unless an interrupt has thrown the frames away.
Protected ==
  /\ pager.flushing <=> FlushPending
  /\ FlushPending => ~ ul[Len(ul)].flushing
  /\ \A j \in 1 .. Len(ul) - 1 : ul[j].e = "cmd"
  /\ \A j \in 1 .. Len(ul) : ul[j].e = "cmd" => j = 1
  /\ \A i, j \in Flushing : i = j
  /\ Flushing # {} => FlushPending
  /\ cs[1].pc # "jumped" /\ FlushPending => Flushing # {}
  /\ cs[1].pc # "jumped" => \A j \in 1 .. Len(ul) : ul[j].e = "cmd" => ReadingCmd
  /\ ReadingCmd => ul # <<>> /\ ul[1].e = "cmd"

\* A frame that has started a gnuplot and is about to assign it to plot_stream.
Starts(fr) == fr.k = "openplot" /\ fr.pc = "assign"

\* It has started what it says, and plot_stream has been what was started; without
\* an interrupt no gnuplot is anything else.
NewPlots ==
  /\ plot.was \subseteq 1 .. Len(proc)
  /\ \A i \in 1 .. Depth : Starts(cs[i]) =>
       cs[i].p \in 1 .. Len(proc) /\ proc[cs[i].p].kind = "plot"
  /\ intr = 0 => \A p \in 1 .. Len(proc) : proc[p].kind = "plot" =>
       p \in plot.was \/ \E i \in 1 .. Depth : Starts(cs[i]) /\ cs[i].p = p

\* What is well typed, with what the C stack and the protections are.
TypeInv == TypeOK /\ WellCalled /\ FramesOK /\ Protected /\ NewPlots

\* The frames that ignore both signals and give them back.
Saver(fr) == fr.k \in {"chld", "wait"}
Savers == {i \in 1 .. Depth : Saver(cs[i])}
SigchldKept ==
  /\ Savers # {} => sig.chld = "ignore"
  /\ \A i, j \in Savers : i < j => cs[j].k = "wait" /\ cs[j].chld = "ignore"
  /\ intr = 0 =>
       /\ sig.chld = "handler" \/ Savers # {}
       /\ \A i \in Savers : cs[i].chld = "handler" \/ \E j \in Savers : j < i

\* A frame that is about to make plot_stream null or new.
Shutting(fr) == \/ fr.k = "openplot" /\ fr.pc \in {"deleted", "new", "assign"}
                \/ fr.k = "closeplot" /\ fr.pc = "deleted"
\* The gnuplots that run and have been plot_stream's.
Plotters == {p \in 1 .. Len(proc) : /\ proc[p].kind = "plot" /\ proc[p].st = "running"
                                    /\ p \in plot.was}
Ending(fr) == fr.k = "closeplot" /\ fr.pc = "sent"

\* No gnuplot runs then, unless a death handler has opened one to close it.
NoneLeft ==
  \A i \in 1 .. Depth : Shutting(cs[i]) =>
    Plotters = {} \/ \E j \in i + 1 .. Depth : Ending(cs[j])

-----------------------------------------------------------------------------
(***************************************************************************)
(* The C stack                                                             *)
(***************************************************************************)

StackOK == cs \in Seq(Frame) /\ cs # <<>> /\ cs[1].k = "main"

\* The stack is never empty and holds frames.
LEMMA StackFacts ==
  ASSUME StackOK
  PROVE  /\ Depth \in Nat \ {0} /\ Depth = Len(cs) /\ Depth \in 1 .. Depth
         /\ \A i \in 1 .. Depth : cs[i] \in Frame
         /\ Running \in Frame /\ Running = cs[Depth]
<1>1. Depth \in Nat \ {0}
  BY EmptySeq DEF StackOK, Depth
<1>2. \A i \in 1 .. Depth : cs[i] \in Frame
  BY ElementOfSeq DEF StackOK, Depth
<1> QED
  BY <1>1, <1>2 DEF Running, Depth

\* How a frame goes on.
Goings ==
  {<<"main", "top", "prompt">>, <<"main", "prompt", "run">>, <<"main", "run", "top">>,
   <<"main", "run", "run">>,
   <<"insert", "begin", "pid">>, <<"insert", "pid", "handler">>,
   <<"insert", "handler", "file">>, <<"remove", "begin", "call">>,
   <<"chld", "scan", "scan">>, <<"chld", "scan", "int">>, <<"chld", "int", "chld">>,
   <<"wait", "wait", "int">>, <<"wait", "int", "chld">>,
   <<"flush", "begin", "clear">>, <<"flush", "clear", "end">>, <<"error", "begin", "end">>,
   <<"sync", "begin", "done">>, <<"sync", "begin", "open">>, <<"sync", "begin", "check">>,
   <<"sync", "open", "new">>, <<"sync", "new", "insert">>, <<"sync", "insert", "check">>,
   <<"sync", "check", "write">>, <<"sync", "check", "done">>,
   <<"sync", "write", "recheck">>, <<"sync", "recheck", "flush">>,
   <<"sync", "recheck", "done">>, <<"sync", "flush", "done">>,
   <<"clear", "begin", "removed">>, <<"clear", "removed", "deleted">>,
   <<"openplot", "begin", "deleted">>, <<"openplot", "begin", "new">>,
   <<"openplot", "begin", "done">>, <<"openplot", "deleted", "new">>,
   <<"openplot", "new", "assign">>, <<"openplot", "assign", "insert">>,
   <<"openplot", "new", "done">>,
   <<"openplot", "insert", "done">>,
   <<"send", "begin", "use">>, <<"send", "begin", "opened">>,
   <<"send", "opened", "use">>, <<"send", "use", "using">>,
   <<"closeplot", "begin", "removed">>, <<"closeplot", "removed", "sent">>,
   <<"closeplot", "sent", "deleted">>,
   <<"plotdeath", "begin", "warn">>, <<"plotdeath", "warn", "done">>,
   <<"system", "begin", "add">>, <<"system", "add", "read">>,
   <<"system", "add", "cleanup">>, <<"system", "read", "status">>,
   <<"system", "status", "cleanup">>, <<"system", "cleanup", "done">>,
   <<"cleancmd", "begin", "removed">>, <<"cleancmd", "removed", "deleted">>}

\* The frames below the running one stay.
Below == \A i \in 1 .. Depth - 1 : cs'[i] = cs[i]

\* The running frame goes on: it keeps what it has saved.
GoesOn(fr) ==
  /\ fr.k = Running.k /\ fr.h = Running.h
  /\ fr.int = Running.int /\ fr.chld = Running.chld
  /\ fr.k \notin {"sync", "send", "openplot"} => fr.p = Running.p
  /\ <<Running.k, Running.pc, fr.pc>> \in Goings

\* A call; a wait remembers the dispositions and ignores both signals.
Enters(pc, new) ==
  /\ CallSite(Running.k, pc, new.k)
  /\ new.pc = IF new.k = "wait" THEN "wait" ELSE "begin"
  /\ new.k = "wait" => /\ new.int = sig.int /\ new.chld = sig.chld
                       /\ sig'.int = "ignore" /\ sig'.chld = "ignore"

GoesStep == Len(cs') = Depth /\ GoesOn(cs'[Depth])
CallStep == /\ Len(cs') = Depth + 1 /\ GoesOn(cs'[Depth])
            /\ Enters(cs'[Depth].pc, cs'[Depth + 1])
LeaveStep == Len(cs') = Depth - 1 /\ Depth > 1
SwapStep == /\ Len(cs') = Depth /\ Depth > 1
            /\ At("remove", "call") /\ cs'[Depth] = FrameOf("plotdeath", Running.p)
Moves == Below /\ (GoesStep \/ CallStep \/ LeaveStep \/ SwapStep)

LEMMA TopFacts ==
  ASSUME StackOK, NEW fr \in Frame, fr.k = Running.k
  PROVE  /\ Top(fr) \in Seq(Frame) /\ Len(Top(fr)) = Depth /\ Top(fr) # <<>>
         /\ Top(fr)[Depth] = fr /\ Top(fr)[1].k = "main"
         /\ \A i \in 1 .. Depth - 1 : Top(fr)[i] = cs[i]
<1>1. Depth \in 1 .. Len(cs) /\ Len(cs) \in Nat /\ Depth \in Nat \ {0}
  BY StackFacts
<1>2. /\ Top(fr) \in Seq(Frame)
      /\ Len(Top(fr)) = Depth
      /\ \A j \in 1 .. Len(cs) : Top(fr)[j] = IF j = Depth THEN fr ELSE cs[j]
  BY <1>1, ExceptSeq DEF StackOK, Top, Depth
<1>3. Top(fr)[1].k = "main"
  BY <1>1, <1>2 DEF StackOK, Running, Depth
<1>4. Top(fr) # <<>>
  BY <1>1, <1>2, EmptySeq
<1> QED
  BY <1>1, <1>2, <1>3, <1>4, StackFacts

LEMMA TopMoves ==
  ASSUME StackOK, NEW fr \in Frame, GoesOn(fr), cs' = Top(fr)
  PROVE  StackOK' /\ Moves /\ GoesStep /\ cs'[Depth] = fr
BY TopFacts DEF StackOK, Moves, Below, GoesStep, GoesOn

LEMMA CallMoves ==
  ASSUME StackOK, NEW fr \in Frame, GoesOn(fr), NEW new \in Frame, Enters(fr.pc, new),
         cs' = Append(Top(fr), new)
  PROVE  /\ StackOK' /\ Moves /\ CallStep /\ cs'[Depth] = fr /\ cs'[Depth + 1] = new
         /\ cs'[Depth].pc = fr.pc
<1> DEFINE t == Top(fr)
<1>1. /\ t \in Seq(Frame) /\ Len(t) = Depth /\ t # <<>>
      /\ t[Depth] = fr /\ t[1].k = "main"
      /\ \A i \in 1 .. Depth - 1 : t[i] = cs[i]
  BY TopFacts DEF GoesOn
<1>2. Depth \in Nat \ {0}
  BY StackFacts
<1> HIDE DEF t
<1>3. /\ cs' = Append(t, new) /\ cs' \in Seq(Frame) /\ Len(cs') = Depth + 1
      /\ cs'[Depth + 1] = new /\ \A i \in 1 .. Depth : cs'[i] = t[i]
  <2>1. cs' = Append(t, new)
    BY DEF t
  <2> QED
    BY <1>1, <1>2, <2>1
<1>4. cs' # <<>>
  BY <1>2, <1>3, EmptySeq
<1>5. cs'[Depth] = fr /\ cs'[1].k = "main" /\ Below
  BY <1>1, <1>2, <1>3 DEF Below
<1> QED
  BY <1>3, <1>4, <1>5 DEF StackOK, Moves, CallStep

\* What a pc may be replaced by.
LEMMA PcFrame ==
  ASSUME NEW fr \in Frame, NEW pc \in Pcs
  PROVE  /\ [fr EXCEPT !.pc = pc] \in Frame
         /\ [fr EXCEPT !.pc = pc].pc = pc
         /\ [fr EXCEPT !.pc = pc].k = fr.k /\ [fr EXCEPT !.pc = pc].h = fr.h
         /\ [fr EXCEPT !.pc = pc].int = fr.int /\ [fr EXCEPT !.pc = pc].chld = fr.chld
         /\ [fr EXCEPT !.pc = pc].p = fr.p /\ [fr EXCEPT !.pc = pc].i = fr.i
BY DEF Frame

LEMMA GotoMoves ==
  ASSUME StackOK, NEW pc \in Pcs, Goto(pc), <<Running.k, Running.pc, pc>> \in Goings
  PROVE  /\ StackOK' /\ Moves /\ GoesStep /\ cs'[Depth] = [Running EXCEPT !.pc = pc]
         /\ cs'[Depth].pc = pc /\ cs'[Depth].i = Running.i /\ cs'[Depth].p = Running.p
<1> DEFINE fr == [Running EXCEPT !.pc = pc]
<1>1. Running \in Frame
  BY StackFacts
<1>2. fr \in Frame /\ GoesOn(fr) /\ fr.pc = pc /\ fr.i = Running.i /\ fr.p = Running.p
  BY <1>1, PcFrame DEF GoesOn
<1>3. cs' = Top(fr)
  BY DEF Goto
<1> QED
  BY <1>2, <1>3, TopMoves

LEMMA CallPcMoves ==
  ASSUME StackOK, NEW pc \in Pcs, NEW new \in Frame, Call(new, pc),
         <<Running.k, Running.pc, pc>> \in Goings, Enters(pc, new)
  PROVE  /\ StackOK' /\ Moves /\ CallStep /\ cs'[Depth] = [Running EXCEPT !.pc = pc]
         /\ cs'[Depth].pc = pc /\ cs'[Depth].i = Running.i /\ cs'[Depth].p = Running.p
         /\ cs'[Depth + 1] = new
<1> DEFINE fr == [Running EXCEPT !.pc = pc]
<1>1. Running \in Frame
  BY StackFacts
<1>2. fr \in Frame /\ GoesOn(fr) /\ fr.pc = pc /\ fr.i = Running.i /\ fr.p = Running.p
  BY <1>1, PcFrame DEF GoesOn
<1>3. cs' = Append(Top(fr), new) /\ Enters(fr.pc, new)
  BY <1>2 DEF Call, Calling
<1> QED
  BY <1>2, <1>3, CallMoves

LEMMA ReturnedFacts ==
  ASSUME StackOK, Running.k # "main"
  PROVE  /\ Depth > 1 /\ Returned \in Seq(Frame) /\ Returned # <<>>
         /\ Len(Returned) = Depth - 1 /\ Returned[1].k = "main"
         /\ \A i \in 1 .. Depth - 1 : Returned[i] = cs[i]
<1>1. Depth \in Nat /\ Depth > 1 /\ Len(cs) = Depth
  BY StackFacts DEF StackOK, Running
<1>2. /\ SubSeq(cs, 1, Depth - 1) \in Seq(Frame)
      /\ Len(SubSeq(cs, 1, Depth - 1)) = Depth - 1
      /\ \A i \in 1 .. Depth - 1 : SubSeq(cs, 1, Depth - 1)[i] = cs[i]
  BY <1>1 DEF StackOK
<1> QED
  BY <1>1, <1>2, EmptySeq DEF Returned, StackOK

LEMMA ReturnMoves ==
  ASSUME StackOK, Running.k # "main", Return
  PROVE  StackOK' /\ Moves /\ LeaveStep
BY ReturnedFacts DEF Return, StackOK, Moves, LeaveStep, Below

\* Frames that are called.
LEMMA NewFrames ==
  /\ \A k \in FrameKinds \ {"wait"}, p \in Pid :
       FrameOf(k, p) \in Frame /\ FrameOf(k, p).k = k /\ FrameOf(k, p).pc = "begin"
       /\ FrameOf(k, p).p = p
  /\ \A p \in Pid, h \in Handlers :
       InsertOf(p, h) \in Frame /\ InsertOf(p, h).k = "insert" /\ InsertOf(p, h).pc = "begin"
       /\ InsertOf(p, h).p = p /\ InsertOf(p, h).h = h
<1>1. ASSUME NEW k \in FrameKinds \ {"wait"}, NEW p \in Pid
      PROVE  FrameOf(k, p) \in Frame /\ FrameOf(k, p).k = k /\ FrameOf(k, p).pc = "begin"
             /\ FrameOf(k, p).p = p
  BY DEF FrameOf, Frame, Pcs, Handlers, IntDisp, ChldDisp
<1>2. ASSUME NEW p \in Pid, NEW h \in Handlers
      PROVE  InsertOf(p, h) \in Frame /\ InsertOf(p, h).k = "insert"
             /\ InsertOf(p, h).pc = "begin" /\ InsertOf(p, h).p = p /\ InsertOf(p, h).h = h
  <2>1. FrameOf("insert", p) \in Frame /\ FrameOf("insert", p).k = "insert"
        /\ FrameOf("insert", p).pc = "begin" /\ FrameOf("insert", p).p = p
    BY <1>1 DEF FrameKinds
  <2> QED
    BY <2>1 DEF InsertOf, Frame
<1> QED
  BY <1>1, <1>2

-----------------------------------------------------------------------------
(***************************************************************************)
(* The processes                                                           *)
(***************************************************************************)

ProcOK == proc \in Seq(Process)
SigOK == sig \in [int : IntDisp, chld : ChldDisp, pend : BOOLEAN]

\* What becomes of the processes while none is started.
Older(q) ==
  /\ Len(q) = Len(proc)
  /\ \A p \in 1 .. Len(proc) :
       /\ q[p].kind = proc[p].kind
       /\ q[p].st = "running" => proc[p].st = "running"
       /\ q[p].st \in {"running", "ending"} => proc[p].st \in {"running", "ending"}
       /\ q[p].file = "there" => proc[p].file = "there"

LEMMA ProcFacts ==
  ASSUME ProcOK
  PROVE  /\ Len(proc) \in Nat
         /\ \A p \in 1 .. Len(proc) : proc[p] \in Process
         /\ Older(proc)
         /\ \A p \in 1 .. Len(proc), x \in Process :
              /\ [proc EXCEPT ![p] = x] \in Seq(Process)
              /\ Len([proc EXCEPT ![p] = x]) = Len(proc)
              /\ \A r \in 1 .. Len(proc) :
                   [proc EXCEPT ![p] = x][r] = IF r = p THEN x ELSE proc[r]
BY ExceptSeq, ElementOfSeq, LenProperties DEF ProcOK, Older

\* A process of the same kind that is at most as alive.
LEMMA OlderFacts ==
  ASSUME ProcOK, NEW p \in 1 .. Len(proc), NEW x \in Process,
         x.kind = proc[p].kind, x.st = "running" => proc[p].st = "running",
         x.st \in {"running", "ending"} => proc[p].st \in {"running", "ending"},
         x.file = "there" => proc[p].file = "there"
  PROVE  [proc EXCEPT ![p] = x] \in Seq(Process) /\ Older([proc EXCEPT ![p] = x])
<1> DEFINE q == [proc EXCEPT ![p] = x]
<1>1. /\ q \in Seq(Process) /\ Len(q) = Len(proc)
      /\ \A r \in 1 .. Len(proc) : q[r] = IF r = p THEN x ELSE proc[r]
  BY ProcFacts
<1> HIDE DEF q
<1>2. Older(q)
  BY <1>1 DEF Older
<1> QED
  BY <1>1, <1>2 DEF q

\* The changes of one member of a process.
LEMMA StateOlder ==
  ASSUME ProcOK, NEW p \in 1 .. Len(proc)
  PROVE  /\ \A st \in {"zombie", "reaped"} :
              /\ [proc EXCEPT ![p].st = st] \in Seq(Process)
              /\ Older([proc EXCEPT ![p].st = st])
              /\ [proc EXCEPT ![p].st = st][p].st = st
         /\ proc[p].st \in {"running", "ending"} =>
              /\ [proc EXCEPT ![p].st = "ending"] \in Seq(Process)
              /\ Older([proc EXCEPT ![p].st = "ending"])
              /\ [proc EXCEPT ![p].st = "ending"][p].st = "ending"
         /\ \A f \in {"asked", "gone"} :
              /\ [proc EXCEPT ![p].file = f] \in Seq(Process)
              /\ Older([proc EXCEPT ![p].file = f])
<1>1. proc[p] \in Process
  BY ProcFacts
<1>2. ASSUME NEW st \in {"zombie", "reaped", "ending"},
             st = "ending" => proc[p].st \in {"running", "ending"}
      PROVE  /\ [proc EXCEPT ![p].st = st] \in Seq(Process)
             /\ Older([proc EXCEPT ![p].st = st])
             /\ [proc EXCEPT ![p].st = st][p].st = st
  <2> DEFINE x == [proc[p] EXCEPT !.st = st]
  <2>1. x \in Process /\ x.kind = proc[p].kind /\ x.st = st /\ x.file = proc[p].file
    BY <1>1, <1>2 DEF Process
  <2>2. [proc EXCEPT ![p].st = st] = [proc EXCEPT ![p] = x]
    OBVIOUS
  <2>3. [proc EXCEPT ![p] = x] \in Seq(Process) /\ Older([proc EXCEPT ![p] = x])
    BY <1>2, <2>1, OlderFacts
  <2>4. [proc EXCEPT ![p] = x][p] = x
    BY <2>1, ProcFacts
  <2> QED
    BY <2>1, <2>2, <2>3, <2>4
<1>3. ASSUME NEW f \in {"asked", "gone"}
      PROVE  /\ [proc EXCEPT ![p].file = f] \in Seq(Process)
             /\ Older([proc EXCEPT ![p].file = f])
  <2> DEFINE x == [proc[p] EXCEPT !.file = f]
  <2>1. x \in Process /\ x.kind = proc[p].kind /\ x.st = proc[p].st /\ x.file = f
    BY <1>1 DEF Process
  <2>2. [proc EXCEPT ![p].file = f] = [proc EXCEPT ![p] = x]
    OBVIOUS
  <2> QED
    BY <2>1, <2>2, OlderFacts
<1> QED
  BY <1>2, <1>3

LEMMA ReapedOlder ==
  ASSUME ProcOK, NEW p
  PROVE  /\ Reaped(p) \in Seq(Process) /\ Older(Reaped(p))
         /\ Zombie(p) => IsPid(p) /\ Reaped(p)[p].st = "reaped"
BY ProcFacts, StateOlder DEF Reaped, Zombie, IsPid, ProcOK

\* Reaping a child and removing its file.
LEMMA HandledOlder ==
  ASSUME ProcOK, NEW q \in Seq(Process), Older(q), NEW f
  PROVE  /\ Unlinked(q, f) \in Seq(Process) /\ Older(Unlinked(q, f))
         /\ \A p \in 1 .. Len(proc) : Unlinked(q, f)[p].st = q[p].st
<1>1. CASE f = None \/ f \notin 1 .. Len(q)
  <2>1. Unlinked(q, f) = q
    BY <1>1 DEF Unlinked
  <2> QED
    BY <2>1
<1>2. CASE f # None /\ f \in 1 .. Len(q)
  <2> DEFINE x == [q[f] EXCEPT !.file = "gone"]
             r == [q EXCEPT ![f] = x]
  <2>1. q[f] \in Process
    BY <1>2, ElementOfSeq
  <2>2. x \in Process /\ x.kind = q[f].kind /\ x.st = q[f].st /\ x.file = "gone"
    BY <2>1 DEF Process
  <2>3. Unlinked(q, f) = r
    BY <1>2 DEF Unlinked
  <2>4. /\ r \in Seq(Process) /\ Len(r) = Len(q)
        /\ \A j \in 1 .. Len(q) : r[j] = IF j = f THEN x ELSE q[j]
    BY <1>2, <2>2, ExceptSeq
  <2> HIDE DEF x, r
  <2>5. Older(r) /\ \A p \in 1 .. Len(proc) : r[p].st = q[p].st
    BY <2>2, <2>4 DEF Older
  <2> QED
    BY <2>3, <2>4, <2>5
<1> QED
  BY <1>1, <1>2

\* A new process.
Born(kind) ==
  /\ proc' \in Seq(Process) /\ Len(proc') = Len(proc) + 1
  /\ \A p \in 1 .. Len(proc) : proc'[p] = proc[p]
  /\ proc'[Len(proc) + 1].kind = kind
  /\ proc'[Len(proc) + 1].file = "there" => kind = "file"

LEMMA SpawnBorn ==
  ASSUME ProcOK, NEW kind \in Handlers, NEW p \in 1 .. MaxPid \cup {Failed}, Spawn(kind, p)
  PROVE  /\ p \in Pid /\ ProcOK'
         /\ \/ p = Len(proc) + 1 /\ p > 0 /\ Born(kind) /\ proc'[p].kind = kind
            \/ p = Failed /\ p < 0 /\ proc' = proc
<1>1. CASE p = Failed /\ UNCHANGED proc
  BY <1>1 DEF Failed, Pid, ProcOK
<1>2. CASE /\ p = Len(proc) + 1
           /\ proc' = Append(proc, [kind |-> kind, st |-> "running",
                        file |-> IF kind = "file" THEN "there" ELSE "none"])
  <2> DEFINE x == [kind |-> kind, st |-> "running",
                   file |-> IF kind = "file" THEN "there" ELSE "none"]
  <2>1. x \in Process /\ x.kind = kind /\ (x.file = "there" => kind = "file")
    BY DEF Process
  <2>2. Len(proc) \in Nat
    BY ProcFacts
  <2> HIDE DEF x
  <2>3. /\ proc' \in Seq(Process) /\ Len(proc') = Len(proc) + 1
        /\ proc'[Len(proc) + 1] = x
        /\ \A r \in 1 .. Len(proc) : proc'[r] = proc[r]
    <3>1. proc' = Append(proc, x)
      BY <1>2 DEF x
    <3> QED
      BY <2>1, <3>1 DEF ProcOK
  <2> QED
    BY <1>2, <2>1, <2>2, <2>3 DEF Born, Pid, ProcOK
<1> QED
  BY <1>1, <1>2 DEF Spawn

-----------------------------------------------------------------------------
(***************************************************************************)
(* What a step does                                                        *)
(***************************************************************************)

DataOK ==
  /\ ul \in Seq(Saved)
  /\ list \in Seq(Slot)
  /\ pager \in [obj : Pid, ok : BOOLEAN, pid : Pid, saved : IntDisp,
                isSaved : BOOLEAN, flushing : BOOLEAN, really : BOOLEAN,
                buf : BOOLEAN]
  /\ plot \in [obj : Pid, ok : BOOLEAN, pid : Pid, was : SUBSET Pid]
  /\ cmd \in [obj : Pid, open : BOOLEAN, pid : Pid, status : Status,
              result : Status]
  /\ err \in BOOLEAN
  /\ intr \in 0 .. MaxIntr

LEMMA TypeParts == TypeOK <=> StackOK /\ ProcOK /\ SigOK /\ DataOK
BY DEF TypeOK, StackOK, ProcOK, SigOK, DataOK

LEMMA TypePartsNext == TypeOK' <=> StackOK' /\ ProcOK' /\ SigOK' /\ DataOK'
BY DEF TypeOK, StackOK, ProcOK, SigOK, DataOK

UlKept == ul' = ul /\ pager'.flushing = pager.flushing
PagerKept ==
  pager'.obj = pager.obj /\ pager'.isSaved = pager.isSaved /\ pager'.saved = pager.saved
NewOf(k) == Len(cs') = Depth + 1 /\ cs'[Depth + 1].k = k

\* Who works on the list of children.
Inserts == SyncInsert \/ OpenplotInsert \/ SystemBegin \/ Command
Removes == ClearBegin \/ CloseplotBegin \/ CleancmdBegin
Entered == (NewOf("insert") => Inserts) /\ (NewOf("remove") => Removes)

\* Which actions change what.
Effects ==
  /\ intr' = intr
  /\ UlKept \/ FlushBegin \/ FlushEnd \/ SystemAdd \/ SystemCleanup
  /\ \/ sig' = sig \/ NewOf("wait") \/ MainTop \/ SyncOpen \/ SyncCheck \/ ClearDeleted
     \/ RestoreInt \/ RestoreChld
  /\ PagerKept \/ SyncOpen \/ SyncNew \/ SyncCheck \/ ClearDeleted
  /\ pager'.pid = pager.pid \/ SyncInsert \/ ClearRemoved
  /\ \/ Older(proc')
     \/ Born("pager") /\ SyncNew
     \/ Born("plot") /\ OpenplotNew
     \/ Born("cmd") /\ SystemBegin
     \/ Born("file") /\ Command
  /\ plot'.obj = plot.obj \/ OpenplotAssign \/ OpenplotDeleted \/ CloseplotDeleted
  /\ plot'.was = plot.was \/ OpenplotAssign
  /\ \/ cmd'.obj = cmd.obj /\ cmd'.pid = cmd.pid
     \/ SystemBegin \/ CleancmdDeleted
  /\ \/ list' = list \/ InsertFind \/ InsertPid \/ InsertHandler \/ InsertFile
     \/ RemoveFind \/ SigchldScan

\* The actions that are recognised by the frame that runs.
Named ==
  /\ At("flush", "begin") => FlushBegin
  /\ At("flush", "clear") => FlushClear
  /\ At("flush", "end") => FlushEnd
  /\ At("sync", "begin") => SyncBegin
  /\ At("sync", "open") => SyncOpen
  /\ At("sync", "new") => SyncNew
  /\ At("sync", "check") => SyncCheck
  /\ At("sync", "recheck") => SyncRecheck
  /\ At("clear", "deleted") => ClearDeleted
  /\ At("openplot", "begin") => OpenplotBegin
  /\ At("openplot", "deleted") => OpenplotDeleted
  /\ At("openplot", "new") => OpenplotNew
  /\ At("openplot", "assign") => OpenplotAssign
  /\ At("openplot", "insert") => OpenplotInsert
  /\ At("closeplot", "sent") => CloseplotSent
  /\ At("closeplot", "deleted") => CloseplotDeleted
  /\ At("closeplot", "removed") => CloseplotRemoved
  /\ At("system", "add") => SystemAdd
  /\ At("system", "cleanup") => SystemCleanup
  /\ At("insert", "begin") => InsertFind
  /\ At("insert", "pid") => InsertPid
  /\ At("insert", "handler") => InsertHandler
  /\ At("insert", "file") => InsertFile
  /\ At("remove", "begin") => RemoveFind
  /\ At("main", "top") => MainTop

Indexed == \/ cs'[Depth].i = Running.i \/ LeaveStep \/ SwapStep
           \/ InsertFind \/ RemoveFind \/ SigchldScan

Summary == TypeOK' /\ Moves /\ Effects /\ Named /\ Entered /\ Indexed

\* What an action needs of the invariant to be well typed.
Ready == TypeOK /\ FrameOK(Running) /\ (At("flush", "end") => ul # <<>>)

Stacked == StackOK' /\ Moves /\ (cs'[Depth].i = Running.i \/ LeaveStep \/ SwapStep)

\* Which frames a step may add.
NewIn(kinds) == \A k : NewOf(k) => k \in kinds

LEMMA NewFacts ==
  ASSUME StackOK
  PROVE  /\ GoesStep \/ LeaveStep => NewIn({})
         /\ CallStep => NewIn({cs'[Depth + 1].k})
BY StackFacts DEF GoesStep, LeaveStep, CallStep, NewIn, NewOf

LEMMA NewEntered ==
  /\ NewIn({}) => Entered
  /\ \A k : /\ NewIn({k}) /\ (k = "insert" => Inserts) /\ (k = "remove" => Removes)
           => Entered
<1>1. NewIn({}) => Entered
  BY DEF NewIn, Entered
<1>2. ASSUME NEW k, NewIn({k}), k = "insert" => Inserts, k = "remove" => Removes
      PROVE  Entered
  <2>1. NewOf("insert") => k = "insert"
    BY <1>2 DEF NewIn
  <2>2. NewOf("remove") => k = "remove"
    BY <1>2 DEF NewIn
  <2> QED
    BY <1>2, <2>1, <2>2 DEF Entered
<1> QED
  BY <1>1, <1>2

LEMMA GotoStacked ==
  ASSUME StackOK, NEW pc \in Pcs, Goto(pc), <<Running.k, Running.pc, pc>> \in Goings
  PROVE  Stacked /\ GoesStep /\ cs'[Depth].pc = pc /\ Entered
BY GotoMoves, NewFacts, NewEntered DEF Stacked

LEMMA ReturnStacked ==
  ASSUME StackOK, Running.k # "main", Return
  PROVE  Stacked /\ LeaveStep /\ Entered
BY ReturnMoves, NewFacts, NewEntered DEF Stacked

LEMMA CallStacked ==
  ASSUME StackOK, NEW pc \in Pcs, NEW k \in FrameKinds \ {"wait", "insert", "remove"}, NEW p \in Pid,
         Call(FrameOf(k, p), pc),
         <<Running.k, Running.pc, pc>> \in Goings, CallSite(Running.k, pc, k)
  PROVE  /\ Stacked /\ CallStep /\ cs'[Depth].pc = pc
         /\ cs'[Depth + 1] = FrameOf(k, p) /\ cs'[Depth + 1].k = k /\ Entered
<1> DEFINE new == FrameOf(k, p)
<1>1. new \in Frame /\ new.k = k /\ new.pc = "begin"
  BY NewFrames
<1>2. Enters(pc, new)
  BY <1>1 DEF Enters
<1> HIDE DEF new
<1>3. Call(new, pc)
  BY DEF new
<1>4. /\ StackOK' /\ Moves /\ CallStep /\ cs'[Depth].pc = pc
      /\ cs'[Depth].i = Running.i /\ cs'[Depth + 1] = new
  BY <1>1, <1>2, <1>3, CallPcMoves
<1> QED
  BY <1>1, <1>4, NewFacts, NewEntered DEF Stacked, new

LEMMA RemoveStacked ==
  ASSUME StackOK, NEW pc \in Pcs, NEW p \in Pid,
         Call(FrameOf("remove", p), pc),
         <<Running.k, Running.pc, pc>> \in Goings, CallSite(Running.k, pc, "remove"), Removes
  PROVE  /\ Stacked /\ CallStep /\ cs'[Depth].pc = pc
         /\ cs'[Depth + 1] = FrameOf("remove", p) /\ cs'[Depth + 1].k = "remove" /\ Entered
<1> DEFINE new == FrameOf("remove", p)
<1>1. new \in Frame /\ new.k = "remove" /\ new.pc = "begin"
  BY NewFrames DEF FrameKinds
<1>2. Enters(pc, new)
  BY <1>1 DEF Enters
<1> HIDE DEF new
<1>3. Call(new, pc)
  BY DEF new
<1>4. /\ StackOK' /\ Moves /\ CallStep /\ cs'[Depth].pc = pc
      /\ cs'[Depth].i = Running.i /\ cs'[Depth + 1] = new
  BY <1>1, <1>2, <1>3, CallPcMoves
<1> QED
  BY <1>1, <1>4, NewFacts, NewEntered DEF Stacked, new

LEMMA InsertStacked ==
  ASSUME StackOK, NEW pc \in Pcs, NEW h \in Handlers, NEW p \in Pid,
         Call(InsertOf(p, h), pc),
         <<Running.k, Running.pc, pc>> \in Goings, CallSite(Running.k, pc, "insert"), Inserts
  PROVE  /\ Stacked /\ CallStep /\ cs'[Depth].pc = pc
         /\ cs'[Depth + 1] = InsertOf(p, h) /\ cs'[Depth + 1].k = "insert"
         /\ Entered
<1> DEFINE new == InsertOf(p, h)
<1>1. new \in Frame /\ new.k = "insert" /\ new.pc = "begin"
  BY NewFrames
<1>2. Enters(pc, new)
  BY <1>1 DEF Enters
<1> HIDE DEF new
<1>3. Call(new, pc)
  BY DEF new
<1>4. /\ StackOK' /\ Moves /\ CallStep /\ cs'[Depth].pc = pc
      /\ cs'[Depth].i = Running.i /\ cs'[Depth + 1] = new
  BY <1>1, <1>2, <1>3, CallPcMoves
<1> QED
  BY <1>1, <1>4, NewFacts, NewEntered DEF Stacked, new

\* A wait for process p, of a stream that is closed before.
LEMMA WaitStacked ==
  ASSUME StackOK, ProcOK, SigOK, NEW p \in Pid, p > 0, NEW closed \in BOOLEAN,
         NEW pc \in Pcs, WaitFor(p, closed, pc),
         <<Running.k, Running.pc, pc>> \in Goings, CallSite(Running.k, pc, "wait")
  PROVE  /\ Stacked /\ CallStep /\ cs'[Depth + 1].k = "wait" /\ NewOf("wait")
         /\ cs'[Depth].pc = pc /\ Entered
         /\ SigOK' /\ ProcOK' /\ Older(proc')
         /\ closed => ~ (IsPid(p) /\ proc'[p].st = "running")
<1> DEFINE new == Waiting(p)
<1>1. new \in Frame /\ new.k = "wait" /\ new.pc = "wait"
      /\ new.int = sig.int /\ new.chld = sig.chld
  BY DEF Waiting, FrameOf, Frame, FrameKinds, Pcs, Handlers, IntDisp, ChldDisp, SigOK
<1>2. sig' = [int |-> "ignore", chld |-> "ignore", pend |-> FALSE]
  BY DEF WaitFor
<1>3. Enters(pc, new)
  BY <1>1, <1>2 DEF Enters
<1> HIDE DEF new
<1>4. Call(new, pc)
  BY DEF new, WaitFor
<1>5. StackOK' /\ Moves /\ CallStep /\ cs'[Depth].i = Running.i /\ cs'[Depth + 1] = new
      /\ cs'[Depth].pc = pc
  BY <1>1, <1>3, <1>4, CallPcMoves
<1>6. SigOK'
  BY <1>2 DEF SigOK, IntDisp, ChldDisp
<1>7. /\ ProcOK' /\ Older(proc')
      /\ closed => ~ (IsPid(p) /\ proc'[p].st = "running")
  <2>1. CASE closed /\ Alive(p)
    <3>1. p \in 1 .. Len(proc) /\ proc[p].st \in {"running", "ending"}
      BY <2>1 DEF Alive, IsPid
    <3>2. proc' = [proc EXCEPT ![p].st = "ending"]
      BY <2>1 DEF WaitFor
    <3>3. proc' \in Seq(Process) /\ Older(proc') /\ proc'[p].st = "ending"
      BY <3>1, <3>2, StateOlder
    <3> QED
      BY <3>3 DEF ProcOK
  <2>2. CASE ~ (closed /\ Alive(p))
    BY <2>2, ProcFacts DEF WaitFor, ProcOK, Alive, IsPid
  <2> QED
    BY <2>1, <2>2
<1>8. CallStep /\ cs'[Depth + 1].k = "wait" /\ NewOf("wait")
  BY <1>1, <1>5 DEF CallStep, NewOf
<1> QED
  BY <1>5, <1>6, <1>7, <1>8, NewFacts, NewEntered DEF Stacked

\* delete of a stream.
LEMMA DeleteStacked ==
  ASSUME StackOK, ProcOK, SigOK, NEW p \in Pid, NEW open \in BOOLEAN,
         NEW pc \in Pcs, Delete(p, open, pc),
         <<Running.k, Running.pc, pc>> \in Goings, CallSite(Running.k, pc, "wait")
  PROVE  /\ Stacked /\ SigOK' /\ ProcOK' /\ Older(proc')
         /\ \/ CallStep /\ NewOf("wait")
            \/ GoesStep /\ sig' = sig /\ proc' = proc
         /\ cs'[Depth].pc = pc /\ Entered
         /\ open => ~ (IsPid(p) /\ proc'[p].st = "running")
<1>1. CASE p > 0 /\ open
  <2>1. WaitFor(p, TRUE, pc)
    BY <1>1 DEF Delete
  <2> QED
    BY <1>1, <2>1, WaitStacked DEF WaitFor
<1>2. CASE ~ (p > 0 /\ open)
  <2>1. Goto(pc) /\ sig' = sig /\ proc' = proc
    BY <1>2 DEF Delete
  <2>2. ~ (open /\ IsPid(p))
    BY <1>2 DEF IsPid
  <2> QED
    BY <2>1, <2>2, GotoStacked, ProcFacts DEF SigOK, ProcOK
<1> QED
  BY <1>1, <1>2

\* A running frame whose p or i changes as well.
LEMMA TopStacked ==
  ASSUME StackOK, NEW fr \in Frame, GoesOn(fr), cs' = Top(fr)
  PROVE  /\ StackOK' /\ Moves /\ GoesStep /\ cs'[Depth] = fr
         /\ fr.i = Running.i => Stacked
         /\ Entered
BY TopMoves, NewFacts, NewEntered DEF Stacked

\* A frame that differs from the running one in pc, i or p only.
Alike(fr, pc) ==
  /\ fr.k = Running.k /\ fr.h = Running.h /\ fr.int = Running.int
  /\ fr.chld = Running.chld /\ fr.pc = pc
  /\ fr.k \in {"sync", "send", "openplot"} \/ fr.p = Running.p

LEMMA AlikeGoes ==
  ASSUME StackOK, NEW pc, NEW fr, Alike(fr, pc), <<Running.k, Running.pc, pc>> \in Goings
  PROVE  GoesOn(fr)
BY DEF Alike, GoesOn

LEMMA RunningPc ==
  ASSUME StackOK, NEW pc \in Pcs, <<Running.k, Running.pc, pc>> \in Goings
  PROVE  /\ [Running EXCEPT !.pc = pc] \in Frame /\ GoesOn([Running EXCEPT !.pc = pc])
         /\ [Running EXCEPT !.pc = pc].i = Running.i
         /\ [Running EXCEPT !.pc = pc].pc = pc
<1>1. Running \in Frame
  BY StackFacts
<1> QED
  BY <1>1, PcFrame DEF GoesOn

\* A remove is replaced by the death handler of the plotter.
LEMMA SwapStacked ==
  ASSUME StackOK, At("remove", "call"),
         cs' = Append(Returned, FrameOf("plotdeath", Running.p))
  PROVE  Stacked /\ SwapStep /\ Entered
<1> DEFINE new == FrameOf("plotdeath", Running.p)
<1>1. Running \in Frame /\ Depth \in Nat
  BY StackFacts
<1>2. new \in Frame
  BY <1>1, NewFrames DEF FrameKinds, Frame
<1>3. /\ Depth > 1 /\ Returned \in Seq(Frame) /\ Returned # <<>>
      /\ Len(Returned) = Depth - 1 /\ Returned[1].k = "main"
      /\ \A i \in 1 .. Depth - 1 : Returned[i] = cs[i]
  BY ReturnedFacts DEF At
<1> HIDE DEF new
<1>4. /\ cs' = Append(Returned, new) /\ cs' \in Seq(Frame) /\ Len(cs') = Depth
      /\ cs'[Depth] = new /\ \A i \in 1 .. Depth - 1 : cs'[i] = Returned[i]
  <2>1. cs' = Append(Returned, new)
    BY DEF new
  <2> QED
    BY <1>1, <1>2, <1>3, <2>1
<1>5. cs' # <<>> /\ cs'[1].k = "main"
  BY <1>1, <1>3, <1>4, EmptySeq
<1>6. SwapStep
  BY <1>3, <1>4 DEF SwapStep, new
<1> QED
  BY <1>1, <1>3, <1>4, <1>5, <1>6 DEF StackOK, Moves, Below, Stacked, Entered, NewOf

\* The first of some places.
LEMMA FirstIn ==
  ASSUME NEW n \in Nat, NEW S, S \subseteq 1 .. n, S # {}
  PROVE  First(S) \in S /\ First(S) \in 1 .. n /\ First(S) \in Nat
<1> DEFINE R == StrictSubsetOrdering(1 .. n)
           T == {1 .. i : i \in S}
<1>1. IsWellFoundedOn(R, SUBSET (1 .. n))
  <2>1. IsFiniteSet(1 .. n)
    BY FS_Interval
  <2>2. FiniteSubsetsOf(1 .. n) = SUBSET (1 .. n)
    BY <2>1, FS_FiniteSubsetsOfFinite
  <2> QED
    BY <2>2, FS_StrictSubsetOrderingWellFounded
<1>2. T \subseteq SUBSET (1 .. n) /\ T # {}
  <2>1. \A i \in S : 1 .. i \subseteq 1 .. n
    OBVIOUS
  <2> QED
    BY <2>1
<1>3. PICK t \in T : \A u \in T : ~ (<<u, t>> \in R)
  <2> HIDE DEF R, T
  <2> QED
    BY <1>1, <1>2, WFMin
<1>4. PICK i \in S : t = 1 .. i
  OBVIOUS
<1>5. ASSUME NEW j \in S, j < i PROVE FALSE
  <2>1. 1 .. j \subseteq 1 .. i /\ 1 .. j # 1 .. i /\ 1 .. i \subseteq 1 .. n
    BY <1>5
  <2>2. <<1 .. j, 1 .. i>> \in R
    BY <2>1 DEF StrictSubsetOrdering
  <2> QED
    BY <1>3, <1>4, <2>2
<1>6. \A j \in S : i <= j
  BY <1>5
<1>7. First(S) \in S
  BY <1>6 DEF First
<1>8. \A k \in S : k \in 1 .. n /\ k \in Nat
  OBVIOUS
<1> QED
  BY <1>7, <1>8, Zenon

-----------------------------------------------------------------------------
(***************************************************************************)
(* The stack after each action                                             *)
(***************************************************************************)

LEMMA PagerStacked ==
  ASSUME StackOK, DataOK, SigOK, ProcOK, Pager
  PROVE  Stacked /\ Entered
<1>1. CASE FlushBegin
  <2>1. CASE Return
    BY <1>1, <2>1, ReturnStacked DEF FlushBegin, Flush, At
  <2>2. CASE Goto("clear")
    BY <1>1, <2>2, GotoStacked DEF FlushBegin, Flush, At, Goings, Pcs
  <2>3. CASE \E b \in BOOLEAN : Call([FrameOf("sync", None) EXCEPT !.bypass = b], "clear")
    <3>1. PICK b \in BOOLEAN : Call([FrameOf("sync", None) EXCEPT !.bypass = b], "clear")
      BY <2>3
    <3> DEFINE new == [FrameOf("sync", None) EXCEPT !.bypass = b]
    <3>2. new \in Frame /\ new.k = "sync" /\ new.pc = "begin"
      BY DEF FrameOf, Frame, FrameKinds, Pcs, Handlers, IntDisp, ChldDisp, Pid, None
    <3>3. Enters("clear", new) /\ <<Running.k, Running.pc, "clear">> \in Goings
      BY <1>1, <3>2 DEF FlushBegin, Flush, At, Enters, CallSite, CallSites, Goings
    <3> HIDE DEF new
    <3>4. Call(new, "clear")
      BY <3>1 DEF new
    <3> QED
      BY <3>2, <3>3, <3>4, CallPcMoves, NewFacts, NewEntered DEF Stacked, Pcs
  <2> QED
    BY <1>1, <2>1, <2>2, <2>3 DEF FlushBegin, Flush
<1>2. CASE FlushClear
  <2>1. CASE Goto("end")
    BY <1>2, <2>1, GotoStacked DEF FlushClear, At, Goings, Pcs
  <2>2. CASE Call(FrameOf("clear", None), "end")
    BY <1>2, <2>2, CallStacked
    DEF FlushClear, At, Goings, Pcs, CallSite, CallSites, FrameKinds, Pid, None
  <2> QED
    BY <1>2, <2>1, <2>2 DEF FlushClear
<1>3. CASE FlushEnd \/ ErrorEnd \/ SyncDone \/ ClearDeleted
  BY <1>3, ReturnStacked DEF FlushEnd, ErrorEnd, SyncDone, ClearDeleted, At
<1>4. CASE ErrorBegin
  <2>1. /\ Call(FrameOf("flush", None), "end") /\ <<Running.k, Running.pc, "end">> \in Goings
        /\ CallSite(Running.k, "end", "flush")
    BY <1>4 DEF ErrorBegin, At, Goings, CallSite, CallSites
  <2> QED
    BY <1>4, <2>1, CallStacked DEF Pcs, FrameKinds, Pid, None
<1>10. CASE ClearBegin
  <2>1. /\ Call(FrameOf("remove", pager.pid), "removed") /\ <<Running.k, Running.pc, "removed">> \in Goings
        /\ CallSite(Running.k, "removed", "remove")
    BY <1>10 DEF ClearBegin, At, Goings, CallSite, CallSites
  <2> QED
    BY <1>10, <2>1, RemoveStacked DEF Pcs, FrameKinds, DataOK, Removes
<1>5. CASE SyncBegin
  <2>0. \A pc \in {"done", "open", "check"} :
          pc \in Pcs /\ <<Running.k, Running.pc, pc>> \in Goings
    BY <1>5 DEF SyncBegin, At, Goings, Pcs
  <2>1. CASE Goto("done") \/ Goto("open") \/ Goto("check")
    BY <2>0, <2>1, GotoStacked
  <2> QED
    BY <1>5, <2>1 DEF SyncBegin
<1>6. CASE SyncOpen \/ SyncNew \/ SyncWrite \/ SyncFlush
  <2>1. CASE SyncOpen
    BY <2>1, GotoStacked DEF SyncOpen, At, Goings, Pcs
  <2>2. CASE SyncNew
    BY <2>2, GotoStacked DEF SyncNew, At, Goings, Pcs
  <2>3. CASE SyncWrite \/ SyncFlush
    BY <2>3, GotoStacked DEF SyncWrite, SyncFlush, At, Goings, Pcs
  <2> QED
    BY <1>6, <2>1, <2>2, <2>3
<1>7. CASE SyncInsert
  BY <1>7, InsertStacked
  DEF Inserts, SyncInsert, At, Goings, Pcs, CallSite, CallSites, Handlers, DataOK
<1>8. CASE SyncCheck \/ SyncRecheck
  <2>1. CASE Goto("done")
    BY <1>8, <2>1, GotoStacked DEF SyncCheck, SyncRecheck, At, Goings, Pcs
  <2>2. CASE ~ Goto("done")
    <3>1. PICK pc \in {"write", "flush"} :
            /\ cs' = Top([Running EXCEPT !.pc = pc, !.p = pager.obj])
            /\ <<Running.k, Running.pc, pc>> \in Goings
      BY <1>8, <2>2 DEF SyncCheck, SyncRecheck, At, Goings
    <3>2. Running.k = "sync" /\ pc \in Pcs /\ pager.obj \in Pid
      BY <1>8 DEF SyncCheck, SyncRecheck, At, Pcs, DataOK
    <3>3. PICK fr : fr = [Running EXCEPT !.pc = pc, !.p = pager.obj]
      OBVIOUS
    <3>4. fr \in Frame /\ Alike(fr, pc) /\ fr.i = Running.i
      BY <3>2, <3>3, StackFacts DEF Frame, Alike
    <3>5. cs' = Top(fr)
      BY <3>1, <3>3
    <3> QED
      BY <3>1, <3>4, <3>5, AlikeGoes, TopStacked
  <2> QED
    BY <2>1, <2>2
<1>9. CASE ClearRemoved
  <2>1. /\ <<Running.k, Running.pc, "deleted">> \in Goings
        /\ CallSite(Running.k, "deleted", "wait") /\ Delete(pager.obj, TRUE, "deleted")
    BY <1>9 DEF ClearRemoved, At, Goings, CallSite, CallSites
  <2> QED
    BY <2>1, DeleteStacked DEF DataOK, Pcs
<1> QED
  BY <1>1, <1>2, <1>3, <1>4, <1>5, <1>6, <1>7, <1>8, <1>9, <1>10 DEF Pager

LEMMA PlotterStacked ==
  ASSUME StackOK, DataOK, SigOK, ProcOK, Plotter
  PROVE  Stacked /\ Entered
<1>1. CASE OpenplotBegin
  <2>1. CASE Delete(plot.obj, TRUE, "deleted")
    <3>1. /\ <<Running.k, Running.pc, "deleted">> \in Goings
          /\ CallSite(Running.k, "deleted", "wait")
      BY <1>1 DEF OpenplotBegin, At, Goings, CallSite, CallSites
    <3> QED
      BY <2>1, <3>1, DeleteStacked DEF DataOK, Pcs
  <2>2. CASE Goto("new") \/ Goto("done")
    BY <1>1, <2>2, GotoStacked DEF OpenplotBegin, At, Goings, Pcs
  <2> QED
    BY <1>1, <2>1, <2>2 DEF OpenplotBegin
<1>2. CASE OpenplotDeleted \/ SendUsing \/ CloseplotDeleted
  BY <1>2, GotoStacked, ReturnStacked
  DEF OpenplotDeleted, SendUsing, CloseplotDeleted, At, Goings, Pcs
<1>3. CASE OpenplotNew
  <2>1. ASSUME NEW p \in 1 .. MaxPid, cs' = Top([Running EXCEPT !.pc = "assign", !.p = p])
        PROVE  Stacked /\ Entered
    <3>1. PICK fr : fr = [Running EXCEPT !.pc = "assign", !.p = p]
      OBVIOUS
    <3>2. At("openplot", "new") /\ p \in Nat
      BY <1>3, BoundAssumption DEF OpenplotNew
    <3>3. /\ fr \in Frame /\ fr.pc = "assign" /\ fr.k = Running.k /\ fr.h = Running.h
          /\ fr.int = Running.int /\ fr.chld = Running.chld /\ fr.i = Running.i
      BY <3>1, <3>2, StackFacts DEF Frame, Pcs, Pid, At
    <3>4. GoesOn(fr)
      BY <3>2, <3>3 DEF GoesOn, At, Goings
    <3>5. cs' = Top(fr)
      BY <2>1, <3>1
    <3> QED
      BY <3>3, <3>4, <3>5, TopMoves, NewFacts, NewEntered DEF Stacked
  <2>2. CASE Call(FrameOf("error", None), "done")
    BY <1>3, <2>2, CallStacked
    DEF OpenplotNew, At, Goings, Pcs, CallSite, CallSites, FrameKinds, Pid, None
  <2>3. PICK p \in 1 .. MaxPid \cup {Failed} :
          IF p > 0 THEN cs' = Top([Running EXCEPT !.pc = "assign", !.p = p])
          ELSE Call(FrameOf("error", None), "done")
    BY <1>3 DEF OpenplotNew
  <2>4. p > 0 => p \in 1 .. MaxPid
    BY DEF Failed
  <2> QED
    BY <2>1, <2>2, <2>3, <2>4
<1>13. CASE OpenplotAssign
  BY <1>13, GotoStacked DEF OpenplotAssign, At, Goings, Pcs
<1>4. CASE OpenplotInsert
  BY <1>4, InsertStacked
  DEF Inserts, OpenplotInsert, At, Goings, Pcs, CallSite, CallSites, Handlers, DataOK
<1>5. CASE SendBegin
  <2>1. CASE Goto("use")
    BY <1>5, <2>1, GotoStacked DEF SendBegin, At, Goings, Pcs
  <2>2. CASE Call(FrameOf("openplot", None), "opened")
    BY <1>5, <2>2, CallStacked
    DEF SendBegin, At, Goings, Pcs, CallSite, CallSites, FrameKinds, Pid, None
  <2> QED
    BY <1>5, <2>1, <2>2 DEF SendBegin
<1>6. CASE SendOpened
  BY <1>6, GotoStacked, ReturnStacked DEF SendOpened, At, Goings, Pcs
<1>7. CASE SendUse
  <2>1. <<Running.k, Running.pc, "using">> \in Goings /\ Running.k = "send"
    BY <1>7 DEF SendUse, At, Goings
  <2>2. cs' = Top([Running EXCEPT !.pc = "using", !.p = plot.obj]) /\ plot.obj \in Pid
    BY <1>7 DEF SendUse, DataOK
  <2>3. PICK fr : fr = [Running EXCEPT !.pc = "using", !.p = plot.obj]
    OBVIOUS
  <2>4. fr \in Frame /\ Alike(fr, "using") /\ fr.i = Running.i
    <3>1. Running \in Frame
      BY StackFacts
    <3>2. fr \in Frame
      BY <2>1, <2>2, <2>3, <3>1 DEF Frame, Pcs
    <3>3. Alike(fr, "using") /\ fr.i = Running.i
      BY <2>1, <2>3, <3>1 DEF Frame, Alike
    <3> QED
      BY <3>2, <3>3
  <2>5. cs' = Top(fr)
    BY <2>2, <2>3
  <2> QED
    BY <2>1, <2>4, <2>5, AlikeGoes, TopStacked
<1>8. CASE CloseplotBegin
  <2>1. /\ Call(FrameOf("remove", plot.pid), "removed") /\ <<Running.k, Running.pc, "removed">> \in Goings
        /\ CallSite(Running.k, "removed", "remove")
    BY <1>8 DEF CloseplotBegin, At, Goings, CallSite, CallSites
  <2> QED
    BY <1>8, <2>1, RemoveStacked DEF Pcs, FrameKinds, DataOK, Removes
<1>11. CASE PlotdeathBegin
  <2>1. /\ Call(FrameOf("closeplot", None), "warn") /\ <<Running.k, Running.pc, "warn">> \in Goings
        /\ CallSite(Running.k, "warn", "closeplot")
    BY <1>11 DEF PlotdeathBegin, At, Goings, CallSite, CallSites
  <2> QED
    BY <1>11, <2>1, CallStacked DEF Pcs, FrameKinds, Pid, None
<1>12. CASE PlotdeathWarn
  <2>1. /\ Call(FrameOf("flush", None), "done") /\ <<Running.k, Running.pc, "done">> \in Goings
        /\ CallSite(Running.k, "done", "flush")
    BY <1>12 DEF PlotdeathWarn, At, Goings, CallSite, CallSites
  <2> QED
    BY <1>12, <2>1, CallStacked DEF Pcs, FrameKinds, Pid, None
<1>9. CASE CloseplotRemoved
  <2>1. CASE Return
    BY <1>9, <2>1, ReturnStacked DEF CloseplotRemoved, At
  <2>2. CASE Call(FrameOf("send", None), "sent")
    BY <1>9, <2>2, CallStacked
    DEF CloseplotRemoved, At, Goings, Pcs, CallSite, CallSites, FrameKinds, Pid, None
  <2> QED
    BY <1>9, <2>1, <2>2 DEF CloseplotRemoved
<1>10. CASE CloseplotSent
  <2>1. /\ <<Running.k, Running.pc, "deleted">> \in Goings
        /\ CallSite(Running.k, "deleted", "wait") /\ Delete(plot.obj, TRUE, "deleted")
    BY <1>10 DEF CloseplotSent, At, Goings, CallSite, CallSites
  <2> QED
    BY <2>1, DeleteStacked DEF DataOK, Pcs
<1> QED
  BY <1>1, <1>2, <1>3, <1>4, <1>5, <1>6, <1>7, <1>8, <1>9, <1>10, <1>11, <1>12, <1>13 DEF Plotter

LEMMA SystemsStacked ==
  ASSUME StackOK, DataOK, SigOK, ProcOK, FrameOK(Running), Systems
  PROVE  Stacked /\ Entered
<1>1. CASE SystemBegin
  <2>1. PICK p \in 1 .. MaxPid \cup {Failed} :
          Spawn("cmd", p) /\ Call(InsertOf(p, "cmd"), "add")
    BY <1>1 DEF SystemBegin
  <2>2. p \in Pid
    BY <2>1, SpawnBorn DEF Handlers
  <2>3. /\ <<Running.k, Running.pc, "add">> \in Goings
        /\ CallSite(Running.k, "add", "insert")
    BY <1>1 DEF SystemBegin, At, Goings, CallSite, CallSites
  <2> QED
    BY <1>1, <2>1, <2>2, <2>3, InsertStacked DEF Pcs, Handlers, Inserts
<1>2. CASE SystemAdd
  <2>1. CASE Goto("read") \/ Goto("cleanup")
    BY <1>2, <2>1, GotoStacked DEF SystemAdd, At, Goings, Pcs
  <2> QED
    BY <1>2, <2>1 DEF SystemAdd
<1>3. CASE SystemRead
  <2>1. /\ <<Running.k, Running.pc, "status">> \in Goings
        /\ CallSite(Running.k, "status", "wait") /\ WaitFor(cmd.obj, TRUE, "status")
        /\ Running.k = "system" /\ Running.pc = "read"
    BY <1>3 DEF SystemRead, At, Goings, CallSite, CallSites
  <2>2. cmd.obj \in Pid /\ cmd.obj > 0
    BY <2>1 DEF FrameOK, DataOK
  <2> QED
    BY <2>1, <2>2, WaitStacked DEF Pcs
<1>4. CASE SystemStatus
  BY <1>4, GotoStacked DEF SystemStatus, At, Goings, Pcs
<1>5. CASE SystemCleanup
  <2>1. /\ Call(FrameOf("cleancmd", None), "done") /\ <<Running.k, Running.pc, "done">> \in Goings
        /\ CallSite(Running.k, "done", "cleancmd")
    BY <1>5 DEF SystemCleanup, At, Goings, CallSite, CallSites
  <2> QED
    BY <1>5, <2>1, CallStacked DEF Pcs, FrameKinds, Pid, None
<1>8. CASE CleancmdBegin
  <2>1. /\ Call(FrameOf("remove", cmd.pid), "removed") /\ <<Running.k, Running.pc, "removed">> \in Goings
        /\ CallSite(Running.k, "removed", "remove")
    BY <1>8 DEF CleancmdBegin, At, Goings, CallSite, CallSites
  <2> QED
    BY <1>8, <2>1, RemoveStacked DEF Pcs, FrameKinds, DataOK, Removes
<1>6. CASE CleancmdRemoved
  <2>1. /\ <<Running.k, Running.pc, "deleted">> \in Goings
        /\ CallSite(Running.k, "deleted", "wait") /\ Delete(cmd.obj, cmd.open, "deleted")
    BY <1>6 DEF CleancmdRemoved, At, Goings, CallSite, CallSites
  <2>2. cmd.obj \in Pid /\ cmd.open \in BOOLEAN
    BY DEF DataOK
  <2> QED
    BY <2>1, <2>2, DeleteStacked DEF Pcs
<1>7. CASE CleancmdDeleted
  BY <1>7, ReturnStacked DEF CleancmdDeleted, At
<1> QED
  BY <1>1, <1>2, <1>3, <1>4, <1>5, <1>6, <1>7, <1>8 DEF Systems

LEMMA ChildListStacked ==
  ASSUME StackOK, DataOK, SigOK, ProcOK, FrameOK(Running), ChildList
  PROVE  /\ StackOK' /\ Moves /\ Entered
         /\ \/ cs'[Depth].i = Running.i \/ LeaveStep \/ SwapStep
            \/ InsertFind \/ RemoveFind
<1>0. Len(list) \in Nat
  BY LenProperties DEF DataOK
<1>1. CASE (InsertFind \/ InsertFile \/ RemoveFind) /\ Return
  BY <1>1, ReturnStacked DEF InsertFind, InsertFile, RemoveFind, At, Stacked
<1>2. CASE InsertPid \/ InsertHandler
  BY <1>2, GotoStacked DEF InsertPid, InsertHandler, At, Goings, Pcs, Stacked
<1>3. CASE InsertFind /\ ~ Return
  <2>0. PICK fr : fr = [Running EXCEPT !.pc = "pid", !.i = First(Free)]
    OBVIOUS
  <2>1. /\ <<Running.k, Running.pc, "pid">> \in Goings /\ Free # {} /\ cs' = Top(fr)
    BY <1>3, <2>0 DEF InsertFind, At, Goings
  <2>2. Free \subseteq 1 .. Len(list)
    BY DEF Free
  <2>3. First(Free) \in Nat
    BY <1>0, <2>1, <2>2, FirstIn
  <2>4. fr \in Frame /\ Alike(fr, "pid")
    <3>1. PICK i : i = First(Free)
      OBVIOUS
    <3>2. i \in Nat /\ Running \in Frame /\ fr = [Running EXCEPT !.pc = "pid", !.i = i]
      BY <2>0, <2>3, <3>1, StackFacts
    <3> QED
      BY <3>2 DEF Frame, Alike, Pcs
  <2>5. GoesOn(fr)
    BY <2>1, <2>4, AlikeGoes
  <2> QED
    BY <1>3, <2>1, <2>4, <2>5, TopStacked
<1>4. CASE RemoveFind /\ ~ Return
  <2>0. PICK fr : fr = [Running EXCEPT !.pc = "call", !.i = First(SlotsOf(Running.p))]
    OBVIOUS
  <2>1. /\ <<Running.k, Running.pc, "call">> \in Goings /\ SlotsOf(Running.p) # {}
        /\ cs' = Top(fr)
    BY <1>4, <2>0 DEF RemoveFind, At, Goings
  <2>2. SlotsOf(Running.p) \subseteq 1 .. Len(list)
    BY DEF SlotsOf
  <2>3. First(SlotsOf(Running.p)) \in Nat
    BY <1>0, <2>1, <2>2, FirstIn
  <2>4. fr \in Frame /\ Alike(fr, "call")
    <3>1. PICK i : i = First(SlotsOf(Running.p))
      OBVIOUS
    <3>2. i \in Nat /\ Running \in Frame /\ fr = [Running EXCEPT !.pc = "call", !.i = i]
      BY <2>0, <2>3, <3>1, StackFacts
    <3>3. PICK r \in Frame : r = Running
      BY <3>2
    <3>4. fr = [r EXCEPT !.pc = "call", !.i = i]
      BY <3>2, <3>3
    <3>5. fr \in Frame
      BY <3>2, <3>4 DEF Frame, Pcs
    <3>6. /\ fr.k = r.k /\ fr.h = r.h /\ fr.int = r.int /\ fr.chld = r.chld
          /\ fr.pc = "call" /\ fr.p = r.p
      BY <3>4 DEF Frame
    <3>7. Alike(fr, "call")
      BY <3>3, <3>6 DEF Alike
    <3> QED
      BY <3>5, <3>7
  <2>5. GoesOn(fr)
    BY <2>1, <2>4, AlikeGoes
  <2> QED
    BY <1>4, <2>1, <2>4, <2>5, TopStacked
<1>5. CASE RemoveCall
  <2>1. cs' = Returned \/ cs' = Append(Returned, FrameOf("plotdeath", Running.p))
    BY <1>5 DEF RemoveCall, RunHandler
  <2>2. Running.k # "main" /\ At("remove", "call")
    BY <1>5 DEF RemoveCall, At
  <2>3. CASE cs' = Returned
    BY <2>2, <2>3, ReturnStacked DEF Return, Stacked
  <2>4. CASE cs' = Append(Returned, FrameOf("plotdeath", Running.p))
    BY <2>2, <2>4, SwapStacked DEF Stacked
  <2> QED
    BY <2>1, <2>3, <2>4
<1> QED
  BY <1>1, <1>2, <1>3, <1>4, <1>5 DEF ChildList, InsertFile

LEMMA SigchldStacked ==
  ASSUME StackOK, DataOK, SigOK, ProcOK, FrameOK(Running), SigchldScan \/ SigchldOther
  PROVE  /\ StackOK' /\ Moves /\ Entered
         /\ cs'[Depth].i = Running.i \/ SigchldScan
         /\ SigchldScan => cs'[Depth].i \in {Running.i, Running.i + 1}
<1>0. Running \in Frame
  BY StackFacts
<1>1. CASE SigchldOther
  <2>1. Goto("int") /\ <<Running.k, Running.pc, "int">> \in Goings
    BY <1>1 DEF SigchldOther, At, Goings
  <2> QED
    BY <2>1, GotoMoves, NewFacts, NewEntered DEF Pcs
<1>2. CASE SigchldScan
  <2> DEFINE f1 == [Running EXCEPT !.pc = "scan", !.i = Running.i + 1]
             f2 == [Running EXCEPT !.pc = "int"]
             el == list[Running.i]
             new == FrameOf("plotdeath", el.pid)
  <2> HIDE DEF f1, f2, el, new
  <2>1. At("chld", "scan") /\ <<Running.k, Running.pc, "int">> \in Goings
        /\ <<Running.k, Running.pc, "scan">> \in Goings
    BY <1>2 DEF SigchldScan, At, Goings
  <2>2. f1 \in Frame /\ GoesOn(f1) /\ f1.i = Running.i + 1
    <3>1. Running.i + 1 \in Nat
      BY <1>0 DEF Frame
    <3>2. f1 = [Running EXCEPT !.pc = "scan", !.i = Running.i + 1]
      BY DEF f1
    <3>3. f1 \in Frame /\ Alike(f1, "scan") /\ f1.i = Running.i + 1
      BY <1>0, <3>1, <3>2 DEF Frame, Alike, Pcs
    <3> QED
      BY <2>1, <3>3, AlikeGoes
  <2>3. f2 \in Frame /\ GoesOn(f2) /\ f2.i = Running.i /\ f2.pc = "int"
    BY <2>1, RunningPc DEF f2, Pcs
  <2>4. el.pid \in Pid
    <3>1. Running.i \in 1 .. Len(list)
      BY <1>0, <1>2, <2>1 DEF SigchldScan, At, FrameOK, Frame
    <3>2. el \in Slot
      BY <3>1, ElementOfSeq DEF el, DataOK
    <3> QED
      BY <3>2 DEF Slot
  <2>5. new \in Frame /\ Enters("int", new)
    BY <2>1, <2>4, NewFrames DEF new, Enters, CallSite, CallSites, At, FrameKinds
  <2>6. cs' = Top(f1) \/ cs' = Top(f2) \/ cs' = Append(Top(f2), new)
    <3>1. [Running EXCEPT !.i = Running.i + 1] = f1
      BY <1>0, <2>1 DEF f1, Frame, At
    <3> QED
      BY <1>2, <3>1 DEF f2, el, new, SigchldScan, RunHandler
  <2>7. CASE cs' = Top(f1)
    BY <1>2, <2>2, <2>7, TopStacked
  <2>8. CASE cs' = Top(f2)
    BY <1>2, <2>3, <2>8, TopStacked
  <2>9. CASE cs' = Append(Top(f2), new)
    <3>1. new.k = "plotdeath"
      BY <2>4, NewFrames DEF new, FrameKinds
    <3> QED
      <4>1. StackOK' /\ Moves /\ CallStep /\ cs'[Depth] = f2 /\ cs'[Depth + 1] = new
        BY <2>3, <2>5, <2>9, CallMoves
      <4>2. NewIn({"plotdeath"})
        BY <3>1, <4>1, NewFacts
      <4>3. Entered
        BY <4>2, NewEntered
      <4>4. cs'[Depth].i = Running.i
        BY <2>3, <4>1
      <4> QED
        BY <4>1, <4>3, <4>4
  <2> QED
    BY <2>6, <2>7, <2>8, <2>9
<1> QED
  BY <1>1, <1>2

LEMMA OthersStacked ==
  ASSUME StackOK, DataOK, SigOK, ProcOK,
         MainTop \/ Wait \/ Leave \/ MainRead \/ MainDone
  PROVE  Stacked /\ Entered
<1>1. CASE MainTop
  BY <1>1, CallStacked
  DEF MainTop, At, Goings, Pcs, CallSite, CallSites, FrameKinds, Pid, None
<1>2. CASE WaitReturns \/ RestoreInt \/ MainRead \/ MainDone
  BY <1>2, GotoStacked DEF WaitReturns, RestoreInt, MainRead, MainDone, At, Goings, Pcs
<1>3. CASE RestoreChld \/ Leave
  BY <1>3, ReturnStacked DEF RestoreChld, Leave
<1> QED
  BY <1>1, <1>2, <1>3 DEF Wait

LEMMA CommandStacked ==
  ASSUME StackOK, DataOK, SigOK, ProcOK, Command
  PROVE  Stacked /\ Entered
<1>0. /\ Running.k = "main" /\ Running.pc = "run"
      /\ <<Running.k, Running.pc, "run">> \in Goings
  BY DEF Command, At, Goings
<1>1. CASE Goto("run")
  BY <1>0, <1>1, GotoStacked DEF Pcs
<1>2. CASE \E k \in {"error", "send", "closeplot", "system"} : Call(FrameOf(k, None), "run")
  BY <1>0, <1>2, CallStacked DEF Pcs, CallSite, CallSites, FrameKinds, Pid, None
<1>3. CASE Output
  <2>1. CASE Immediate /\ Call(FrameOf("sync", None), "run")
    BY <1>0, <2>1, CallStacked DEF Pcs, CallSite, FrameKinds, Pid, None
  <2> QED
    BY <1>1, <1>3, <2>1, SwitchAssumption DEF Output
<1>4. CASE Purge
  <2>1. PICK p \in 1 .. Len(proc) : Call(InsertOf(p, "file"), "run")
    BY <1>4 DEF Purge
  <2>2. p \in Pid
    BY ProcFacts DEF Pid
  <2> QED
    BY <1>0, <2>1, <2>2, InsertStacked DEF Pcs, CallSite, CallSites, Handlers, Inserts
<1>5. CASE Waitpid
  <2>1. PICK p \in 1 .. Len(proc) : WaitFor(p, FALSE, "run")
    BY <1>5 DEF Waitpid
  <2>2. p \in Pid /\ p > 0
    BY ProcFacts DEF Pid
  <2> QED
    BY <1>0, <2>1, <2>2, WaitStacked DEF Pcs, CallSite, CallSites
<1>6. CASE Error \/ Plot \/ Closeplot \/ System \/ Async
  BY <1>1, <1>2, <1>6 DEF Error, Plot, Closeplot, System, Async
<1> QED
  BY <1>3, <1>4, <1>5, <1>6 DEF Command

-----------------------------------------------------------------------------
(***************************************************************************)
(* The data after each action                                              *)
(***************************************************************************)

Typed == SigOK' /\ ProcOK' /\ DataOK'

LEMMA PagerTyped ==
  ASSUME Ready, Pager
  PROVE  Typed
<1>0. StackOK /\ SigOK /\ ProcOK /\ DataOK /\ (At("flush", "end") => ul # <<>>)
  BY TypeParts DEF Ready
<1>1. CASE FlushBegin
  <2>1. SigOK' /\ ProcOK'
    BY <1>0, <1>1 DEF FlushBegin, Flush, SigOK, ProcOK
  <2>2. /\ list' = list /\ plot' = plot /\ cmd' = cmd /\ err' = err /\ intr' = intr
        /\ \/ ul' = ul /\ pager' = pager
           \/ /\ ul' = Append(ul, [e |-> "flush", flushing |-> pager.flushing,
                                   really |-> pager.really])
              /\ pager' = [pager EXCEPT !.really = TRUE, !.flushing = TRUE]
    BY <1>1 DEF FlushBegin, Flush
  <2>3. [e |-> "flush", flushing |-> pager.flushing, really |-> pager.really] \in Saved
    BY <1>0 DEF DataOK, Saved
  <2>4. PICK e : e = [e |-> "flush", flushing |-> pager.flushing, really |-> pager.really]
    OBVIOUS
  <2>5. e \in Saved /\ (ul' = ul \/ ul' = Append(ul, e))
    BY <2>2, <2>3, <2>4
  <2>6. ul' \in Seq(Saved)
    <3>1. ul \in Seq(Saved)
      BY <1>0 DEF DataOK
    <3> QED
      BY <2>5, <3>1
  <2>7. pager' \in [obj : Pid, ok : BOOLEAN, pid : Pid, saved : IntDisp,
                isSaved : BOOLEAN, flushing : BOOLEAN, really : BOOLEAN, buf : BOOLEAN]
    BY <1>0, <2>2 DEF DataOK
  <2> QED
    BY <1>0, <2>1, <2>2, <2>6, <2>7 DEF DataOK, Typed
<1>2. CASE FlushClear \/ ErrorBegin \/ SyncBegin \/ SyncRecheck \/ ClearBegin
  BY <1>0, <1>2
  DEF FlushClear, ErrorBegin, SyncBegin, SyncRecheck, ClearBegin, Quiet, Typed, SigOK,
      ProcOK, DataOK
<1>3. CASE FlushEnd
  <2>1. ul # <<>> /\ ul' = SubSeq(ul, 1, Len(ul) - 1)
    BY <1>0, <1>3 DEF FlushEnd, Popped
  <2>2. /\ Len(ul) \in Nat \ {0} /\ ul[Len(ul)] \in Saved
        /\ ul' \in Seq(Saved)
    <3>1. Len(ul) \in Nat \ {0}
      BY <1>0, <2>1, EmptySeq DEF DataOK
    <3> QED
      BY <1>0, <2>1, <3>1 DEF DataOK
  <2>3. pager' \in [obj : Pid, ok : BOOLEAN, pid : Pid, saved : IntDisp,
                isSaved : BOOLEAN, flushing : BOOLEAN, really : BOOLEAN, buf : BOOLEAN]
    BY <1>0, <1>3, <2>2 DEF FlushEnd, Restored, DataOK, Saved
  <2> QED
    BY <1>0, <1>3, <2>2, <2>3 DEF FlushEnd, Typed, SigOK, ProcOK, DataOK
<1>4. CASE ErrorEnd
  BY <1>0, <1>4 DEF ErrorEnd, Quiet, Typed, SigOK, ProcOK, DataOK
<1>5. CASE SyncOpen
  BY <1>0, <1>5 DEF SyncOpen, Typed, SigOK, ProcOK, DataOK, IntDisp
<1>6. CASE SyncNew
  <2>1. PICK p \in 1 .. MaxPid \cup {Failed} :
          Spawn("pager", p) /\ pager' = [pager EXCEPT !.obj = p, !.ok = (p > 0)]
    BY <1>6 DEF SyncNew
  <2>2. p \in Pid /\ ProcOK'
    BY <1>0, <2>1, SpawnBorn DEF Handlers
  <2>3. pager' \in [obj : Pid, ok : BOOLEAN, pid : Pid, saved : IntDisp,
                isSaved : BOOLEAN, flushing : BOOLEAN, really : BOOLEAN, buf : BOOLEAN]
    <3>1. PICK b : b = (p > 0)
      OBVIOUS
    <3>2. b \in BOOLEAN /\ pager' = [pager EXCEPT !.obj = p, !.ok = b]
      BY <2>1, <3>1
    <3> QED
      BY <1>0, <2>2, <3>2 DEF DataOK
  <2> QED
    BY <1>0, <1>6, <2>2, <2>3 DEF SyncNew, Typed, SigOK, DataOK
<1>7. CASE SyncInsert \/ SyncWrite \/ SyncFlush \/ SyncDone
  <2>1. /\ UNCHANGED <<ul, proc, list, sig, plot, cmd, err, intr>>
        /\ \/ pager' = [pager EXCEPT !.pid = pager.obj]
           \/ pager' = [pager EXCEPT !.buf = FALSE]
           \/ \E b \in BOOLEAN : pager' = [pager EXCEPT !.ok = b]
           \/ pager' = pager
    BY <1>0, <1>7 DEF SyncInsert, SyncWrite, SyncFlush, SyncDone, Written, DataOK
  <2>2. pager' \in [obj : Pid, ok : BOOLEAN, pid : Pid, saved : IntDisp,
                    isSaved : BOOLEAN, flushing : BOOLEAN, really : BOOLEAN, buf : BOOLEAN]
    BY <1>0, <2>1 DEF DataOK
  <2>3. SigOK' /\ ProcOK'
    BY <1>0, <2>1 DEF SigOK, ProcOK
  <2> QED
    BY <1>0, <2>1, <2>2, <2>3 DEF Typed, DataOK
<1>8. CASE SyncCheck
  <2>1. /\ UNCHANGED <<ul, proc, list, plot, cmd, err, intr>>
        /\ pager' = [pager EXCEPT !.isSaved = FALSE] \/ pager' = pager
        /\ sig' = [sig EXCEPT !.int = pager.saved] \/ sig' = sig
    BY <1>8 DEF SyncCheck, PagerLost
  <2>2. pager' \in [obj : Pid, ok : BOOLEAN, pid : Pid, saved : IntDisp,
                    isSaved : BOOLEAN, flushing : BOOLEAN, really : BOOLEAN, buf : BOOLEAN]
    BY <1>0, <2>1 DEF DataOK
  <2>3. SigOK' /\ ProcOK'
    BY <1>0, <2>1 DEF SigOK, ProcOK, DataOK
  <2> QED
    BY <1>0, <2>1, <2>2, <2>3 DEF Typed, DataOK
<1>9. CASE ClearRemoved
  <2>1. /\ <<Running.k, Running.pc, "deleted">> \in Goings
        /\ CallSite(Running.k, "deleted", "wait") /\ Delete(pager.obj, TRUE, "deleted")
    BY <1>9 DEF ClearRemoved, At, Goings, CallSite, CallSites
  <2>2. SigOK' /\ ProcOK'
    BY <1>0, <2>1, DeleteStacked DEF DataOK, Pcs
  <2> QED
    BY <1>0, <1>9, <2>2 DEF ClearRemoved, Typed, DataOK, Pid, Failed
<1>10. CASE ClearDeleted
  BY <1>0, <1>10 DEF ClearDeleted, Typed, SigOK, ProcOK, DataOK, Pid, None
<1> QED
  BY <1>1, <1>2, <1>3, <1>4, <1>5, <1>6, <1>7, <1>8, <1>9, <1>10 DEF Pager

LEMMA PlotterTyped ==
  ASSUME Ready, Plotter
  PROVE  Typed
<1>0. StackOK /\ SigOK /\ ProcOK /\ DataOK
  BY TypeParts DEF Ready
<1>1. CASE OpenplotBegin
  <2>1. CASE Delete(plot.obj, TRUE, "deleted")
    <3>1. /\ <<Running.k, Running.pc, "deleted">> \in Goings
          /\ CallSite(Running.k, "deleted", "wait")
      BY <1>1 DEF OpenplotBegin, At, Goings, CallSite, CallSites
    <3>2. SigOK' /\ ProcOK'
      BY <1>0, <2>1, <3>1, DeleteStacked DEF DataOK, Pcs
    <3> QED
      BY <1>0, <1>1, <3>2 DEF OpenplotBegin, Typed, DataOK
  <2>2. CASE UNCHANGED <<sig, proc>>
    BY <1>0, <1>1, <2>2 DEF OpenplotBegin, Typed, SigOK, ProcOK, DataOK
  <2> QED
    BY <1>1, <2>1, <2>2 DEF OpenplotBegin
<1>2. CASE OpenplotDeleted \/ CloseplotDeleted
  <2>1. plot' = [plot EXCEPT !.obj = None]
    BY <1>2 DEF OpenplotDeleted, CloseplotDeleted
  <2>2. plot' \in [obj : Pid, ok : BOOLEAN, pid : Pid, was : SUBSET Pid]
    BY <1>0, <2>1 DEF DataOK, Pid, None
  <2> QED
    BY <1>0, <1>2, <2>2
    DEF OpenplotDeleted, CloseplotDeleted, Typed, SigOK, ProcOK, DataOK
<1>3. CASE OpenplotInsert \/ SendUsing
  BY <1>0, <1>3 DEF OpenplotInsert, SendUsing, Typed, SigOK, ProcOK, DataOK
<1>4. CASE OpenplotNew
  <2>1. PICK p \in 1 .. MaxPid \cup {Failed} : Spawn("plot", p)
    BY <1>4 DEF OpenplotNew
  <2>2. p \in Pid /\ ProcOK'
    BY <1>0, <2>1, SpawnBorn DEF Handlers
  <2> QED
    BY <1>0, <1>4, <2>2 DEF OpenplotNew, Typed, SigOK, DataOK
<1>5. CASE OpenplotAssign
  <2>1. Running.p \in Pid
    BY <1>0, StackFacts DEF Frame
  <2>2. plot' = [plot EXCEPT !.obj = Running.p, !.ok = TRUE, !.was = @ \cup {Running.p}]
    BY <1>5 DEF OpenplotAssign
  <2>3. plot' \in [obj : Pid, ok : BOOLEAN, pid : Pid, was : SUBSET Pid]
    BY <1>0, <2>1, <2>2 DEF DataOK
  <2> QED
    BY <1>0, <1>5, <2>3 DEF OpenplotAssign, Typed, SigOK, ProcOK, DataOK
<1>6. CASE \/ SendBegin \/ SendOpened \/ SendUse \/ CloseplotBegin \/ CloseplotRemoved
           \/ PlotdeathBegin \/ PlotdeathWarn
  BY <1>0, <1>6
  DEF SendBegin, SendOpened, SendUse, CloseplotBegin, CloseplotRemoved, PlotdeathBegin,
      PlotdeathWarn, Quiet, Typed, SigOK, ProcOK, DataOK
<1>7. CASE CloseplotSent
  <2>1. /\ <<Running.k, Running.pc, "deleted">> \in Goings
        /\ CallSite(Running.k, "deleted", "wait") /\ Delete(plot.obj, TRUE, "deleted")
    BY <1>7 DEF CloseplotSent, At, Goings, CallSite, CallSites
  <2>2. SigOK' /\ ProcOK'
    BY <1>0, <2>1, DeleteStacked DEF DataOK, Pcs
  <2> QED
    BY <1>0, <1>7, <2>2 DEF CloseplotSent, Typed, DataOK
<1> QED
  BY <1>1, <1>2, <1>3, <1>4, <1>5, <1>6, <1>7 DEF Plotter

LEMMA SystemsTyped ==
  ASSUME Ready, Systems
  PROVE  Typed
<1>0. StackOK /\ SigOK /\ ProcOK /\ DataOK /\ FrameOK(Running)
  BY TypeParts DEF Ready
<1>1. CASE SystemBegin
  <2>1. PICK p \in 1 .. MaxPid \cup {Failed} :
          /\ Spawn("cmd", p)
          /\ cmd' = [obj |-> p, open |-> p > 0, pid |-> p, status |-> "-1",
                     result |-> "-1"]
    BY <1>1 DEF SystemBegin
  <2>2. p \in Pid /\ ProcOK'
    BY <1>0, <2>1, SpawnBorn DEF Handlers
  <2>3. cmd' \in [obj : Pid, open : BOOLEAN, pid : Pid, status : Status, result : Status]
    BY <2>1, <2>2 DEF Status
  <2> QED
    BY <1>0, <1>1, <2>2, <2>3 DEF SystemBegin, Typed, SigOK, DataOK
<1>2. CASE SystemAdd
  <2>1. [e |-> "cmd", flushing |-> FALSE, really |-> FALSE] \in Saved
    BY DEF Saved
  <2>2. ul' \in Seq(Saved)
    BY <1>0, <1>2, <2>1, AppendProperties DEF SystemAdd, DataOK
  <2> QED
    BY <1>0, <1>2, <2>2 DEF SystemAdd, Quiet, Typed, SigOK, ProcOK, DataOK
<1>3. CASE SystemRead
  <2>1. /\ <<Running.k, Running.pc, "status">> \in Goings
        /\ CallSite(Running.k, "status", "wait") /\ WaitFor(cmd.obj, TRUE, "status")
        /\ Running.k = "system" /\ Running.pc = "read"
    BY <1>3 DEF SystemRead, At, Goings, CallSite, CallSites
  <2>2. cmd.obj \in Pid /\ cmd.obj > 0
    BY <1>0, <2>1 DEF FrameOK, DataOK
  <2>3. SigOK' /\ ProcOK'
    BY <1>0, <2>1, <2>2, WaitStacked DEF Pcs
  <2> QED
    BY <1>0, <1>3, <2>3 DEF SystemRead, Typed, DataOK
<1>4. CASE SystemStatus
  <2>1. PICK s \in Status : cmd' = [cmd EXCEPT !.status = s, !.result = s]
    BY <1>4 DEF SystemStatus, Status
  <2>2. cmd' \in [obj : Pid, open : BOOLEAN, pid : Pid, status : Status, result : Status]
    BY <1>0, <2>1 DEF DataOK
  <2> QED
    BY <1>0, <1>4, <2>2 DEF SystemStatus, Typed, SigOK, ProcOK, DataOK
<1>8. CASE CleancmdDeleted
  <2>1. cmd' = [cmd EXCEPT !.obj = None] /\ UNCHANGED <<ul, proc, list, sig, pager, plot, err, intr>>
    BY <1>8 DEF CleancmdDeleted
  <2>2. cmd' \in [obj : Pid, open : BOOLEAN, pid : Pid, status : Status, result : Status]
    BY <1>0, <2>1 DEF DataOK, Pid, None
  <2>3. SigOK' /\ ProcOK'
    BY <1>0, <2>1 DEF SigOK, ProcOK
  <2> QED
    BY <1>0, <2>1, <2>2, <2>3 DEF Typed, DataOK
<1>5. CASE SystemCleanup
  <2>1. ul' \in Seq(Saved)
    <3>1. Len(ul) - 1 \in Int /\ Len(ul) - 1 <= Len(ul)
      BY <1>0, LenProperties DEF DataOK
    <3> QED
      BY <1>0, <1>5, <3>1 DEF SystemCleanup, Popped, DataOK
  <2> QED
    <3>1. UNCHANGED <<proc, list, sig, pager, plot, cmd, err, intr>>
      BY <1>5 DEF SystemCleanup, Quiet
    <3>2. SigOK' /\ ProcOK'
      BY <1>0, <3>1 DEF SigOK, ProcOK
    <3> QED
      BY <1>0, <2>1, <3>1, <3>2 DEF Typed, DataOK
<1>6. CASE CleancmdBegin
  <2>1. UNCHANGED <<ul, proc, list, sig, pager, plot, cmd, err, intr>>
    BY <1>6 DEF CleancmdBegin, Quiet
  <2>2. SigOK' /\ ProcOK'
    BY <1>0, <2>1 DEF SigOK, ProcOK
  <2> QED
    BY <1>0, <2>1, <2>2 DEF Typed, DataOK
<1>7. CASE CleancmdRemoved
  <2>1. /\ <<Running.k, Running.pc, "deleted">> \in Goings
        /\ CallSite(Running.k, "deleted", "wait") /\ Delete(cmd.obj, cmd.open, "deleted")
    BY <1>7 DEF CleancmdRemoved, At, Goings, CallSite, CallSites
  <2>3. cmd.obj \in Pid /\ cmd.open \in BOOLEAN
    BY <1>0 DEF DataOK
  <2>2. SigOK' /\ ProcOK'
    BY <1>0, <2>1, <2>3, DeleteStacked DEF Pcs
  <2> QED
    BY <1>0, <1>7, <2>2 DEF CleancmdRemoved, Typed, DataOK
<1> QED
  BY <1>1, <1>2, <1>3, <1>4, <1>5, <1>6, <1>7, <1>8 DEF Systems

\* What the handlers of children do to the processes and to the command.
LEMMA HandlerTyped ==
  ASSUME ProcOK, DataOK, NEW q \in Seq(Process), Older(q), NEW h, NEW p, NEW f,
         NEW st \in Status, NEW stack, RunHandler(h, p, f, st, q, stack)
  PROVE  /\ ProcOK' /\ Older(proc')
         /\ cmd' \in [obj : Pid, open : BOOLEAN, pid : Pid, status : Status, result : Status]
         /\ cmd'.obj = cmd.obj /\ cmd'.pid = cmd.pid
<1>1. proc' = q \/ proc' = Unlinked(q, f)
  BY DEF RunHandler
<1>2. ProcOK' /\ Older(proc')
  BY <1>1, HandledOlder DEF ProcOK
<1>3. cmd' = cmd \/ cmd' = [cmd EXCEPT !.status = st]
  BY DEF RunHandler
<1> QED
  BY <1>2, <1>3 DEF DataOK

\* Assigning an element of the list.
LEMMA SlotFacts ==
  ASSUME DataOK, NEW i \in 1 .. Len(list)
  PROVE  /\ list[i] \in Slot
         /\ \A p \in Pid : [list EXCEPT ![i].pid = p] \in Seq(Slot)
         /\ \A h \in Handlers : [list EXCEPT ![i].h = h] \in Seq(Slot)
         /\ \A f \in Nat : [list EXCEPT ![i].file = f] \in Seq(Slot)
<1>1. list \in Seq(Slot) /\ list[i] \in Slot
  BY ElementOfSeq DEF DataOK
<1>2. \A x \in Slot : [list EXCEPT ![i] = x] \in Seq(Slot)
  BY <1>1, ExceptSeq
<1>3. ASSUME NEW p \in Pid PROVE [list EXCEPT ![i].pid = p] \in Seq(Slot)
  <2>1. [list[i] EXCEPT !.pid = p] \in Slot
    BY <1>1 DEF Slot
  <2> QED
    BY <1>2, <2>1
<1>4. ASSUME NEW h \in Handlers PROVE [list EXCEPT ![i].h = h] \in Seq(Slot)
  <2>1. [list[i] EXCEPT !.h = h] \in Slot
    BY <1>1 DEF Slot
  <2> QED
    BY <1>2, <2>1
<1>5. ASSUME NEW f \in Nat PROVE [list EXCEPT ![i].file = f] \in Seq(Slot)
  <2>1. [list[i] EXCEPT !.file = f] \in Slot
    BY <1>1 DEF Slot
  <2> QED
    BY <1>2, <2>1
<1> QED
  BY <1>1, <1>3, <1>4, <1>5

LEMMA ChildListTyped ==
  ASSUME Ready, ChildList
  PROVE  /\ Typed /\ Older(proc')
         /\ cmd'.obj = cmd.obj /\ cmd'.pid = cmd.pid
<1>0. StackOK /\ SigOK /\ ProcOK /\ DataOK /\ FrameOK(Running)
  BY TypeParts DEF Ready
<1>1. /\ Running \in Frame /\ list \in Seq(Slot) /\ Len(list) \in Nat
      /\ Running.p \in Pid /\ Running.h \in Handlers
  BY <1>0, StackFacts, LenProperties DEF DataOK, Frame
<1>2. /\ Failed \in Pid /\ Older(proc) /\ None \in Nat
  BY <1>0, ProcFacts DEF Pid, Failed, None
<1>3. SigOK' /\ ul' = ul /\ pager' = pager /\ plot' = plot /\ err' = err /\ intr' = intr
  BY <1>0 DEF ChildList, InsertFind, InsertPid, InsertHandler, InsertFile, RemoveFind,
              RemoveCall, SigOK
<1>4. ASSUME InsertFind \/ InsertFile
      PROVE  (IF Running.h = "file" THEN Running.p ELSE None) \in Nat
  BY <1>0, <1>1, <1>2, <1>4 DEF FrameOK, InsertFind, InsertFile, At, Pid, Failed
<1>5. CASE InsertFind
  <2>1. PICK x : x = [pid |-> Running.p, h |-> Running.h,
                      file |-> IF Running.h = "file" THEN Running.p ELSE None]
    OBVIOUS
  <2>2. x \in Slot
    BY <1>1, <1>4, <1>5, <2>1 DEF Slot
  <2>3. list' = list \/ list' = Append(list, x)
    BY <1>5, <2>1 DEF InsertFind
  <2>4. list' \in Seq(Slot)
    BY <1>1, <2>2, <2>3
  <2> QED
    BY <1>0, <1>2, <1>3, <1>5, <2>4 DEF InsertFind, Typed, ProcOK, DataOK
<1>6. CASE InsertPid \/ InsertHandler \/ InsertFile
  <2>1. Running.i \in 1 .. Len(list)
    BY <1>0, <1>6 DEF FrameOK, InsertPid, InsertHandler, InsertFile, At
  <2>2. list' \in Seq(Slot)
    <3>1. CASE InsertPid
      BY <1>0, <1>1, <2>1, <3>1, SlotFacts DEF InsertPid
    <3>2. CASE InsertHandler
      BY <1>0, <1>1, <2>1, <3>2, SlotFacts DEF InsertHandler
    <3>3. CASE InsertFile
      BY <1>0, <1>1, <1>4, <2>1, <3>3, SlotFacts DEF InsertFile
    <3> QED
      BY <1>6, <3>1, <3>2, <3>3
  <2>3. proc' = proc /\ cmd' = cmd
    BY <1>6 DEF InsertPid, InsertHandler, InsertFile
  <2> QED
    BY <1>0, <1>2, <1>3, <2>2, <2>3 DEF Typed, ProcOK, DataOK
<1>7. CASE RemoveFind
  <2>1. list' \in Seq(Slot)
    <3>1. CASE SlotsOf(Running.p) = {}
      BY <1>1, <1>7, <3>1 DEF RemoveFind
    <3>2. CASE SlotsOf(Running.p) # {}
      <4>1. SlotsOf(Running.p) \subseteq 1 .. Len(list)
        BY DEF SlotsOf
      <4>2. First(SlotsOf(Running.p)) \in 1 .. Len(list)
        BY <1>1, <3>2, <4>1, FirstIn
      <4>3. list' = [list EXCEPT ![First(SlotsOf(Running.p))].pid = Failed]
        BY <1>7, <3>2 DEF RemoveFind
      <4> QED
        BY <1>0, <1>2, <4>2, <4>3, SlotFacts
    <3> QED
      BY <3>1, <3>2
  <2>2. proc' = proc /\ cmd' = cmd
    BY <1>7 DEF RemoveFind
  <2> QED
    BY <1>0, <1>2, <1>3, <2>1, <2>2 DEF Typed, ProcOK, DataOK
<1>8. CASE RemoveCall
  <2> DEFINE Handled(q, st) ==
        RunHandler(list[Running.i].h, Running.p, list[Running.i].file, st, q, Returned)
  <2>0. Handled(proc, "127") \/ \E p : Handled(Reaped(p), "exit")
    BY <1>8 DEF RemoveCall
  <2>3. /\ ProcOK' /\ Older(proc')
        /\ cmd' \in [obj : Pid, open : BOOLEAN, pid : Pid, status : Status, result : Status]
        /\ cmd'.obj = cmd.obj /\ cmd'.pid = cmd.pid
    <3>1. CASE Handled(proc, "127")
      BY <1>0, <1>2, <3>1, HandlerTyped DEF ProcOK, Status
    <3>2. CASE \E p : Handled(Reaped(p), "exit")
      <4>1. PICK p : Handled(Reaped(p), "exit")
        BY <3>2
      <4>2. Reaped(p) \in Seq(Process) /\ Older(Reaped(p))
        BY <1>0, ReapedOlder
      <4> QED
        BY <1>0, <4>1, <4>2, HandlerTyped DEF Status
    <3> QED
      BY <2>0, <3>1, <3>2
  <2>4. list' = list
    BY <1>8 DEF RemoveCall
  <2> QED
    BY <1>0, <1>3, <2>3, <2>4 DEF Typed, DataOK
<1> QED
  BY <1>5, <1>6, <1>7, <1>8 DEF ChildList

LEMMA SigchldTyped ==
  ASSUME Ready, SigchldScan \/ SigchldOther
  PROVE  /\ Typed /\ Older(proc')
         /\ cmd'.obj = cmd.obj /\ cmd'.pid = cmd.pid
<1>0. StackOK /\ SigOK /\ ProcOK /\ DataOK /\ FrameOK(Running)
  BY TypeParts DEF Ready
<1>1. /\ Running \in Frame /\ list \in Seq(Slot) /\ Len(list) \in Nat /\ Running.i \in Nat
  BY <1>0, StackFacts, LenProperties DEF DataOK, Frame
<1>2. /\ Failed \in Pid /\ Older(proc) /\ proc \in Seq(Process)
  BY <1>0, ProcFacts DEF Pid, Failed, ProcOK
<1>3. SigOK' /\ ul' = ul /\ pager' = pager /\ plot' = plot /\ err' = err /\ intr' = intr
  BY <1>0 DEF SigchldScan, SigchldOther, SigOK, Quiet
<1>4. CASE SigchldScan
  <2>1. Running.i \in 1 .. Len(list)
    BY <1>0, <1>1, <1>4 DEF SigchldScan, At, FrameOK
  <2>2. \/ /\ list' = [list EXCEPT ![Running.i].pid = Failed]
           /\ RunHandler(list[Running.i].h, list[Running.i].pid, list[Running.i].file, "exit",
                         Reaped(list[Running.i].pid), Top([Running EXCEPT !.pc = "int"]))
        \/ list' = list /\ proc' = proc /\ cmd' = cmd
    BY <1>4 DEF SigchldScan
  <2>3. list' \in Seq(Slot)
    BY <1>0, <1>1, <1>2, <2>1, <2>2, SlotFacts
  <2>4. /\ ProcOK' /\ Older(proc')
        /\ cmd' \in [obj : Pid, open : BOOLEAN, pid : Pid, status : Status, result : Status]
        /\ cmd'.obj = cmd.obj /\ cmd'.pid = cmd.pid
    <3>1. CASE list' = list /\ proc' = proc /\ cmd' = cmd
      BY <1>0, <1>2, <3>1 DEF DataOK, ProcOK
    <3>2. CASE RunHandler(list[Running.i].h, list[Running.i].pid, list[Running.i].file, "exit",
                         Reaped(list[Running.i].pid), Top([Running EXCEPT !.pc = "int"]))
      BY <1>0, <3>2, ReapedOlder, HandlerTyped DEF Status
    <3> QED
      BY <2>2, <3>1, <3>2
  <2> QED
    BY <1>0, <1>3, <2>3, <2>4 DEF Typed, DataOK
<1>5. CASE SigchldOther
  <2>1. list' = list /\ cmd' = cmd
    BY <1>5 DEF SigchldOther, Quiet
  <2>2. ProcOK' /\ Older(proc')
    BY <1>0, <1>2, <1>5, ReapedOlder DEF SigchldOther, ProcOK
  <2> QED
    BY <1>0, <1>3, <2>1, <2>2 DEF Typed, DataOK
<1> QED
  BY <1>4, <1>5

LEMMA OthersTyped ==
  ASSUME Ready, MainTop \/ Wait \/ Leave \/ MainRead \/ MainDone
  PROVE  /\ Typed /\ Older(proc')
         /\ cmd'.obj = cmd.obj /\ cmd'.pid = cmd.pid
<1>0. StackOK /\ SigOK /\ ProcOK /\ DataOK
  BY TypeParts DEF Ready
<1>1. Running \in Frame /\ Older(proc) /\ Running.int \in IntDisp /\ Running.chld \in ChldDisp
  BY <1>0, StackFacts, ProcFacts DEF Frame
<1>2. CASE MainTop \/ RestoreInt \/ RestoreChld
  <2>1. /\ UNCHANGED <<ul, proc, list, pager, plot, cmd, intr>>
        /\ err' = FALSE \/ err' = err
        /\ \/ sig' = [sig EXCEPT !.int = "catch"]
           \/ sig' = [sig EXCEPT !.int = Running.int]
           \/ sig' = [sig EXCEPT !.chld = Running.chld]
    BY <1>2 DEF MainTop, RestoreInt, RestoreChld
  <2>2. SigOK' /\ ProcOK'
    BY <1>0, <1>1, <2>1 DEF SigOK, ProcOK, IntDisp
  <2>3. DataOK'
    BY <1>0, <2>1 DEF DataOK
  <2> QED
    BY <1>1, <2>1, <2>2, <2>3 DEF Typed
<1>3. CASE Leave \/ MainRead \/ MainDone
  BY <1>0, <1>1, <1>3 DEF Leave, MainRead, MainDone, Quiet, Typed, SigOK, ProcOK, DataOK
<1>4. CASE WaitReturns
  <2>1. ProcOK' /\ Older(proc')
    BY <1>0, <1>4, ReapedOlder DEF WaitReturns, ProcOK
  <2>2. PICK st \in Status : cmd' = Closed(st) \/ cmd' = cmd
    BY <1>4 DEF WaitReturns, Status
  <2>3. PICK s \in Status : \/ cmd' = cmd
                            \/ cmd' = [cmd EXCEPT !.open = FALSE, !.status = s]
    BY <1>0, <2>2 DEF Closed, DataOK
  <2>4. /\ cmd' \in [obj : Pid, open : BOOLEAN, pid : Pid, status : Status, result : Status]
        /\ cmd'.obj = cmd.obj /\ cmd'.pid = cmd.pid
    BY <1>0, <2>3 DEF DataOK
  <2> QED
    BY <1>0, <1>4, <2>1, <2>4 DEF WaitReturns, Typed, SigOK, DataOK
<1> QED
  BY <1>2, <1>3, <1>4 DEF Wait

LEMMA CommandTyped ==
  ASSUME Ready, Command
  PROVE  Typed /\ (Older(proc') \/ Born("file")) /\ cmd' = cmd /\ plot' = plot
<1>0. StackOK /\ SigOK /\ ProcOK /\ DataOK /\ Older(proc)
  BY TypeParts, ProcFacts DEF Ready
<1>1. CASE Output \/ Error \/ Plot \/ Closeplot \/ System
  BY <1>0, <1>1
  DEF Output, Error, Plot, Closeplot, System, Quiet, Typed, SigOK, ProcOK, DataOK
<1>2. CASE Async
  <2>1. PICK p \in 1 .. MaxPid \cup {Failed} : Spawn("file", p)
    BY <1>2 DEF Async
  <2>2. ProcOK' /\ (Born("file") \/ proc' = proc)
    BY <1>0, <2>1, SpawnBorn DEF Handlers
  <2> QED
    BY <1>0, <1>2, <2>2 DEF Async, Quiet, Typed, SigOK, DataOK
<1>3. CASE Purge
  <2>1. PICK p \in 1 .. Len(proc) : proc' = [proc EXCEPT ![p].file = "asked"]
    BY <1>3 DEF Purge
  <2>2. ProcOK' /\ Older(proc')
    BY <1>0, <2>1, StateOlder DEF ProcOK
  <2> QED
    BY <1>0, <1>3, <2>2 DEF Purge, Quiet, Typed, SigOK, DataOK
<1>4. CASE Waitpid
  <2>1. PICK p \in 1 .. Len(proc) : WaitFor(p, FALSE, "run")
    BY <1>4 DEF Waitpid
  <2>2. SigOK' /\ proc' = proc
    BY <2>1 DEF WaitFor, SigOK, IntDisp, ChldDisp
  <2> QED
    BY <1>0, <1>4, <2>2 DEF Waitpid, Typed, ProcOK, DataOK
<1> QED
  BY <1>1, <1>2, <1>3, <1>4 DEF Command

-----------------------------------------------------------------------------
(***************************************************************************)
(* Which action has changed what                                           *)
(***************************************************************************)

LEMMA PagerEffects ==
  ASSUME Ready, Pager
  PROVE  Effects
<1>0. StackOK /\ SigOK /\ ProcOK /\ DataOK /\ Older(proc)
  BY TypeParts, ProcFacts DEF Ready
<1>1. CASE FlushBegin \/ FlushEnd
  <2>1. /\ pager'.obj = pager.obj /\ pager'.isSaved = pager.isSaved
        /\ pager'.saved = pager.saved /\ pager'.pid = pager.pid
    BY <1>0, <1>1 DEF FlushBegin, Flush, FlushEnd, Restored, DataOK
  <2> QED
    BY <1>0, <1>1, <2>1 DEF FlushBegin, Flush, FlushEnd, Effects, PagerKept
<1>2. CASE FlushClear \/ ErrorBegin \/ ErrorEnd
  BY <1>0, <1>2 DEF FlushClear, ErrorBegin, ErrorEnd, Quiet, Effects, UlKept, PagerKept
<1>3. CASE SyncBegin \/ SyncRecheck \/ ClearBegin
  BY <1>0, <1>3 DEF SyncBegin, SyncRecheck, ClearBegin, Quiet, Effects, UlKept, PagerKept
<1>4. CASE SyncOpen \/ SyncCheck \/ ClearDeleted
  <2>1. pager'.flushing = pager.flushing /\ pager'.pid = pager.pid
    BY <1>0, <1>4 DEF SyncOpen, SyncCheck, PagerLost, ClearDeleted, DataOK
  <2> QED
    BY <1>0, <1>4, <2>1 DEF SyncOpen, SyncCheck, PagerLost, ClearDeleted, Effects, UlKept
<1>5. CASE SyncNew
  <2>1. PICK p \in 1 .. MaxPid \cup {Failed} :
          Spawn("pager", p) /\ pager' = [pager EXCEPT !.obj = p, !.ok = (p > 0)]
    BY <1>5 DEF SyncNew
  <2>2. Older(proc') \/ Born("pager")
    BY <1>0, <2>1, SpawnBorn DEF Handlers
  <2>3. pager'.flushing = pager.flushing /\ pager'.pid = pager.pid
    BY <1>0, <2>1 DEF DataOK
  <2>4. intr' = intr /\ ul' = ul /\ list' = list /\ sig' = sig /\ plot' = plot /\ cmd' = cmd
    BY <1>5 DEF SyncNew
  <2> QED
    BY <1>5, <2>2, <2>3, <2>4 DEF Effects, UlKept
<1>6. CASE SyncInsert \/ SyncWrite \/ SyncFlush \/ SyncDone
  <2>1. /\ pager'.flushing = pager.flushing /\ PagerKept
        /\ pager'.pid = pager.pid \/ SyncInsert
    BY <1>0, <1>6 DEF SyncInsert, SyncWrite, SyncFlush, SyncDone, Written, DataOK, PagerKept
  <2> QED
    BY <1>0, <1>6, <2>1 DEF SyncInsert, SyncWrite, SyncFlush, SyncDone, Effects, UlKept
<1>7. CASE ClearRemoved
  <2>1. /\ <<Running.k, Running.pc, "deleted">> \in Goings
        /\ CallSite(Running.k, "deleted", "wait") /\ Delete(pager.obj, TRUE, "deleted")
    BY <1>7 DEF ClearRemoved, At, Goings, CallSite, CallSites
  <2>2. Older(proc') /\ (sig' = sig \/ NewOf("wait"))
    BY <1>0, <2>1, DeleteStacked DEF DataOK, Pcs
  <2>3. pager'.flushing = pager.flushing /\ PagerKept
    BY <1>0, <1>7 DEF ClearRemoved, DataOK, PagerKept
  <2> QED
    BY <1>7, <2>2, <2>3 DEF ClearRemoved, Effects, UlKept
<1> QED
  BY <1>1, <1>2, <1>3, <1>4, <1>5, <1>6, <1>7 DEF Pager

LEMMA PlotterEffects ==
  ASSUME Ready, Plotter
  PROVE  Effects
<1>0. StackOK /\ SigOK /\ ProcOK /\ DataOK /\ Older(proc)
  BY TypeParts, ProcFacts DEF Ready
<1>1. CASE OpenplotBegin \/ CloseplotSent
  <2>1. CASE Delete(plot.obj, TRUE, "deleted")
    <3>1. /\ <<Running.k, Running.pc, "deleted">> \in Goings
          /\ CallSite(Running.k, "deleted", "wait")
      BY <1>1 DEF OpenplotBegin, CloseplotSent, At, Goings, CallSite, CallSites
    <3>2. Older(proc') /\ (sig' = sig \/ NewOf("wait"))
      BY <1>0, <2>1, <3>1, DeleteStacked DEF DataOK, Pcs
    <3> QED
      BY <1>1, <3>2 DEF OpenplotBegin, CloseplotSent, Effects, UlKept, PagerKept
  <2>2. CASE OpenplotBegin /\ UNCHANGED <<sig, proc>>
    BY <1>0, <2>2 DEF OpenplotBegin, Effects, UlKept, PagerKept
  <2> QED
    BY <1>1, <2>1, <2>2 DEF OpenplotBegin, CloseplotSent
<1>2. CASE OpenplotDeleted \/ CloseplotDeleted
  <2>1. plot' = [plot EXCEPT !.obj = None]
    BY <1>2 DEF OpenplotDeleted, CloseplotDeleted
  <2>2. plot'.was = plot.was
    BY <1>0, <2>1 DEF DataOK
  <2> QED
    BY <1>0, <1>2, <2>2 DEF OpenplotDeleted, CloseplotDeleted, Effects, UlKept, PagerKept
<1>3. CASE OpenplotNew
  <2>1. PICK p \in 1 .. MaxPid \cup {Failed} : Spawn("plot", p)
    BY <1>3 DEF OpenplotNew
  <2>2. Older(proc') \/ Born("plot")
    BY <1>0, <2>1, SpawnBorn DEF Handlers
  <2> QED
    BY <1>3, <2>2 DEF OpenplotNew, Effects, UlKept, PagerKept
<1>4. CASE OpenplotInsert \/ SendUsing
  <2>1. plot'.obj = plot.obj /\ plot'.was = plot.was
    BY <1>0, <1>4 DEF OpenplotInsert, SendUsing, DataOK
  <2> QED
    BY <1>0, <1>4, <2>1 DEF OpenplotInsert, SendUsing, Effects, UlKept, PagerKept
<1>7. CASE OpenplotAssign
  BY <1>0, <1>7 DEF OpenplotAssign, Effects, UlKept, PagerKept
<1>5. CASE SendBegin \/ SendOpened \/ SendUse
  BY <1>0, <1>5 DEF SendBegin, SendOpened, SendUse, Quiet, Effects, UlKept, PagerKept
<1>6. CASE CloseplotBegin \/ CloseplotRemoved \/ PlotdeathBegin \/ PlotdeathWarn
  BY <1>0, <1>6
  DEF CloseplotBegin, CloseplotRemoved, PlotdeathBegin, PlotdeathWarn, Quiet, Effects,
      UlKept, PagerKept
<1> QED
  BY <1>1, <1>2, <1>3, <1>4, <1>5, <1>6, <1>7 DEF Plotter

LEMMA SystemsEffects ==
  ASSUME Ready, Systems
  PROVE  Effects
<1>0. StackOK /\ SigOK /\ ProcOK /\ DataOK /\ FrameOK(Running) /\ Older(proc)
  BY TypeParts, ProcFacts DEF Ready
<1>1. CASE SystemBegin
  <2>1. PICK p \in 1 .. MaxPid \cup {Failed} : Spawn("cmd", p)
    BY <1>1 DEF SystemBegin
  <2>2. Older(proc') \/ Born("cmd")
    BY <1>0, <2>1, SpawnBorn DEF Handlers
  <2>3. /\ intr' = intr /\ ul' = ul /\ list' = list /\ sig' = sig
        /\ pager' = pager /\ plot' = plot
    BY <1>1 DEF SystemBegin
  <2> QED
    BY <1>1, <2>2, <2>3 DEF Effects, UlKept, PagerKept
<1>2. CASE SystemAdd \/ SystemCleanup \/ CleancmdBegin
  BY <1>0, <1>2
  DEF SystemAdd, SystemCleanup, CleancmdBegin, Quiet, Effects, UlKept, PagerKept
<1>3. CASE SystemRead
  <2>1. /\ <<Running.k, Running.pc, "status">> \in Goings
        /\ CallSite(Running.k, "status", "wait") /\ WaitFor(cmd.obj, TRUE, "status")
        /\ Running.k = "system" /\ Running.pc = "read"
    BY <1>3 DEF SystemRead, At, Goings, CallSite, CallSites
  <2>2. cmd.obj \in Pid /\ cmd.obj > 0
    BY <1>0, <2>1 DEF FrameOK, DataOK
  <2>3. Older(proc') /\ NewOf("wait")
    BY <1>0, <2>1, <2>2, WaitStacked DEF Pcs
  <2> QED
    BY <1>3, <2>3 DEF SystemRead, Effects, UlKept, PagerKept
<1>4. CASE SystemStatus
  <2>1. PICK s \in Status : cmd' = [cmd EXCEPT !.status = s, !.result = s]
    BY <1>4 DEF SystemStatus, Status
  <2>2. cmd'.obj = cmd.obj /\ cmd'.pid = cmd.pid
    BY <1>0, <2>1 DEF DataOK
  <2> QED
    <3>1. UNCHANGED <<ul, proc, list, sig, pager, plot, err, intr>>
      BY <1>4 DEF SystemStatus
    <3>2. Older(proc')
      BY <1>0, <3>1, ProcFacts
    <3> QED
      BY <2>2, <3>1, <3>2 DEF Effects, UlKept, PagerKept
<1>5. CASE CleancmdRemoved
  <2>1. /\ <<Running.k, Running.pc, "deleted">> \in Goings
        /\ CallSite(Running.k, "deleted", "wait") /\ Delete(cmd.obj, cmd.open, "deleted")
    BY <1>5 DEF CleancmdRemoved, At, Goings, CallSite, CallSites
  <2>3. cmd.obj \in Pid /\ cmd.open \in BOOLEAN
    BY <1>0 DEF DataOK
  <2>2. Older(proc') /\ (sig' = sig \/ NewOf("wait"))
    BY <1>0, <2>1, <2>3, DeleteStacked DEF Pcs
  <2> QED
    BY <1>5, <2>2 DEF CleancmdRemoved, Effects, UlKept, PagerKept
<1>6. CASE CleancmdDeleted
  BY <1>0, <1>6 DEF CleancmdDeleted, Effects, UlKept, PagerKept
<1> QED
  BY <1>1, <1>2, <1>3, <1>4, <1>5, <1>6 DEF Systems

LEMMA ChildListEffects ==
  ASSUME Ready, ChildList
  PROVE  Effects
<1>1. Older(proc') /\ cmd'.obj = cmd.obj /\ cmd'.pid = cmd.pid
  BY ChildListTyped
<1>2. /\ intr' = intr /\ ul' = ul /\ sig' = sig /\ pager' = pager /\ plot' = plot
      /\ list' = list \/ InsertFind \/ InsertPid \/ InsertHandler \/ InsertFile \/ RemoveFind
  BY DEF ChildList, InsertFind, InsertPid, InsertHandler, InsertFile, RemoveFind, RemoveCall
<1> QED
  BY <1>1, <1>2 DEF Effects, UlKept, PagerKept

LEMMA SigchldEffects ==
  ASSUME Ready, SigchldScan \/ SigchldOther
  PROVE  Effects
<1>1. Older(proc') /\ cmd'.obj = cmd.obj /\ cmd'.pid = cmd.pid
  BY SigchldTyped
<1>2. /\ intr' = intr /\ ul' = ul /\ sig' = sig /\ pager' = pager /\ plot' = plot
      /\ list' = list \/ SigchldScan
  BY DEF SigchldScan, SigchldOther, Quiet
<1> QED
  BY <1>1, <1>2 DEF Effects, UlKept, PagerKept

LEMMA OthersEffects ==
  ASSUME Ready, MainTop \/ Wait \/ Leave \/ MainRead \/ MainDone
  PROVE  Effects
<1>1. Older(proc') /\ cmd'.obj = cmd.obj /\ cmd'.pid = cmd.pid
  BY OthersTyped
<1>2. /\ intr' = intr /\ ul' = ul /\ list' = list /\ pager' = pager /\ plot' = plot
      /\ sig' = sig \/ MainTop \/ RestoreInt \/ RestoreChld
  BY DEF MainTop, Wait, WaitReturns, RestoreInt, RestoreChld, Leave, MainRead, MainDone, Quiet
<1> QED
  BY <1>1, <1>2 DEF Effects, UlKept, PagerKept

LEMMA CommandEffects ==
  ASSUME Ready, Command
  PROVE  Effects
<1>0. StackOK /\ SigOK /\ ProcOK /\ DataOK
  BY TypeParts DEF Ready
<1>1. (Older(proc') \/ Born("file")) /\ cmd' = cmd /\ plot' = plot
  BY CommandTyped
<1>2. sig' = sig \/ NewOf("wait")
  <2>1. CASE Waitpid
    <3>1. PICK p \in 1 .. Len(proc) : WaitFor(p, FALSE, "run")
      BY <2>1 DEF Waitpid
    <3>2. p \in Pid /\ p > 0
      BY <1>0, ProcFacts DEF Pid
    <3>3. <<Running.k, Running.pc, "run">> \in Goings /\ CallSite(Running.k, "run", "wait")
      BY DEF Command, At, Goings, CallSite, CallSites
    <3> QED
      BY <1>0, <3>1, <3>2, <3>3, WaitStacked DEF Pcs
  <2> QED
    BY <2>1 DEF Command, Output, Error, Plot, Closeplot, System, Async, Purge, Quiet
<1>3. PagerKept /\ pager'.flushing = pager.flushing /\ pager'.pid = pager.pid
  BY <1>0
  DEF Command, Output, Error, Plot, Closeplot, System, Async, Purge, Waitpid, Quiet, DataOK,
      PagerKept
<1>4. intr' = intr /\ ul' = ul /\ list' = list
  BY DEF Command, Output, Error, Plot, Closeplot, System, Async, Purge, Waitpid, Quiet
<1> QED
  BY <1>1, <1>2, <1>3, <1>4 DEF Effects, UlKept

\* The actions are told apart by the frame that runs.
LEMMA PagerNamed ==
  ASSUME Pager
  PROVE  Named
BY DEF Pager, Named, At, FlushBegin, Flush, FlushClear, FlushEnd, ErrorBegin, ErrorEnd,
       SyncBegin, SyncOpen, SyncNew, SyncInsert, SyncCheck, SyncWrite, SyncRecheck,
       SyncFlush, SyncDone, ClearBegin, ClearRemoved, ClearDeleted

LEMMA PlotterNamed ==
  ASSUME Plotter
  PROVE  Named
BY DEF Plotter, Named, At, OpenplotBegin, OpenplotDeleted, OpenplotNew, OpenplotAssign,
      OpenplotInsert,
       SendBegin, SendOpened, SendUse, SendUsing, CloseplotBegin, CloseplotRemoved,
       CloseplotSent, CloseplotDeleted, PlotdeathBegin, PlotdeathWarn

LEMMA SystemsNamed ==
  ASSUME Systems
  PROVE  Named
BY DEF Systems, Named, At, SystemBegin, SystemAdd, SystemRead, SystemStatus, SystemCleanup,
       CleancmdBegin, CleancmdRemoved, CleancmdDeleted

LEMMA OthersNamed ==
  ASSUME ChildList \/ SigchldScan \/ SigchldOther \/ Wait \/ Leave \/ MainTop \/ MainRead
         \/ MainDone \/ Command
  PROVE  Named
<1>1. CASE ChildList
  BY <1>1 DEF ChildList, Named, At, InsertFind, InsertPid, InsertHandler, InsertFile,
              RemoveFind, RemoveCall
<1>2. CASE SigchldScan \/ SigchldOther
  BY <1>2 DEF Named, At, SigchldScan, SigchldOther
<1>3. CASE Wait
  BY <1>3 DEF Named, At, Wait, WaitReturns, RestoreInt, RestoreChld
<1>4. CASE Leave \/ MainTop \/ MainRead \/ MainDone \/ Command
  BY <1>4 DEF Named, At, Leave, MainTop, MainRead, MainDone, Command
<1> QED
  BY <1>1, <1>2, <1>3, <1>4

\* Everything that happens in the program but a signal and what follows it.
Synchronous == \/ MainTop \/ ChildList \/ SigchldScan \/ SigchldOther \/ Wait \/ Pager
               \/ Plotter \/ Systems \/ Leave \/ MainRead \/ MainDone \/ Command

LEMMA SynchronousSteps ==
  ASSUME Ready, Synchronous
  PROVE  Summary
<1>0. StackOK /\ SigOK /\ ProcOK /\ DataOK /\ FrameOK(Running)
  BY TypeParts DEF Ready
<1>1. Named
  BY PagerNamed, PlotterNamed, SystemsNamed, OthersNamed DEF Synchronous
<1>2. Effects
  BY PagerEffects, PlotterEffects, SystemsEffects, ChildListEffects, SigchldEffects,
     OthersEffects, CommandEffects DEF Synchronous
<1>3. Typed
  BY PagerTyped, PlotterTyped, SystemsTyped, ChildListTyped, SigchldTyped,
     OthersTyped, CommandTyped DEF Synchronous
<1>4. StackOK' /\ Moves /\ Entered /\ Indexed
  <2>1. CASE Pager \/ Plotter \/ Systems \/ MainTop \/ Wait \/ Leave \/ MainRead \/ MainDone
             \/ Command
    BY <1>0, <2>1, PagerStacked, PlotterStacked, SystemsStacked, OthersStacked,
       CommandStacked DEF Stacked, Indexed
  <2>2. CASE ChildList
    BY <1>0, <2>2, ChildListStacked DEF Indexed
  <2>3. CASE SigchldScan \/ SigchldOther
    BY <1>0, <2>3, SigchldStacked DEF Indexed
  <2> QED
    BY <2>1, <2>2, <2>3 DEF Synchronous
<1>5. TypeOK'
  BY <1>3, <1>4, TypePartsNext DEF Typed
<1> QED
  BY <1>1, <1>2, <1>4, <1>5 DEF Summary

\* A child ends: nothing of the program changes.
LEMMA DieStep ==
  ASSUME TypeOK, NEW p, Die(p)
  PROVE  /\ TypeOK' /\ Older(proc') /\ cs' = cs /\ ul' = ul /\ list' = list
         /\ sig'.int = sig.int /\ sig'.chld = sig.chld
         /\ pager' = pager /\ plot' = plot /\ cmd' = cmd /\ err' = err /\ intr' = intr
<1>0. StackOK /\ SigOK /\ ProcOK /\ DataOK /\ p \in 1 .. Len(proc)
  BY TypeParts DEF Die, Alive, IsPid
<1>1. ProcOK' /\ Older(proc')
  BY <1>0, StateOlder DEF Die, ProcOK
<1>2. SigOK' /\ sig'.int = sig.int /\ sig'.chld = sig.chld
  BY <1>0 DEF Die, SigOK
<1>3. cs' = cs /\ ul' = ul /\ list' = list /\ pager' = pager /\ plot' = plot /\ cmd' = cmd
      /\ err' = err /\ intr' = intr
  BY DEF Die
<1>4. StackOK' /\ DataOK'
  BY <1>0, <1>3 DEF StackOK, DataOK
<1> QED
  BY <1>1, <1>2, <1>3, <1>4, TypePartsNext

\* The handler of SIGCHLD is one frame more.
LEMMA HandlerStep ==
  ASSUME TypeOK, SigchldBegin
  PROVE  /\ TypeOK' /\ Len(cs') = Depth + 1 /\ \A i \in 1 .. Depth : cs'[i] = cs[i]
         /\ cs'[Depth + 1].k = "chld" /\ cs'[Depth + 1].pc = "scan"
         /\ cs'[Depth + 1].p = Len(list) /\ cs'[Depth + 1].i = 1
         /\ cs'[Depth + 1].int = sig.int /\ cs'[Depth + 1].chld = "handler"
         /\ sig.chld = "handler" /\ sig'.int = "ignore" /\ sig'.chld = "ignore"
         /\ UNCHANGED <<ul, proc, list, pager, plot, cmd, err, intr>>
<1>0. StackOK /\ SigOK /\ ProcOK /\ DataOK
  BY TypeParts
<1>1. PICK new : new = [FrameOf("chld", Len(list)) EXCEPT !.pc = "scan", !.i = 1, !.int = sig.int]
  OBVIOUS
<1>2. Len(list) \in Nat
  BY <1>0, LenProperties DEF DataOK
<1>3. /\ new \in Frame /\ new.k = "chld" /\ new.pc = "scan" /\ new.p = Len(list) /\ new.i = 1
      /\ new.int = sig.int /\ new.chld = "handler"
  BY <1>0, <1>1, <1>2
  DEF FrameOf, Frame, FrameKinds, Pcs, Pid, Handlers, IntDisp, ChldDisp, SigOK
<1>4. cs' = Append(cs, new)
  BY <1>1 DEF SigchldBegin
<1>5. /\ cs' \in Seq(Frame) /\ Len(cs') = Depth + 1 /\ cs'[Depth + 1] = new
      /\ \A i \in 1 .. Depth : cs'[i] = cs[i]
  BY <1>0, <1>3, <1>4 DEF StackOK, Depth
<1>6. StackOK'
  <2>1. Depth \in Nat \ {0}
    BY <1>0, StackFacts
  <2> QED
    BY <1>0, <1>5, <2>1, EmptySeq DEF StackOK
<1>7. sig' = [int |-> "ignore", chld |-> "ignore", pend |-> FALSE] /\ sig.chld = "handler"
      /\ UNCHANGED <<ul, proc, list, pager, plot, cmd, err, intr>>
  BY DEF SigchldBegin
<1>8. SigOK' /\ ProcOK' /\ DataOK'
  BY <1>0, <1>7 DEF SigOK, IntDisp, ChldDisp, ProcOK, DataOK
<1> QED
  BY <1>3, <1>5, <1>6, <1>7, <1>8, TypePartsNext

\* SIGINT throws the frames away.
LEMMA InterruptStep ==
  ASSUME TypeOK, Interrupt
  PROVE  /\ TypeOK' /\ Len(cs') = 1 /\ cs'[1].k = "main" /\ cs'[1].pc = "jumped"
         /\ intr' > 0 /\ UNCHANGED <<ul, proc, list, sig, pager, plot, cmd, err>>
<1>0. StackOK /\ SigOK /\ ProcOK /\ DataOK
  BY TypeParts
<1>1. PICK new : new = [cs[1] EXCEPT !.pc = "jumped"]
  OBVIOUS
<1>2. cs[1] \in Frame
  BY <1>0, StackFacts
<1>3. new \in Frame /\ new.k = "main" /\ new.pc = "jumped"
  BY <1>0, <1>1, <1>2 DEF StackOK, Frame, Pcs
<1>4. cs' = <<new>>
  BY <1>1 DEF Interrupt
<1>5. cs' \in Seq(Frame) /\ Len(cs') = 1 /\ cs'[1] = new /\ cs' # <<>>
  BY <1>3, <1>4
<1>6. intr' \in 0 .. MaxIntr /\ intr' > 0
  BY <1>0, BoundAssumption DEF Interrupt, DataOK
<1>7. UNCHANGED <<ul, proc, list, sig, pager, plot, cmd, err>>
  BY DEF Interrupt, Quiet
<1>8. StackOK' /\ SigOK' /\ ProcOK' /\ DataOK'
  BY <1>0, <1>3, <1>5, <1>6, <1>7 DEF StackOK, SigOK, ProcOK, DataOK
<1> QED
  BY <1>3, <1>5, <1>6, <1>7, <1>8, TypePartsNext

\* What the main loop does after it.
LEMMA JumpedStep ==
  ASSUME TypeOK, MainJumped
  PROVE  /\ TypeOK' /\ At("main", "jumped")
         /\ UNCHANGED <<proc, list, sig, plot, cmd, err, intr>>
         /\ pager'.pid = pager.pid /\ PagerKept
         /\ Below
         /\ \/ /\ ul = <<>> /\ Len(cs') = Depth /\ cs'[Depth].k = "main"
               /\ cs'[Depth].pc = "top" /\ ul' = ul /\ pager' = pager
            \/ /\ ul # <<>> /\ ul' = Popped /\ ul[Len(ul)].e = "flush" /\ cs' = cs
               /\ pager'.flushing = ul[Len(ul)].flushing
            \/ /\ ul # <<>> /\ ul' = Popped /\ ul[Len(ul)].e = "cmd" /\ pager' = pager
               /\ Len(cs') = Depth + 1 /\ cs'[Depth].k = "main" /\ cs'[Depth].pc = "jumped"
               /\ cs'[Depth + 1] = FrameOf("cleancmd", None)
<1>0. StackOK /\ SigOK /\ ProcOK /\ DataOK
  BY TypeParts
<1>1. Running.k = "main" /\ Running.pc = "jumped" /\ Running \in Frame
      /\ UNCHANGED <<proc, list, sig, plot, cmd, err, intr>>
  BY <1>0, StackFacts DEF MainJumped, At
<1>2. SigOK' /\ ProcOK'
  BY <1>0, <1>1 DEF SigOK, ProcOK
<1>3. CASE ul = <<>>
  <2>1. cs' = Top([Running EXCEPT !.pc = "top"]) /\ ul' = ul /\ pager' = pager
    BY <1>3 DEF MainJumped, Goto
  <2>2. PICK fr : fr = [Running EXCEPT !.pc = "top"]
    OBVIOUS
  <2>3. fr \in Frame /\ fr.k = "main" /\ fr.pc = "top"
    BY <1>1, <2>2 DEF Frame, Pcs
  <2>4. StackOK' /\ Len(cs') = Depth /\ cs'[Depth] = fr /\ Below
    BY <1>0, <1>1, <2>1, <2>2, <2>3, TopFacts DEF StackOK, Below
  <2>5. DataOK'
    BY <1>0, <1>1, <2>1 DEF DataOK
  <2> QED
    BY <1>1, <1>2, <1>3, <2>1, <2>3, <2>4, <2>5, TypePartsNext DEF At, PagerKept
<1>4. CASE ul # <<>>
  <2>0. /\ Len(ul) \in Nat \ {0} /\ ul[Len(ul)] \in Saved
        /\ ul' = Popped /\ ul' \in Seq(Saved)
    <3>1. Len(ul) \in Nat \ {0}
      BY <1>0, <1>4, EmptySeq DEF DataOK
    <3>2. ul' = Popped
      BY <1>4 DEF MainJumped
    <3> QED
      BY <1>0, <3>1, <3>2 DEF DataOK, Popped
  <2>1. CASE ul[Len(ul)].e = "flush"
    <3>1. pager' = Restored(ul[Len(ul)]) /\ cs' = cs
      BY <1>4, <2>1 DEF MainJumped
    <3>2. /\ pager' \in [obj : Pid, ok : BOOLEAN, pid : Pid, saved : IntDisp,
                isSaved : BOOLEAN, flushing : BOOLEAN, really : BOOLEAN, buf : BOOLEAN]
          /\ pager'.pid = pager.pid /\ PagerKept /\ pager'.flushing = ul[Len(ul)].flushing
      BY <1>0, <2>0, <3>1 DEF Restored, DataOK, Saved, PagerKept
    <3>3. DataOK' /\ StackOK' /\ Below
      BY <1>0, <1>1, <2>0, <3>1, <3>2 DEF DataOK, StackOK, Below
    <3> QED
      BY <1>1, <1>2, <1>4, <2>0, <2>1, <3>1, <3>2, <3>3, TypePartsNext DEF At
  <2>2. CASE ul[Len(ul)].e # "flush"
    <3>1. /\ cs' = Append(Top([Running EXCEPT !.pc = "jumped"]), FrameOf("cleancmd", None))
          /\ pager' = pager
      BY <1>4, <2>2 DEF MainJumped, Call, Calling
    <3>2. PICK fr : fr = [Running EXCEPT !.pc = "jumped"]
      OBVIOUS
    <3>3. fr \in Frame /\ fr.k = "main" /\ fr.pc = "jumped"
      BY <1>1, <3>2 DEF Frame, Pcs
    <3>4. PICK new : new = FrameOf("cleancmd", None)
      OBVIOUS
    <3>5. new \in Frame
      BY <3>4, NewFrames DEF FrameKinds, Pid, None
    <3>6. PICK t : t = Top(fr)
      OBVIOUS
    <3>7. /\ t \in Seq(Frame) /\ Len(t) = Depth /\ t # <<>> /\ t[Depth] = fr
          /\ t[1].k = "main" /\ \A i \in 1 .. Depth - 1 : t[i] = cs[i]
      BY <1>0, <1>1, <3>3, <3>6, TopFacts
    <3>8. cs' = Append(t, new) /\ Depth \in Nat \ {0}
      BY <1>0, <3>1, <3>2, <3>4, <3>6, StackFacts
    <3>9. /\ cs' \in Seq(Frame) /\ Len(cs') = Depth + 1 /\ cs'[Depth + 1] = new
          /\ \A i \in 1 .. Depth : cs'[i] = t[i]
      BY <3>5, <3>7, <3>8
    <3>10. StackOK' /\ Below /\ cs'[Depth] = fr
      BY <3>7, <3>8, <3>9, EmptySeq DEF StackOK, Below
    <3>11. DataOK' /\ ul[Len(ul)].e = "cmd"
      BY <1>0, <1>1, <2>0, <2>2, <3>1 DEF DataOK, Saved
    <3> QED
      BY <1>1, <1>2, <1>4, <2>0, <3>1, <3>3, <3>4, <3>9, <3>10, <3>11, TypePartsNext
      DEF At, PagerKept
  <2> QED
    BY <2>1, <2>2
<1> QED
  BY <1>3, <1>4

\* Every step is one of these.
LEMMA Steps ==
  ASSUME Next
  PROVE  Synchronous \/ MainJumped \/ SigchldBegin \/ Interrupt \/ \E p : Die(p)
BY DEF Next, Work, Synchronous, Sigchld

-----------------------------------------------------------------------------
(***************************************************************************)
(* Who calls whom                                                          *)
(***************************************************************************)

LEMMA InvReady ==
  ASSUME TypeOK, FramesOK, Protected
  PROVE  Ready
<1>1. Depth \in Nat \ {0} /\ Running = cs[Depth]
  BY TypeParts, StackFacts
<1>2. FrameOK(Running)
  BY <1>1 DEF FramesOK
<1>3. ASSUME At("flush", "end") PROVE ul # <<>>
  <2>1. Depth \in Flushing
    BY <1>1, <1>3 DEF At, Flushing, Active
  <2> QED
    BY <2>1 DEF Protected, FlushPending
<1> QED
  BY <1>2, <1>3 DEF Ready

\* The callees of a call site, and who may call.
LEMMA Sites ==
  /\ \A k, pc, c : CallSite(k, pc, c) =>
       /\ c \notin {"main", "chld"} /\ k # "wait"
       /\ c = "system" => k = "main" /\ pc = "run"
       /\ c = "cleancmd" => \/ k = "main" /\ pc = "jumped"
                            \/ k = "system" /\ pc = "done"
       /\ c = "openplot" => k = "send" /\ pc = "opened"
       /\ c = "sync" => \/ k = "flush" /\ pc = "clear"
                        \/ k = "main" /\ pc = "run" /\ Immediate
       /\ c = "clear" => k = "flush" /\ pc = "end"
       /\ c = "send" => \/ k = "main" /\ pc = "run"
                        \/ k = "closeplot" /\ pc = "sent"
       /\ c = "closeplot" => \/ k = "main" /\ pc = "run"
                             \/ k = "plotdeath" /\ pc = "warn"
       /\ c = "insert" => \/ k = "main" /\ pc = "run"
                          \/ k = "sync" /\ pc = "check"
                          \/ k = "openplot" /\ pc = "done"
                          \/ k = "system" /\ pc = "add"
       /\ c = "remove" => k \in {"clear", "closeplot", "cleancmd"} /\ pc = "removed"
  /\ \A k, pc : CallSite(k, pc, "remove") => CallSite(k, pc, "plotdeath")
BY DEF CallSite, CallSites

LEMMA CalledTwo ==
  ASSUME TypeOK, WellCalled, NEW i \in 2 .. Depth
  PROVE  cs[i].k # "main" /\ (cs[i].k = "chld" \/ CallSite(cs[i - 1].k, cs[i - 1].pc, cs[i].k))
BY DEF WellCalled, Above

LEMMA MainAlone ==
  ASSUME TypeOK, WellCalled, Running.k = "main"
  PROVE  Depth = 1
BY TypeParts, StackFacts DEF WellCalled

LEMMA WellCalledMoves ==
  ASSUME TypeOK, WellCalled, TypeOK', Moves
  PROVE  WellCalled'
<1>1. Depth \in Nat \ {0} /\ Running = cs[Depth] /\ Depth = Len(cs)
  BY TypeParts, StackFacts
<1>2. Depth' = Len(cs')
  BY DEF Depth
<1>3. \A i \in 2 .. Depth - 1 : cs'[i].k # "main" /\ Above(cs'[i - 1], cs'[i])
  BY <1>1 DEF Moves, Below, WellCalled
<1>4. ASSUME Depth > 1 PROVE /\ cs'[Depth - 1] = cs[Depth - 1] /\ Running.k # "main"
                             /\ Above(cs[Depth - 1], Running)
  BY <1>1, <1>4 DEF Moves, Below, WellCalled
<1>5. ASSUME GoesOn(cs'[Depth]), Depth > 1
      PROVE  cs'[Depth].k # "main" /\ Above(cs'[Depth - 1], cs'[Depth])
  BY <1>4, <1>5 DEF GoesOn, Above
<1>6. CASE GoesStep
  <2>1. \A i \in 2 .. Len(cs') : i \in 2 .. Depth - 1 \/ (i = Depth /\ Depth > 1)
    BY <1>1, <1>6 DEF GoesStep
  <2>2. GoesOn(cs'[Depth])
    BY <1>6 DEF GoesStep
  <2>3. \A i \in 2 .. Len(cs') : cs'[i].k # "main" /\ Above(cs'[i - 1], cs'[i])
    BY <1>3, <1>5, <2>1, <2>2
  <2> QED
    BY <1>2, <2>3 DEF WellCalled, Above
<1>7. CASE CallStep
  <2>1. cs'[Depth + 1].k # "main" /\ Above(cs'[Depth], cs'[Depth + 1])
    BY <1>7, Sites DEF CallStep, Enters, GoesOn, Above
  <2> QED
    BY <1>1, <1>2, <1>3, <1>5, <1>7, <2>1 DEF CallStep, WellCalled
<1>8. CASE LeaveStep
  BY <1>1, <1>2, <1>3, <1>8 DEF LeaveStep, WellCalled
<1>9. CASE SwapStep
  <2>1. cs'[Depth].k = "plotdeath"
    BY <1>9 DEF SwapStep, FrameOf
  <2>2. Above(cs'[Depth - 1], cs'[Depth])
    BY <1>4, <1>9, <2>1, Sites DEF SwapStep, At, Above
  <2> QED
    BY <1>1, <1>2, <1>3, <1>9, <2>1, <2>2 DEF SwapStep, WellCalled
<1> QED
  BY <1>6, <1>7, <1>8, <1>9 DEF Moves

LEMMA WellCalledNext ==
  ASSUME TypeOK, WellCalled, Ready, Next
  PROVE  TypeOK' /\ WellCalled'
<1>0. Depth \in Nat \ {0} /\ Depth' = Len(cs') /\ Depth = Len(cs)
  BY TypeParts, StackFacts DEF Depth
<1>1. CASE Synchronous
  BY <1>1, SynchronousSteps, WellCalledMoves DEF Summary
<1>2. CASE MainJumped
  <2>1. Depth = 1
    BY <1>2, JumpedStep, MainAlone DEF At
  <2>2. \/ Len(cs') = 1
        \/ /\ Len(cs') = 2 /\ cs'[1].k = "main" /\ cs'[1].pc = "jumped"
           /\ cs'[2].k = "cleancmd"
    <3>1. FrameOf("cleancmd", None).k = "cleancmd"
      BY DEF FrameOf
    <3>2. \/ Len(cs') = Depth
          \/ cs' = cs
          \/ /\ Len(cs') = Depth + 1 /\ cs'[Depth].k = "main"
             /\ cs'[Depth].pc = "jumped" /\ cs'[Depth + 1] = FrameOf("cleancmd", None)
      BY <1>2, JumpedStep
    <3>3. Depth + 1 = 2 /\ Depth = 1 /\ Len(cs) = 1
      BY <1>0, <2>1
    <3>4. CASE cs' = cs
      BY <3>3, <3>4
    <3>5. CASE Len(cs') = Depth
      BY <3>3, <3>5
    <3>6. CASE /\ Len(cs') = Depth + 1 /\ cs'[Depth].k = "main"
               /\ cs'[Depth].pc = "jumped" /\ cs'[Depth + 1] = FrameOf("cleancmd", None)
      BY <3>1, <3>3, <3>6
    <3> QED
      BY <3>2, <3>4, <3>5, <3>6
  <2>3. CallSite("main", "jumped", "cleancmd")
    BY DEF CallSite, CallSites
  <2> QED
    BY <1>0, <1>2, <2>2, <2>3, JumpedStep DEF WellCalled, Above
<1>3. CASE SigchldBegin
  <2>1. \A i \in 2 .. Depth : cs'[i].k # "main" /\ Above(cs'[i - 1], cs'[i])
    BY <1>0, <1>3, HandlerStep DEF WellCalled
  <2>2. cs'[Depth + 1].k = "chld"
    BY <1>3, HandlerStep
  <2>3. cs'[Depth + 1].k # "main" /\ Above(cs'[Depth], cs'[Depth + 1])
    BY <2>2 DEF Above
  <2>4. Len(cs') = Depth + 1 /\ TypeOK'
    BY <1>3, HandlerStep
  <2>5. ASSUME NEW i \in 2 .. Depth + 1
        PROVE  cs'[i].k # "main" /\ Above(cs'[i - 1], cs'[i])
    <3>1. CASE i = Depth + 1
      <4>1. i - 1 = Depth
        BY <1>0, <3>1
      <4> QED
        BY <2>3, <3>1, <4>1
    <3>2. CASE i # Depth + 1
      <4>1. i \in 2 .. Depth
        BY <1>0, <3>2
      <4> QED
        BY <2>1, <4>1
    <3> QED
      BY <3>1, <3>2
  <2> QED
    BY <1>0, <2>4, <2>5 DEF WellCalled
<1>4. CASE Interrupt
  <2>1. TypeOK' /\ Depth' = 1
    BY <1>0, <1>4, InterruptStep
  <2> QED
    BY <2>1 DEF WellCalled
<1>5. CASE \E p : Die(p)
  BY <1>0, <1>5, DieStep DEF WellCalled
<1> QED
  BY <1>1, <1>2, <1>3, <1>4, <1>5, Steps

-----------------------------------------------------------------------------
(***************************************************************************)
(* What the frames work on                                                 *)
(***************************************************************************)

\* FrameOK for a list of length n and the stream o of the command.
Fits(fr, n, o) ==
  /\ fr.k = "insert" => /\ fr.pc \in {"begin", "pid", "handler", "file"}
                        /\ fr.h = "file" => fr.p > 0
                        /\ fr.pc # "begin" => fr.i \in 1 .. n
  /\ fr.k = "remove" /\ fr.pc = "call" => fr.i \in 1 .. n
  /\ fr.k = "chld" => fr.p \in 0 .. n /\ fr.i > 0
  /\ fr.k = "system" /\ fr.pc = "read" => o > 0

LEMMA FramesFit ==
  /\ FramesOK <=> \A i \in 1 .. Depth : Fits(cs[i], Len(list), cmd.obj)
  /\ FramesOK' <=> \A i \in 1 .. Len(cs') : Fits(cs'[i], Len(list'), cmd'.obj)
  /\ FrameOK(Running) <=> Fits(Running, Len(list), cmd.obj)
BY DEF FramesOK, FrameOK, Fits, Depth

LEMMA FitsLonger ==
  ASSUME NEW fr, NEW m \in Nat, NEW n \in Nat, m <= n, NEW o, NEW u,
         Fits(fr, m, o), fr.k = "system" /\ fr.pc = "read" => u = o
  PROVE  Fits(fr, n, u)
BY DEF Fits

\* The list never gets shorter.
LEMMA ListLonger ==
  ASSUME Ready, Summary
  PROVE  Len(list') \in Nat /\ Len(list) \in Nat /\ Len(list) <= Len(list')
<1>0. list \in Seq(Slot) /\ list' \in Seq(Slot)
  BY TypeParts, TypePartsNext DEF Ready, Summary, DataOK
<1>1. Len(list') \in Nat /\ Len(list) \in Nat
  BY <1>0, LenProperties
<1>2. CASE list' = list
  BY <1>1, <1>2
<1>3. CASE InsertFind
  <2>1. list' = list \/ \E x : list' = Append(list, x)
    BY <1>3 DEF InsertFind
  <2>2. ASSUME NEW x, list' = Append(list, x) PROVE Len(list') = Len(list) + 1
    <3>1. list = [j \in 1 .. Len(list) |-> list[j]]
      BY <1>0, LenProperties
    <3> QED
      BY <1>0, <1>1, <2>2
  <2> QED
    BY <1>1, <2>1, <2>2
<1>4. CASE InsertPid \/ InsertHandler \/ InsertFile \/ RemoveFind \/ SigchldScan
  <2>1. \/ list' = list
        \/ \E i, x : list' = [list EXCEPT ![i] = x]
    <3>1. CASE InsertPid
      BY <3>1 DEF InsertPid
    <3>2. CASE InsertHandler
      BY <3>2 DEF InsertHandler
    <3>3. CASE InsertFile
      BY <3>3 DEF InsertFile
    <3>4. CASE RemoveFind
      BY <3>4 DEF RemoveFind
    <3>5. CASE SigchldScan
      BY <3>5 DEF SigchldScan
    <3> QED
      BY <1>4, <3>1, <3>2, <3>3, <3>4, <3>5
  <2>2. DOMAIN list' = DOMAIN list
    BY <2>1
  <2> QED
    BY <1>0, <1>1, <2>2, LenProperties
<1> QED
  BY <1>2, <1>3, <1>4 DEF Summary, Effects

\* The main loop has one frame and a command too.
LEMMA Bottom ==
  ASSUME TypeOK, WellCalled, NEW i \in 1 .. Depth
  PROVE  /\ cs[i].k = "main" <=> i = 1
         /\ cs[i].k = "system" => i = 2 /\ cs[1].pc = "run"
         /\ cs[i].k = "cleancmd" => \/ i = 2 /\ cs[1].pc = "jumped"
                                    \/ i = 3 /\ cs[2].k = "system" /\ cs[2].pc = "done"
<1>0. Depth \in Nat \ {0} /\ cs[1].k = "main"
  BY TypeParts, StackFacts DEF StackOK
<1>1. \A j \in 2 .. Depth : cs[j].k # "main"
  BY DEF WellCalled
<1>2. \A j \in 2 .. Depth : cs[j].k = "chld" \/ CallSite(cs[j - 1].k, cs[j - 1].pc, cs[j].k)
  BY CalledTwo
<1>3. \A j \in 2 .. Depth : cs[j].k = "system" => j = 2 /\ cs[1].pc = "run"
  <2> SUFFICES ASSUME NEW j \in 2 .. Depth, cs[j].k = "system"
               PROVE  j = 2 /\ cs[1].pc = "run"
    OBVIOUS
  <2>1. cs[j - 1].k = "main" /\ cs[j - 1].pc = "run"
    BY <1>2, Sites
  <2>2. j - 1 \in 1 .. Depth /\ j - 1 \notin 2 .. Depth
    BY <1>0, <1>1, <2>1
  <2>3. j - 1 = 1
    BY <1>0, <2>2
  <2> QED
    BY <2>1, <2>3
<1>4. ASSUME i \in 2 .. Depth, cs[i].k = "cleancmd"
      PROVE  \/ i = 2 /\ cs[1].pc = "jumped"
             \/ i = 3 /\ cs[2].k = "system" /\ cs[2].pc = "done"
  <2>1. \/ cs[i - 1].k = "main" /\ cs[i - 1].pc = "jumped"
        \/ cs[i - 1].k = "system" /\ cs[i - 1].pc = "done"
    BY <1>2, <1>4, Sites
  <2>2. CASE cs[i - 1].k = "main" /\ cs[i - 1].pc = "jumped"
    <3>1. i - 1 \notin 2 .. Depth
      BY <1>1, <2>2
    <3>2. i - 1 = 1
      BY <1>0, <1>4, <3>1
    <3> QED
      BY <2>2, <3>2
  <2>3. CASE cs[i - 1].k = "system" /\ cs[i - 1].pc = "done"
    <3>1. i - 1 # 1
      BY <1>0, <2>3
    <3>2. i - 1 \in 2 .. Depth
      BY <1>0, <1>4, <3>1
    <3>3. i - 1 = 2
      BY <1>3, <2>3, <3>2
    <3> QED
      BY <2>3, <3>3
  <2> QED
    BY <2>1, <2>2, <2>3
<1>5. i = 1 \/ i \in 2 .. Depth
  BY <1>0
<1> QED
  BY <1>0, <1>1, <1>3, <1>4, <1>5

\* The command that is read stays while other frames are above it.
LEMMA ReadStays ==
  ASSUME TypeOK, WellCalled, Summary, NEW i \in 1 .. Depth - 1,
         cs[i].k = "system", cs[i].pc = "read"
  PROVE  cmd'.obj = cmd.obj
<1>0. Depth \in Nat \ {0} /\ Running = cs[Depth] /\ i \in 1 .. Depth /\ Depth \in 1 .. Depth
  BY TypeParts, StackFacts
<1>1. i = 2
  BY <1>0, Bottom
<1>2. CASE SystemBegin
  <2>1. Running.k = "system"
    BY <1>2 DEF SystemBegin, At
  <2>2. Depth = 2
    BY <1>0, <2>1, Bottom
  <2> QED
    BY <1>1, <2>2
<1>3. CASE CleancmdDeleted
  <2>1. Running.k = "cleancmd"
    BY <1>3 DEF CleancmdDeleted, At
  <2>2. Depth = 2 \/ cs[2].pc = "done"
    BY <1>0, <2>1, Bottom
  <2> QED
    BY <1>1, <2>2
<1> QED
  BY <1>2, <1>3 DEF Summary, Effects

\* What the places that a frame has found are.
LEMMA Found ==
  ASSUME Ready
  PROVE  /\ InsertFind /\ ~ LeaveStep => cs'[Depth].i \in 1 .. Len(list)
         /\ RemoveFind /\ ~ LeaveStep => cs'[Depth].i \in 1 .. Len(list)
<1>0. StackOK /\ Len(list) \in Nat /\ Running \in Frame /\ Depth \in Nat \ {0}
  <2>1. list \in Seq(Slot)
    BY TypeParts DEF Ready, DataOK
  <2> QED
    BY <2>1, TypeParts, StackFacts, LenProperties DEF Ready
<1>1. Free \subseteq 1 .. Len(list) /\ \A p : SlotsOf(p) \subseteq 1 .. Len(list)
  BY DEF Free, SlotsOf
<1>2. ASSUME NEW i, i \in 1 .. Len(list), NEW pc \in Pcs,
             cs' = Top([Running EXCEPT !.pc = pc, !.i = i])
      PROVE  cs'[Depth].i = i
  <2>1. PICK fr : fr = [Running EXCEPT !.pc = pc, !.i = i]
    OBVIOUS
  <2>0. i \in Nat
    BY <1>0, <1>2
  <2>2. fr \in Frame /\ fr.i = i /\ fr.k = Running.k
    BY <1>0, <2>0, <2>1 DEF Frame
  <2>3. Top(fr)[Depth] = fr /\ cs' = Top(fr)
    BY <1>0, <1>2, <2>1, <2>2, TopFacts
  <2> QED
    BY <2>2, <2>3
<1>3. ASSUME Return, Running.k # "main" PROVE LeaveStep
  BY <1>0, <1>3, ReturnMoves
<1>4. ASSUME InsertFind, ~ LeaveStep PROVE cs'[Depth].i \in 1 .. Len(list)
  <2>1. /\ Running.k # "main" /\ Free # {}
        /\ cs' = Top([Running EXCEPT !.pc = "pid", !.i = First(Free)])
    BY <1>3, <1>4 DEF InsertFind, At
  <2>2. First(Free) \in 1 .. Len(list)
    BY <1>0, <1>1, <2>1, FirstIn
  <2> QED
    BY <1>2, <2>1, <2>2 DEF Pcs
<1>5. ASSUME RemoveFind, ~ LeaveStep PROVE cs'[Depth].i \in 1 .. Len(list)
  <2> DEFINE S == SlotsOf(Running.p)
  <2>1. /\ Running.k # "main" /\ S # {}
        /\ cs' = Top([Running EXCEPT !.pc = "call", !.i = First(S)])
    BY <1>3, <1>5 DEF RemoveFind, At
  <2>2. First(S) \in 1 .. Len(list)
    BY <1>0, <1>1, <2>1, FirstIn
  <2> HIDE DEF S
  <2> QED
    BY <1>2, <2>1, <2>2 DEF Pcs
<1> QED
  BY <1>4, <1>5

LEMMA CalledIs ==
  ASSUME StackOK, NEW pc, NEW new, Call(new, pc)
  PROVE  cs'[Depth + 1] = new
<1>1. PICK t : t = Top([Running EXCEPT !.pc = pc])
  OBVIOUS
<1>2. Len(t) = Depth
  BY <1>1 DEF Top, Depth, StackOK
<1>3. cs' = Append(t, new)
  BY <1>1 DEF Call, Calling
<1>4. cs'[Len(t) + 1] = new
  BY <1>3
<1> QED
  BY <1>2, <1>4

\* What is inserted.
LEMMA InsertsWhat ==
  ASSUME Ready, Summary, CallStep, cs'[Depth + 1].k = "insert"
  PROVE  \/ SyncInsert /\ cs'[Depth + 1].p = pager.obj /\ cs'[Depth + 1].h = "pager"
         \/ OpenplotInsert /\ cs'[Depth + 1].p = plot.obj /\ cs'[Depth + 1].h = "plot"
         \/ SystemBegin /\ cs'[Depth + 1].p = cmd'.obj /\ cs'[Depth + 1].h = "cmd"
         \/ /\ \E p \in 1 .. Len(proc) : proc[p].file = "there" /\ cs'[Depth + 1].p = p
            /\ cs'[Depth + 1].h = "file"
<1>0. StackOK /\ Depth \in Nat /\ NewOf("insert")
  BY TypeParts, StackFacts DEF Ready, CallStep, NewOf
<1>1. Inserts
  BY <1>0 DEF Summary, Entered
<1>2. ASSUME NEW pc, NEW p, NEW h, Call(InsertOf(p, h), pc)
      PROVE  cs'[Depth + 1].p = p /\ cs'[Depth + 1].h = h
  <2>1. InsertOf(p, h).p = p /\ InsertOf(p, h).h = h
    BY DEF InsertOf, FrameOf
  <2> QED
    BY <1>0, <1>2, <2>1, CalledIs
<1>3. ASSUME NEW pc, NEW k, NEW p, k # "insert", Call(FrameOf(k, p), pc)
      PROVE  FALSE
  <2>1. FrameOf(k, p).k # "insert"
    BY <1>3 DEF FrameOf
  <2> QED
    BY <1>0, <1>3, <2>1, CalledIs
<1>4. ASSUME NEW pc, Goto(pc)
      PROVE  FALSE
  <2>1. Len(cs') = Depth
    BY <1>0, <1>4 DEF Goto, Top, Depth, StackOK
  <2> QED
    BY <1>0, <2>1 DEF CallStep
<1>5. ASSUME NEW pc, NEW p, WaitFor(p, FALSE, pc)
      PROVE  FALSE
  <2>1. Waiting(p).k # "insert"
    BY DEF Waiting, FrameOf
  <2> QED
    BY <1>0, <1>5, <2>1, CalledIs DEF WaitFor
<1>6. CASE SyncInsert \/ OpenplotInsert
  BY <1>2, <1>6 DEF SyncInsert, OpenplotInsert
<1>7. CASE SystemBegin
  <2>1. PICK p : /\ cmd' = [obj |-> p, open |-> p > 0, pid |-> p, status |-> "-1",
                            result |-> "-1"]
                 /\ Call(InsertOf(p, "cmd"), "add")
    BY <1>7 DEF SystemBegin
  <2> QED
    BY <1>2, <1>7, <2>1
<1>8. CASE Command
  <2>1. ~ Output /\ ~ Error /\ ~ Plot /\ ~ Closeplot /\ ~ System
    BY <1>3, <1>4 DEF Output, Error, Plot, Closeplot, System
  <2>2. ~ Async /\ ~ Waitpid
    BY <1>3, <1>4, <1>5 DEF Async, Waitpid
  <2>3. Purge
    BY <1>8, <2>1, <2>2 DEF Command
  <2>4. PICK p \in 1 .. Len(proc) : proc[p].file = "there" /\ Call(InsertOf(p, "file"), "run")
    BY <2>3 DEF Purge
  <2> QED
    BY <1>2, <2>4
<1> QED
  BY <1>1, <1>6, <1>7, <1>8 DEF Inserts

LEMMA RemovesWhat ==
  ASSUME Ready, Summary, CallStep, cs'[Depth + 1].k = "remove"
  PROVE  \/ Running.k = "clear" /\ cs'[Depth + 1].p = pager.pid
         \/ Running.k = "closeplot" /\ cs'[Depth + 1].p = plot.pid
         \/ Running.k = "cleancmd" /\ cs'[Depth + 1].p = cmd.pid
<1>0. StackOK /\ Depth \in Nat /\ NewOf("remove")
  BY TypeParts, StackFacts DEF Ready, CallStep, NewOf
<1>1. Removes
  BY <1>0 DEF Summary, Entered
<1>2. ASSUME NEW pc, NEW p, Call(FrameOf("remove", p), pc)
      PROVE  cs'[Depth + 1].p = p
  <2>1. FrameOf("remove", p).p = p
    BY DEF FrameOf
  <2> QED
    BY <1>0, <1>2, <2>1, CalledIs
<1> QED
  BY <1>1, <1>2 DEF Removes, ClearBegin, CloseplotBegin, CleancmdBegin, At

\* The frame that runs and the one that it calls.
LEMMA RunningFits ==
  ASSUME Ready, Summary, GoesStep \/ CallStep
  PROVE  Fits(cs'[Depth], Len(list'), cmd'.obj)
<1> DEFINE fr == cs'[Depth]
<1> SUFFICES Fits(fr, Len(list'), cmd'.obj)
  OBVIOUS
<1>0. /\ Depth \in Nat \ {0} /\ Len(list) \in Nat /\ Len(list') \in Nat
      /\ Len(list) <= Len(list') /\ GoesOn(fr) /\ ~ LeaveStep
  BY TypeParts, StackFacts, ListLonger DEF Ready, GoesStep, CallStep, LeaveStep
<1>1. Fits(Running, Len(list), cmd.obj)
  BY FramesFit DEF Ready
<1>2. /\ InsertFind => fr.i \in 1 .. Len(list)
      /\ RemoveFind => fr.i \in 1 .. Len(list)
  BY <1>0, Found
<1>3. \/ fr.i = Running.i \/ SwapStep \/ InsertFind \/ RemoveFind \/ SigchldScan
  BY <1>0 DEF Summary, Indexed
<1>4. Named
  BY DEF Summary
<1>5. Running.i \in Nat /\ Running.k = fr.k
  BY <1>0, TypeParts, StackFacts DEF Ready, Frame, GoesOn
<1>6. CASE fr.k = "insert"
  <2>1. /\ fr.pc \in {"pid", "handler", "file"} /\ (Running.pc = "begin" => fr.pc = "pid")
        /\ Running.pc \in {"begin", "pid", "handler"} /\ fr.h = Running.h /\ fr.p = Running.p
    BY <1>0, <1>6 DEF GoesOn, Goings
  <2>2. Running.pc = "begin" => InsertFind
    BY <1>4, <1>5, <1>6 DEF Named, At
  <2>3. Running.pc # "begin" => fr.i = Running.i
    BY <1>3, <1>5, <1>6 DEF SwapStep, InsertFind, RemoveFind, SigchldScan, At
  <2>4. fr.i \in 1 .. Len(list)
    BY <1>1, <1>2, <1>5, <1>6, <2>1, <2>2, <2>3 DEF Fits
  <2>5. fr.h = "file" => fr.p > 0
    BY <1>1, <1>5, <1>6, <2>1 DEF Fits
  <2> HIDE DEF fr
  <2> QED
    BY <1>0, <1>6, <2>1, <2>4, <2>5 DEF Fits
<1>7. CASE fr.k = "remove"
  <2>1. Running.pc = "begin" /\ fr.pc = "call"
    BY <1>0, <1>7 DEF GoesOn, Goings
  <2>2. fr.i \in 1 .. Len(list)
    BY <1>2, <1>4, <1>5, <1>7, <2>1 DEF Named, At
  <2> HIDE DEF fr
  <2> QED
    BY <1>0, <1>7, <2>2 DEF Fits
<1>8. CASE fr.k = "chld"
  <2>1. fr.p = Running.p
    BY <1>0, <1>8 DEF GoesOn
  <2>2. fr.i \in {Running.i, Running.i + 1}
    <3>1. SigchldScan => fr.i \in {Running.i, Running.i + 1}
      BY TypeParts, SigchldStacked DEF Ready
    <3>2. ~ InsertFind /\ ~ RemoveFind /\ ~ SwapStep
      BY <1>5, <1>8 DEF InsertFind, RemoveFind, SwapStep, At
    <3> QED
      BY <1>3, <3>1, <3>2
  <2>3. Running.p \in 0 .. Len(list) /\ Running.i > 0
    BY <1>1, <1>5, <1>8 DEF Fits
  <2> HIDE DEF fr
  <2> QED
    BY <1>0, <1>5, <1>8, <2>1, <2>2, <2>3 DEF Fits
<1>9. CASE fr.k = "system"
  <2>1. fr.pc = "read" => SystemAdd
    BY <1>0, <1>4, <1>5, <1>9 DEF GoesOn, Goings, Named, At
  <2>2. ASSUME SystemAdd, fr.pc = "read" PROVE cmd'.obj > 0
    <3>1. cmd' = cmd /\ Goto(IF cmd.obj > 0 THEN "read" ELSE "cleanup")
      BY <2>2 DEF SystemAdd, Quiet
    <3>2. ASSUME Goto("cleanup") PROVE FALSE
      <4>1. <<Running.k, Running.pc, "cleanup">> \in Goings
        BY <2>2 DEF SystemAdd, At, Goings
      <4>2. cs'[Depth].pc = "cleanup"
        BY <3>2, <4>1, TypeParts, GotoMoves DEF Ready, Pcs
      <4> QED
        BY <2>2, <4>2
    <3> QED
      BY <3>1, <3>2
  <2> HIDE DEF fr
  <2> QED
    BY <1>9, <2>1, <2>2 DEF Fits
<1>10. CASE fr.k \notin {"insert", "remove", "chld", "system"}
  BY <1>10 DEF Fits
<1> QED
  BY <1>6, <1>7, <1>8, <1>9, <1>10

LEMMA CalledFits ==
  ASSUME Ready, Summary, CallStep
  PROVE  Fits(cs'[Depth + 1], Len(list'), cmd'.obj)
<1> DEFINE new == cs'[Depth + 1]
<1>1. new.k \notin {"main", "chld"} /\ new.pc = IF new.k = "wait" THEN "wait" ELSE "begin"
  BY Sites DEF CallStep, Enters
<1>2. new.k = "insert" /\ new.h = "file" => new.p > 0
  <2>1. ASSUME new.k = "insert", new.h = "file" PROVE new.p > 0
    <3>1. PICK p \in 1 .. Len(proc) : new.p = p
      BY <2>1, InsertsWhat
    <3>2. Len(proc) \in Nat
      BY TypeParts, ProcFacts DEF Ready
    <3> QED
      BY <3>1, <3>2
  <2> QED
    BY <2>1
<1> HIDE DEF new
<1>3. Fits(new, Len(list'), cmd'.obj)
  BY <1>1, <1>2 DEF Fits
<1> QED
  BY <1>3 DEF new

LEMMA FramesMoves ==
  ASSUME Ready, WellCalled, FramesOK, Summary
  PROVE  FramesOK'
<1>0. /\ TypeOK /\ Depth \in Nat \ {0} /\ Len(list) \in Nat /\ Len(list') \in Nat
      /\ Len(list) <= Len(list')
  BY TypeParts, StackFacts, ListLonger DEF Ready
<1>1. ASSUME NEW i \in 1 .. Depth - 1 PROVE Fits(cs'[i], Len(list'), cmd'.obj)
  <2>1. cs'[i] = cs[i]
    BY DEF Summary, Moves, Below
  <2>2. cs[i].k = "system" /\ cs[i].pc = "read" => cmd'.obj = cmd.obj
    BY <1>0, ReadStays
  <2>3. i \in 1 .. Depth
    BY <1>0
  <2>4. Fits(cs[i], Len(list), cmd.obj)
    BY <2>3, FramesFit
  <2> QED
    BY <1>0, <2>1, <2>2, <2>4, FitsLonger
<1>2. CASE GoesStep
  <2>1. Fits(cs'[Depth], Len(list'), cmd'.obj) /\ Len(cs') = Depth
    BY <1>2, RunningFits DEF GoesStep
  <2>2. \A i \in 1 .. Depth : Fits(cs'[i], Len(list'), cmd'.obj)
    BY <1>0, <1>1, <2>1
  <2> QED
    BY <2>1, <2>2, FramesFit
<1>3. CASE CallStep
  <2>1. Fits(cs'[Depth], Len(list'), cmd'.obj) /\ Len(cs') = Depth + 1
        /\ Fits(cs'[Depth + 1], Len(list'), cmd'.obj)
    BY <1>3, RunningFits, CalledFits DEF CallStep
  <2>2. \A i \in 1 .. Depth + 1 : Fits(cs'[i], Len(list'), cmd'.obj)
    BY <1>0, <1>1, <2>1
  <2> QED
    BY <2>1, <2>2, FramesFit
<1>4. CASE LeaveStep
  <2>1. Len(cs') = Depth - 1
    BY <1>4 DEF LeaveStep
  <2> QED
    BY <1>1, <2>1, FramesFit
<1>5. CASE SwapStep
  <2>1. cs'[Depth].k = "plotdeath" /\ Len(cs') = Depth
    BY <1>5 DEF SwapStep, FrameOf
  <2>2. Fits(cs'[Depth], Len(list'), cmd'.obj)
    BY <2>1 DEF Fits
  <2>3. \A i \in 1 .. Depth : Fits(cs'[i], Len(list'), cmd'.obj)
    BY <1>0, <1>1, <2>2
  <2> QED
    BY <2>1, <2>3, FramesFit
<1> QED
  BY <1>2, <1>3, <1>4, <1>5 DEF Summary, Moves

LEMMA FramesNext ==
  ASSUME Ready, WellCalled, FramesOK, Next
  PROVE  FramesOK'
<1>0. TypeOK /\ Depth \in Nat \ {0} /\ \A i \in 1 .. Depth : Fits(cs[i], Len(list), cmd.obj)
  BY TypeParts, StackFacts, FramesFit DEF Ready
<1>1. CASE Synchronous
  BY <1>1, SynchronousSteps, FramesMoves
<1>2. CASE MainJumped
  <2>1. list' = list /\ cmd' = cmd /\ Below /\ Depth = 1
    BY <1>0, <1>2, JumpedStep, MainAlone DEF At
  <2>2. \/ Len(cs') = 1 /\ cs'[1].k = "main"
        \/ cs' = cs
        \/ Len(cs') = 2 /\ cs'[1].k = "main" /\ cs'[2].k = "cleancmd"
    <3>1. \/ Len(cs') = Depth /\ cs'[Depth].k = "main"
          \/ cs' = cs
          \/ Len(cs') = Depth + 1 /\ cs'[Depth].k = "main"
             /\ cs'[Depth + 1] = FrameOf("cleancmd", None)
      BY <1>0, <1>2, JumpedStep
    <3>2. FrameOf("cleancmd", None).k = "cleancmd"
      BY DEF FrameOf
    <3>3. Depth = 1 /\ Depth + 1 = 2
      BY <2>1
    <3> QED
      BY <3>1, <3>2, <3>3
  <2>3. \A fr : fr.k \in {"main", "cleancmd"} => Fits(fr, Len(list'), cmd'.obj)
    BY DEF Fits
  <2>4. CASE cs' = cs
    <3>1. Depth' = Depth
      BY <2>4 DEF Depth
    <3> QED
      BY <2>1, <2>4, <3>1 DEF FramesOK, FrameOK
  <2>5. CASE Len(cs') = 1 /\ cs'[1].k = "main"
    <3>1. \A i \in 1 .. Len(cs') : Fits(cs'[i], Len(list'), cmd'.obj)
      BY <2>3, <2>5
    <3> QED
      BY <3>1, FramesFit
  <2>6. CASE Len(cs') = 2 /\ cs'[1].k = "main" /\ cs'[2].k = "cleancmd"
    <3>1. \A i \in 1 .. Len(cs') : Fits(cs'[i], Len(list'), cmd'.obj)
      BY <2>3, <2>6
    <3> QED
      BY <3>1, FramesFit
  <2> QED
    BY <2>2, <2>4, <2>5, <2>6
<1>3. CASE SigchldBegin
  <2>1. /\ list' = list /\ cmd' = cmd /\ Len(cs') = Depth + 1
        /\ \A i \in 1 .. Depth : cs'[i] = cs[i]
        /\ cs'[Depth + 1].k = "chld" /\ cs'[Depth + 1].p = Len(list) /\ cs'[Depth + 1].i = 1
    BY <1>0, <1>3, HandlerStep
  <2>2. Len(list) \in Nat
    BY <1>0, TypeParts, LenProperties DEF DataOK
  <2>3. Fits(cs'[Depth + 1], Len(list'), cmd'.obj)
    BY <2>1, <2>2 DEF Fits
  <2>4. \A i \in 1 .. Depth : Fits(cs'[i], Len(list'), cmd'.obj)
    BY <1>0, <2>1
  <2>5. \A i \in 1 .. Depth + 1 : Fits(cs'[i], Len(list'), cmd'.obj)
    BY <1>0, <2>3, <2>4
  <2> QED
    BY <2>1, <2>5, FramesFit
<1>4. CASE Interrupt
  <2>1. Len(cs') = 1 /\ cs'[1].k = "main"
    BY <1>0, <1>4, InterruptStep
  <2>2. Fits(cs'[1], Len(list'), cmd'.obj)
    BY <2>1 DEF Fits
  <2>3. \A i \in 1 .. 1 : Fits(cs'[i], Len(list'), cmd'.obj)
    BY <2>2
  <2> QED
    BY <2>1, <2>3, FramesFit
<1>5. CASE \E p : Die(p)
  <2>1. cs' = cs /\ list' = list /\ cmd' = cmd
    BY <1>0, <1>5, DieStep
  <2>2. Depth' = Depth
    BY <2>1 DEF Depth
  <2> QED
    BY <2>1, <2>2 DEF FramesOK, FrameOK
<1> QED
  BY <1>1, <1>2, <1>3, <1>4, <1>5, Steps

-----------------------------------------------------------------------------
(***************************************************************************)
(* The protections                                                         *)
(***************************************************************************)

\* Where a flush and a command go on and where they return.
LEMMA KindNamed ==
  ASSUME Synchronous
  PROVE  /\ Running.k = "flush" => FlushBegin \/ FlushClear \/ FlushEnd
         /\ Running.k = "system" => \/ SystemBegin \/ SystemAdd \/ SystemRead
                                    \/ SystemStatus \/ SystemCleanup
                                    \/ Leave
         /\ Running.k = "main" => MainTop \/ MainRead \/ MainDone \/ Command
         /\ Running.k = "openplot" => \/ OpenplotBegin \/ OpenplotDeleted \/ OpenplotNew
                                      \/ OpenplotAssign \/ OpenplotInsert \/ Leave
         /\ Running.k = "closeplot" => \/ CloseplotBegin \/ CloseplotRemoved
                                       \/ CloseplotSent \/ CloseplotDeleted
         /\ Running.k = "send" => SendBegin \/ SendOpened \/ SendUse \/ SendUsing
         /\ Saver(Running) => \/ SigchldScan \/ SigchldOther \/ WaitReturns
                              \/ RestoreInt \/ RestoreChld
<1>1. CASE MainTop \/ MainRead \/ MainDone \/ Command \/ Leave
  BY <1>1 DEF MainTop, MainRead, MainDone, Command, Leave, At, Saver
<1>2. CASE ChildList
  BY <1>2 DEF ChildList, At, InsertFind, InsertPid, InsertHandler, InsertFile,
              RemoveFind, RemoveCall, Saver
<1>3. CASE SigchldScan \/ SigchldOther \/ Wait
  BY <1>3 DEF At, SigchldScan, SigchldOther, Wait, WaitReturns, RestoreInt, RestoreChld, Saver
<1>4. CASE Pager
  BY <1>4
  DEF Pager, At, FlushBegin, Flush, FlushClear, FlushEnd, ErrorBegin, ErrorEnd,
      SyncBegin, SyncOpen, SyncNew, SyncInsert, SyncCheck, SyncWrite, SyncRecheck,
      SyncFlush, SyncDone, ClearBegin, ClearRemoved, ClearDeleted, Saver
<1>5. CASE Plotter
  BY <1>5
  DEF Plotter, At, OpenplotBegin, OpenplotDeleted, OpenplotNew, OpenplotAssign,
      OpenplotInsert,
      SendBegin, SendOpened, SendUse, SendUsing, CloseplotBegin, CloseplotRemoved,
      CloseplotSent, CloseplotDeleted, PlotdeathBegin, PlotdeathWarn, Saver
<1>6. CASE Systems
  BY <1>6
  DEF Systems, At, SystemBegin, SystemAdd, SystemRead, SystemStatus, SystemCleanup,
      CleancmdBegin, CleancmdRemoved, CleancmdDeleted, Saver
<1> QED
  BY <1>1, <1>2, <1>3, <1>4, <1>5, <1>6 DEF Synchronous

LEMMA FlushSteps ==
  ASSUME Ready
  PROVE  /\ FlushBegin =>
              /\ Running.k = "flush" /\ Running.pc = "begin"
              /\ \/ pager.flushing /\ LeaveStep /\ UlKept
                 \/ /\ ~ pager.flushing /\ GoesOn(cs'[Depth]) /\ (GoesStep \/ CallStep)
                    /\ pager'.flushing
                    /\ \E x : ul' = Append(ul, x) /\ x.e = "flush" /\ ~ x.flushing
         /\ FlushClear =>
              /\ Running.k = "flush" /\ Running.pc = "clear"
              /\ GoesStep \/ CallStep
              /\ UlKept
         /\ FlushEnd => /\ Running.k = "flush" /\ Running.pc = "end"
                        /\ LeaveStep /\ ul' = Popped /\ ul # <<>>
                        /\ pager'.flushing = ul[Len(ul)].flushing
<1>0. StackOK /\ DataOK
  BY TypeParts DEF Ready
<1>p. pager \in [obj : Pid, ok : BOOLEAN, pid : Pid, saved : IntDisp,
                isSaved : BOOLEAN, flushing : BOOLEAN, really : BOOLEAN,
                buf : BOOLEAN]
  BY <1>0 DEF DataOK
<1>1. ASSUME FlushBegin, pager.flushing
      PROVE  LeaveStep /\ UlKept
  <2>1. At("flush", "begin") /\ Return /\ ul' = ul /\ pager' = pager
    BY <1>1 DEF FlushBegin, Flush
  <2> QED
    BY <1>0, <2>1, ReturnMoves DEF At, UlKept
<1>2. ASSUME FlushBegin, ~ pager.flushing
      PROVE  /\ GoesOn(cs'[Depth]) /\ (GoesStep \/ CallStep)
             /\ pager'.flushing
             /\ \E x : ul' = Append(ul, x) /\ x.e = "flush" /\ ~ x.flushing
  <2>1. /\ At("flush", "begin")
        /\ ul' = Append(ul, [e |-> "flush", flushing |-> pager.flushing,
                             really |-> pager.really])
        /\ pager' = [pager EXCEPT !.really = TRUE, !.flushing = TRUE]
        /\ \/ \E b \in BOOLEAN : Call([FrameOf("sync", None) EXCEPT !.bypass = b], "clear")
           \/ Goto("clear")
    BY <1>2 DEF FlushBegin, Flush
  <2>2. pager'.flushing
    BY <1>p, <2>1
  <2>3. \E x : ul' = Append(ul, x) /\ x.e = "flush" /\ ~ x.flushing
    <3>1. PICK x : x = [e |-> "flush", flushing |-> pager.flushing, really |-> pager.really]
      OBVIOUS
    <3>2. x.e = "flush" /\ ~ x.flushing
      BY <1>2, <3>1
    <3> QED
      BY <2>1, <3>1, <3>2
  <2>4. "clear" \in Pcs /\ <<Running.k, Running.pc, "clear">> \in Goings
    BY <2>1 DEF Pcs, At, Goings
  <2>5. CASE Goto("clear")
    <3>1. GoesStep
      BY <1>0, <2>4, <2>5, GotoMoves
    <3> QED
      BY <2>2, <2>3, <3>1 DEF GoesStep
  <2>6. ASSUME NEW b \in BOOLEAN, Call([FrameOf("sync", None) EXCEPT !.bypass = b], "clear")
        PROVE  CallStep
    <3>1. PICK new : new = [FrameOf("sync", None) EXCEPT !.bypass = b]
      OBVIOUS
    <3>2. new \in Frame /\ new.k = "sync" /\ new.pc = "begin"
      BY <3>1 DEF FrameOf, Frame, FrameKinds, Pcs, Pid, None, Handlers, IntDisp, ChldDisp
    <3>3. Call(new, "clear")
      BY <2>6, <3>1
    <3>4. CallSite(Running.k, "clear", "sync")
      BY <2>1 DEF At, CallSite, CallSites
    <3>5. Enters("clear", new)
      BY <3>2, <3>4 DEF Enters
    <3> QED
      BY <1>0, <2>4, <3>2, <3>3, <3>5, CallPcMoves
  <2>7. GoesOn(cs'[Depth]) /\ (GoesStep \/ CallStep)
    BY <2>1, <2>5, <2>6 DEF CallStep, GoesStep
  <2> QED
    BY <2>2, <2>3, <2>7
<1>3. ASSUME FlushClear
      PROVE  (GoesStep \/ CallStep) /\ UlKept
  <2>1. /\ At("flush", "clear") /\ UlKept
        /\ \/ Call(FrameOf("clear", None), "end")
           \/ Goto("end")
    BY <1>3 DEF FlushClear, UlKept, Quiet
  <2>2. "end" \in Pcs /\ <<Running.k, Running.pc, "end">> \in Goings
        /\ CallSite(Running.k, "end", "clear")
        /\ "clear" \in FrameKinds \ {"wait", "insert", "remove"} /\ None \in Pid
    BY <2>1 DEF Pcs, At, Goings, CallSite, CallSites, FrameKinds, Pid, None
  <2> QED
    BY <1>0, <2>1, <2>2, GotoMoves, CallStacked
<1>4. ASSUME FlushEnd
      PROVE  /\ LeaveStep /\ ul' = Popped /\ ul # <<>>
             /\ pager'.flushing = ul[Len(ul)].flushing
  <2>1. At("flush", "end") /\ Return /\ pager' = Restored(ul[Len(ul)]) /\ ul' = Popped
    BY <1>4 DEF FlushEnd
  <2>2. pager'.flushing = ul[Len(ul)].flushing
    BY <1>p, <2>1 DEF Restored
  <2> QED
    BY <1>0, <2>1, <2>2, ReturnMoves DEF At, Ready
<1>5. (FlushBegin => At("flush", "begin")) /\ (FlushClear => At("flush", "clear"))
      /\ (FlushEnd => At("flush", "end"))
  BY DEF FlushBegin, Flush, FlushClear, FlushEnd
<1> QED
  BY <1>1, <1>2, <1>3, <1>4, <1>5 DEF At

LEMMA SystemSteps ==
  ASSUME Ready
  PROVE  /\ SystemAdd => /\ Running.k = "system" /\ Running.pc = "add"
                         /\ GoesStep
                         /\ \E x : ul' = Append(ul, x) /\ x.e = "cmd"
                         /\ pager' = pager
         /\ SystemCleanup => /\ Running.k = "system" /\ Running.pc = "cleanup"
                             /\ CallStep
                             /\ ul' = Popped /\ pager' = pager
<1>0. StackOK
  BY TypeParts DEF Ready
<1>1. ASSUME SystemAdd
      PROVE  /\ GoesStep
             /\ \E x : ul' = Append(ul, x) /\ x.e = "cmd"
             /\ pager' = pager
  <2>1. /\ At("system", "add") /\ pager' = pager
        /\ ul' = Append(ul, [e |-> "cmd", flushing |-> FALSE, really |-> FALSE])
        /\ Goto("read") \/ Goto("cleanup")
    BY <1>1 DEF SystemAdd, Quiet
  <2>2. \A pc \in {"read", "cleanup"} : pc \in Pcs /\ <<Running.k, Running.pc, pc>> \in Goings
    BY <2>1 DEF At, Pcs, Goings
  <2>3. GoesStep
    BY <1>0, <2>1, <2>2, GotoMoves
  <2>4. [e |-> "cmd", flushing |-> FALSE, really |-> FALSE].e = "cmd"
    OBVIOUS
  <2> QED
    BY <2>1, <2>3, <2>4
<1>2. ASSUME SystemCleanup
      PROVE  CallStep /\ ul' = Popped /\ pager' = pager
  <2>1. /\ At("system", "cleanup") /\ pager' = pager /\ ul' = Popped
        /\ Call(FrameOf("cleancmd", None), "done")
    BY <1>2 DEF SystemCleanup, Quiet
  <2>2. "done" \in Pcs /\ <<Running.k, Running.pc, "done">> \in Goings
        /\ CallSite(Running.k, "done", "cleancmd")
        /\ "cleancmd" \in FrameKinds \ {"wait", "insert", "remove"} /\ None \in Pid
    BY <2>1 DEF Pcs, At, Goings, CallSite, CallSites, FrameKinds, Pid, None
  <2> QED
    BY <1>0, <2>1, <2>2, CallStacked
<1>3. (SystemAdd => At("system", "add")) /\ (SystemCleanup => At("system", "cleanup"))
  BY DEF SystemAdd, SystemCleanup
<1> QED
  BY <1>1, <1>2, <1>3 DEF At

\* A flush is active as soon as it goes on.
LEMMA FlushingMoves ==
  ASSUME Ready, Synchronous, Moves
  PROVE  /\ Running.k # "flush" \/ FlushClear => Flushing' = Flushing
         /\ FlushBegin /\ LeaveStep => Flushing' = Flushing
         /\ FlushBegin /\ ~ LeaveStep => Flushing' = Flushing \cup {Depth}
         /\ FlushEnd => Flushing' = Flushing \ {Depth}
<1>0. Depth \in Nat \ {0} /\ Running = cs[Depth]
  BY TypeParts, StackFacts DEF Ready
<1> DEFINE F == {i \in 1 .. Len(cs') : Active(cs'[i])}
<1>1. Flushing' = F
  BY DEF Flushing, Active, Depth
<1>2. \A i \in 1 .. Depth - 1 : cs'[i] = cs[i]
  BY DEF Moves, Below
<1>3. \A i \in 1 .. Depth - 1 : i \in F <=> i \in Flushing /\ i <= Len(cs')
  BY <1>0, <1>2 DEF Flushing, Active
<1>4. ASSUME CallStep PROVE ~ Active(cs'[Depth + 1])
  BY <1>4 DEF CallStep, Enters, Active
<1>5. ASSUME GoesOn(cs'[Depth]) PROVE Active(cs'[Depth]) <=> Running.k = "flush"
  BY <1>5 DEF GoesOn, Active, Goings
<1>6. Depth \in Flushing <=> Running.k = "flush" /\ Running.pc # "begin"
  BY <1>0 DEF Flushing, Active
<1>7. CASE GoesStep
  <2>1. F = (Flushing \ {Depth}) \cup (IF Running.k = "flush" THEN {Depth} ELSE {})
    BY <1>0, <1>3, <1>5, <1>7 DEF GoesStep, Flushing, Active
  <2>2. ~ FlushEnd /\ ~ LeaveStep
    BY <1>0, <1>7, FlushSteps DEF GoesStep, LeaveStep
  <2> QED
    BY <1>1, <1>6, <2>1, <2>2, FlushSteps
<1>8. CASE CallStep
  <2>1. F = (Flushing \ {Depth}) \cup (IF Running.k = "flush" THEN {Depth} ELSE {})
    BY <1>0, <1>3, <1>4, <1>5, <1>8 DEF CallStep, Flushing, Active
  <2>2. ~ FlushEnd /\ ~ LeaveStep
    BY <1>0, <1>8, FlushSteps DEF CallStep, LeaveStep
  <2> QED
    BY <1>1, <1>6, <2>1, <2>2, FlushSteps
<1>9. CASE LeaveStep
  <2>1. F = Flushing \ {Depth}
    BY <1>0, <1>3, <1>9 DEF LeaveStep, Flushing, Active
  <2>2. ~ FlushClear
    BY <1>0, <1>9, FlushSteps DEF GoesStep, CallStep, LeaveStep
  <2> QED
    BY <1>1, <1>6, <1>9, <2>1, <2>2, FlushSteps
<1>10. CASE SwapStep
  <2>1. Running.k = "remove" /\ cs'[Depth].k = "plotdeath" /\ Len(cs') = Depth
    BY <1>10 DEF SwapStep, At, FrameOf
  <2>2. F = Flushing
    BY <1>0, <1>3, <2>1 DEF Flushing, Active
  <2> QED
    BY <1>1, <2>1, <2>2, FlushSteps
<1> QED
  BY <1>7, <1>8, <1>9, <1>10 DEF Moves

\* A command is being read from its protection to the cleanup.
LEMMA ReadingMoves ==
  ASSUME Ready, WellCalled, Synchronous, Moves
  PROVE  /\ SystemAdd => Depth = 2 /\ ReadingCmd' /\ ~ ReadingCmd
         /\ SystemCleanup => Depth = 2 /\ ~ ReadingCmd' /\ ReadingCmd
         /\ ~ SystemAdd /\ ~ SystemCleanup => (ReadingCmd' <=> ReadingCmd)
<1>0. Depth \in Nat \ {0} /\ Running = cs[Depth] /\ Depth \in 1 .. Depth /\ TypeOK
  BY TypeParts, StackFacts DEF Ready
<1>1. ReadingCmd' <=> Len(cs') > 1 /\ Reading(cs'[2])
  BY DEF ReadingCmd, Reading, Depth
<1>2. Running.k = "system" => Depth = 2
  BY <1>0, Bottom
<1>3. ASSUME GoesOn(cs'[Depth])
      PROVE  /\ Running.k # "system" => ~ Reading(cs'[Depth]) /\ ~ Reading(Running)
             /\ Running.k = "system" =>
                  /\ Running.pc = "add" => Reading(cs'[Depth]) /\ ~ Reading(Running)
                  /\ Running.pc = "cleanup" => ~ Reading(cs'[Depth]) /\ Reading(Running)
                  /\ Running.pc \notin {"add", "cleanup"} =>
                       (Reading(cs'[Depth]) <=> Reading(Running))
  BY <1>3 DEF GoesOn, Goings, Reading
<1>4. (SystemAdd => At("system", "add")) /\ (At("system", "add") => SystemAdd)
      /\ (SystemCleanup => At("system", "cleanup"))
      /\ (At("system", "cleanup") => SystemCleanup)
  BY SynchronousSteps DEF SystemAdd, SystemCleanup, Summary, Named
<1>5. CASE Depth = 1
  <2>1. ~ ReadingCmd /\ ~ SystemAdd /\ ~ SystemCleanup
    BY <1>2, <1>4, <1>5 DEF ReadingCmd, At
  <2>2. Len(cs') > 1 => CallStep
    BY <1>5 DEF Moves, GoesStep, LeaveStep, SwapStep
  <2>3. CallStep => ~ Reading(cs'[2])
    BY <1>5, Sites DEF CallStep, Enters, Reading
  <2> QED
    BY <1>1, <2>1, <2>2, <2>3
<1>6. CASE Depth > 2
  <2>1. ~ SystemAdd /\ ~ SystemCleanup
    BY <1>2, <1>4, <1>6 DEF At
  <2>2. cs'[2] = cs[2] /\ Len(cs') > 1
    BY <1>0, <1>6 DEF Moves, Below, GoesStep, CallStep, LeaveStep, SwapStep
  <2> QED
    BY <1>0, <1>1, <1>6, <2>1, <2>2 DEF ReadingCmd, Reading
<1>7. CASE Depth = 2
  <2>0. ReadingCmd <=> Reading(Running)
    BY <1>0, <1>7 DEF ReadingCmd
  <2>1. CASE GoesStep \/ CallStep
    <3>1. GoesOn(cs'[2]) /\ Len(cs') > 1
      BY <1>0, <1>7, <2>1 DEF GoesStep, CallStep
    <3>2. ReadingCmd' <=> Reading(cs'[Depth])
      BY <1>1, <1>7, <3>1
    <3> QED
      BY <1>3, <1>4, <1>7, <2>0, <3>1, <3>2 DEF At
  <2>2. CASE LeaveStep
    <3>1. ~ ReadingCmd'
      BY <1>0, <1>1, <1>7, <2>2 DEF LeaveStep
    <3>2. ~ SystemAdd /\ ~ SystemCleanup
      BY <1>0, <2>2, SystemSteps DEF GoesStep, CallStep, LeaveStep
    <3>3. ASSUME Running.k = "system" PROVE Running.pc = "done" \/ Running.pc = "begin"
      <4>1. ASSUME SystemRead \/ SystemStatus PROVE FALSE
        <5>1. SystemRead => Calling(Waiting(cmd.obj), "status") = cs'
          BY DEF SystemRead, WaitFor, Call
        <5>2. SystemStatus => cs' = Top([Running EXCEPT !.pc = "cleanup"])
          BY DEF SystemStatus, Goto
        <5>3. Len(cs) = Depth /\ cs \in Seq(Frame)
          BY <1>0, TypeParts DEF Depth, StackOK
        <5>4. \A fr : Len(Top(fr)) = Depth
          BY <5>3 DEF Top
        <5>5. \A fr, new : Len(Append(Top(fr), new)) = Depth + 1
          <6>1. \A fr, new : Len(Append(Top(fr), new)) = Len(Top(fr)) + 1
            OBVIOUS
          <6> QED
            BY <5>4, <6>1
        <5> QED
          BY <1>0, <2>2, <4>1, <5>1, <5>2, <5>4, <5>5 DEF LeaveStep, Calling
      <4>2. SystemBegin => Running.pc = "begin"
        BY DEF SystemBegin, At
      <4>3. Leave => Running.pc = "done"
        BY DEF Leave
      <4> QED
        BY <3>2, <3>3, <4>1, <4>2, <4>3, KindNamed
    <3>4. ~ Reading(Running)
      BY <3>3 DEF Reading
    <3> QED
      BY <2>0, <3>1, <3>2, <3>4
  <2>3. CASE SwapStep
    <3>1. cs'[2].k = "plotdeath" /\ Running.k = "remove"
      BY <1>7, <2>3 DEF SwapStep, At, FrameOf
    <3> QED
      BY <1>1, <1>4, <2>0, <3>1 DEF Reading, At
  <2> QED
    BY <2>1, <2>2, <2>3 DEF Moves
<1> QED
  BY <1>0, <1>5, <1>6, <1>7

LEMMA UlFacts ==
  ASSUME DataOK
  PROVE  /\ Len(ul) \in Nat /\ (ul = <<>> <=> Len(ul) = 0)
         /\ \A j \in 1 .. Len(ul) : ul[j].e \in {"flush", "cmd"}
         /\ \A x : /\ Len(Append(ul, x)) = Len(ul) + 1
                   /\ Append(ul, x)[Len(ul) + 1] = x
                   /\ \A j \in 1 .. Len(ul) : Append(ul, x)[j] = ul[j]
                   /\ Append(ul, x) # <<>>
         /\ ul # <<>> => /\ Len(Popped) = Len(ul) - 1
                         /\ \A j \in 1 .. Len(ul) - 1 : Popped[j] = ul[j]
                         /\ Popped = <<>> <=> Len(ul) = 1
<1>0. ul \in Seq(Saved)
  BY DEF DataOK
<1>1. Len(ul) \in Nat /\ (ul = <<>> <=> Len(ul) = 0)
  BY <1>0, EmptySeq
<1>2. \A j \in 1 .. Len(ul) : ul[j].e \in {"flush", "cmd"}
  <2>1. \A j \in 1 .. Len(ul) : ul[j] \in Saved
    BY <1>0, ElementOfSeq
  <2> QED
    BY <2>1 DEF Saved
<1>3. \A x : /\ Len(Append(ul, x)) = Len(ul) + 1
             /\ Append(ul, x)[Len(ul) + 1] = x
             /\ \A j \in 1 .. Len(ul) : Append(ul, x)[j] = ul[j]
  BY <1>0, <1>1
<1>4. \A x : Append(ul, x) # <<>>
  <2>1. Len(<<>>) = 0
    OBVIOUS
  <2>2. \A x : Len(Append(ul, x)) # 0
    BY <1>1, <1>3
  <2> QED
    BY <2>1, <2>2
<1>5. ASSUME ul # <<>>
      PROVE  /\ Len(Popped) = Len(ul) - 1
             /\ \A j \in 1 .. Len(ul) - 1 : Popped[j] = ul[j]
             /\ Popped = <<>> <=> Len(ul) = 1
  <2>1. Len(ul) \in Nat \ {0}
    BY <1>1, <1>5
  <2>2. /\ Popped \in Seq(Saved) /\ Len(Popped) = Len(ul) - 1
        /\ \A j \in 1 .. Len(ul) - 1 : Popped[j] = ul[j]
    <3>1. PICK n \in Nat : n = Len(ul) - 1
      BY <2>1
    <3>2. n <= Len(ul)
      BY <2>1, <3>1
    <3>3. /\ SubSeq(ul, 1, n) \in Seq(Saved) /\ Len(SubSeq(ul, 1, n)) = n
          /\ \A j \in 1 .. n : SubSeq(ul, 1, n)[j] = ul[j]
      BY <1>0, <2>1, <3>2
    <3> QED
      BY <3>1, <3>3 DEF Popped
  <2> QED
    BY <2>1, <2>2, EmptySeq
<1> QED
  BY <1>1, <1>2, <1>3, <1>4, <1>5

\* What is protected without a flush.
LEMMA NoFlush ==
  ASSUME DataOK, Protected, ~ FlushPending
  PROVE  Flushing = {} /\ Len(ul) \in {0, 1} /\ (ul # <<>> => ul[1].e = "cmd")
<1>1. Flushing = {}
  BY DEF Protected
<1>2. ul # <<>> => Len(ul) \in 1 .. Len(ul) /\ ul[Len(ul)].e = "cmd"
  BY UlFacts DEF FlushPending
<1> QED
  BY <1>1, <1>2, UlFacts DEF Protected

LEMMA ProtectedMoves ==
  ASSUME Ready, WellCalled, Protected, Synchronous
  PROVE  Protected'
<1>0. TypeOK /\ DataOK /\ Depth \in Nat \ {0} /\ Running = cs[Depth] /\ Moves /\ Effects
      /\ DataOK' /\ cs[1].k = "main" /\ Depth \in 1 .. Depth
  BY TypeParts, TypePartsNext, StackFacts, SynchronousSteps DEF Ready, Summary, StackOK
<1>1. cs'[1].pc # "jumped" => cs[1].pc # "jumped"
  <2>1. CASE Depth = 1
    <3>1. Running.k = "main"
      BY <1>0, <2>1
    <3> QED
      BY <1>0, <2>1, <3>1, KindNamed DEF MainTop, MainRead, MainDone, Command, At
  <2>2. CASE Depth > 1
    BY <1>0, <2>2 DEF Moves, Below
  <2> QED
    BY <1>0, <2>1, <2>2
<1>2. /\ ~ SystemAdd /\ ~ SystemCleanup => (ReadingCmd' <=> ReadingCmd)
      /\ Running.k # "flush" => Flushing' = Flushing
  BY <1>0, ReadingMoves, FlushingMoves
<1>3. Running.k = "flush" => ~ SystemAdd /\ ~ SystemCleanup
  BY DEF SystemAdd, SystemCleanup, At
<1>4. ASSUME UlKept, Flushing' = Flushing, ReadingCmd' <=> ReadingCmd
      PROVE  Protected'
  BY <1>1, <1>4 DEF Protected, FlushPending, UlKept
<1>5. CASE FlushBegin /\ pager.flushing
  <2>1. LeaveStep /\ UlKept /\ Running.k = "flush"
    BY <1>5, FlushSteps
  <2> QED
    BY <1>0, <1>2, <1>3, <1>4, <1>5, <2>1, FlushingMoves
<1>6. CASE FlushClear
  <2>1. UlKept /\ Running.k = "flush"
    BY <1>6, FlushSteps
  <2> QED
    BY <1>0, <1>2, <1>3, <1>4, <1>6, <2>1, FlushingMoves
<1>7. CASE FlushBegin /\ ~ pager.flushing
  <2>1. /\ Running.k = "flush" /\ (GoesStep \/ CallStep)
        /\ pager'.flushing
    BY <1>7, FlushSteps
  <2>2. PICK x : ul' = Append(ul, x) /\ x.e = "flush" /\ ~ x.flushing
    BY <1>7, FlushSteps
  <2>3. ~ FlushPending
    BY <1>7 DEF Protected
  <2>4. Flushing = {} /\ Len(ul) \in {0, 1} /\ (ul # <<>> => ul[1].e = "cmd")
    BY <1>0, <2>3, NoFlush
  <2>5. ~ LeaveStep
    BY <1>0, <2>1 DEF LeaveStep, GoesStep, CallStep
  <2>6. Flushing' = {Depth}
    BY <1>0, <1>7, <2>4, <2>5, FlushingMoves
  <2>7. /\ Len(ul') = Len(ul) + 1 /\ ul'[Len(ul')] = x /\ ul' # <<>>
        /\ \A j \in 1 .. Len(ul) : ul'[j] = ul[j]
    BY <1>0, <2>2, UlFacts
  <2>8. FlushPending' /\ ~ ul'[Len(ul')].flushing
    <3>1. ul'[Len(ul')].e = "flush"
      BY <2>2, <2>7
    <3>2. ~ ul'[Len(ul')].flushing
      BY <2>2, <2>7, Zenon
    <3> QED
      BY <2>7, <3>1, <3>2 DEF FlushPending
  <2>9. ReadingCmd' <=> ReadingCmd
    BY <1>2, <1>3, <2>1
  <2>10. /\ \A j \in 1 .. Len(ul') : ul'[j].e = "cmd" => j = 1 /\ Len(ul) = 1
         /\ \A j \in 1 .. Len(ul') - 1 : ul'[j].e = "cmd"
    BY <1>0, <2>2, <2>4, <2>7, UlFacts
  <2>11. ReadingCmd => ul # <<>> /\ ul'[1].e = "cmd"
    BY <1>0, <2>7, UlFacts DEF Protected
  <2>12. ASSUME cs'[1].pc # "jumped", NEW j \in 1 .. Len(ul'), ul'[j].e = "cmd"
         PROVE  ReadingCmd
    <3>1. Len(ul) = 1 /\ 1 \in 1 .. Len(ul) /\ ul[1].e = "cmd"
      BY <1>0, <2>4, <2>10, <2>12, UlFacts
    <3> QED
      BY <1>1, <2>12, <3>1 DEF Protected
  <2> QED
    BY <2>1, <2>6, <2>7, <2>8, <2>9, <2>10, <2>11, <2>12 DEF Protected
<1>8. CASE FlushEnd
  <2>1. /\ Running.k = "flush" /\ Running.pc = "end" /\ ul' = Popped /\ ul # <<>>
        /\ pager'.flushing = ul[Len(ul)].flushing
    BY <1>8, FlushSteps
  <2>2. Depth \in Flushing
    BY <1>0, <2>1 DEF Flushing, Active
  <2>3. FlushPending /\ Flushing = {Depth}
    BY <2>2 DEF Protected
  <2>4. Flushing' = {}
    BY <1>0, <1>8, <2>3, FlushingMoves
  <2>5. /\ Len(ul') = Len(ul) - 1 /\ Len(ul) \in Nat \ {0}
        /\ \A j \in 1 .. Len(ul) - 1 : ul'[j] = ul[j]
    BY <1>0, <2>1, UlFacts
  <2>6. ~ pager'.flushing
    BY <2>1, <2>3 DEF Protected
  <2>7. \A j \in 1 .. Len(ul') : ul'[j].e = "cmd" /\ j = 1 /\ ul[j].e = "cmd"
                                 /\ j \in 1 .. Len(ul)
    BY <2>5 DEF Protected
  <2>8. ~ FlushPending'
    <3>1. ASSUME ul' # <<>> PROVE ul'[Len(ul')].e = "cmd"
      BY <1>0, <2>1, <2>5, <2>7, <3>1, UlFacts
    <3> QED
      BY <3>1 DEF FlushPending
  <2>9. ReadingCmd' <=> ReadingCmd
    BY <1>2, <1>3, <2>1
  <2>10. ReadingCmd => ul' # <<>> /\ ul'[1].e = "cmd"
    <3>1. ReadingCmd => ul[1].e = "cmd"
      BY DEF Protected
    <3>2. ReadingCmd => Len(ul) # 1
      BY <2>3, <3>1 DEF FlushPending
    <3> QED
      BY <1>0, <2>1, <2>5, <3>1, <3>2, UlFacts
  <2>11. cs'[1].pc # "jumped" => \A j \in 1 .. Len(ul') : ReadingCmd
    BY <1>1, <2>7 DEF Protected
  <2> QED
    BY <2>4, <2>6, <2>7, <2>8, <2>9, <2>10, <2>11, <2>5, SMTT(30) DEF Protected
<1>9. CASE SystemAdd
  <2>1. /\ Running.k = "system" /\ pager' = pager
        /\ Depth = 2 /\ ReadingCmd' /\ ~ ReadingCmd
    BY <1>0, <1>9, SystemSteps, ReadingMoves
  <2>2. PICK x : ul' = Append(ul, x) /\ x.e = "cmd"
    BY <1>9, SystemSteps
  <2>3. Flushing = {} /\ Flushing' = {}
    BY <1>0, <1>2, <2>1 DEF Flushing, Active
  <2>4. cs[1].pc = "run"
    BY <1>0, <2>1, Bottom
  <2>5. ul = <<>>
    <3>1. ~ FlushPending
      BY <2>3, <2>4 DEF Protected
    <3>2. ul # <<>> => 1 \in 1 .. Len(ul) /\ ul[1].e = "cmd"
      BY <1>0, <3>1, NoFlush, UlFacts
    <3> QED
      BY <2>1, <2>4, <3>2 DEF Protected
  <2>6. Len(ul') = 1 /\ ul'[1] = x /\ ul' # <<>>
    BY <1>0, <2>2, <2>5, UlFacts
  <2>7. ~ pager'.flushing /\ ~ FlushPending'
    BY <2>1, <2>2, <2>5, <2>6 DEF Protected, FlushPending
  <2> QED
    BY <2>1, <2>2, <2>3, <2>6, <2>7 DEF Protected
<1>10. CASE SystemCleanup
  <2>1. /\ Running.k = "system" /\ pager' = pager /\ ul' = Popped
        /\ Depth = 2 /\ ~ ReadingCmd' /\ ReadingCmd
    BY <1>0, <1>10, SystemSteps, ReadingMoves
  <2>2. Flushing = {} /\ Flushing' = {}
    BY <1>0, <1>2, <2>1 DEF Flushing, Active
  <2>3. cs[1].pc = "run"
    BY <1>0, <2>1, Bottom
  <2>4. ~ FlushPending
    BY <2>2, <2>3 DEF Protected
  <2>5. Len(ul) = 1 /\ ul # <<>>
    BY <1>0, <2>1, <2>4, NoFlush, UlFacts DEF Protected
  <2>6. ul' = <<>> /\ Len(ul') = 0
    BY <1>0, <2>1, <2>5, UlFacts
  <2>7. ~ pager'.flushing /\ ~ FlushPending'
    BY <2>1, <2>4, <2>6 DEF Protected, FlushPending
  <2> QED
    BY <2>1, <2>2, <2>6, <2>7 DEF Protected
<1>11. CASE ~ FlushBegin /\ ~ FlushClear /\ ~ FlushEnd /\ ~ SystemAdd /\ ~ SystemCleanup
  <2>1. UlKept /\ Running.k # "flush"
    BY <1>0, <1>11, KindNamed DEF Effects
  <2> QED
    BY <1>2, <1>4, <1>11, <2>1
<1> QED
  BY <1>5, <1>6, <1>7, <1>8, <1>9, <1>10, <1>11

LEMMA ProtectedNext ==
  ASSUME Ready, WellCalled, Protected, Next
  PROVE  Protected'
<1>0. TypeOK /\ DataOK /\ Depth \in Nat \ {0} /\ Depth = Len(cs)
  BY TypeParts, StackFacts DEF Ready
<1>1. CASE Synchronous
  BY <1>1, ProtectedMoves
<1>2. CASE MainJumped
  <2>1. Depth = 1 /\ cs[1].k = "main" /\ cs[1].pc = "jumped"
    BY <1>0, <1>2, JumpedStep, MainAlone, StackFacts, TypeParts DEF At
  <2>2. Flushing = {} /\ ~ ReadingCmd
    BY <2>1 DEF Flushing, Active, ReadingCmd
  <2>3. CASE ul = <<>>
    <3>1. Len(cs') = 1 /\ cs'[1].k = "main" /\ ul' = ul /\ pager' = pager
      BY <1>0, <1>2, <2>1, <2>3, JumpedStep
    <3>2. Flushing' = {} /\ ~ ReadingCmd'
      BY <3>1 DEF Flushing, Active, ReadingCmd, Depth
    <3>3. Len(ul') = 0 /\ ~ FlushPending' /\ ~ FlushPending
      BY <1>0, <2>3, <3>1, UlFacts DEF FlushPending
    <3> QED
      BY <3>1, <3>2, <3>3 DEF Protected
  <2>4. CASE ul # <<>> /\ ul[Len(ul)].e = "flush"
    <3>1. cs' = cs /\ ul' = Popped /\ pager'.flushing = ul[Len(ul)].flushing
      BY <1>0, <1>2, <2>4, JumpedStep
    <3>2. Flushing' = {} /\ ~ ReadingCmd' /\ cs'[1].pc = "jumped"
      BY <2>1, <2>2, <3>1 DEF Flushing, Active, ReadingCmd, Depth
    <3>3. FlushPending /\ ~ pager'.flushing
      BY <2>4, <3>1 DEF Protected, FlushPending
    <3>4. /\ Len(ul') = Len(ul) - 1 /\ Len(ul) \in Nat \ {0}
          /\ \A j \in 1 .. Len(ul) - 1 : ul'[j] = ul[j]
      <4>1. Len(ul) \in Nat \ {0} /\ ul # <<>>
        BY <1>0, <2>4, UlFacts
      <4>2. /\ Len(Popped) = Len(ul) - 1
            /\ \A j \in 1 .. Len(ul) - 1 : Popped[j] = ul[j]
        BY <1>0, <4>1, UlFacts
      <4>3. ul' = Popped
        BY <3>1
      <4> QED
        BY <4>1, <4>2, <4>3
    <3>5. \A j \in 1 .. Len(ul') : ul'[j].e = "cmd" /\ j = 1
      <4>1. \A j \in 1 .. Len(ul') : j \in 1 .. Len(ul) - 1 /\ j \in 1 .. Len(ul)
        BY <3>4
      <4>2. \A j \in 1 .. Len(ul) - 1 : ul[j].e = "cmd"
        BY DEF Protected
      <4>3. \A j \in 1 .. Len(ul) : ul[j].e = "cmd" => j = 1
        BY DEF Protected
      <4> QED
        BY <3>4, <4>1, <4>2, <4>3
    <3>6. ~ FlushPending'
      <4>1. ASSUME ul' # <<>> PROVE ul'[Len(ul')].e = "cmd"
        BY <1>0, <2>4, <3>1, <3>4, <3>5, <4>1, UlFacts
      <4> QED
        BY <4>1 DEF FlushPending
    <3> QED
      BY <3>2, <3>3, <3>4, <3>5, <3>6 DEF Protected
  <2>5. CASE ul # <<>> /\ ul[Len(ul)].e # "flush"
    <3>1. /\ ul' = Popped /\ pager' = pager /\ Len(cs') = 2
          /\ cs'[1].k = "main" /\ cs'[1].pc = "jumped"
          /\ cs'[2] = FrameOf("cleancmd", None)
      <4>1. /\ ul' = Popped /\ pager' = pager /\ Len(cs') = Depth + 1
            /\ cs'[Depth].k = "main" /\ cs'[Depth].pc = "jumped"
            /\ cs'[Depth + 1] = FrameOf("cleancmd", None)
        BY <1>0, <1>2, <2>5, JumpedStep
      <4>2. Depth + 1 = 2
        BY <2>1
      <4> QED
        BY <2>1, <4>1, <4>2
    <3>2. cs'[2].k = "cleancmd"
      BY <3>1 DEF FrameOf
    <3>3. Flushing' = {} /\ ~ ReadingCmd'
      <4>1. Depth' = 2
        BY <3>1 DEF Depth
      <4>2. \A i \in 1 .. 2 : ~ Active(cs'[i])
        BY <3>1, <3>2 DEF Active
      <4> QED
        BY <3>2, <4>1, <4>2 DEF Flushing, Active, ReadingCmd, Reading
    <3>4. ~ FlushPending /\ Len(ul) = 1
      BY <1>0, <2>5, NoFlush, UlFacts DEF FlushPending
    <3>5. ul' = <<>> /\ Len(ul') = 0
      BY <1>0, <2>5, <3>1, <3>4, UlFacts
    <3>6. ~ pager'.flushing /\ ~ FlushPending'
      BY <3>1, <3>4, <3>5 DEF Protected, FlushPending
    <3> QED
      BY <3>1, <3>3, <3>5, <3>6 DEF Protected
  <2> QED
    BY <2>3, <2>4, <2>5
<1>3. CASE SigchldBegin
  <2>1. /\ Len(cs') = Depth + 1 /\ \A i \in 1 .. Depth : cs'[i] = cs[i]
        /\ cs'[Depth + 1].k = "chld" /\ ul' = ul /\ pager' = pager
    BY <1>0, <1>3, HandlerStep
  <2>2. Depth' = Depth + 1
    BY <2>1 DEF Depth
  <2>3. \A i \in 1 .. Depth + 1 : i \in 1 .. Depth \/ i = Depth + 1
    BY <1>0
  <2>4. ~ Active(cs'[Depth + 1])
    BY <2>1 DEF Active
  <2>5. Flushing' = Flushing
    <3>1. \A i : i \in Flushing' <=> i \in 1 .. Depth + 1 /\ Active(cs'[i])
      BY <2>2 DEF Flushing, Active
    <3>2. \A i : i \in Flushing <=> i \in 1 .. Depth /\ Active(cs[i])
      BY DEF Flushing
    <3>3. \A i \in 1 .. Depth : i \in 1 .. Depth + 1 /\ (Active(cs'[i]) <=> Active(cs[i]))
      BY <1>0, <2>1 DEF Active
    <3> QED
      BY <2>3, <2>4, <3>1, <3>2, <3>3
  <2>6. ReadingCmd' <=> ReadingCmd
    <3>1. ReadingCmd' <=> Depth + 1 > 1 /\ Reading(cs'[2])
      BY <2>2 DEF ReadingCmd, Reading
    <3>2. CASE Depth = 1
      BY <2>1, <3>1, <3>2 DEF ReadingCmd, Reading
    <3>3. CASE Depth > 1
      <4>1. cs'[2] = cs[2]
        BY <1>0, <2>1, <3>3
      <4> QED
        BY <1>0, <3>1, <3>3, <4>1 DEF ReadingCmd, Reading
    <3> QED
      BY <1>0, <3>2, <3>3
  <2>7. cs'[1].pc = cs[1].pc
    BY <1>0, <2>1
  <2> QED
    BY <2>1, <2>5, <2>6, <2>7 DEF Protected, FlushPending
<1>4. CASE Interrupt
  <2>1. /\ Len(cs') = 1 /\ cs'[1].k = "main" /\ cs'[1].pc = "jumped"
        /\ ul' = ul /\ pager' = pager
    BY <1>0, <1>4, InterruptStep
  <2>2. Flushing' = {} /\ ~ ReadingCmd'
    <3>1. Depth' = 1
      BY <2>1 DEF Depth
    <3>2. \A i \in 1 .. 1 : ~ Active(cs'[i])
      BY <2>1 DEF Active
    <3> QED
      BY <3>1, <3>2 DEF Flushing, Active, ReadingCmd
  <2>3. FlushPending' <=> FlushPending
    BY <2>1 DEF FlushPending
  <2> QED
    BY <2>1, <2>2, <2>3 DEF Protected
<1>5. CASE \E p : Die(p)
  <2>1. cs' = cs /\ ul' = ul /\ pager' = pager
    BY <1>0, <1>5, DieStep
  <2>2. Flushing' = Flushing /\ (ReadingCmd' <=> ReadingCmd)
    BY <2>1 DEF Flushing, Active, ReadingCmd, Reading, Depth
  <2> QED
    BY <2>1, <2>2 DEF Protected, FlushPending
<1> QED
  BY <1>1, <1>2, <1>3, <1>4, <1>5, Steps

-----------------------------------------------------------------------------
(***************************************************************************)
(* The gnuplots that are started                                           *)
(***************************************************************************)

LEMMA OpenSteps ==
  ASSUME Ready
  PROVE  /\ OpenplotNew => \/ /\ Born("plot") /\ plot' = plot
                              /\ cs'[Depth].pc = "assign" /\ cs'[Depth].p = Len(proc) + 1
                           \/ proc' = proc /\ plot' = plot /\ cs'[Depth].pc = "done"
         /\ OpenplotAssign => /\ proc' = proc /\ list' = list /\ cs'[Depth].pc = "insert"
                              /\ Len(cs') = Depth /\ plot'.obj = Running.p
                              /\ plot'.was = plot.was \cup {Running.p}
<1>0. StackOK /\ ProcOK /\ SigOK
      /\ plot \in [obj : Pid, ok : BOOLEAN, pid : Pid, was : SUBSET Pid]
  BY TypeParts DEF Ready, DataOK
<1>1. ASSUME OpenplotNew
      PROVE  \/ /\ Born("plot") /\ plot' = plot
                /\ cs'[Depth].pc = "assign" /\ cs'[Depth].p = Len(proc) + 1
             \/ proc' = proc /\ plot' = plot /\ cs'[Depth].pc = "done"
  <2>1. PICK p \in 1 .. MaxPid \cup {Failed} :
          /\ Spawn("plot", p) /\ plot' = plot
          /\ IF p > 0
             THEN cs' = Top([Running EXCEPT !.pc = "assign", !.p = p])
             ELSE Call(FrameOf("error", None), "done")
    BY <1>1 DEF OpenplotNew
  <2>2. \/ p = Len(proc) + 1 /\ p > 0 /\ Born("plot")
        \/ p < 0 /\ proc' = proc
    BY <1>0, <2>1, SpawnBorn DEF Handlers
  <2>3. At("openplot", "new") /\ p \in Pid
    BY <1>0, <1>1, <2>1, SpawnBorn DEF OpenplotNew, Handlers
  <2>5. CASE p = Len(proc) + 1 /\ p > 0 /\ Born("plot")
    <3>1. PICK fr : fr = [Running EXCEPT !.pc = "assign", !.p = p]
      OBVIOUS
    <3>2. fr \in Frame /\ fr.k = Running.k /\ fr.pc = "assign" /\ fr.p = p
      BY <1>0, <2>3, <3>1, StackFacts DEF Frame, Pcs, At
    <3>3. cs' = Top(fr)
      BY <2>1, <2>5, <3>1
    <3>4. cs'[Depth] = fr
      BY <1>0, <3>2, <3>3, TopFacts
    <3> QED
      BY <2>1, <2>5, <3>2, <3>4
  <2>6. CASE p < 0 /\ proc' = proc
    <3>1. Call(FrameOf("error", None), "done") /\ plot' = plot
      <4>1. p \in Int
        BY <2>3 DEF Pid, Failed
      <4>2. ~ (p > 0)
        BY <2>6, <4>1
      <4> QED
        BY <2>1, <4>2
    <3>2. /\ CallSite(Running.k, "done", "error")
          /\ "error" \in FrameKinds \ {"wait", "insert", "remove"} /\ None \in Pid
          /\ "done" \in Pcs /\ <<Running.k, Running.pc, "done">> \in Goings
      BY <2>3 DEF At, CallSite, CallSites, FrameKinds, Pid, None, Pcs, Goings
    <3>3. cs'[Depth].pc = "done"
      BY <1>0, <3>1, <3>2, CallStacked
    <3> QED
      BY <2>6, <3>1, <3>3
  <2> QED
    BY <2>2, <2>5, <2>6
<1>2. ASSUME OpenplotAssign
      PROVE  /\ proc' = proc /\ list' = list /\ cs'[Depth].pc = "insert"
             /\ Len(cs') = Depth /\ plot'.obj = Running.p
             /\ plot'.was = plot.was \cup {Running.p}
  <2>1. /\ At("openplot", "assign") /\ Goto("insert") /\ proc' = proc /\ list' = list
        /\ plot' = [plot EXCEPT !.obj = Running.p, !.ok = TRUE, !.was = @ \cup {Running.p}]
    BY <1>2 DEF OpenplotAssign
  <2>2. "insert" \in Pcs /\ <<Running.k, Running.pc, "insert">> \in Goings
    BY <2>1 DEF At, Pcs, Goings
  <2>3. cs'[Depth].pc = "insert" /\ Len(cs') = Depth
    BY <1>0, <2>1, <2>2, GotoMoves DEF GoesStep
  <2> QED
    BY <1>0, <2>1, <2>3
<1> QED
  BY <1>1, <1>2

\* The processes and the frames that these facts are about stay.
LEMMA NewPlotsKept ==
  ASSUME NewPlots, plot'.was = plot.was, Len(proc) \in Nat, Len(proc') \in Nat,
         Len(proc) <= Len(proc'),
         \A p \in 1 .. Len(proc) : proc'[p].kind = proc[p].kind,
         \A p \in 1 .. Len(proc') : proc'[p].kind = "plot" => p \in 1 .. Len(proc),
         intr' = 0 => intr = 0,
         \A i \in 1 .. Len(cs') : Starts(cs'[i]) => i \in 1 .. Depth /\ cs'[i] = cs[i],
         intr' = 0 => \A i \in 1 .. Depth : Starts(cs[i]) =>
                        i \in 1 .. Len(cs') /\ cs'[i] = cs[i]
  PROVE  NewPlots'
<1>1. plot'.was \subseteq 1 .. Len(proc')
  BY DEF NewPlots
<1>2. ASSUME NEW i \in 1 .. Len(cs'), Starts(cs'[i])
      PROVE  cs'[i].p \in 1 .. Len(proc') /\ proc'[cs'[i].p].kind = "plot"
  <2>1. i \in 1 .. Depth /\ cs'[i] = cs[i]
    BY <1>2
  <2>2. cs[i].p \in 1 .. Len(proc) /\ proc[cs[i].p].kind = "plot"
    BY <1>2, <2>1 DEF NewPlots
  <2> QED
    BY <2>1, <2>2
<1>3. ASSUME intr' = 0, NEW p \in 1 .. Len(proc'), proc'[p].kind = "plot"
      PROVE  p \in plot'.was \/ \E i \in 1 .. Len(cs') : Starts(cs'[i]) /\ cs'[i].p = p
  <2>1. p \in 1 .. Len(proc) /\ proc[p].kind = "plot" /\ intr = 0
    BY <1>3
  <2>2. p \in plot.was \/ \E i \in 1 .. Depth : Starts(cs[i]) /\ cs[i].p = p
    BY <2>1 DEF NewPlots
  <2>3. ASSUME NEW i \in 1 .. Depth, Starts(cs[i]), cs[i].p = p
        PROVE  \E j \in 1 .. Len(cs') : Starts(cs'[j]) /\ cs'[j].p = p
    <3>1. i \in 1 .. Len(cs') /\ cs'[i] = cs[i]
      BY <1>3, <2>3
    <3> QED
      BY <2>3, <3>1
  <2> QED
    BY <2>2, <2>3
<1> QED
  BY <1>1, <1>2, <1>3 DEF NewPlots, Depth, Starts

\* No step that is not Octave's own starts one.
LEMMA NewPlotsAside ==
  ASSUME NewPlots, ProcOK, Older(proc'), plot' = plot, intr' = 0 => intr = 0,
         \A i \in 1 .. Len(cs') : Starts(cs'[i]) => i \in 1 .. Depth /\ cs'[i] = cs[i],
         intr' = 0 => \A i \in 1 .. Depth : Starts(cs[i]) =>
                        i \in 1 .. Len(cs') /\ cs'[i] = cs[i]
  PROVE  NewPlots'
<1>1. Len(proc) \in Nat /\ Len(proc') = Len(proc)
      /\ \A p \in 1 .. Len(proc) : proc'[p].kind = proc[p].kind
  BY ProcFacts DEF Older
<1> QED
  BY <1>1, NewPlotsKept

LEMMA NewPlotsMoves ==
  ASSUME Ready, NewPlots, Synchronous
  PROVE  NewPlots'
<1>0. /\ Summary /\ Moves /\ Effects /\ Named /\ ProcOK /\ Depth \in Nat \ {0}
      /\ Running = cs[Depth] /\ Len(proc) \in Nat /\ intr' = intr
      /\ \A i \in 1 .. Depth - 1 : cs'[i] = cs[i] /\ i \in 1 .. Depth /\ i \in 1 .. Len(cs')
  <2>1. /\ Summary /\ Moves /\ Effects /\ Named /\ ProcOK /\ Depth \in Nat \ {0}
        /\ Running = cs[Depth] /\ Len(proc) \in Nat
    BY SynchronousSteps, TypeParts, StackFacts, ProcFacts DEF Ready, Summary
  <2>2. Len(cs') \in {Depth - 1, Depth, Depth + 1}
    BY <2>1 DEF Moves, GoesStep, CallStep, LeaveStep, SwapStep
  <2> QED
    BY <2>1, <2>2 DEF Moves, Below, Effects
<1>1. ASSUME NEW i \in 1 .. Len(cs'), Starts(cs'[i])
      PROVE  \/ i \in 1 .. Depth - 1
             \/ i = Depth /\ OpenplotNew
  <2>1. CASE GoesStep \/ CallStep
    <3>1. i \in 1 .. Depth - 1 \/ i = Depth \/ (CallStep /\ i = Depth + 1)
      BY <1>0, <2>1 DEF GoesStep, CallStep
    <3>2. CallStep => ~ Starts(cs'[Depth + 1])
      BY DEF CallStep, Enters, Starts
    <3>3. i = Depth => At("openplot", "new")
      BY <1>1, <2>1 DEF GoesStep, CallStep, GoesOn, Goings, Starts, At
    <3> QED
      BY <1>0, <1>1, <3>1, <3>2, <3>3 DEF Named
  <2>2. CASE LeaveStep
    BY <1>0, <2>2 DEF LeaveStep
  <2>3. CASE SwapStep
    <3>1. ~ Starts(cs'[Depth])
      BY <2>3 DEF SwapStep, FrameOf, Starts
    <3> QED
      BY <1>0, <1>1, <2>3, <3>1 DEF SwapStep
  <2> QED
    BY <1>0, <2>1, <2>2, <2>3 DEF Moves
<1>2. \A i \in 1 .. Depth : i \in 1 .. Depth - 1 \/ i = Depth
  BY <1>0
<1>3. CASE OpenplotNew /\ Born("plot") /\ cs'[Depth].pc = "assign"
  <2>1. plot' = plot /\ cs'[Depth].p = Len(proc) + 1
    BY <1>3, OpenSteps
  <2>2. At("openplot", "new")
    BY <1>3 DEF OpenplotNew
  <2>3. ~ Starts(Running)
    BY <2>2 DEF At, Starts
  <2>4. Depth \in 1 .. Len(cs') /\ Starts(cs'[Depth])
    <3>1. GoesStep \/ CallStep
      <4>1. ~ SwapStep
        BY <2>2 DEF SwapStep, At
      <4>2. ~ LeaveStep
        <5>1. PICK p : cs' = Top([Running EXCEPT !.pc = "assign", !.p = p])
                       \/ Call(FrameOf("error", None), "done")
          BY <1>3 DEF OpenplotNew
        <5>2. \A fr : Len(Top(fr)) = Depth
          BY TypeParts DEF Ready, Top, StackOK, Depth
        <5>3. \A fr : Len(Append(Top(fr), FrameOf("error", None))) = Depth + 1
          BY TypeParts DEF Ready, Top, StackOK, Depth
        <5> QED
          BY <1>0, <5>1, <5>2, <5>3 DEF LeaveStep, Call, Calling
      <4> QED
        BY <1>0, <4>1, <4>2 DEF Moves
    <3> QED
      BY <1>0, <1>3, <2>2, <3>1 DEF GoesStep, CallStep, GoesOn, At, Starts
  <2>5. /\ Len(proc') = Len(proc) + 1 /\ proc'[Len(proc) + 1].kind = "plot"
        /\ \A p \in 1 .. Len(proc) : proc'[p] = proc[p]
    BY <1>3 DEF Born
  <2>6. plot'.was \subseteq 1 .. Len(proc')
    BY <1>0, <2>1, <2>5 DEF NewPlots
  <2>7. ASSUME NEW i \in 1 .. Len(cs'), Starts(cs'[i])
        PROVE  cs'[i].p \in 1 .. Len(proc') /\ proc'[cs'[i].p].kind = "plot"
    <3>1. CASE i \in 1 .. Depth - 1
      <4>1. cs[i].p \in 1 .. Len(proc) /\ proc[cs[i].p].kind = "plot" /\ cs'[i] = cs[i]
        BY <1>0, <2>7, <3>1 DEF NewPlots
      <4> QED
        BY <1>0, <2>5, <4>1
    <3>2. CASE i = Depth
      BY <1>0, <2>1, <2>5, <3>2
    <3> QED
      BY <1>1, <2>7, <3>1, <3>2
  <2>8. ASSUME intr' = 0, NEW p \in 1 .. Len(proc'), proc'[p].kind = "plot"
        PROVE  p \in plot'.was \/ \E i \in 1 .. Len(cs') : Starts(cs'[i]) /\ cs'[i].p = p
    <3>1. CASE p \in 1 .. Len(proc)
      <4>1. p \in plot.was \/ \E i \in 1 .. Depth : Starts(cs[i]) /\ cs[i].p = p
        BY <1>0, <2>5, <2>8, <3>1 DEF NewPlots
      <4> QED
        BY <1>0, <1>2, <2>1, <2>3, <4>1
    <3>2. CASE p = Len(proc) + 1
      BY <2>1, <2>4, <3>2
    <3> QED
      BY <1>0, <2>5, <3>1, <3>2
  <2> QED
    BY <2>6, <2>7, <2>8 DEF NewPlots, Depth, Starts
<1>4. CASE OpenplotAssign
  <2>1. /\ proc' = proc /\ cs'[Depth].pc = "insert" /\ Len(cs') = Depth
        /\ plot'.was = plot.was \cup {Running.p}
    BY <1>4, OpenSteps
  <2>2. At("openplot", "assign")
    BY <1>4 DEF OpenplotAssign
  <2>3. Running.p \in 1 .. Len(proc)
    BY <1>0, <2>2 DEF NewPlots, Starts, At
  <2>4. ~ OpenplotNew
    BY <2>2 DEF OpenplotNew, At
  <2>5. plot'.was \subseteq 1 .. Len(proc')
    BY <2>1, <2>3 DEF NewPlots
  <2>6. ASSUME NEW i \in 1 .. Len(cs'), Starts(cs'[i])
        PROVE  cs'[i].p \in 1 .. Len(proc') /\ proc'[cs'[i].p].kind = "plot"
    <3>1. i \in 1 .. Depth - 1
      BY <1>1, <2>4, <2>6
    <3>2. cs'[i] = cs[i] /\ i \in 1 .. Depth
      BY <1>0, <3>1
    <3> QED
      BY <2>1, <2>6, <3>2 DEF NewPlots
  <2>7. ASSUME intr' = 0, NEW p \in 1 .. Len(proc'), proc'[p].kind = "plot"
        PROVE  p \in plot'.was \/ \E i \in 1 .. Len(cs') : Starts(cs'[i]) /\ cs'[i].p = p
    <3>1. p \in plot.was \/ \E i \in 1 .. Depth : Starts(cs[i]) /\ cs[i].p = p
      BY <1>0, <2>1, <2>7 DEF NewPlots
    <3>2. ASSUME NEW i \in 1 .. Depth, Starts(cs[i]), cs[i].p = p
          PROVE  p \in plot'.was \/ \E j \in 1 .. Len(cs') : Starts(cs'[j]) /\ cs'[j].p = p
      <4>1. CASE i = Depth
        BY <1>0, <2>1, <3>2, <4>1
      <4>2. CASE i \in 1 .. Depth - 1
        <5>1. cs'[i] = cs[i] /\ i \in 1 .. Len(cs')
          BY <1>0, <4>2
        <5> QED
          BY <3>2, <5>1
      <4> QED
        BY <1>2, <4>1, <4>2
    <3> QED
      BY <2>1, <3>1, <3>2
  <2> QED
    BY <2>5, <2>6, <2>7 DEF NewPlots, Depth, Starts
<1>5. CASE ~ OpenplotAssign /\ ~ (OpenplotNew /\ Born("plot") /\ cs'[Depth].pc = "assign")
  <2>1. plot'.was = plot.was
    BY <1>0, <1>5 DEF Effects
  <2>2. Older(proc') \/ \E k : k # "plot" /\ Born(k)
    <3>1. ASSUME OpenplotNew PROVE Older(proc')
      <4>1. proc' = proc
        BY <1>5, <3>1, OpenSteps
      <4> QED
        BY <1>0, <4>1, ProcFacts
    <3> QED
      BY <1>0, <3>1 DEF Effects
  <2>3. /\ Len(proc') \in Nat /\ Len(proc) <= Len(proc')
        /\ \A p \in 1 .. Len(proc) : proc'[p].kind = proc[p].kind
        /\ \A p \in 1 .. Len(proc') : proc'[p].kind = "plot" => p \in 1 .. Len(proc)
    <3>1. CASE Older(proc')
      BY <1>0, <3>1 DEF Older
    <3>2. ASSUME NEW k, k # "plot", Born(k)
          PROVE  /\ Len(proc') \in Nat /\ Len(proc) <= Len(proc')
                 /\ \A p \in 1 .. Len(proc) : proc'[p].kind = proc[p].kind
                 /\ \A p \in 1 .. Len(proc') : proc'[p].kind = "plot" => p \in 1 .. Len(proc)
      <4>1. Len(proc') = Len(proc) + 1 /\ proc'[Len(proc) + 1].kind # "plot"
            /\ \A p \in 1 .. Len(proc) : proc'[p] = proc[p]
        BY <3>2 DEF Born
      <4>2. \A p \in 1 .. Len(proc') : p \in 1 .. Len(proc) \/ p = Len(proc) + 1
        BY <1>0, <4>1
      <4> QED
        BY <1>0, <4>1, <4>2
    <3> QED
      BY <2>2, <3>1, <3>2
  <2>4. ~ Starts(Running)
    BY <1>0, <1>5 DEF Named, Starts, At
  <2>5. ASSUME NEW i \in 1 .. Len(cs'), Starts(cs'[i])
        PROVE  i \in 1 .. Depth /\ cs'[i] = cs[i]
    <3>1. i # Depth
      <4>1. ASSUME OpenplotNew, i = Depth PROVE FALSE
        BY <1>5, <2>5, <4>1, OpenSteps DEF Starts
      <4> QED
        BY <1>1, <2>5, <4>1
    <3>2. i \in 1 .. Depth - 1
      BY <1>1, <2>5, <3>1
    <3> QED
      BY <1>0, <3>2
  <2>6. \A i \in 1 .. Depth : Starts(cs[i]) => i \in 1 .. Len(cs') /\ cs'[i] = cs[i]
    BY <1>0, <1>2, <2>4
  <2> QED
    BY <1>0, <2>1, <2>3, <2>5, <2>6, NewPlotsKept
<1> QED
  BY <1>3, <1>4, <1>5

LEMMA NewPlotsNext ==
  ASSUME TypeOK, WellCalled, FramesOK, Protected, NewPlots, Next
  PROVE  NewPlots'
<1>0. Ready /\ Depth \in Nat \ {0} /\ ProcOK /\ Older(proc) /\ Depth = Len(cs)
  BY InvReady, TypeParts, StackFacts, ProcFacts
<1>1. CASE Synchronous
  BY <1>0, <1>1, NewPlotsMoves
<1>2. CASE MainJumped
  <2>1. /\ Depth = 1 /\ plot' = plot /\ proc' = proc /\ intr' = intr /\ cs[1].k = "main"
    BY <1>0, <1>2, JumpedStep, MainAlone, StackFacts, TypeParts DEF At
  <2>2. \/ Len(cs') = Depth /\ cs'[Depth].k = "main"
        \/ cs' = cs
        \/ /\ Len(cs') = Depth + 1 /\ cs'[Depth].k = "main"
           /\ cs'[Depth + 1] = FrameOf("cleancmd", None)
    BY <1>0, <1>2, JumpedStep
  <2>3. \A i \in 1 .. Depth : cs[i].k = "main"
    BY <2>1
  <2>4. \A i \in 1 .. Len(cs') : cs'[i].k \in {"main", "cleancmd"}
    <3>1. CASE cs' = cs
      BY <1>0, <2>3, <3>1
    <3>2. CASE Len(cs') = Depth /\ cs'[Depth].k = "main"
      BY <2>1, <3>2
    <3>3. CASE /\ Len(cs') = Depth + 1 /\ cs'[Depth].k = "main"
               /\ cs'[Depth + 1] = FrameOf("cleancmd", None)
      <4>1. FrameOf("cleancmd", None).k = "cleancmd" /\ Depth + 1 = 2
        BY <2>1 DEF FrameOf
      <4>2. \A i \in 1 .. 2 : i = 1 \/ i = 2
        OBVIOUS
      <4> QED
        BY <2>1, <3>3, <4>1, <4>2
    <3> QED
      BY <2>2, <3>1, <3>2, <3>3
  <2>5. /\ \A i \in 1 .. Depth : ~ Starts(cs[i])
        /\ \A i \in 1 .. Len(cs') : ~ Starts(cs'[i])
    BY <2>3, <2>4 DEF Starts
  <2> QED
    BY <1>0, <2>1, <2>5, NewPlotsAside
<1>3. CASE SigchldBegin
  <2>1. /\ Len(cs') = Depth + 1 /\ \A i \in 1 .. Depth : cs'[i] = cs[i]
        /\ cs'[Depth + 1].k = "chld" /\ plot' = plot /\ proc' = proc /\ intr' = intr
    BY <1>0, <1>3, HandlerStep
  <2>2. ~ Starts(cs'[Depth + 1])
    BY <2>1 DEF Starts
  <2>3. \A i \in 1 .. Len(cs') : i \in 1 .. Depth \/ i = Depth + 1
    BY <1>0, <2>1
  <2>4. \A i \in 1 .. Depth : i \in 1 .. Len(cs')
    BY <1>0, <2>1
  <2> QED
    BY <1>0, <2>1, <2>2, <2>3, <2>4, NewPlotsAside
<1>4. CASE Interrupt
  <2>1. Len(cs') = 1 /\ cs'[1].k = "main" /\ plot' = plot /\ proc' = proc /\ intr' > 0
    BY <1>0, <1>4, InterruptStep
  <2>2. \A i \in 1 .. Len(cs') : ~ Starts(cs'[i])
    BY <2>1 DEF Starts
  <2>3. intr' # 0
    BY <2>1
  <2> QED
    BY <1>0, <2>1, <2>2, <2>3, NewPlotsAside
<1>5. CASE \E p : Die(p)
  <2>1. cs' = cs /\ plot' = plot /\ Older(proc') /\ intr' = intr
    BY <1>0, <1>5, DieStep
  <2> QED
    BY <1>0, <2>1, NewPlotsAside
<1> QED
  BY <1>1, <1>2, <1>3, <1>4, <1>5, Steps

-----------------------------------------------------------------------------
(***************************************************************************)
(* Types                                                                   *)
(***************************************************************************)

LEMMA InitStack ==
  ASSUME Init
  PROVE  /\ StackOK /\ Depth = 1 /\ cs[1].k = "main" /\ cs[1].pc = "top"
         /\ Running = cs[1]
<1>1. PICK fr : fr = [FrameOf("main", None) EXCEPT !.pc = "top"]
  OBVIOUS
<1>2. fr \in Frame /\ fr.k = "main" /\ fr.pc = "top"
  BY <1>1 DEF FrameOf, None, Frame, FrameKinds, Pcs, Pid, Handlers, IntDisp, ChldDisp
<1>3. cs = <<fr>>
  BY <1>1 DEF Init
<1>4. cs \in Seq(Frame) /\ Len(cs) = 1 /\ cs[1] = fr /\ cs # <<>>
  BY <1>2, <1>3
<1> QED
  BY <1>2, <1>4 DEF StackOK, Depth, Running

LEMMA TypeInit ==
  ASSUME Init
  PROVE  TypeInv
<1>1. /\ ul = <<>> /\ proc = <<>> /\ list = <<>>
      /\ sig = [int |-> "catch", chld |-> "handler", pend |-> FALSE]
      /\ pager = [obj |-> None, ok |-> FALSE, pid |-> Failed, saved |-> "catch",
              isSaved |-> FALSE, flushing |-> FALSE, really |-> FALSE, buf |-> FALSE]
      /\ plot = [obj |-> None, ok |-> FALSE, pid |-> 0, was |-> {}]
      /\ cmd = [obj |-> None, open |-> FALSE, pid |-> Failed, status |-> "-1", result |-> "-1"]
      /\ err = FALSE /\ intr = 0
  BY DEF Init
<1>2. /\ pager \in [obj : Pid, ok : BOOLEAN, pid : Pid, saved : IntDisp,
                isSaved : BOOLEAN, flushing : BOOLEAN, really : BOOLEAN, buf : BOOLEAN]
      /\ ~ pager.flushing
  BY <1>1 DEF Pid, None, Failed, IntDisp
<1>3. plot \in [obj : Pid, ok : BOOLEAN, pid : Pid, was : SUBSET Pid]
  BY <1>1 DEF Pid, None
<1>4. cmd \in [obj : Pid, open : BOOLEAN, pid : Pid, status : Status, result : Status]
  BY <1>1 DEF Pid, None, Failed, Status
<1>5. ul \in Seq(Saved) /\ list \in Seq(Slot) /\ ProcOK /\ SigOK /\ Len(ul) = 0
  BY <1>1 DEF ProcOK, SigOK, IntDisp, ChldDisp
<1>6. DataOK
  <2>1. err \in BOOLEAN
    BY <1>1
  <2>2. intr \in 0 .. MaxIntr
    BY <1>1, BoundAssumption
  <2> QED
    BY <1>2, <1>3, <1>4, <1>5, <2>1, <2>2 DEF DataOK
<1>7. TypeOK
  BY <1>5, <1>6, InitStack, TypeParts
<1>8. WellCalled
  BY InitStack DEF WellCalled
<1>9. FramesOK
  BY InitStack DEF FramesOK, FrameOK
<1>10. Protected
  <2>1. Flushing = {} /\ ~ ReadingCmd
    BY InitStack DEF Flushing, Active, ReadingCmd
  <2>2. ~ FlushPending
    BY <1>1 DEF FlushPending
  <2> QED
    BY <1>1, <1>2, <1>5, <2>1, <2>2 DEF Protected
<1>11. NewPlots
  <2>1. Len(proc) = 0 /\ plot.was = {}
    BY <1>1
  <2>2. \A i \in 1 .. Depth : ~ Starts(cs[i])
    BY InitStack DEF Starts
  <2> QED
    BY <2>1, <2>2 DEF NewPlots
<1> QED
  BY <1>7, <1>8, <1>9, <1>10, <1>11 DEF TypeInv

LEMMA TypeNext ==
  ASSUME TypeInv, Next
  PROVE  TypeInv' /\ Ready
<1>1. TypeOK /\ WellCalled /\ FramesOK /\ Protected /\ NewPlots /\ Ready
  BY InvReady DEF TypeInv
<1>2. TypeOK' /\ WellCalled'
  BY <1>1, WellCalledNext
<1>3. FramesOK' /\ Protected' /\ NewPlots'
  BY <1>1, FramesNext, ProtectedNext, NewPlotsNext
<1> QED
  BY <1>1, <1>2, <1>3 DEF TypeInv

LEMMA TypeStutter ==
  ASSUME TypeInv, UNCHANGED vars
  PROVE  TypeInv'
<1>1. UNCHANGED <<cs, ul, proc, list, sig, pager, plot, cmd, err, intr>>
  BY DEF vars
<1>2. Depth' = Depth
  BY <1>1 DEF Depth
<1>3. TypeOK'
  BY <1>1 DEF TypeInv, TypeOK
<1>4. WellCalled'
  BY <1>1, <1>2 DEF TypeInv, WellCalled, Above
<1>5. FramesOK'
  BY <1>1, <1>2 DEF TypeInv, FramesOK, FrameOK
<1>6. Flushing' = Flushing /\ (ReadingCmd' <=> ReadingCmd)
      /\ (FlushPending' <=> FlushPending)
  BY <1>1, <1>2 DEF Flushing, Active, ReadingCmd, Reading, FlushPending
<1>7. Protected'
  BY <1>1, <1>6 DEF TypeInv, Protected
<1>8. NewPlots'
  BY <1>1, <1>2 DEF TypeInv, NewPlots, Starts
<1> QED
  BY <1>3, <1>4, <1>5, <1>7, <1>8 DEF TypeInv

LEMMA TypeInvariant == Spec => []TypeInv
<1>1. Init => TypeInv
  BY TypeInit
<1>2. TypeInv /\ [Next]_vars => TypeInv'
  BY TypeNext, TypeStutter
<1> QED
  BY <1>1, <1>2, PTL DEF Spec

\* Beyond the types: every frame of the C stack has been called by the one below it
\* or is the handler; none works on an element that octave_child_list does not have,
\* whatever was inserted and removed since it chose the element; and
\* unwind_protect_list holds what the frames have put there and nothing else, so that
\* each takes off its own.
THEOREM WellTyped == Spec => [](TypeOK /\ WellCalled /\ FramesOK /\ Protected)
<1>1. TypeInv => TypeOK /\ WellCalled /\ FramesOK /\ Protected
  BY DEF TypeInv
<1> QED
  BY <1>1, TypeInvariant, PTL

-----------------------------------------------------------------------------
(***************************************************************************)
(* The dispositions of SIGCHLD                                             *)
(***************************************************************************)

\* Only a wait, the handler and RestoreChld change what SIGCHLD does.
LEMMA ChldKept ==
  ASSUME SigOK, sig' = sig \/ MainTop \/ SyncOpen \/ SyncCheck \/ ClearDeleted \/ RestoreInt
  PROVE  sig'.chld = sig.chld
<1>1. \A x : [sig EXCEPT !.int = x].chld = sig.chld
  BY DEF SigOK
<1>2. sig' = sig \/ \E x : sig' = [sig EXCEPT !.int = x]
  <2>1. CASE MainTop
    BY <2>1 DEF MainTop
  <2>2. CASE SyncOpen
    BY <2>2 DEF SyncOpen
  <2>3. CASE SyncCheck
    BY <2>3 DEF SyncCheck, PagerLost
  <2>4. CASE ClearDeleted
    BY <2>4 DEF ClearDeleted
  <2>5. CASE RestoreInt
    BY <2>5 DEF RestoreInt
  <2> QED
    BY <2>1, <2>2, <2>3, <2>4, <2>5
<1> QED
  BY <1>1, <1>2

\* The handler and a wait end with RestoreChld.
LEMMA SaverLeaves ==
  ASSUME Ready, Synchronous, Saver(Running), LeaveStep
  PROVE  RestoreChld
<1>0. StackOK /\ Depth \in Nat
  BY TypeParts, StackFacts DEF Ready
<1>1. ASSUME SigchldOther \/ WaitReturns \/ RestoreInt PROVE FALSE
  <2>1. \E pc : Goto(pc)
    BY <1>1 DEF SigchldOther, WaitReturns, RestoreInt
  <2>2. Len(cs') = Depth
    BY <1>0, <2>1 DEF Goto, Top, Depth, StackOK
  <2> QED
    BY <1>0, <2>2 DEF LeaveStep
<1>2. ASSUME SigchldScan PROVE FALSE
  <2>1. \E fr, new : cs' = Top(fr) \/ cs' = Append(Top(fr), new)
    BY <1>2 DEF SigchldScan, RunHandler
  <2>2. PICK fr, new : cs' = Top(fr) \/ cs' = Append(Top(fr), new)
    BY <2>1
  <2>3. Len(Top(fr)) = Depth
    BY <1>0 DEF Top, Depth, StackOK
  <2>4. Len(Append(Top(fr), new)) = Len(Top(fr)) + 1
    OBVIOUS
  <2> QED
    BY <1>0, <2>2, <2>3, <2>4 DEF LeaveStep
<1> QED
  BY <1>1, <1>2, KindNamed

LEMMA RestoreChldStep ==
  ASSUME Ready, RestoreChld
  PROVE  LeaveStep /\ sig'.chld = Running.chld /\ Saver(Running)
<1>1. /\ Running.k \in {"chld", "wait"} /\ Return /\ sig' = [sig EXCEPT !.chld = Running.chld]
      /\ StackOK /\ SigOK
  BY TypeParts DEF RestoreChld, Ready
<1>2. Running.k # "main"
  BY <1>1
<1>3. LeaveStep
  BY <1>1, <1>2, ReturnMoves
<1> QED
  BY <1>1, <1>3 DEF Saver, SigOK

\* Who has ignored the signals after a step.
LEMMA SaversMoves ==
  ASSUME Ready, Synchronous, Moves
  PROVE  /\ ~ NewOf("wait") /\ ~ RestoreChld => Savers' = Savers
         /\ NewOf("wait") => /\ Savers' = Savers \cup {Depth + 1} /\ CallStep
                             /\ Depth + 1 \notin Savers
         /\ RestoreChld => Depth \in Savers /\ Savers' = Savers \ {Depth}
         /\ \A i \in Savers \cap Savers' : cs'[i].k = cs[i].k /\ cs'[i].chld = cs[i].chld
<1>0. Depth \in Nat \ {0} /\ Running = cs[Depth] /\ Depth \in 1 .. Depth
  BY TypeParts, StackFacts DEF Ready
<1> DEFINE S == {i \in 1 .. Len(cs') : Saver(cs'[i])}
<1>1. Savers' = S
  BY DEF Savers, Saver, Depth
<1>2. \A i \in 1 .. Depth - 1 : cs'[i] = cs[i]
  BY DEF Moves, Below
<1>3. \A i \in 1 .. Depth - 1 : i \in S <=> i \in Savers /\ i <= Len(cs')
  BY <1>0, <1>2 DEF Savers, Saver
<1>4. ASSUME CallStep
      PROVE  /\ Saver(cs'[Depth + 1]) <=> NewOf("wait")
             /\ Len(cs') = Depth + 1
  BY <1>4, Sites DEF CallStep, Enters, Saver, NewOf
<1>5. ASSUME GoesOn(cs'[Depth])
      PROVE  /\ Saver(cs'[Depth]) <=> Saver(Running)
             /\ cs'[Depth].k = Running.k /\ cs'[Depth].chld = Running.chld
  BY <1>5 DEF GoesOn, Saver
<1>6. Depth \in Savers <=> Saver(Running)
  BY <1>0 DEF Savers, Saver
<1>7. \A i \in Savers : i \in 1 .. Depth - 1 \/ i = Depth
  BY <1>0 DEF Savers
<1>8. CASE GoesStep
  <2>1. ~ NewOf("wait") /\ ~ RestoreChld
    BY <1>0, <1>8, RestoreChldStep DEF GoesStep, NewOf, LeaveStep
  <2>2. S = Savers
    BY <1>0, <1>3, <1>5, <1>6, <1>7, <1>8 DEF GoesStep
  <2>3. \A i \in Savers : cs'[i].k = cs[i].k /\ cs'[i].chld = cs[i].chld
    BY <1>0, <1>2, <1>5, <1>7, <1>8 DEF GoesStep
  <2> QED
    BY <1>1, <2>1, <2>2, <2>3
<1>9. CASE CallStep
  <2>1. ~ RestoreChld
    BY <1>0, <1>9, RestoreChldStep DEF CallStep, LeaveStep
  <2>2. S = IF NewOf("wait") THEN Savers \cup {Depth + 1} ELSE Savers
    BY <1>0, <1>3, <1>4, <1>5, <1>6, <1>7, <1>9 DEF CallStep
  <2>3. \A i \in Savers : cs'[i].k = cs[i].k /\ cs'[i].chld = cs[i].chld
    BY <1>0, <1>2, <1>5, <1>7, <1>9 DEF CallStep
  <2>4. Depth + 1 \notin Savers
    BY <1>0 DEF Savers
  <2> QED
    BY <1>1, <1>9, <2>1, <2>2, <2>3, <2>4
<1>10. CASE LeaveStep
  <2>1. ~ NewOf("wait") /\ Len(cs') = Depth - 1
    BY <1>0, <1>10 DEF NewOf, LeaveStep
  <2>2. S = Savers \ {Depth}
    BY <1>0, <1>3, <1>7, <2>1
  <2>3. \A i \in Savers \cap S : cs'[i].k = cs[i].k /\ cs'[i].chld = cs[i].chld
    BY <1>0, <1>2, <1>7, <2>1
  <2>4. RestoreChld <=> Depth \in Savers
    BY <1>6, <1>10, RestoreChldStep, SaverLeaves
  <2> QED
    BY <1>1, <2>1, <2>2, <2>3, <2>4
<1>11. CASE SwapStep
  <2>1. /\ Running.k = "remove" /\ cs'[Depth].k = "plotdeath" /\ Len(cs') = Depth
        /\ ~ NewOf("wait") /\ ~ RestoreChld
    BY <1>0, <1>11, RestoreChldStep DEF SwapStep, At, FrameOf, NewOf, LeaveStep
  <2>2. Depth \notin Savers /\ S = Savers
    BY <1>0, <1>3, <1>6, <1>7, <2>1 DEF Saver
  <2>3. \A i \in Savers : cs'[i].k = cs[i].k /\ cs'[i].chld = cs[i].chld
    BY <1>2, <1>7, <2>2
  <2> QED
    BY <1>1, <2>1, <2>2, <2>3
<1> QED
  BY <1>8, <1>9, <1>10, <1>11 DEF Moves

LEMMA SigchldMoves ==
  ASSUME Ready, SigchldKept, Synchronous
  PROVE  SigchldKept'
<1>0. /\ SigOK /\ Moves /\ Depth \in Nat \ {0} /\ intr' = intr /\ Running = cs[Depth]
      /\ \A i \in Savers : i \in 1 .. Depth
      /\ sig.chld \in {"handler", "ignore"}
  BY TypeParts, StackFacts, SynchronousSteps
  DEF Ready, Summary, Effects, Savers, SigOK, ChldDisp
<1>1. \A i \in Savers \cap Savers' : cs'[i].k = cs[i].k /\ cs'[i].chld = cs[i].chld
  BY <1>0, SaversMoves
<1>2. CASE ~ NewOf("wait") /\ ~ RestoreChld
  <2>1. Savers' = Savers
    BY <1>0, <1>2, SaversMoves
  <2>2. sig'.chld = sig.chld
    BY <1>0, <1>2, ChldKept, SynchronousSteps DEF Summary, Effects
  <2> QED
    BY <1>0, <1>1, <2>1, <2>2 DEF SigchldKept
<1>3. CASE NewOf("wait")
  <2>1. Savers' = Savers \cup {Depth + 1} /\ CallStep /\ Depth + 1 \notin Savers
    BY <1>0, <1>3, SaversMoves
  <2>2. /\ cs'[Depth + 1].k = "wait" /\ cs'[Depth + 1].chld = sig.chld
        /\ sig'.chld = "ignore"
    BY <1>3, <2>1 DEF NewOf, CallStep, Enters
  <2>3. \A i \in Savers : i < Depth + 1
    BY <1>0
  <2>4. \A i \in Savers : i \in Savers \cap Savers' /\ i # Depth + 1
    BY <2>1
  <2>5. ASSUME NEW i \in Savers', NEW j \in Savers', i < j
        PROVE  cs'[j].k = "wait" /\ cs'[j].chld = "ignore"
    <3>1. i \in Savers
      BY <1>0, <2>1, <2>3, <2>5
    <3>2. CASE j = Depth + 1
      BY <2>2, <3>1, <3>2 DEF SigchldKept
    <3>3. CASE j \in Savers
      BY <1>1, <2>4, <2>5, <3>1, <3>3 DEF SigchldKept
    <3> QED
      BY <2>1, <3>2, <3>3
  <2>6. ASSUME intr = 0, NEW i \in Savers'
        PROVE  cs'[i].chld = "handler" \/ \E j \in Savers' : j < i
    <3>1. CASE i \in Savers
      BY <1>1, <2>1, <2>4, <2>6, <3>1 DEF SigchldKept
    <3>2. CASE i = Depth + 1
      BY <2>1, <2>2, <2>3, <2>6, <3>2 DEF SigchldKept
    <3> QED
      BY <2>1, <3>1, <3>2
  <2> QED
    BY <1>0, <2>1, <2>2, <2>5, <2>6 DEF SigchldKept
<1>4. CASE RestoreChld
  <2>1. Depth \in Savers /\ Savers' = Savers \ {Depth} /\ sig'.chld = cs[Depth].chld
    BY <1>0, <1>4, SaversMoves, RestoreChldStep
  <2>2. \A i \in Savers' : i \in Savers \cap Savers' /\ i < Depth
    BY <1>0, <2>1
  <2>3. Savers' # {} => sig'.chld = "ignore"
    BY <2>1, <2>2 DEF SigchldKept
  <2>4. \A i, j \in Savers' : i < j => cs'[j].k = "wait" /\ cs'[j].chld = "ignore"
    BY <1>1, <2>2 DEF SigchldKept
  <2>5. ASSUME intr = 0
        PROVE  sig'.chld = "handler" \/ Savers' # {}
    <3>1. cs[Depth].chld = "handler" \/ \E j \in Savers : j < Depth
      BY <2>1, <2>5 DEF SigchldKept
    <3>2. \A j \in Savers : j < Depth => j \in Savers'
      BY <1>0, <2>1
    <3> QED
      BY <2>1, <3>1, <3>2
  <2>6. ASSUME intr = 0, NEW i \in Savers'
        PROVE  cs'[i].chld = "handler" \/ \E j \in Savers' : j < i
    <3>1. cs[i].chld = "handler" \/ \E j \in Savers : j < i
      BY <2>2, <2>6 DEF SigchldKept
    <3>2. \A j \in Savers : j < i => j \in Savers'
      BY <1>0, <2>1, <2>2
    <3> QED
      BY <1>1, <2>2, <3>1, <3>2
  <2> QED
    BY <1>0, <2>3, <2>4, <2>5, <2>6 DEF SigchldKept
<1> QED
  BY <1>2, <1>3, <1>4

LEMMA SigchldNext ==
  ASSUME TypeInv, SigchldKept, Next
  PROVE  SigchldKept'
<1>0. TypeOK /\ Ready /\ Depth \in Nat \ {0} /\ WellCalled /\ SigOK /\ SigOK'
  BY TypeParts, TypePartsNext, StackFacts, TypeNext DEF TypeInv
<1>1. CASE Synchronous
  BY <1>0, <1>1, SigchldMoves
<1>2. CASE MainJumped
  <2>1. /\ Depth = 1 /\ cs[1].k = "main" /\ sig' = sig /\ intr' = intr
    BY <1>0, <1>2, JumpedStep, MainAlone, StackFacts, TypeParts DEF At
  <2>2. Savers = {}
    BY <2>1 DEF Savers, Saver
  <2>3. Savers' = {}
    <3>1. \/ Len(cs') = Depth /\ cs'[Depth].k = "main"
          \/ cs' = cs
          \/ /\ Len(cs') = Depth + 1 /\ cs'[Depth].k = "main"
             /\ cs'[Depth + 1] = FrameOf("cleancmd", None)
      BY <1>0, <1>2, JumpedStep
    <3>2. FrameOf("cleancmd", None).k = "cleancmd"
      BY DEF FrameOf
    <3>3. Depth + 1 = 2 /\ Depth' = Len(cs')
      BY <2>1 DEF Depth
    <3>4. CASE cs' = cs
      BY <2>2, <3>4 DEF Savers, Saver, Depth
    <3>5. CASE Len(cs') = Depth /\ cs'[Depth].k = "main"
      BY <2>1, <3>3, <3>5 DEF Savers, Saver
    <3>6. CASE /\ Len(cs') = Depth + 1 /\ cs'[Depth].k = "main"
               /\ cs'[Depth + 1] = FrameOf("cleancmd", None)
      <4>1. cs'[1].k = "main" /\ cs'[2].k = "cleancmd" /\ Depth' = 2
        BY <2>1, <3>2, <3>3, <3>6
      <4>2. \A i \in 1 .. 2 : ~ Saver(cs'[i])
        BY <4>1 DEF Saver
      <4> QED
        BY <4>1, <4>2 DEF Savers
    <3> QED
      BY <3>1, <3>4, <3>5, <3>6
  <2> QED
    BY <2>1, <2>2, <2>3 DEF SigchldKept
<1>3. CASE SigchldBegin
  <2>1. /\ Len(cs') = Depth + 1 /\ \A i \in 1 .. Depth : cs'[i] = cs[i]
        /\ cs'[Depth + 1].k = "chld" /\ cs'[Depth + 1].chld = "handler"
        /\ sig.chld = "handler" /\ sig'.chld = "ignore" /\ intr' = intr
    BY <1>0, <1>3, HandlerStep
  <2>2. Savers = {}
    BY <2>1 DEF SigchldKept
  <2>3. \A i \in 1 .. Depth : ~ Saver(cs'[i])
    BY <2>1, <2>2 DEF Savers
  <2>4. Savers' = {Depth + 1}
    <3>1. \A i : i \in Savers' <=> i \in 1 .. Depth + 1 /\ Saver(cs'[i])
      BY <2>1 DEF Savers, Saver, Depth
    <3>2. Saver(cs'[Depth + 1]) /\ Depth + 1 \in 1 .. Depth + 1
      BY <1>0, <2>1 DEF Saver
    <3>3. \A i \in 1 .. Depth + 1 : i = Depth + 1 \/ i \in 1 .. Depth
      BY <1>0
    <3> QED
      BY <2>3, <3>1, <3>2, <3>3
  <2> QED
    BY <1>0, <2>1, <2>4 DEF SigchldKept
<1>4. CASE Interrupt
  <2>1. Len(cs') = 1 /\ cs'[1].k = "main" /\ intr' > 0
    BY <1>0, <1>4, InterruptStep
  <2>2. Savers' = {}
    BY <2>1 DEF Savers, Saver, Depth
  <2> QED
    BY <2>1, <2>2 DEF SigchldKept
<1>5. CASE \E p : Die(p)
  <2>1. cs' = cs /\ sig'.chld = sig.chld /\ intr' = intr
    BY <1>0, <1>5, DieStep
  <2>2. Savers' = Savers
    BY <2>1 DEF Savers, Saver, Depth
  <2> QED
    BY <2>1, <2>2 DEF SigchldKept
<1> QED
  BY <1>1, <1>2, <1>3, <1>4, <1>5, Steps

LEMMA SigchldInvariant == Spec => [](TypeInv /\ SigchldKept)
<1>1. Init => SigchldKept
  <2> SUFFICES ASSUME Init PROVE SigchldKept
    OBVIOUS
  <2>1. Savers = {}
    BY InitStack DEF Savers, Saver
  <2>2. sig.chld = "handler"
    BY DEF Init
  <2> QED
    BY <2>1, <2>2 DEF SigchldKept
<1>2. TypeInv /\ SigchldKept /\ [Next]_vars => SigchldKept'
  <2>1. CASE UNCHANGED vars
    <3>1. cs' = cs /\ sig' = sig /\ intr' = intr
      BY <2>1 DEF vars
    <3>2. Savers' = Savers
      BY <3>1 DEF Savers, Saver, Depth
    <3> QED
      BY <3>1, <3>2 DEF SigchldKept
  <2> QED
    BY <2>1, SigchldNext
<1> QED
  BY <1>1, <1>2, TypeInvariant, PTL DEF Spec

\* Unless there has been an interrupt, SIGCHLD is ignored only while the handler
\* or a wait is on the stack: the one that is lowest gives it back, the others
\* give back that it is ignored.
THEOREM ChildSignal == Spec => []ChildSignalRestored
<1>1. TypeInv /\ SigchldKept => ChildSignalRestored
  <2> SUFFICES ASSUME TypeOK, SigchldKept, sig.chld = "ignore", ~ (intr > 0)
               PROVE  InFrames({"chld", "wait"})
    BY DEF TypeInv, ChildSignalRestored
  <2>1. intr = 0
    BY BoundAssumption DEF TypeOK
  <2>2. Savers # {}
    BY <2>1 DEF SigchldKept
  <2> QED
    BY <2>2 DEF Savers, Saver, InFrames
<1> QED
  BY <1>1, SigchldInvariant, PTL

-----------------------------------------------------------------------------
(***************************************************************************)
(* The plotters                                                            *)
(***************************************************************************)

\* One becomes plot_stream's only when open_plot_stream assigns it.
LEMMA PlottersOlder ==
  ASSUME ProcOK, plot.was \subseteq 1 .. Len(proc)
  PROVE  /\ Older(proc') /\ plot'.was = plot.was => Plotters' \subseteq Plotters
         /\ \A k : Born(k) /\ plot'.was = plot.was => Plotters' \subseteq Plotters
         /\ \A p \in Plotters : p > 0
<1>0. Len(proc) \in Nat
  BY ProcFacts
<1> DEFINE P == {p \in 1 .. Len(proc') : /\ proc'[p].kind = "plot" /\ proc'[p].st = "running"
                                        /\ p \in plot'.was}
<1>1. Plotters' = P
  BY DEF Plotters
<1>2. Older(proc') /\ plot'.was = plot.was => P \subseteq Plotters
  BY DEF Older, Plotters
<1>3. \A k : Born(k) /\ plot'.was = plot.was => P \subseteq Plotters
  BY DEF Born, Plotters
<1>4. \A p \in Plotters : p > 0
  BY <1>0 DEF Plotters
<1> HIDE DEF P
<1> QED
  BY <1>1, <1>2, <1>3, <1>4

\* The only gnuplot that has been plot_stream's still is.
OnlyPlotter == \A p \in Plotters : plot.obj = p

\* plot_stream's gnuplot ends when it is deleted.
Ended == Older(proc') /\ ~ (IsPid(plot.obj) /\ proc'[plot.obj].st = "running")
LEMMA EndedNone ==
  ASSUME ProcOK, NewPlots, OnlyPlotter, plot'.was = plot.was, Ended
  PROVE  Plotters' = {}
<1>1. Plotters' \subseteq Plotters
  BY PlottersOlder DEF Ended, NewPlots
<1>2. \A p \in Plotters : p = plot.obj /\ IsPid(p)
  BY DEF Plotters, OnlyPlotter, IsPid
<1>3. \A p \in Plotters' : proc'[p].st = "running"
  BY DEF Plotters
<1> QED
  BY <1>1, <1>2, <1>3 DEF Ended

LEMMA PlotSteps ==
  ASSUME Ready
  PROVE  /\ OpenplotBegin =>
              \/ cs'[Depth].pc = "deleted" /\ Ended
              \/ cs'[Depth].pc = "new" /\ plot.obj = None /\ proc' = proc
              \/ cs'[Depth].pc = "done"
         /\ OpenplotDeleted => proc' = proc /\ plot'.obj = None
         /\ OpenplotNew => \/ /\ Born("plot") /\ plot' = plot
                              /\ cs'[Depth].pc = "assign" /\ cs'[Depth].p = Len(proc) + 1
                           \/ proc' = proc /\ plot' = plot /\ cs'[Depth].pc = "done"
         /\ OpenplotAssign => /\ proc' = proc /\ list' = list /\ cs'[Depth].pc = "insert"
                              /\ Len(cs') = Depth /\ plot'.obj = Running.p
                              /\ plot'.was = plot.was \cup {Running.p}
         /\ CloseplotSent => Ended
         /\ CloseplotDeleted => proc' = proc /\ plot'.obj = None
<1>0. StackOK /\ ProcOK /\ SigOK /\ plot.obj \in Pid
      /\ plot \in [obj : Pid, ok : BOOLEAN, pid : Pid, was : SUBSET Pid]
  BY TypeParts DEF Ready, DataOK
<1>1. ASSUME OpenplotBegin
      PROVE  \/ cs'[Depth].pc = "deleted" /\ Ended
             \/ cs'[Depth].pc = "new" /\ plot.obj = None /\ proc' = proc
             \/ cs'[Depth].pc = "done"
  <2>1. /\ At("openplot", "begin")
        /\ \/ Delete(plot.obj, TRUE, "deleted")
           \/ Goto("new") /\ plot.obj = None /\ proc' = proc
           \/ Goto("done")
    BY <1>1 DEF OpenplotBegin
  <2>2. \A pc \in {"deleted", "new", "done"} :
          pc \in Pcs /\ <<Running.k, Running.pc, pc>> \in Goings
    BY <2>1 DEF At, Pcs, Goings
  <2>3. CallSite(Running.k, "deleted", "wait")
    BY <2>1 DEF At, CallSite, CallSites
  <2>4. CASE Delete(plot.obj, TRUE, "deleted")
    BY <1>0, <2>2, <2>3, <2>4, DeleteStacked DEF Ended
  <2>5. CASE Goto("new") /\ plot.obj = None /\ proc' = proc
    BY <1>0, <2>2, <2>5, GotoMoves
  <2>6. CASE Goto("done")
    BY <1>0, <2>2, <2>6, GotoMoves
  <2> QED
    BY <2>1, <2>4, <2>5, <2>6
<1>2. ASSUME OpenplotDeleted \/ CloseplotDeleted PROVE proc' = proc /\ plot'.obj = None
  <2>1. plot' = [plot EXCEPT !.obj = None] /\ proc' = proc
    BY <1>2 DEF OpenplotDeleted, CloseplotDeleted
  <2> QED
    BY <1>0, <2>1
<1>3. /\ OpenplotNew => \/ /\ Born("plot") /\ plot' = plot
                           /\ cs'[Depth].pc = "assign" /\ cs'[Depth].p = Len(proc) + 1
                        \/ proc' = proc /\ plot' = plot /\ cs'[Depth].pc = "done"
      /\ OpenplotAssign => /\ proc' = proc /\ list' = list /\ cs'[Depth].pc = "insert"
                           /\ Len(cs') = Depth /\ plot'.obj = Running.p
                           /\ plot'.was = plot.was \cup {Running.p}
  BY OpenSteps
<1>4. ASSUME CloseplotSent PROVE Ended
  <2>1. At("closeplot", "sent") /\ Delete(plot.obj, TRUE, "deleted")
    BY <1>4 DEF CloseplotSent
  <2>2. /\ "deleted" \in Pcs /\ <<Running.k, Running.pc, "deleted">> \in Goings
        /\ CallSite(Running.k, "deleted", "wait")
    BY <2>1 DEF At, Pcs, Goings, CallSite, CallSites
  <2> QED
    BY <1>0, <2>1, <2>2, DeleteStacked DEF Ended
<1> QED
  BY <1>1, <1>2, <1>3, <1>4

\* An openplot is called from a send that main has called or a close_plot_stream
\* that quits.
LEMMA Opener ==
  ASSUME TypeOK, WellCalled, NEW i \in 1 .. Depth, cs[i].k = "openplot"
  PROVE  /\ i > 2 /\ cs[i - 1].k = "send"
         /\ (cs[i - 2].k = "main" /\ i = 3) \/ Ending(cs[i - 2])
<1>0. Depth \in Nat \ {0} /\ cs[1].k = "main" /\ i \in Nat
  BY TypeParts, StackFacts DEF StackOK
<1>1. i \in 2 .. Depth
  BY <1>0
<1>2. cs[i - 1].k = "send"
  BY <1>1, CalledTwo, Sites
<1>3. i - 1 # 1
  BY <1>0, <1>2
<1>4. i - 1 \in 2 .. Depth
  BY <1>0, <1>1, <1>3
<1>5. cs[i - 1 - 1].k = "main" \/ (cs[i - 1 - 1].k = "closeplot" /\ cs[i - 1 - 1].pc = "sent")
  BY <1>2, <1>4, CalledTwo, Sites
<1>6. i - 1 - 1 = i - 2 /\ i - 2 \in 1 .. Depth
  BY <1>0, <1>4
<1>7. cs[i - 2].k = "main" => i - 2 = 1
  BY <1>6, Bottom
<1> QED
  BY <1>0, <1>2, <1>4, <1>5, <1>6, <1>7 DEF Ending

NoneInv == NoneLeft /\ OnlyPlotter

LEMMA OrphanMoves ==
  ASSUME TypeInv, NoneInv, Synchronous
  PROVE  OnlyPlotter'
<1>0. /\ Ready /\ Summary /\ Effects /\ ProcOK /\ Depth \in Nat \ {0} /\ Running = cs[Depth]
      /\ Depth \in 1 .. Depth /\ plot.was \subseteq 1 .. Len(proc)
  BY InvReady, SynchronousSteps, TypeParts, StackFacts DEF TypeInv, Summary, NewPlots
<1>1. \A p \in Plotters : plot.obj = p
  BY DEF NoneInv, OnlyPlotter
<1>2. ASSUME Shutting(Running) PROVE Plotters = {}
  BY <1>0, <1>2 DEF NoneInv, NoneLeft
<1>3. OpenplotAssign \/ OpenplotDeleted \/ CloseplotDeleted => Shutting(Running)
  BY DEF OpenplotAssign, OpenplotDeleted, CloseplotDeleted, At, Shutting
<1>4. CASE OpenplotAssign
  <2>1. Plotters = {}
    BY <1>2, <1>3, <1>4
  <2>2. proc' = proc /\ plot'.obj = Running.p /\ plot'.was = plot.was \cup {Running.p}
    BY <1>0, <1>4, PlotSteps
  <2>3. \A p \in Plotters' : p \in Plotters \/ p = Running.p
    BY <2>2 DEF Plotters
  <2> QED
    BY <2>1, <2>2, <2>3 DEF OnlyPlotter
<1>5. CASE (OpenplotDeleted \/ CloseplotDeleted) /\ ~ OpenplotAssign
  <2>1. Plotters = {} /\ proc' = proc /\ plot'.was = plot.was
    BY <1>0, <1>2, <1>3, <1>5, PlotSteps DEF Effects
  <2>2. Plotters' = Plotters
    BY <2>1 DEF Plotters
  <2> QED
    BY <2>1, <2>2 DEF OnlyPlotter
<1>6. CASE ~ OpenplotAssign /\ ~ OpenplotDeleted /\ ~ CloseplotDeleted
  <2>1. plot'.obj = plot.obj /\ plot'.was = plot.was
    BY <1>0, <1>6 DEF Effects
  <2>2. Plotters' \subseteq Plotters
    BY <1>0, <2>1, PlottersOlder DEF Effects
  <2> QED
    BY <1>1, <2>1, <2>2 DEF OnlyPlotter
<1> QED
  BY <1>4, <1>5, <1>6

\* A frame that comes to shut plot_stream finds no gnuplot or has ended it.
LEMMA ShutsLast ==
  ASSUME TypeInv, NoneInv, Synchronous, GoesOn(cs'[Depth]), Shutting(cs'[Depth])
  PROVE  Plotters' = {}
<1> DEFINE fr == cs'[Depth]
<1>0. /\ Ready /\ Summary /\ Effects /\ Named /\ ProcOK /\ OnlyPlotter /\ NewPlots
      /\ Depth \in Nat \ {0} /\ Running = cs[Depth] /\ Depth \in 1 .. Depth
      /\ plot.was \subseteq 1 .. Len(proc)
  BY InvReady, SynchronousSteps, TypeParts, StackFacts
     DEF TypeInv, Summary, NoneInv, NewPlots
<1>1. \/ At("openplot", "begin") /\ fr.pc \in {"deleted", "new"}
      \/ At("openplot", "deleted")
      \/ At("openplot", "new")
      \/ At("closeplot", "sent")
  BY DEF Shutting, GoesOn, Goings, At
<1>a. ~ At("openplot", "assign")
  BY <1>1 DEF At
<1>b. plot'.was = plot.was
  BY <1>0, <1>a DEF Effects, OpenplotAssign
<1>2. CASE At("openplot", "begin") /\ fr.pc \in {"deleted", "new"}
  <2>1. Ended \/ (plot.obj = None /\ proc' = proc)
    BY <1>0, <1>2, PlotSteps DEF Named
  <2>2. CASE plot.obj = None /\ proc' = proc
    <3>1. Plotters = {}
      BY <1>0, <2>2, PlottersOlder DEF None, OnlyPlotter
    <3> QED
      BY <1>b, <2>2, <3>1 DEF Plotters
  <2> QED
    BY <1>0, <1>b, <2>1, <2>2, EndedNone
<1>3. CASE At("openplot", "deleted") \/ At("openplot", "new")
  <2>1. Shutting(Running)
    BY <1>3 DEF At, Shutting
  <2>2. Plotters = {}
    BY <1>0, <2>1 DEF NoneInv, NoneLeft
  <2>3. Older(proc') \/ \E k : Born(k)
    BY <1>0 DEF Effects
  <2>4. Plotters' \subseteq Plotters
    BY <1>0, <1>b, <2>3, PlottersOlder
  <2> QED
    BY <2>2, <2>4
<1>4. CASE At("closeplot", "sent")
  BY <1>0, <1>b, <1>4, PlotSteps, EndedNone DEF Named
<1> QED
  BY <1>1, <1>2, <1>3, <1>4

\* A frame below that shuts plot_stream.
LEMMA ShutsBelow ==
  ASSUME TypeInv, NoneInv, Synchronous, NEW i \in 1 .. Depth - 1, Shutting(cs[i])
  PROVE  Plotters' = {} \/ \E j \in i + 1 .. Depth - 1 : Ending(cs[j])
<1>0. /\ Ready /\ Summary /\ Effects /\ Named /\ ProcOK /\ OnlyPlotter /\ TypeOK /\ WellCalled
      /\ Depth \in Nat \ {0} /\ Running = cs[Depth] /\ Depth \in 1 .. Depth /\ i \in 1 .. Depth
      /\ i \in Nat /\ NewPlots /\ plot.was \subseteq 1 .. Len(proc)
  BY InvReady, SynchronousSteps, TypeParts, StackFacts
     DEF TypeInv, Summary, NoneInv, NewPlots
<1>1. Plotters = {} \/ \E j \in i + 1 .. Depth : Ending(cs[j])
  BY <1>0 DEF NoneInv, NoneLeft
<1>2. CASE \E j \in i + 1 .. Depth - 1 : Ending(cs[j])
  BY <1>2
<1>3. CASE Ending(cs[Depth])
  <2>1. At("closeplot", "sent")
    BY <1>0, <1>3 DEF Ending, At
  <2>2. plot'.was = plot.was
    BY <1>0, <2>1 DEF Effects, OpenplotAssign, At
  <2> QED
    BY <1>0, <2>1, <2>2, PlotSteps, EndedNone DEF Named
<1>4. CASE Plotters = {} /\ OpenplotAssign
  <2>1. cs[Depth].k = "openplot"
    BY <1>0, <1>4 DEF OpenplotAssign, At
  <2>2. /\ Depth > 2 /\ cs[Depth - 1].k = "send"
        /\ (cs[Depth - 2].k = "main" /\ Depth = 3) \/ Ending(cs[Depth - 2])
    BY <1>0, <2>1, Opener
  <2>3. i # Depth - 1
    BY <2>2 DEF Shutting
  <2>4. cs[i].k # "main"
    BY DEF Shutting
  <2>5. ~ Ending(cs[i])
    BY DEF Shutting, Ending
  <2>6. Ending(cs[Depth - 2]) /\ Depth - 2 \in i + 1 .. Depth - 1
    <3>1. i <= Depth - 2
      BY <1>0, <2>3
    <3>2. Ending(cs[Depth - 2])
      <4>1. CASE cs[Depth - 2].k = "main" /\ Depth = 3
        <5>1. i = 1 /\ Depth - 2 = 1
          BY <1>0, <3>1, <4>1
        <5> QED
          BY <2>4, <4>1, <5>1
      <4> QED
        BY <2>2, <4>1
    <3>3. i # Depth - 2
      BY <2>5, <3>2
    <3> QED
      BY <1>0, <3>1, <3>2, <3>3
  <2> QED
    BY <2>6
<1>5. CASE Plotters = {} /\ ~ OpenplotAssign
  <2>1. Plotters' \subseteq Plotters
    <3>1. plot'.was = plot.was /\ (Older(proc') \/ \E k : Born(k))
      BY <1>0, <1>5 DEF Effects
    <3> QED
      BY <1>0, <3>1, PlottersOlder
  <2> QED
    BY <1>5, <2>1
<1>6. \A j \in i + 1 .. Depth : j = Depth \/ j \in i + 1 .. Depth - 1
  BY <1>0
<1> QED
  BY <1>1, <1>2, <1>3, <1>4, <1>5, <1>6

LEMMA NoneMoves ==
  ASSUME TypeInv, NoneInv, Synchronous
  PROVE  NoneLeft'
<1>0. /\ Ready /\ Moves /\ Depth \in Nat \ {0}
  BY InvReady, SynchronousSteps, TypeParts, StackFacts DEF TypeInv, Summary
<1>1. SUFFICES ASSUME NEW i \in 1 .. Len(cs'), Shutting(cs'[i])
               PROVE  Plotters' = {} \/ \E j \in i + 1 .. Len(cs') : Ending(cs'[j])
  BY DEF NoneLeft, Depth, Shutting, Ending
<1>2. CASE i \in 1 .. Depth - 1
  <2>1. Shutting(cs[i])
    BY <1>0, <1>1, <1>2 DEF Moves, Below
  <2>2. Plotters' = {} \/ \E j \in i + 1 .. Depth - 1 : Ending(cs[j])
    BY <1>2, <2>1, ShutsBelow
  <2>3. ASSUME NEW j \in i + 1 .. Depth - 1, Ending(cs[j])
        PROVE  j \in i + 1 .. Len(cs') /\ Ending(cs'[j])
    <3>1. j \in 1 .. Depth - 1 /\ Len(cs') \in {Depth - 1, Depth, Depth + 1}
      BY <1>0, <1>2 DEF Moves, GoesStep, CallStep, LeaveStep, SwapStep
    <3>2. cs'[j] = cs[j]
      BY <1>0, <3>1 DEF Moves, Below
    <3> QED
      BY <1>0, <1>2, <2>3, <3>1, <3>2
  <2> QED
    BY <2>2, <2>3
<1>3. CASE GoesStep \/ CallStep
  <2>1. GoesOn(cs'[Depth])
    BY <1>3 DEF GoesStep, CallStep
  <2>2. CallStep => ~ Shutting(cs'[Depth + 1])
    BY DEF CallStep, Enters, Shutting
  <2>3. i \in 1 .. Depth - 1 \/ i = Depth \/ (CallStep /\ i = Depth + 1)
    BY <1>0, <1>3 DEF GoesStep, CallStep
  <2> QED
    BY <1>1, <1>2, <2>1, <2>2, <2>3, ShutsLast
<1>4. CASE LeaveStep
  <2>1. i \in 1 .. Depth - 1
    BY <1>0, <1>4 DEF LeaveStep
  <2> QED
    BY <1>2, <2>1
<1>5. CASE SwapStep
  <2>1. ~ Shutting(cs'[Depth])
    BY <1>5 DEF SwapStep, FrameOf, Shutting
  <2>2. i \in 1 .. Depth - 1
    BY <1>0, <1>1, <1>5, <2>1 DEF SwapStep
  <2> QED
    BY <1>2, <2>2
<1> QED
  BY <1>0, <1>3, <1>4, <1>5 DEF Moves

\* The steps that leave plot_stream and the other frames alone.
LEMMA NoneKept ==
  ASSUME ProcOK, NewPlots, NoneInv, Older(proc'), plot' = plot, Depth \in Nat,
         Len(cs') \in Nat,
         \A i \in 1 .. Len(cs') : Shutting(cs'[i]) =>
           i \in 1 .. Depth /\ \A j \in i .. Depth : j <= Len(cs') /\ cs'[j] = cs[j]
  PROVE  NoneInv'
<1>1. Plotters' \subseteq Plotters
  BY PlottersOlder DEF NewPlots
<1>2. OnlyPlotter'
  BY <1>1 DEF NoneInv, OnlyPlotter
<1>3. ASSUME NEW i \in 1 .. Len(cs'), Shutting(cs'[i])
      PROVE  Plotters' = {} \/ \E j \in i + 1 .. Len(cs') : Ending(cs'[j])
  <2>1. i \in 1 .. Depth /\ \A j \in i .. Depth : j <= Len(cs') /\ cs'[j] = cs[j]
    BY <1>3
  <2>2. i \in i .. Depth
    BY <2>1
  <2>3. Shutting(cs[i])
    BY <1>3, <2>1, <2>2
  <2>4. Plotters = {} \/ \E j \in i + 1 .. Depth : Ending(cs[j])
    BY <2>1, <2>3 DEF NoneInv, NoneLeft
  <2>5. ASSUME NEW j \in i + 1 .. Depth, Ending(cs[j])
        PROVE  j \in i + 1 .. Len(cs') /\ Ending(cs'[j])
    <3>1. j \in i .. Depth
      BY <2>1
    <3>2. j <= Len(cs') /\ cs'[j] = cs[j]
      BY <2>1, <3>1
    <3> QED
      BY <2>1, <2>5, <3>2
  <2> QED
    BY <1>1, <2>4, <2>5
<1>4. NoneLeft'
  BY <1>3 DEF NoneLeft, Depth, Shutting, Ending
<1> QED
  BY <1>2, <1>4 DEF NoneInv

LEMMA NoneNext ==
  ASSUME TypeInv, NoneInv, Next
  PROVE  NoneInv'
<1>0. TypeOK /\ Ready /\ Depth \in Nat \ {0} /\ WellCalled /\ ProcOK /\ Older(proc)
      /\ Depth = Len(cs) /\ NewPlots
  BY TypeParts, StackFacts, TypeNext, ProcFacts DEF TypeInv
<1>1. CASE Synchronous
  BY <1>1, OrphanMoves, NoneMoves DEF NoneInv
<1>2. CASE MainJumped
  <2>1. Depth = 1 /\ plot' = plot /\ proc' = proc /\ cs[1].k = "main"
    BY <1>0, <1>2, JumpedStep, MainAlone, StackFacts, TypeParts DEF At
  <2>2. \/ Len(cs') = Depth /\ cs'[Depth].k = "main"
        \/ cs' = cs
        \/ /\ Len(cs') = Depth + 1 /\ cs'[Depth].k = "main"
           /\ cs'[Depth + 1] = FrameOf("cleancmd", None)
    BY <1>0, <1>2, JumpedStep
  <2>3. FrameOf("cleancmd", None).k = "cleancmd" /\ Depth + 1 = 2 /\ Len(cs') \in Nat
    BY <1>0, <2>1, <2>2 DEF FrameOf
  <2>4. \A i \in 1 .. Len(cs') : ~ Shutting(cs'[i])
    <3>1. CASE cs' = cs
      <4>0. Len(cs') = 1 /\ cs'[1].k = "main"
        BY <1>0, <2>1, <3>1
      <4>1. \A i \in 1 .. Len(cs') : cs'[i].k = "main"
        BY <4>0
      <4> QED
        BY <4>1 DEF Shutting
    <3>2. CASE Len(cs') = Depth /\ cs'[Depth].k = "main"
      <4>1. \A i \in 1 .. Len(cs') : cs'[i].k = "main"
        BY <2>1, <3>2
      <4> QED
        BY <4>1 DEF Shutting
    <3>3. CASE /\ Len(cs') = Depth + 1 /\ cs'[Depth].k = "main"
               /\ cs'[Depth + 1] = FrameOf("cleancmd", None)
      <4>1. \A i \in 1 .. 2 : cs'[i].k \in {"main", "cleancmd"}
        BY <2>1, <2>3, <3>3
      <4> QED
        BY <2>3, <3>3, <4>1 DEF Shutting
    <3> QED
      BY <2>2, <3>1, <3>2, <3>3
  <2>5. Older(proc')
    BY <1>0, <2>1
  <2> QED
    BY <1>0, <2>1, <2>3, <2>4, <2>5, NoneKept
<1>3. CASE SigchldBegin
  <2>1. /\ Len(cs') = Depth + 1 /\ \A i \in 1 .. Depth : cs'[i] = cs[i]
        /\ cs'[Depth + 1].k = "chld" /\ plot' = plot /\ proc' = proc
    BY <1>0, <1>3, HandlerStep
  <2>2. ~ Shutting(cs'[Depth + 1])
    BY <2>1 DEF Shutting
  <2>3. Older(proc') /\ Len(cs') \in Nat
    BY <1>0, <2>1
  <2>4. \A i \in 1 .. Len(cs') : Shutting(cs'[i]) =>
          i \in 1 .. Depth /\ \A j \in i .. Depth : j <= Len(cs') /\ cs'[j] = cs[j]
    BY <1>0, <2>1, <2>2
  <2> QED
    BY <1>0, <2>1, <2>3, <2>4, NoneKept
<1>4. CASE Interrupt
  <2>1. Len(cs') = 1 /\ cs'[1].k = "main" /\ plot' = plot /\ proc' = proc
    BY <1>0, <1>4, InterruptStep
  <2>2. \A i \in 1 .. Len(cs') : ~ Shutting(cs'[i])
    BY <2>1 DEF Shutting
  <2>3. Older(proc') /\ Len(cs') \in Nat
    BY <1>0, <2>1
  <2> QED
    BY <1>0, <2>1, <2>2, <2>3, NoneKept
<1>5. CASE \E p : Die(p)
  <2>1. cs' = cs /\ plot' = plot /\ Older(proc')
    BY <1>0, <1>5, DieStep
  <2> QED
    BY <1>0, <2>1, NoneKept
<1> QED
  BY <1>1, <1>2, <1>3, <1>4, <1>5, Steps

LEMMA NoneInvariant == Spec => [](TypeInv /\ NoneInv)
<1>1. Init => NoneInv
  <2> SUFFICES ASSUME Init PROVE NoneInv
    OBVIOUS
  <2>1. NoneLeft
    BY InitStack DEF NoneLeft, Shutting
  <2>2. Len(proc) = 0
    BY DEF Init
  <2> QED
    BY <2>1, <2>2 DEF NoneInv, OnlyPlotter, Plotters
<1>2. TypeInv /\ NoneInv /\ [Next]_vars => NoneInv'
  <2>1. ASSUME TypeInv, NoneInv, UNCHANGED vars PROVE NoneInv'
    <3>1. cs' = cs /\ plot' = plot /\ proc' = proc
      BY <2>1 DEF vars
    <3>2. Depth' = Depth /\ Plotters' = Plotters
      BY <3>1 DEF Depth, Plotters
    <3> QED
      BY <2>1, <3>1, <3>2 DEF NoneInv, NoneLeft, OnlyPlotter, Shutting, Ending
  <2> QED
    BY <2>1, NoneNext
<1> QED
  BY <1>1, <1>2, TypeInvariant, PTL DEF Spec

\* No running gnuplot is lost: close_plot_stream and open_plot_stream delete
\* plot_stream before they make it null or new, and a death handler in between that
\* opens another one ends it as well.  Only an interrupt between the start of a
\* gnuplot and its assignment to plot_stream can lose it.
THEOREM PlotterNotLost == Spec => []NoOrphanPlotter
<1>1. TypeInv /\ NoneInv => NoOrphanPlotter
  <2>1. SUFFICES ASSUME TypeInv, NoneInv, NEW p \in 1 .. Len(proc),
                        proc[p].kind = "plot", proc[p].st = "running"
                 PROVE  plot.obj = p \/ BeingOpened(p) \/ LostAtBirth(p)
    BY DEF NoOrphanPlotter
  <2>2. CASE p \in plot.was
    BY <2>1, <2>2 DEF NoneInv, OnlyPlotter, Plotters
  <2>3. CASE p \notin plot.was /\ intr = 0
    BY <2>1, <2>3 DEF TypeInv, NewPlots, Starts, BeingOpened
  <2>4. intr = 0 \/ intr > 0
    BY <2>1, TypeParts DEF TypeInv, DataOK
  <2> QED
    BY <2>2, <2>3, <2>4 DEF LostAtBirth
<1> QED
  BY <1>1, NoneInvariant, PTL

-----------------------------------------------------------------------------
(***************************************************************************)
(* Whose processes they are                                                *)
(***************************************************************************)

\* A pid is of a process of that kind, if of any.
KindIn(q, p, k) == p > 0 => p \in 1 .. Len(q) /\ q[p].kind = k

\* An insert is for a process of the kind of its handler, and only close_plot_stream
\* removes a gnuplot.
FrameKind(q, fr, caller) ==
  /\ fr.k = "insert" => /\ KindIn(q, fr.p, fr.h)
                        /\ fr.h = "plot" => caller.k = "openplot"
  /\ fr.k = "remove" /\ fr.p > 0 /\ caller.k # "closeplot" =>
       fr.p \in 1 .. Len(q) /\ q[fr.p].kind # "plot"

Kinds ==
  /\ KindIn(proc, plot.obj, "plot")
  /\ KindIn(proc, pager.obj, "pager") /\ KindIn(proc, pager.pid, "pager")
  /\ KindIn(proc, cmd.obj, "cmd") /\ KindIn(proc, cmd.pid, "cmd")
  /\ \A p \in 1 .. Len(proc) : proc[p].file = "there" => proc[p].kind = "file"
  /\ \A i \in 1 .. Len(list) : list[i].pid <= Len(proc)
  /\ \A i \in 2 .. Depth : FrameKind(proc, cs[i], cs[i - 1])

\* No process is forgotten and its kind stays.
Extended == /\ Len(proc) <= Len(proc') /\ Len(proc) \in Nat /\ Len(proc') \in Nat
            /\ \A p \in 1 .. Len(proc) : proc'[p].kind = proc[p].kind

LEMMA ProcExtended ==
  ASSUME ProcOK, Older(proc') \/ \E k : Born(k)
  PROVE  Extended
<1>1. Len(proc) \in Nat
  BY ProcFacts
<1> QED
  BY <1>1 DEF Older, Born, Extended

LEMMA KindKept ==
  ASSUME Extended, NEW p \in Pid, NEW k, KindIn(proc, p, k)
  PROVE  KindIn(proc', p, k)
BY DEF Extended, KindIn, Pid, Failed

LEMMA FrameKindKept ==
  ASSUME Extended, NEW fr \in Frame, NEW a, NEW b, b.k = a.k, FrameKind(proc, fr, a)
  PROVE  FrameKind(proc', fr, b)
<1>1. fr.p \in Pid
  BY DEF Frame
<1>2. fr.k = "insert" => KindIn(proc', fr.p, fr.h)
  BY <1>1, KindKept DEF FrameKind
<1>3. fr.p \in 1 .. Len(proc) => fr.p \in 1 .. Len(proc') /\ proc'[fr.p].kind = proc[fr.p].kind
  BY DEF Extended
<1> QED
  BY <1>2, <1>3 DEF FrameKind

\* The streams and pids that a step sets.
LEMMA PagerPids ==
  ASSUME Ready, Summary
  PROVE  /\ pager'.obj \in {pager.obj, None, Failed} \/ (pager'.obj \in 1 .. Len(proc')
                                                       /\ proc'[pager'.obj].kind = "pager")
         /\ pager'.pid \in {pager.pid, pager.obj, Failed}
<1>0. /\ ProcOK /\ Effects
      /\ pager \in [obj : Pid, ok : BOOLEAN, pid : Pid, saved : IntDisp,
                    isSaved : BOOLEAN, flushing : BOOLEAN, really : BOOLEAN, buf : BOOLEAN]
  BY TypeParts DEF Ready, Summary, DataOK
<1>1. CASE SyncNew
  <2>1. PICK p \in 1 .. MaxPid \cup {Failed} :
          Spawn("pager", p) /\ pager' = [pager EXCEPT !.obj = p, !.ok = (p > 0)]
    BY <1>1 DEF SyncNew
  <2>2. pager'.obj = p /\ pager'.pid = pager.pid
    BY <1>0, <2>1
  <2>3. \/ p = Len(proc) + 1 /\ Born("pager")
        \/ p = Failed
    BY <1>0, <2>1, SpawnBorn DEF Handlers
  <2>4. Len(proc) \in Nat
    BY <1>0, ProcFacts
  <2> QED
    BY <2>2, <2>3, <2>4 DEF Born
<1>2. CASE SyncOpen \/ SyncCheck \/ ClearDeleted
  <2>1. \/ pager' = [pager EXCEPT !.saved = sig.int, !.isSaved = TRUE]
        \/ pager' = pager
        \/ pager' = [pager EXCEPT !.isSaved = FALSE]
        \/ pager' = [pager EXCEPT !.obj = None, !.isSaved = FALSE]
    BY <1>2 DEF SyncOpen, SyncCheck, PagerLost, ClearDeleted
  <2> QED
    BY <1>0, <2>1
<1>3. CASE SyncInsert \/ ClearRemoved
  <2>1. \/ pager' = [pager EXCEPT !.pid = pager.obj]
        \/ pager' = [pager EXCEPT !.pid = Failed]
    BY <1>3 DEF SyncInsert, ClearRemoved
  <2> QED
    BY <1>0, <2>1
<1>4. CASE PagerKept /\ pager'.pid = pager.pid
  BY <1>4 DEF PagerKept
<1> QED
  BY <1>0, <1>1, <1>2, <1>3, <1>4 DEF Effects

LEMMA PlotPids ==
  ASSUME Ready, Summary, NewPlots
  PROVE  \/ plot'.obj \in {plot.obj, None}
         \/ plot'.obj \in 1 .. Len(proc') /\ proc'[plot'.obj].kind = "plot"
<1>0. ProcOK /\ Effects /\ Depth \in 1 .. Depth /\ Running = cs[Depth]
  BY TypeParts, StackFacts DEF Ready, Summary
<1>1. CASE OpenplotAssign
  <2>1. Starts(Running)
    BY <1>1 DEF OpenplotAssign, At, Starts
  <2>2. Running.p \in 1 .. Len(proc) /\ proc[Running.p].kind = "plot"
    BY <1>0, <2>1 DEF NewPlots
  <2>3. proc' = proc /\ plot'.obj = Running.p
    BY <1>1, PlotSteps
  <2> QED
    BY <2>2, <2>3
<1>2. CASE OpenplotDeleted \/ CloseplotDeleted
  BY <1>2, PlotSteps
<1> QED
  BY <1>0, <1>1, <1>2 DEF Effects

LEMMA CmdPids ==
  ASSUME Ready, Summary
  PROVE  /\ \/ cmd'.obj \in {cmd.obj, None, Failed}
            \/ cmd'.obj \in 1 .. Len(proc') /\ proc'[cmd'.obj].kind = "cmd"
         /\ cmd'.pid \in {cmd.pid, cmd'.obj}
<1>0. ProcOK /\ Effects
      /\ cmd \in [obj : Pid, open : BOOLEAN, pid : Pid, status : Status, result : Status]
  BY TypeParts DEF Ready, Summary, DataOK
<1>1. CASE SystemBegin
  <2>1. PICK p \in 1 .. MaxPid \cup {Failed} :
          /\ Spawn("cmd", p)
          /\ cmd' = [obj |-> p, open |-> p > 0, pid |-> p, status |-> "-1",
                     result |-> "-1"]
    BY <1>1 DEF SystemBegin
  <2>2. cmd'.obj = p /\ cmd'.pid = p
    BY <2>1
  <2>3. \/ p = Len(proc) + 1 /\ Born("cmd")
        \/ p = Failed
    BY <1>0, <2>1, SpawnBorn DEF Handlers
  <2>4. Len(proc) \in Nat
    BY <1>0, ProcFacts
  <2> QED
    BY <2>2, <2>3, <2>4 DEF Born
<1>2. CASE CleancmdDeleted
  <2>1. cmd' = [cmd EXCEPT !.obj = None]
    BY <1>2 DEF CleancmdDeleted
  <2> QED
    BY <1>0, <2>1
<1> QED
  BY <1>0, <1>1, <1>2 DEF Effects

\* What a step does to the list.
Appended == /\ InsertFind /\ Len(list') = Len(list) + 1
            /\ \A j \in 1 .. Len(list) : list'[j] = list[j]
            /\ list'[Len(list) + 1].pid = Running.p /\ list'[Len(list) + 1].h = Running.h
Changed(i) ==
  /\ Len(list') = Len(list) /\ \A j \in 1 .. Len(list) : j # i => list'[j] = list[j]
  /\ \/ InsertPid /\ i = Running.i /\ list'[i].pid = Running.p /\ list'[i].h = list[i].h
     \/ InsertHandler /\ i = Running.i /\ list'[i].pid = list[i].pid /\ list'[i].h = Running.h
     \/ InsertFile /\ i = Running.i /\ list'[i].pid = list[i].pid /\ list'[i].h = list[i].h
     \/ RemoveFind /\ list[i].pid = Running.p /\ list'[i].pid = Failed
     \/ SigchldScan /\ Zombie(list[i].pid) /\ list'[i].pid = Failed

PidSet(i, p) == list' = [list EXCEPT ![i].pid = p]
HandlerSet(i, h) == list' = [list EXCEPT ![i].h = h]
FileSet(i, f) == list' = [list EXCEPT ![i].file = f]

LEMMA SlotChanged ==
  ASSUME DataOK, NEW i \in 1 .. Len(list)
  PROVE  /\ Len(list) \in Nat
         /\ \A p : PidSet(i, p) =>
              /\ Len(list') = Len(list) /\ \A j \in 1 .. Len(list) : j # i => list'[j] = list[j]
              /\ list'[i].pid = p /\ list'[i].h = list[i].h
         /\ \A h : HandlerSet(i, h) =>
              /\ Len(list') = Len(list) /\ \A j \in 1 .. Len(list) : j # i => list'[j] = list[j]
              /\ list'[i].pid = list[i].pid /\ list'[i].h = h
         /\ \A f : FileSet(i, f) =>
              /\ Len(list') = Len(list) /\ \A j \in 1 .. Len(list) : j # i => list'[j] = list[j]
              /\ list'[i].pid = list[i].pid /\ list'[i].h = list[i].h
<1>1. list \in Seq(Slot) /\ Len(list) \in Nat /\ list[i] \in Slot
  BY LenProperties, ElementOfSeq DEF DataOK
<1>2. ASSUME NEW x, list' = [list EXCEPT ![i] = x]
      PROVE  /\ Len(list') = Len(list) /\ \A j \in 1 .. Len(list) : j # i => list'[j] = list[j]
             /\ list'[i] = x
  BY <1>1, <1>2
<1>3. ASSUME NEW p, PidSet(i, p)
      PROVE  /\ Len(list') = Len(list) /\ \A j \in 1 .. Len(list) : j # i => list'[j] = list[j]
             /\ list'[i].pid = p /\ list'[i].h = list[i].h
  <2>1. PICK x : x = [list[i] EXCEPT !.pid = p]
    OBVIOUS
  <2>2. x.pid = p /\ x.h = list[i].h /\ list' = [list EXCEPT ![i] = x]
    BY <1>1, <1>3, <2>1 DEF Slot, PidSet
  <2> QED
    BY <1>2, <2>2
<1>4. ASSUME NEW h, HandlerSet(i, h)
      PROVE  /\ Len(list') = Len(list) /\ \A j \in 1 .. Len(list) : j # i => list'[j] = list[j]
             /\ list'[i].pid = list[i].pid /\ list'[i].h = h
  <2>1. PICK x : x = [list[i] EXCEPT !.h = h]
    OBVIOUS
  <2>2. x.h = h /\ x.pid = list[i].pid /\ list' = [list EXCEPT ![i] = x]
    BY <1>1, <1>4, <2>1 DEF Slot, HandlerSet
  <2> QED
    BY <1>2, <2>2
<1>5. ASSUME NEW f, FileSet(i, f)
      PROVE  /\ Len(list') = Len(list) /\ \A j \in 1 .. Len(list) : j # i => list'[j] = list[j]
             /\ list'[i].pid = list[i].pid /\ list'[i].h = list[i].h
  <2>1. PICK x : x = [list[i] EXCEPT !.file = f]
    OBVIOUS
  <2>2. x.h = list[i].h /\ x.pid = list[i].pid /\ list' = [list EXCEPT ![i] = x]
    BY <1>1, <1>5, <2>1 DEF Slot, FileSet
  <2> QED
    BY <1>2, <2>2
<1> QED
  BY <1>1, <1>3, <1>4, <1>5

LEMMA ListSteps ==
  ASSUME Ready, Summary
  PROVE  list' = list \/ Appended \/ \E i \in 1 .. Len(list) : Changed(i)
<1>0. FrameOK(Running) /\ DataOK /\ Running \in Frame /\ Effects
  BY TypeParts, StackFacts DEF Ready, Summary
<1>1. CASE InsertFind
  <2>1. \/ list' = list
        \/ list' = Append(list, [pid |-> Running.p, h |-> Running.h,
                                 file |-> IF Running.h = "file" THEN Running.p ELSE None])
    BY <1>1 DEF InsertFind
  <2>2. PICK x : x = [pid |-> Running.p, h |-> Running.h,
                      file |-> IF Running.h = "file" THEN Running.p ELSE None]
    OBVIOUS
  <2>3. x.pid = Running.p /\ x.h = Running.h
    BY <2>2
  <2>4. ASSUME list' = Append(list, x)
        PROVE  /\ Len(list') = Len(list) + 1 /\ list'[Len(list) + 1] = x
               /\ \A j \in 1 .. Len(list) : list'[j] = list[j]
    <3>1. list \in Seq(Slot) /\ Len(list) \in Nat
      BY <1>0, LenProperties DEF DataOK
    <3> QED
      BY <2>4, <3>1
  <2> QED
    BY <1>1, <2>1, <2>2, <2>3, <2>4 DEF Appended
<1>2. CASE InsertPid \/ InsertHandler \/ InsertFile
  <2>1. Running.k = "insert" /\ Running.pc # "begin"
    BY <1>2 DEF InsertPid, InsertHandler, InsertFile, At
  <2>2. Running.i \in 1 .. Len(list)
    BY <1>0, <2>1 DEF FrameOK
  <2>3. /\ InsertPid => PidSet(Running.i, Running.p)
        /\ InsertHandler => HandlerSet(Running.i, Running.h)
        /\ InsertFile => \E f : FileSet(Running.i, f)
    BY DEF InsertPid, InsertHandler, InsertFile, PidSet, HandlerSet, FileSet
  <2>4. Changed(Running.i)
    <3>1. CASE InsertPid
      BY <1>0, <2>2, <2>3, <3>1, SlotChanged DEF Changed
    <3>2. CASE InsertHandler
      BY <1>0, <2>2, <2>3, <3>2, SlotChanged DEF Changed
    <3>3. CASE InsertFile
      BY <1>0, <2>2, <2>3, <3>3, SlotChanged DEF Changed
    <3> QED
      BY <1>2, <3>1, <3>2, <3>3
  <2> QED
    BY <2>2, <2>4
<1>3. CASE RemoveFind
  <2> DEFINE S == SlotsOf(Running.p)
  <2>1. list' = list \/ (S # {} /\ PidSet(First(S), Failed))
    BY <1>3 DEF RemoveFind, PidSet
  <2>2. S \subseteq 1 .. Len(list) /\ \A j \in S : list[j].pid = Running.p
    BY DEF SlotsOf
  <2>3. Len(list) \in Nat
    BY <1>0, LenProperties DEF DataOK
  <2> HIDE DEF S
  <2>4. CASE S # {} /\ PidSet(First(S), Failed)
    <3>1. First(S) \in S /\ First(S) \in 1 .. Len(list)
      BY <2>2, <2>3, <2>4, FirstIn
    <3>2. Changed(First(S))
      BY <1>0, <1>3, <2>2, <2>4, <3>1, SlotChanged DEF Changed
    <3> QED
      BY <3>1, <3>2
  <2> QED
    BY <2>1, <2>4
<1>4. CASE SigchldScan
  <2>1. \/ list' = list
        \/ /\ Zombie(list[Running.i].pid)
           /\ PidSet(Running.i, Failed)
    BY <1>4 DEF SigchldScan, PidSet
  <2>2. Running.i \in 1 .. Len(list)
    <3>1. Running.k = "chld" /\ Running.i <= Running.p
      BY <1>4 DEF SigchldScan, At
    <3>2. Running.p \in 0 .. Len(list) /\ Running.i > 0 /\ Running.i \in Nat
      BY <1>0, <3>1 DEF FrameOK, Frame
    <3>3. Len(list) \in Nat
      BY <1>0, LenProperties DEF DataOK
    <3> QED
      BY <3>1, <3>2, <3>3
  <2>3. CASE /\ Zombie(list[Running.i].pid)
             /\ PidSet(Running.i, Failed)
    <3>1. Changed(Running.i)
      BY <1>0, <1>4, <2>2, <2>3, SlotChanged DEF Changed
    <3> QED
      BY <2>2, <3>1
  <2> QED
    BY <2>1, <2>3
<1> QED
  BY <1>0, <1>1, <1>2, <1>3, <1>4 DEF Effects

LEMMA StreamKinds ==
  ASSUME Ready, NewPlots, Kinds, Summary
  PROVE  /\ Extended
         /\ KindIn(proc', plot'.obj, "plot")
         /\ KindIn(proc', pager'.obj, "pager") /\ KindIn(proc', pager'.pid, "pager")
         /\ KindIn(proc', cmd'.obj, "cmd") /\ KindIn(proc', cmd'.pid, "cmd")
         /\ \A p \in 1 .. Len(proc') : proc'[p].file = "there" => proc'[p].kind = "file"
<1>0. ProcOK /\ Effects /\ DataOK
  BY TypeParts DEF Ready, Summary
<1>1. Older(proc') \/ \E k : Born(k)
  BY <1>0 DEF Effects
<1>2. Extended
  BY <1>0, <1>1, ProcExtended
<1>3. plot.obj \in Pid /\ pager.obj \in Pid /\ pager.pid \in Pid /\ cmd.obj \in Pid
      /\ cmd.pid \in Pid
  BY <1>0 DEF DataOK
<1>4. /\ KindIn(proc', plot.obj, "plot")
      /\ KindIn(proc', pager.obj, "pager") /\ KindIn(proc', pager.pid, "pager")
      /\ KindIn(proc', cmd.obj, "cmd") /\ KindIn(proc', cmd.pid, "cmd")
  BY <1>2, <1>3, KindKept DEF Kinds
<1>5. \A k : KindIn(proc', None, k) /\ KindIn(proc', Failed, k)
  BY DEF KindIn, None, Failed
<1>6. KindIn(proc', plot'.obj, "plot")
  BY <1>4, <1>5, PlotPids DEF KindIn
<1>7. KindIn(proc', pager'.obj, "pager")
  BY <1>4, <1>5, PagerPids DEF KindIn
<1>8. KindIn(proc', pager'.pid, "pager")
  BY <1>4, <1>5, PagerPids
<1>9. KindIn(proc', cmd'.obj, "cmd")
  BY <1>4, <1>5, CmdPids DEF KindIn
<1>10. KindIn(proc', cmd'.pid, "cmd")
  BY <1>4, <1>9, CmdPids
<1>11. ASSUME NEW p \in 1 .. Len(proc'), proc'[p].file = "there"
       PROVE  proc'[p].kind = "file"
  <2>1. CASE Older(proc')
    BY <1>11, <2>1 DEF Older, Kinds
  <2>2. ASSUME NEW k, Born(k) PROVE proc'[p].kind = "file"
    <3>1. p \in 1 .. Len(proc) \/ p = Len(proc) + 1
      BY <1>2, <2>2 DEF Born, Extended
    <3> QED
      BY <1>11, <2>2, <3>1 DEF Born, Kinds
  <2> QED
    BY <1>1, <2>1, <2>2
<1> QED
  BY <1>2, <1>6, <1>7, <1>8, <1>9, <1>10, <1>11

\* A frame that works on the list is not the lowest one.
LEMMA CallerOf ==
  ASSUME TypeOK, Kinds, Running.k \in {"insert", "remove"}
  PROVE  Depth \in 2 .. Depth /\ FrameKind(proc, Running, cs[Depth - 1])
<1>1. Depth \in Nat \ {0} /\ Running = cs[Depth] /\ cs[1].k = "main"
  BY TypeParts, StackFacts DEF StackOK
<1>2. Depth \in 2 .. Depth
  BY <1>1
<1> QED
  BY <1>1, <1>2 DEF Kinds

LEMMA ListKinds ==
  ASSUME Ready, NewPlots, Kinds, Summary
  PROVE  \A i \in 1 .. Len(list') : list'[i].pid <= Len(proc')
<1>0. /\ TypeOK /\ Extended /\ list \in Seq(Slot) /\ Len(list) \in Nat
      /\ Running \in Frame /\ Running.p \in Int
  <2>1. Running \in Frame /\ list \in Seq(Slot) /\ TypeOK
    BY TypeParts, StackFacts DEF Ready, DataOK
  <2>2. Running.p \in Pid
    BY <2>1 DEF Frame
  <2> QED
    BY <2>1, <2>2, StreamKinds, LenProperties DEF Pid, Failed
<1>1. \A i \in 1 .. Len(list) : list[i].pid \in Int /\ list[i].pid <= Len(proc')
  <2>1. \A i \in 1 .. Len(list) : list[i] \in Slot
    BY <1>0, ElementOfSeq
  <2>2. \A i \in 1 .. Len(list) : list[i].pid \in Int
    BY <2>1 DEF Slot, Pid, Failed
  <2> QED
    BY <1>0, <2>2 DEF Kinds, Extended
<1>2. ASSUME Running.k = "insert" PROVE Running.p <= Len(proc')
  <2>1. KindIn(proc, Running.p, Running.h)
    BY <1>0, <1>2, CallerOf DEF FrameKind
  <2> QED
    BY <1>0, <2>1 DEF KindIn, Extended
<1>3. CASE list' = list
  BY <1>1, <1>3
<1>4. CASE Appended
  <2>1. Running.k = "insert"
    BY <1>4 DEF Appended, InsertFind, At
  <2>2. \A i \in 1 .. Len(list') : i \in 1 .. Len(list) \/ i = Len(list) + 1
    BY <1>0, <1>4 DEF Appended
  <2> QED
    BY <1>1, <1>2, <1>4, <2>1, <2>2 DEF Appended
<1>5. ASSUME NEW i \in 1 .. Len(list), Changed(i)
      PROVE  \A j \in 1 .. Len(list') : list'[j].pid <= Len(proc')
  <2>1. InsertPid => Running.k = "insert"
    BY DEF InsertPid, At
  <2>2. Failed <= Len(proc')
    BY <1>0 DEF Failed, Extended
  <2>3. list'[i].pid <= Len(proc')
    BY <1>1, <1>2, <1>5, <2>1, <2>2 DEF Changed
  <2> QED
    BY <1>1, <1>5, <2>3 DEF Changed
<1> QED
  BY <1>3, <1>4, <1>5, ListSteps

LEMMA CalledKinds ==
  ASSUME Ready, NewPlots, Kinds, Summary, CallStep
  PROVE  FrameKind(proc', cs'[Depth + 1], cs'[Depth])
<1> DEFINE new == cs'[Depth + 1]
<1> DEFINE caller == cs'[Depth]
<1> SUFFICES FrameKind(proc', new, caller)
  OBVIOUS
<1>0. /\ Extended /\ DataOK /\ caller.k = Running.k
      /\ KindIn(proc', cmd'.obj, "cmd")
  BY TypeParts, StreamKinds DEF Ready, CallStep, GoesOn
<1>1. plot.obj \in Pid /\ pager.obj \in Pid /\ pager.pid \in Pid /\ cmd.pid \in Pid
  BY <1>0 DEF DataOK
<1>2. /\ KindIn(proc', plot.obj, "plot") /\ KindIn(proc', pager.obj, "pager")
      /\ KindIn(proc', pager.pid, "pager") /\ KindIn(proc', cmd.pid, "cmd")
  BY <1>0, <1>1, KindKept DEF Kinds
<1>3. CASE new.k = "insert"
  <2>1. CASE SyncInsert /\ new.p = pager.obj /\ new.h = "pager"
    BY <1>2, <1>3, <2>1 DEF FrameKind
  <2>2. CASE OpenplotInsert /\ new.p = plot.obj /\ new.h = "plot"
    BY <1>0, <1>2, <1>3, <2>2 DEF FrameKind, OpenplotInsert, At
  <2>3. CASE SystemBegin /\ new.p = cmd'.obj /\ new.h = "cmd"
    BY <1>0, <1>3, <2>3 DEF FrameKind
  <2>4. CASE (\E p \in 1 .. Len(proc) : proc[p].file = "there" /\ new.p = p)
             /\ new.h = "file"
    <3>1. KindIn(proc', new.p, "file")
      BY <1>0, <2>4 DEF Kinds, KindIn, Extended
    <3> QED
      BY <1>3, <2>4, <3>1 DEF FrameKind
  <2> QED
    BY <1>3, <2>1, <2>2, <2>3, <2>4, InsertsWhat
<1>4. CASE new.k = "remove"
  <2>1. \/ Running.k = "clear" /\ new.p = pager.pid
        \/ Running.k = "closeplot" /\ new.p = plot.pid
        \/ Running.k = "cleancmd" /\ new.p = cmd.pid
    BY <1>4, RemovesWhat
  <2> HIDE DEF new, caller
  <2> QED
    BY <1>0, <1>2, <1>4, <2>1 DEF FrameKind, KindIn
<1>5. CASE new.k \notin {"insert", "remove"}
  BY <1>5 DEF FrameKind
<1> QED
  BY <1>3, <1>4, <1>5

LEMMA KindsMoves ==
  ASSUME TypeInv, Kinds, Synchronous
  PROVE  Kinds'
<1>0. /\ Ready /\ Summary /\ Moves /\ Depth \in Nat \ {0} /\ Extended /\ TypeOK
      /\ NewPlots /\ \A i \in 1 .. Depth : cs[i] \in Frame
  BY InvReady, SynchronousSteps, TypeParts, StackFacts, StreamKinds DEF TypeInv, Summary
<1>1. ASSUME NEW i \in 2 .. Depth - 1 PROVE FrameKind(proc', cs'[i], cs'[i - 1])
  <2>1. cs'[i] = cs[i] /\ cs'[i - 1] = cs[i - 1] /\ i \in 2 .. Depth /\ i \in 1 .. Depth
    BY <1>0 DEF Moves, Below
  <2>2. FrameKind(proc, cs[i], cs[i - 1])
    BY <2>1 DEF Kinds
  <2> QED
    BY <1>0, <2>1, <2>2, FrameKindKept
<1>2. ASSUME GoesOn(cs'[Depth]), Depth \in 2 .. Depth
      PROVE  FrameKind(proc', cs'[Depth], cs'[Depth - 1])
  <2>1. Running \in Frame /\ Running = cs[Depth] /\ cs'[Depth - 1] = cs[Depth - 1]
    BY <1>0, <1>2, StackFacts, TypeParts DEF Moves, Below
  <2>2. FrameKind(proc', Running, cs'[Depth - 1])
    BY <1>0, <1>2, <2>1, FrameKindKept DEF Kinds
  <2>3. /\ cs'[Depth].k = Running.k /\ cs'[Depth].h = Running.h
        /\ cs'[Depth].k \in {"insert", "remove"} => cs'[Depth].p = Running.p
    BY <1>2 DEF GoesOn
  <2> QED
    BY <2>2, <2>3 DEF FrameKind
<1>3. \A i \in 2 .. Len(cs') : FrameKind(proc', cs'[i], cs'[i - 1])
  <2>1. CASE GoesStep
    <3>1. GoesOn(cs'[Depth]) /\ Len(cs') = Depth
      BY <2>1 DEF GoesStep
    <3>2. \A i \in 2 .. Len(cs') : i \in 2 .. Depth - 1 \/ i = Depth
      BY <1>0, <3>1
    <3> QED
      BY <1>1, <1>2, <3>1, <3>2
  <2>2. CASE CallStep
    <3>1. GoesOn(cs'[Depth]) /\ Len(cs') = Depth + 1
      BY <2>2 DEF CallStep
    <3>2. FrameKind(proc', cs'[Depth + 1], cs'[Depth + 1 - 1])
      BY <1>0, <2>2, CalledKinds
    <3>3. \A i \in 2 .. Len(cs') : i \in 2 .. Depth - 1 \/ (i = Depth /\ Depth \in 2 .. Depth)
                                  \/ i = Depth + 1
      BY <1>0, <3>1
    <3>4. Depth \in 2 .. Depth => FrameKind(proc', cs'[Depth], cs'[Depth - 1])
      BY <1>2, <3>1
    <3>5. ASSUME NEW i \in 2 .. Len(cs') PROVE FrameKind(proc', cs'[i], cs'[i - 1])
      <4>1. CASE i \in 2 .. Depth - 1
        BY <1>1, <4>1
      <4>2. CASE i = Depth /\ Depth \in 2 .. Depth
        BY <3>4, <4>2
      <4>3. CASE i = Depth + 1
        <5>1. Depth + 1 - 1 = i - 1
          BY <1>0, <4>3
        <5>2. FrameKind(proc', cs'[i], cs'[i - 1])
          BY <3>2, <4>3, <5>1, Zenon
        <5> QED
          BY <5>2
      <4> QED
        BY <3>3, <4>1, <4>2, <4>3
    <3> QED
      BY <3>5
  <2>3. CASE LeaveStep
    <3>1. \A i \in 2 .. Len(cs') : i \in 2 .. Depth - 1
      BY <1>0, <2>3 DEF LeaveStep
    <3> QED
      BY <1>1, <3>1
  <2>4. CASE SwapStep
    <3>1. cs'[Depth].k = "plotdeath" /\ Len(cs') = Depth
      BY <2>4 DEF SwapStep, FrameOf
    <3>2. FrameKind(proc', cs'[Depth], cs'[Depth - 1])
      BY <3>1 DEF FrameKind
    <3>3. \A i \in 2 .. Len(cs') : i \in 2 .. Depth - 1 \/ i = Depth
      BY <1>0, <3>1
    <3> QED
      BY <1>1, <3>2, <3>3
  <2> QED
    BY <1>0, <2>1, <2>2, <2>3, <2>4 DEF Moves
<1>4. \A i \in 1 .. Len(list') : list'[i].pid <= Len(proc')
  BY <1>0, ListKinds
<1>5. /\ KindIn(proc', plot'.obj, "plot")
      /\ KindIn(proc', pager'.obj, "pager") /\ KindIn(proc', pager'.pid, "pager")
      /\ KindIn(proc', cmd'.obj, "cmd") /\ KindIn(proc', cmd'.pid, "cmd")
      /\ \A p \in 1 .. Len(proc') : proc'[p].file = "there" => proc'[p].kind = "file"
  BY <1>0, StreamKinds
<1> QED
  BY <1>3, <1>4, <1>5 DEF Kinds, Depth, KindIn, FrameKind

\* The steps that leave the streams and the frames that work on the list alone.
LEMMA KindsKept ==
  ASSUME ProcOK, DataOK, Kinds, Older(proc'), plot' = plot, cmd' = cmd, list' = list,
         pager'.obj = pager.obj, pager'.pid = pager.pid,
         \A i \in 1 .. Depth : cs[i] \in Frame,
         \A i \in 2 .. Len(cs') : cs'[i].k \in {"insert", "remove"} =>
           i \in 2 .. Depth /\ i \in 1 .. Depth /\ cs'[i] = cs[i] /\ cs'[i - 1] = cs[i - 1]
  PROVE  Kinds'
<1>0. Extended
  BY ProcExtended
<1>1. /\ KindIn(proc', plot'.obj, "plot")
      /\ KindIn(proc', pager'.obj, "pager") /\ KindIn(proc', pager'.pid, "pager")
      /\ KindIn(proc', cmd'.obj, "cmd") /\ KindIn(proc', cmd'.pid, "cmd")
  <2>1. plot.obj \in Pid /\ pager.obj \in Pid /\ pager.pid \in Pid /\ cmd.obj \in Pid
        /\ cmd.pid \in Pid
    BY DEF DataOK
  <2> QED
    BY <1>0, <2>1, KindKept DEF Kinds
<1>2. \A p \in 1 .. Len(proc') : proc'[p].file = "there" => proc'[p].kind = "file"
  BY DEF Older, Kinds
<1>3. \A i \in 1 .. Len(list') : list'[i].pid <= Len(proc')
  BY DEF Older, Kinds
<1>4. ASSUME NEW i \in 2 .. Len(cs') PROVE FrameKind(proc', cs'[i], cs'[i - 1])
  <2>1. CASE cs'[i].k \in {"insert", "remove"}
    <3>1. i \in 2 .. Depth /\ i \in 1 .. Depth /\ cs'[i] = cs[i] /\ cs'[i - 1] = cs[i - 1]
      BY <2>1
    <3>2. FrameKind(proc, cs[i], cs[i - 1])
      BY <3>1 DEF Kinds
    <3> QED
      BY <1>0, <3>1, <3>2, FrameKindKept
  <2>2. CASE cs'[i].k \notin {"insert", "remove"}
    BY <2>2 DEF FrameKind
  <2> QED
    BY <2>1, <2>2
<1> QED
  BY <1>1, <1>2, <1>3, <1>4 DEF Kinds, Depth, KindIn, FrameKind

LEMMA KindsNext ==
  ASSUME TypeInv, Kinds, Next
  PROVE  Kinds'
<1>0. /\ TypeOK /\ Depth \in Nat \ {0} /\ WellCalled /\ ProcOK /\ DataOK /\ Older(proc)
      /\ \A i \in 1 .. Depth : cs[i] \in Frame
  BY TypeParts, StackFacts, ProcFacts DEF TypeInv
<1>1. CASE Synchronous
  BY <1>1, KindsMoves
<1>2. CASE MainJumped
  <2>1. /\ Depth = 1 /\ plot' = plot /\ proc' = proc /\ cmd' = cmd /\ list' = list
        /\ pager'.obj = pager.obj /\ pager'.pid = pager.pid
    BY <1>0, <1>2, JumpedStep, MainAlone DEF At, PagerKept
  <2>2. \A i \in 2 .. Len(cs') : cs'[i].k \notin {"insert", "remove"}
    <3>1. \/ Len(cs') = 1 \/ cs' = cs
          \/ Len(cs') = 2 /\ cs'[2] = FrameOf("cleancmd", None)
      <4>1. \/ Len(cs') = Depth \/ cs' = cs
            \/ Len(cs') = Depth + 1 /\ cs'[Depth + 1] = FrameOf("cleancmd", None)
        BY <1>0, <1>2, JumpedStep
      <4>2. Depth + 1 = 2
        BY <2>1
      <4> QED
        BY <2>1, <4>1, <4>2
    <3>2. FrameOf("cleancmd", None).k = "cleancmd"
      BY DEF FrameOf
    <3>3. cs' = cs => Len(cs') = 1
      BY <2>1 DEF Depth
    <3> QED
      BY <3>1, <3>2, <3>3
  <2>3. Older(proc')
    BY <1>0, <2>1
  <2> QED
    BY <1>0, <2>1, <2>2, <2>3, KindsKept
<1>3. CASE SigchldBegin
  <2>1. /\ Len(cs') = Depth + 1 /\ \A i \in 1 .. Depth : cs'[i] = cs[i]
        /\ cs'[Depth + 1].k = "chld"
        /\ plot' = plot /\ proc' = proc /\ cmd' = cmd /\ list' = list /\ pager' = pager
    BY <1>0, <1>3, HandlerStep
  <2>2. \A i \in 2 .. Len(cs') : i = Depth + 1
          \/ (i \in 2 .. Depth /\ i \in 1 .. Depth /\ i - 1 \in 1 .. Depth)
    BY <1>0, <2>1
  <2>3. Older(proc')
    BY <1>0, <2>1
  <2> QED
    BY <1>0, <2>1, <2>2, <2>3, KindsKept
<1>4. CASE Interrupt
  <2>1. /\ Len(cs') = 1 /\ plot' = plot /\ proc' = proc /\ cmd' = cmd /\ list' = list
        /\ pager' = pager
    BY <1>0, <1>4, InterruptStep
  <2>2. Older(proc')
    BY <1>0, <2>1
  <2> QED
    BY <1>0, <2>1, <2>2, KindsKept
<1>5. CASE \E p : Die(p)
  <2>1. /\ cs' = cs /\ plot' = plot /\ Older(proc') /\ cmd' = cmd /\ list' = list
        /\ pager' = pager
    BY <1>0, <1>5, DieStep
  <2>2. Len(cs') = Depth /\ \A i \in 2 .. Depth : i \in 1 .. Depth
    BY <1>0, <2>1 DEF Depth
  <2> QED
    BY <1>0, <2>1, <2>2, KindsKept
<1> QED
  BY <1>1, <1>2, <1>3, <1>4, <1>5, Steps

LEMMA KindsInit ==
  ASSUME Init
  PROVE  Kinds
<1>1. Depth = 1 /\ Len(proc) = 0 /\ Len(list) = 0
  BY InitStack DEF Init
<1>2. plot.obj = None /\ pager.obj = None /\ pager.pid = Failed /\ cmd.obj = None
      /\ cmd.pid = Failed
  BY DEF Init
<1> QED
  BY <1>1, <1>2 DEF Kinds, KindIn, None, Failed

-----------------------------------------------------------------------------
(***************************************************************************)
(* The plotter on the list                                                 *)
(***************************************************************************)

Listed(l, p) == \E i \in 1 .. Len(l) : l[i].pid = p /\ l[i].h = "plot"

\* A frame that will put it there.
Insertion(fr, p) == \/ fr.k = "openplot" /\ fr.pc = "insert"
                    \/ fr.k = "insert" /\ fr.p = p

\* The element that an insertion has found is its own.
Claimed(l, fr, p) ==
  fr.k = "insert" /\ fr.pc # "begin" =>
    IF fr.p # p THEN l[fr.i].pid # p
    ELSE /\ fr.pc \in {"handler", "file"} => l[fr.i].pid = p
         /\ fr.pc = "file" => l[fr.i].h = "plot"

Closing == \E i \in 1 .. Depth : cs[i].k = "closeplot"
Registered ==
  intr = 0 /\ Alive(plot.obj) /\ ~ Closing =>
    /\ Listed(list, plot.obj) \/ \E i \in 1 .. Depth : Insertion(cs[i], plot.obj)
    /\ \A i \in 1 .. Depth : Claimed(list, cs[i], plot.obj)

\* What the elements of a process keep.
Untouched(p) ==
  /\ Len(list) \in Nat /\ Len(list') \in Nat /\ Len(list) <= Len(list')
  /\ \A j \in 1 .. Len(list) :
       /\ list[j].pid = p => list'[j].pid = p /\ list'[j].h = list[j].h
       /\ list'[j].pid = p => list[j].pid = p

LEMMA UntouchedKeeps ==
  ASSUME NEW p, Untouched(p)
  PROVE  /\ Listed(list, p) => Listed(list', p)
         /\ \A fr : fr.i \in 1 .. Len(list) /\ Claimed(list, fr, p) => Claimed(list', fr, p)
<1>1. Listed(list, p) => Listed(list', p)
  BY DEF Listed, Untouched
<1>2. ASSUME NEW fr, fr.i \in 1 .. Len(list), Claimed(list, fr, p)
      PROVE  Claimed(list', fr, p)
  BY <1>2 DEF Claimed, Untouched
<1> QED
  BY <1>1, <1>2

\* Only the insertion of a process gives it an element, and only close_plot_stream or
\* its death take that of plot_stream's away.
LEMMA UntouchedSteps ==
  ASSUME TypeInv, Kinds, Summary, Alive(plot.obj), ~ Closing,
         Claimed(list, Running, plot.obj)
  PROVE  \/ Untouched(plot.obj)
         \/ InsertPid /\ Running.p = plot.obj
         \/ InsertHandler /\ Running.p = plot.obj
<1> DEFINE p == plot.obj
<1>0. /\ Ready /\ TypeOK /\ Len(list) \in Nat /\ Running = cs[Depth] /\ Depth \in Nat \ {0}
      /\ p \in Nat /\ p > 0 /\ p \in 1 .. Len(proc) /\ proc[p].kind = "plot"
  <2>1. Ready /\ TypeOK /\ Running = cs[Depth] /\ Depth \in Nat \ {0} /\ list \in Seq(Slot)
        /\ Len(proc) \in Nat
    BY InvReady, TypeParts, StackFacts, ProcFacts DEF TypeInv, DataOK
  <2>2. p \in 1 .. Len(proc)
    BY DEF Alive, IsPid
  <2>3. p \in Nat /\ p > 0
    BY <2>1, <2>2
  <2> QED
    BY <2>1, <2>2, <2>3, LenProperties DEF Kinds, KindIn
<1> HIDE DEF p
<1>1. CASE list' = list
  BY <1>0, <1>1 DEF Untouched
<1>2. CASE Appended
  BY <1>0, <1>2 DEF Appended, Untouched
<1>3. ASSUME NEW i \in 1 .. Len(list), Changed(i)
      PROVE  \/ Untouched(p)
             \/ InsertPid /\ Running.p = p
             \/ InsertHandler /\ Running.p = p
  <2>0. /\ Len(list') = Len(list) /\ \A j \in 1 .. Len(list) : j # i => list'[j] = list[j]
        /\ Failed # p
    BY <1>0, <1>3 DEF Changed, Failed
  <2>1. ASSUME list[i].pid # p, list'[i].pid # p PROVE Untouched(p)
    BY <1>0, <2>0, <2>1 DEF Untouched
  <2>2. InsertPid \/ InsertHandler => Running.k = "insert" /\ Running.pc # "begin"
    BY DEF InsertPid, InsertHandler, At
  <2>3. CASE InsertPid /\ i = Running.i /\ list'[i].pid = Running.p /\ list'[i].h = list[i].h
    <3>1. Running.p # p => list[i].pid # p
      BY <2>2, <2>3 DEF Claimed, p
    <3> QED
      BY <2>1, <2>3, <3>1
  <2>4. CASE InsertHandler /\ i = Running.i /\ list'[i].pid = list[i].pid
    <3>1. Running.p # p => list[i].pid # p
      BY <2>2, <2>4 DEF Claimed, p
    <3> QED
      BY <2>1, <2>4, <3>1
  <2>5. CASE InsertFile /\ list'[i].pid = list[i].pid /\ list'[i].h = list[i].h
    BY <1>0, <2>0, <2>5 DEF Untouched
  <2>6. CASE RemoveFind /\ list[i].pid = Running.p /\ list'[i].pid = Failed
    <3>1. Running.k = "remove"
      BY <2>6 DEF RemoveFind, At
    <3>2. Depth - 1 \in 1 .. Depth /\ FrameKind(proc, Running, cs[Depth - 1])
      BY <1>0, <3>1, CallerOf
    <3>3. cs[Depth - 1].k # "closeplot"
      BY <3>2 DEF Closing
    <3>4. Running.p # p
      BY <1>0, <3>1, <3>2, <3>3 DEF FrameKind
    <3> QED
      BY <2>0, <2>1, <2>6, <3>4
  <2>7. CASE SigchldScan /\ Zombie(list[i].pid) /\ list'[i].pid = Failed
    <3>1. list[i].pid # p
      BY <2>7 DEF Zombie, Alive, p
    <3> QED
      BY <2>0, <2>1, <2>7, <3>1
  <2> QED
    BY <1>3, <2>3, <2>4, <2>5, <2>6, <2>7 DEF Changed
<1>4. \/ Untouched(p)
      \/ InsertPid /\ Running.p = p
      \/ InsertHandler /\ Running.p = p
  <2>1. list' = list \/ Appended \/ \E i \in 1 .. Len(list) : Changed(i)
    BY <1>0, ListSteps
  <2> QED
    BY <1>1, <1>2, <1>3, <2>1 DEF p
<1> QED
  BY <1>4 DEF p

\* While nobody closes plot_stream, a gnuplot is put on the list from the main loop:
\* no other insertion is under way.
LEMMA LoneInsertion ==
  ASSUME TypeInv, Kinds, Alive(plot.obj), ~ Closing, Running.k = "insert",
         Running.p = plot.obj
  PROVE  Running.h = "plot" /\ \A i \in 1 .. Depth - 1 : cs[i].k # "insert"
<1>0. /\ TypeOK /\ WellCalled /\ Running = cs[Depth] /\ Depth \in Nat \ {0}
      /\ \A i \in 1 .. Depth : cs[i].k # "closeplot"
  BY TypeParts, StackFacts DEF TypeInv, Closing
<1>1. plot.obj \in 1 .. Len(proc) /\ plot.obj > 0 /\ proc[plot.obj].kind = "plot"
  <2>1. plot.obj \in 1 .. Len(proc) /\ Len(proc) \in Nat
    BY <1>0, TypeParts, ProcFacts DEF Alive, IsPid
  <2> QED
    BY <2>1 DEF Kinds, KindIn
<1>2. Depth \in 2 .. Depth /\ FrameKind(proc, Running, cs[Depth - 1])
  BY <1>0, CallerOf
<1>3. Running.h = "plot" /\ cs[Depth - 1].k = "openplot"
  BY <1>1, <1>2 DEF FrameKind, KindIn
<1>4. Depth - 1 \in 1 .. Depth
  BY <1>2
<1>5. /\ Depth - 1 > 2 /\ cs[Depth - 1 - 1].k = "send"
      /\ (cs[Depth - 1 - 2].k = "main" /\ Depth - 1 = 3) \/ Ending(cs[Depth - 1 - 2])
  BY <1>0, <1>3, <1>4, Opener
<1>6. Depth - 1 - 2 \in 1 .. Depth
  BY <1>0, <1>5
<1>7. Depth = 4
  <2>1. cs[Depth - 1 - 2].k # "closeplot"
    BY <1>0, <1>6
  <2>2. Depth - 1 = 3
    BY <1>5, <2>1 DEF Ending
  <2> QED
    BY <1>0, <2>2
<1>8. cs[3].k = "openplot" /\ cs[2].k = "send" /\ cs[1].k = "main"
  <2>1. Depth - 1 = 3 /\ Depth - 1 - 1 = 2
    BY <1>7
  <2>2. cs[1].k = "main"
    BY <1>0, TypeParts DEF StackOK
  <2> QED
    BY <1>3, <1>5, <2>1, <2>2
<1>9. \A i \in 1 .. Depth - 1 : i = 1 \/ i = 2 \/ i = 3
  BY <1>7
<1> QED
  BY <1>3, <1>8, <1>9

\* How an insertion goes on.
LEMMA InsertRuns ==
  ASSUME Ready, Summary, Running.k = "insert"
  PROVE  /\ LeaveStep => Appended \/ InsertFile
         /\ ~ LeaveStep => GoesStep
         /\ InsertFind /\ ~ LeaveStep =>
              list' = list /\ cs'[Depth].i \in 1 .. Len(list) /\ list[cs'[Depth].i].pid < 0
<1>0. /\ StackOK /\ Len(list) \in Nat /\ Running \in Frame /\ Depth \in Nat \ {0} /\ Moves
      /\ Named /\ FrameOK(Running) /\ DataOK /\ list \in Seq(Slot)
  <2>1. list \in Seq(Slot)
    BY TypeParts DEF Ready, DataOK
  <2> QED
    BY <2>1, TypeParts, StackFacts, LenProperties DEF Ready, Summary
<1>1. \/ InsertFind \/ InsertPid \/ InsertHandler \/ InsertFile
  BY <1>0 DEF FrameOK, Named, At
<1>2. Return => LeaveStep
  BY <1>0, ReturnMoves
<1>3. ASSUME NEW fr, cs' = Top(fr) PROVE ~ LeaveStep
  <2>1. Len(cs') = Depth
    BY <1>0, <1>3 DEF Top, StackOK, Depth
  <2> QED
    BY <1>0, <2>1 DEF LeaveStep
<1>4. ASSUME InsertFind, LeaveStep PROVE Appended
  <2>1. PICK x : x = [pid |-> Running.p, h |-> Running.h,
                      file |-> IF Running.h = "file" THEN Running.p ELSE None]
    OBVIOUS
  <2>2. x.pid = Running.p /\ x.h = Running.h
    BY <2>1
  <2>3. Free = {}
    <3>1. Free # {} => cs' = Top([Running EXCEPT !.pc = "pid", !.i = First(Free)])
      BY <1>4 DEF InsertFind
    <3> QED
      BY <1>3, <1>4, <3>1
  <2>4. list' = Append(list, x)
    BY <1>4, <2>1, <2>3 DEF InsertFind
  <2>5. /\ Len(list') = Len(list) + 1 /\ list'[Len(list) + 1] = x
        /\ \A j \in 1 .. Len(list) : list'[j] = list[j]
    BY <1>0, <2>4
  <2> QED
    BY <1>4, <2>2, <2>5 DEF Appended
<1>5. ASSUME InsertPid \/ InsertHandler PROVE ~ LeaveStep
  BY <1>3, <1>5 DEF InsertPid, InsertHandler, Goto
<1>6. ASSUME InsertFind, ~ LeaveStep
      PROVE  list' = list /\ cs'[Depth].i \in 1 .. Len(list) /\ list[cs'[Depth].i].pid < 0
  <2>1. /\ Free # {} /\ list' = list
        /\ cs' = Top([Running EXCEPT !.pc = "pid", !.i = First(Free)])
    BY <1>2, <1>6 DEF InsertFind
  <2>2. Free \subseteq 1 .. Len(list) /\ \A j \in Free : list[j].pid < 0
    BY DEF Free
  <2>3. First(Free) \in Free
    BY <1>0, <2>1, <2>2, FirstIn
  <2>4. PICK i : i = First(Free)
    OBVIOUS
  <2>5. i \in Free /\ i \in 1 .. Len(list) /\ i \in Nat /\ list[i].pid < 0
    <3>1. i \in Free
      BY <2>3, <2>4
    <3>2. i \in 1 .. Len(list) /\ list[i].pid < 0
      BY <2>2, <3>1
    <3> QED
      BY <1>0, <3>1, <3>2
  <2>6. PICK fr : fr = [Running EXCEPT !.pc = "pid", !.i = i]
    OBVIOUS
  <2>7. fr \in Frame /\ fr.i = i /\ fr.k = Running.k
    BY <1>0, <2>5, <2>6 DEF Frame, Pcs
  <2>8. Top(fr)[Depth] = fr /\ cs' = Top(fr)
    BY <1>0, <2>1, <2>4, <2>6, <2>7, TopFacts
  <2> QED
    BY <2>1, <2>5, <2>7, <2>8
<1>7. ASSUME ~ LeaveStep PROVE GoesStep
  <2>1. ~ SwapStep
    BY DEF SwapStep, At
  <2>2. ~ CallStep
    <3>1. CASE Return
      BY <1>2, <1>7, <3>1
    <3>2. ASSUME NEW fr, cs' = Top(fr) PROVE ~ CallStep
      <4>1. Len(cs') = Depth
        BY <1>0, <3>2 DEF Top, StackOK, Depth
      <4> QED
        BY <1>0, <4>1 DEF CallStep
    <3> QED
      BY <1>1, <3>1, <3>2 DEF InsertFind, InsertPid, InsertHandler, InsertFile, Goto
  <2> QED
    BY <1>0, <1>7, <2>1, <2>2 DEF Moves
<1> QED
  BY <1>1, <1>4, <1>5, <1>6, <1>7

\* close_plot_stream returns with no stream.
LEMMA CloseLeaves ==
  ASSUME Ready, Synchronous, Running.k = "closeplot", LeaveStep
  PROVE  plot'.obj = None
<1>0. StackOK /\ Depth \in Nat /\ CloseplotDeleted => plot'.obj = None
  BY TypeParts, StackFacts, PlotSteps DEF Ready
<1>1. ASSUME NEW pc, NEW new, Call(new, pc) PROVE FALSE
  <2>1. PICK t : t = Top([Running EXCEPT !.pc = pc])
    OBVIOUS
  <2>2. Len(t) = Depth
    BY <1>0, <2>1, TypeParts DEF Top, Depth, StackOK, Ready
  <2>3. cs' = Append(t, new)
    BY <1>1, <2>1 DEF Call, Calling
  <2>4. Len(cs') = Depth + 1
    BY <2>2, <2>3
  <2> QED
    BY <1>0, <2>4, TypeParts, StackFacts DEF LeaveStep, Ready
<1>2. ASSUME NEW pc, Goto(pc) PROVE FALSE
  <2>1. Len(cs') = Depth
    BY <1>2, TypeParts DEF Goto, Top, Depth, StackOK, Ready
  <2> QED
    BY <2>1, TypeParts, StackFacts DEF LeaveStep, Ready
<1>3. ~ CloseplotBegin
  BY <1>1 DEF CloseplotBegin
<1>4. ~ CloseplotSent
  BY <1>1, <1>2 DEF CloseplotSent, Delete, WaitFor
<1>5. CloseplotRemoved => plot.obj = None /\ plot' = plot
  BY <1>1 DEF CloseplotRemoved, Quiet
<1> QED
  BY <1>3, <1>4, <1>5, KindNamed, TypeParts, PlotSteps DEF Ready

LEMMA StreamStays ==
  ASSUME TypeInv, Kinds, Synchronous, Alive(plot.obj)'
  PROVE  \/ plot'.obj = plot.obj /\ Alive(plot.obj)
         \/ OpenplotAssign
<1>0. /\ Ready /\ Effects /\ Len(proc) \in Nat /\ plot.obj \in Pid
      /\ plot'.obj \in 1 .. Len(proc') /\ proc'[plot'.obj].st \in {"running", "ending"}
  <2>1. Ready /\ Effects /\ Len(proc) \in Nat /\ plot.obj \in Pid
    BY InvReady, SynchronousSteps, TypeParts, ProcFacts DEF TypeInv, Summary, DataOK
  <2>2. plot'.obj \in 1 .. Len(proc') /\ proc'[plot'.obj].st \in {"running", "ending"}
    BY DEF Alive, IsPid
  <2> QED
    BY <2>1, <2>2
<1>1. ASSUME plot'.obj = plot.obj PROVE Alive(plot.obj)
  <2>1. Older(proc') \/ \E k : Born(k)
    BY <1>0 DEF Effects
  <2>2. CASE Older(proc')
    BY <1>0, <1>1, <2>2 DEF Older, Alive, IsPid
  <2>3. ASSUME NEW k, Born(k) PROVE Alive(plot.obj)
    <3>1. plot.obj > 0
      BY <1>0, <1>1, <2>3 DEF Born
    <3>2. plot.obj \in 1 .. Len(proc)
      BY <3>1 DEF Kinds, KindIn
    <3> QED
      BY <1>0, <1>1, <2>3, <3>2 DEF Born, Alive, IsPid
  <2> QED
    BY <2>1, <2>2, <2>3
<1>2. ASSUME OpenplotDeleted \/ CloseplotDeleted PROVE FALSE
  <2>1. plot'.obj = None /\ proc' = proc
    BY <1>0, <1>2, PlotSteps
  <2> QED
    BY <1>0, <2>1 DEF None
<1> QED
  BY <1>0, <1>1, <1>2 DEF Effects

LEMMA StaysOpen ==
  ASSUME TypeInv, Synchronous, plot'.obj # None, ~ Closing'
  PROVE  ~ Closing
<1>0. Ready /\ Summary /\ Depth \in Nat \ {0} /\ Running = cs[Depth] /\ Moves
  BY InvReady, SynchronousSteps, TypeParts, StackFacts DEF TypeInv, Summary
<1>1. \A i \in 1 .. Len(cs') : cs'[i].k # "closeplot"
  BY DEF Closing, Depth
<1>2. Len(cs') \in {Depth - 1, Depth, Depth + 1}
  BY <1>0 DEF Moves, GoesStep, CallStep, LeaveStep, SwapStep
<1>3. ASSUME NEW i \in 1 .. Depth - 1 PROVE cs[i].k # "closeplot"
  <2>1. i \in 1 .. Len(cs')
    BY <1>0, <1>2
  <2>2. cs'[i] = cs[i]
    BY <1>0 DEF Moves, Below
  <2> QED
    BY <1>1, <2>1, <2>2
<1>4. Running.k # "closeplot"
  <2>1. CASE GoesStep \/ CallStep
    <3>1. Depth \in 1 .. Len(cs') /\ cs'[Depth].k = Running.k
      BY <1>0, <2>1 DEF GoesStep, CallStep, GoesOn
    <3> QED
      BY <1>1, <3>1
  <2>2. CASE LeaveStep
    BY <1>0, <2>2, CloseLeaves
  <2>3. CASE SwapStep
    BY <2>3 DEF SwapStep, At
  <2> QED
    BY <1>0, <2>1, <2>2, <2>3 DEF Moves
<1>5. \A i \in 1 .. Depth : i \in 1 .. Depth - 1 \/ i = Depth
  BY <1>0
<1> QED
  BY <1>0, <1>3, <1>4, <1>5 DEF Closing

\* plot_stream becomes new in a call from the main loop, when no insertion is under way.
LEMMA NewPlotter ==
  ASSUME TypeInv, Synchronous, OpenplotAssign, ~ Closing
  PROVE  /\ \E i \in 1 .. Len(cs') : Insertion(cs'[i], plot'.obj)
         /\ \A i \in 1 .. Len(cs') : Claimed(list', cs'[i], plot'.obj)
<1>0. /\ Ready /\ Depth \in Nat \ {0} /\ Running = cs[Depth] /\ Moves /\ TypeOK
      /\ WellCalled /\ Depth \in 1 .. Depth /\ Running.k = "openplot"
      /\ \A i \in 1 .. Depth : cs[i].k # "closeplot"
  <2>1. Running.k = "openplot"
    BY DEF OpenplotAssign, At
  <2> QED
    BY <2>1, InvReady, SynchronousSteps, TypeParts, StackFacts DEF TypeInv, Summary, Closing
<1>1. cs'[Depth].pc = "insert" /\ Len(cs') = Depth
  BY <1>0, PlotSteps
<1>2. cs'[Depth].k = "openplot"
  <2>1. GoesStep
    BY <1>0, <1>1 DEF Moves, CallStep, LeaveStep, SwapStep, At
  <2> QED
    BY <1>0, <2>1 DEF GoesStep, GoesOn
<1>3. Depth = 3 /\ cs[2].k = "send" /\ cs[1].k = "main"
  <2>1. /\ Depth > 2 /\ cs[Depth - 1].k = "send"
        /\ (cs[Depth - 2].k = "main" /\ Depth = 3) \/ Ending(cs[Depth - 2])
    BY <1>0, Opener
  <2>2. Depth - 2 \in 1 .. Depth
    BY <1>0, <2>1
  <2>3. ~ Ending(cs[Depth - 2])
    BY <1>0, <2>2 DEF Ending
  <2> QED
    BY <2>1, <2>3
<1>4. cs'[1].k = "main" /\ cs'[2].k = "send" /\ cs'[3].k = "openplot"
  BY <1>0, <1>2, <1>3 DEF Moves, Below
<1>5. \A i \in 1 .. Len(cs') : cs'[i].k # "insert"
  BY <1>1, <1>3, <1>4
<1> QED
  BY <1>1, <1>2, <1>3, <1>5 DEF Insertion, Claimed

\* The other steps while nobody closes plot_stream.
LEMMA InsertionMoves ==
  ASSUME TypeInv, Kinds, Synchronous, Alive(plot.obj), ~ Closing, plot'.obj = plot.obj,
         Claimed(list, Running, plot.obj),
         Listed(list, plot.obj) \/ \E i \in 1 .. Depth : Insertion(cs[i], plot.obj)
  PROVE  Listed(list', plot.obj) \/ \E i \in 1 .. Len(cs') : Insertion(cs'[i], plot.obj)
<1>0. /\ Ready /\ Summary /\ Moves /\ Named /\ Depth \in Nat \ {0} /\ Running = cs[Depth]
      /\ Depth \in 1 .. Depth /\ StackOK
  BY InvReady, SynchronousSteps, TypeParts, StackFacts DEF TypeInv, Summary
<1>1. Len(cs') \in {Depth - 1, Depth, Depth + 1}
  BY <1>0 DEF Moves, GoesStep, CallStep, LeaveStep, SwapStep
<1>2. CASE Listed(list, plot.obj) /\ Untouched(plot.obj)
  BY <1>2, UntouchedKeeps
<1>3. ASSUME Running.k = "insert", Running.p = plot.obj
      PROVE  Listed(list', plot.obj) \/ \E i \in 1 .. Len(cs') : Insertion(cs'[i], plot.obj)
  <2>0. Running.h = "plot" /\ Running.i \in Nat /\ FrameOK(Running)
    BY <1>0, <1>3, LoneInsertion, StackFacts DEF Ready, Frame
  <2>1. CASE GoesStep
    <3>1. Depth \in 1 .. Len(cs') /\ cs'[Depth].k = "insert" /\ cs'[Depth].p = plot.obj
      BY <1>0, <1>3, <2>1 DEF GoesStep, GoesOn
    <3> QED
      BY <3>1 DEF Insertion
  <2>2. CASE Appended
    <3>1. Len(list) \in Nat
      BY <1>0, TypeParts, LenProperties DEF Ready, DataOK
    <3>2. Len(list) + 1 \in 1 .. Len(list') /\ list'[Len(list) + 1].pid = plot.obj
          /\ list'[Len(list) + 1].h = "plot"
      BY <1>3, <2>0, <2>2, <3>1 DEF Appended
    <3> QED
      BY <3>2 DEF Listed
  <2>3. CASE InsertFile
    <3>1. Running.pc = "file"
      BY <2>3 DEF InsertFile, At
    <3>2. list[Running.i].pid = plot.obj /\ list[Running.i].h = "plot"
      BY <1>3, <3>1 DEF Claimed
    <3>3. Running.i \in 1 .. Len(list)
      BY <1>3, <2>0, <3>1 DEF FrameOK
    <3>4. Listed(list, plot.obj)
      BY <3>2, <3>3 DEF Listed
    <3>5. ~ InsertPid /\ ~ InsertHandler
      BY <3>1 DEF InsertPid, InsertHandler, At
    <3> QED
      BY <1>0, <1>2, <3>4, <3>5, UntouchedSteps
  <2> QED
    BY <1>0, <1>3, <2>1, <2>2, <2>3, InsertRuns
<1>4. ASSUME NEW i \in 1 .. Depth - 1, Insertion(cs[i], plot.obj)
      PROVE  \E j \in 1 .. Len(cs') : Insertion(cs'[j], plot.obj)
  <2>1. i \in 1 .. Len(cs')
    BY <1>0, <1>1
  <2>2. cs'[i] = cs[i]
    BY <1>0 DEF Moves, Below
  <2> QED
    BY <1>4, <2>1, <2>2
<1>5. CASE Running.k = "openplot" /\ Running.pc = "insert"
  <2>1. OpenplotInsert
    BY <1>0, <1>5 DEF Named, At
  <2>2. Call(InsertOf(plot.obj, "plot"), "done")
    BY <2>1 DEF OpenplotInsert
  <2>3. cs'[Depth + 1] = InsertOf(plot.obj, "plot")
    BY <1>0, <2>2, CalledIs
  <2>4. cs'[Depth + 1].k = "insert" /\ cs'[Depth + 1].p = plot.obj
    BY <2>3 DEF InsertOf, FrameOf
  <2>5. Depth + 1 \in 1 .. Len(cs')
    <3>1. PICK t : t = Top([Running EXCEPT !.pc = "done"])
      OBVIOUS
    <3>2. Len(t) = Depth /\ cs' = Append(t, InsertOf(plot.obj, "plot"))
      BY <1>0, <2>2, <3>1 DEF Top, Depth, StackOK, Call, Calling
    <3>3. Len(cs') = Depth + 1
      BY <3>2
    <3> QED
      BY <1>0, <3>3
  <2> QED
    BY <2>4, <2>5 DEF Insertion
<1>6. CASE Listed(list, plot.obj)
  <2>1. \/ Untouched(plot.obj)
        \/ Running.k = "insert" /\ Running.p = plot.obj
    BY <1>0, UntouchedSteps DEF InsertPid, InsertHandler, At
  <2> QED
    BY <1>2, <1>3, <1>6, <2>1
<1>7. ASSUME NEW i \in 1 .. Depth, Insertion(cs[i], plot.obj)
      PROVE  Listed(list', plot.obj) \/ \E j \in 1 .. Len(cs') : Insertion(cs'[j], plot.obj)
  <2>1. CASE i \in 1 .. Depth - 1
    BY <1>4, <1>7, <2>1
  <2>2. CASE i = Depth
    <3>1. Insertion(Running, plot.obj)
      BY <1>0, <1>7, <2>2
    <3> QED
      BY <1>3, <1>5, <3>1 DEF Insertion
  <2>3. i \in 1 .. Depth - 1 \/ i = Depth
    BY <1>0
  <2> QED
    BY <2>1, <2>2, <2>3
<1> QED
  BY <1>6, <1>7

LEMMA ClaimedMoves ==
  ASSUME TypeInv, Kinds, Synchronous, Alive(plot.obj), ~ Closing, plot'.obj = plot.obj,
         \A i \in 1 .. Depth : Claimed(list, cs[i], plot.obj)
  PROVE  \A i \in 1 .. Len(cs') : Claimed(list', cs'[i], plot.obj)
<1>0. /\ Ready /\ Summary /\ Moves /\ Named /\ Depth \in Nat \ {0} /\ Running = cs[Depth]
      /\ Depth \in 1 .. Depth /\ StackOK /\ FramesOK /\ FrameOK(Running)
      /\ Claimed(list, Running, plot.obj)
  BY InvReady, SynchronousSteps, TypeParts, StackFacts DEF TypeInv, Summary, Ready
<1>1. \/ Untouched(plot.obj)
      \/ InsertPid /\ Running.p = plot.obj
      \/ InsertHandler /\ Running.p = plot.obj
  BY <1>0, UntouchedSteps
<1>2. ASSUME NEW i \in 1 .. Depth - 1 PROVE Claimed(list', cs'[i], plot.obj)
  <2>1. cs'[i] = cs[i] /\ i \in 1 .. Depth
    BY <1>0 DEF Moves, Below
  <2>2. CASE cs[i].k = "insert" /\ cs[i].pc # "begin"
    <3>1. Untouched(plot.obj)
      BY <1>1, <2>2, LoneInsertion DEF InsertPid, InsertHandler, At
    <3>2. cs[i].i \in 1 .. Len(list)
      BY <1>0, <2>1, <2>2 DEF FramesOK, FrameOK
    <3> QED
      BY <2>1, <3>1, <3>2, UntouchedKeeps
  <2> QED
    BY <2>1, <2>2 DEF Claimed
<1>3. ASSUME Running.k = "insert", GoesStep PROVE Claimed(list', cs'[Depth], plot.obj)
  <2> DEFINE fr == cs'[Depth]
  <2> SUFFICES Claimed(list', fr, plot.obj)
    OBVIOUS
  <2>1. /\ fr.k = "insert" /\ fr.p = Running.p /\ fr.h = Running.h
        /\ <<"insert", Running.pc, fr.pc>> \in Goings /\ ~ LeaveStep /\ ~ SwapStep
    BY <1>0, <1>3 DEF GoesStep, GoesOn, LeaveStep, SwapStep, At
  <2>2. \/ Running.pc = "begin" /\ fr.pc = "pid"
        \/ Running.pc = "pid" /\ fr.pc = "handler"
        \/ Running.pc = "handler" /\ fr.pc = "file"
    BY <2>1 DEF Goings
  <2>3. Running.pc # "begin" => fr.i = Running.i /\ Running.i \in 1 .. Len(list)
    BY <1>0, <1>3, <2>1 DEF Summary, Indexed, FrameOK, InsertFind, RemoveFind, SigchldScan, At
  <2>4. CASE Running.pc = "begin" /\ fr.pc = "pid"
    <3>1. InsertFind
      BY <1>0, <1>3, <2>4 DEF Named, At
    <3>2. list' = list /\ list[fr.i].pid < 0
      BY <1>0, <1>3, <2>1, <3>1, InsertRuns
    <3>3. plot.obj > 0 /\ plot.obj \in Int
      BY <1>0, TypeParts, ProcFacts DEF Ready, Alive, IsPid
    <3>4. list'[fr.i].pid # plot.obj
      BY <3>2, <3>3
    <3> HIDE DEF fr
    <3> QED
      BY <2>4, <3>4 DEF Claimed
  <2>5. CASE Running.pc # "begin" /\ Running.p # plot.obj
    <3>1. Untouched(plot.obj)
      BY <1>1, <2>5
    <3>2. Claimed(list', Running, plot.obj)
      BY <1>0, <2>3, <2>5, <3>1, UntouchedKeeps
    <3>3. list'[Running.i].pid # plot.obj
      BY <1>3, <2>5, <3>2 DEF Claimed
    <3>4. list'[fr.i].pid # plot.obj /\ fr.p # plot.obj
      BY <2>1, <2>3, <2>5, <3>3
    <3> HIDE DEF fr
    <3> QED
      BY <3>4 DEF Claimed
  <2>6. CASE Running.pc = "pid" /\ fr.pc = "handler" /\ Running.p = plot.obj
    <3>1. InsertPid
      BY <1>0, <1>3, <2>6 DEF Named, At
    <3>2. PidSet(Running.i, Running.p)
      BY <3>1 DEF InsertPid, PidSet
    <3>3. list'[Running.i].pid = Running.p
      BY <1>0, <2>3, <2>6, <3>2, SlotChanged, TypeParts DEF Ready
    <3>4. list'[fr.i].pid = plot.obj
      BY <2>3, <2>6, <3>3
    <3> HIDE DEF fr
    <3> QED
      BY <2>1, <2>6, <3>4 DEF Claimed
  <2>7. CASE Running.pc = "handler" /\ fr.pc = "file" /\ Running.p = plot.obj
    <3>1. InsertHandler
      BY <1>0, <1>3, <2>7 DEF Named, At
    <3>2. HandlerSet(Running.i, Running.h)
      BY <3>1 DEF InsertHandler, HandlerSet
    <3>3. list'[Running.i].pid = list[Running.i].pid /\ list'[Running.i].h = Running.h
      BY <1>0, <2>3, <2>7, <3>2, SlotChanged, TypeParts DEF Ready
    <3>4. Running.h = "plot"
      BY <1>3, <2>7, LoneInsertion
    <3>5. list[Running.i].pid = plot.obj
      BY <1>0, <1>3, <2>7 DEF Claimed
    <3>6. list'[fr.i].pid = plot.obj /\ list'[fr.i].h = "plot"
      BY <2>3, <2>7, <3>3, <3>4, <3>5
    <3> HIDE DEF fr
    <3> QED
      BY <2>1, <2>7, <3>6 DEF Claimed
  <2> HIDE DEF fr
  <2> QED
    BY <2>2, <2>4, <2>5, <2>6, <2>7
<1>4. CASE GoesStep \/ CallStep
  <2>1. Claimed(list', cs'[Depth], plot.obj)
    <3>1. cs'[Depth].k = Running.k
      BY <1>4 DEF GoesStep, CallStep, GoesOn
    <3>2. CASE Running.k = "insert"
      <4>1. ~ LeaveStep
        BY <1>0, <1>4 DEF GoesStep, CallStep, LeaveStep
      <4>2. GoesStep
        BY <1>0, <3>2, <4>1, InsertRuns
      <4> QED
        BY <1>3, <3>2, <4>2
    <3> QED
      BY <3>1, <3>2 DEF Claimed
  <2>2. CallStep => Claimed(list', cs'[Depth + 1], plot.obj)
    BY DEF CallStep, Enters, Claimed
  <2>3. ASSUME NEW i \in 1 .. Len(cs') PROVE Claimed(list', cs'[i], plot.obj)
    <3>1. i \in 1 .. Depth - 1 \/ i = Depth \/ (CallStep /\ i = Depth + 1)
      BY <1>0, <1>4 DEF GoesStep, CallStep
    <3> QED
      BY <1>2, <2>1, <2>2, <3>1
  <2> QED
    BY <2>3
<1>5. CASE LeaveStep
  <2>1. \A i \in 1 .. Len(cs') : i \in 1 .. Depth - 1
    BY <1>0, <1>5 DEF LeaveStep
  <2> QED
    BY <1>2, <2>1
<1>6. CASE SwapStep
  <2>1. cs'[Depth].k = "plotdeath"
    BY <1>6 DEF SwapStep, FrameOf
  <2>2. Claimed(list', cs'[Depth], plot.obj)
    BY <2>1 DEF Claimed
  <2>3. \A i \in 1 .. Len(cs') : i \in 1 .. Depth - 1 \/ i = Depth
    BY <1>0, <1>6 DEF SwapStep
  <2> QED
    BY <1>2, <2>2, <2>3
<1> QED
  BY <1>0, <1>4, <1>5, <1>6 DEF Moves

LEMMA RegisteredNext ==
  ASSUME TypeInv, Kinds, Registered, Next
  PROVE  Registered'
<1>0. /\ TypeOK /\ Depth \in Nat \ {0} /\ WellCalled /\ ProcOK /\ StackOK /\ intr \in Nat
      /\ plot.obj \in Pid /\ Depth = Len(cs)
  <2>1. intr \in Nat /\ plot.obj \in Pid
    BY TypeParts, BoundAssumption DEF TypeInv, DataOK
  <2> QED
    BY <2>1, TypeParts, StackFacts, ProcFacts DEF TypeInv
<1>1. SUFFICES ASSUME intr' = 0, Alive(plot.obj)', ~ Closing'
               PROVE  /\ \/ Listed(list', plot'.obj)
                         \/ \E i \in 1 .. Len(cs') : Insertion(cs'[i], plot'.obj)
                      /\ \A i \in 1 .. Len(cs') : Claimed(list', cs'[i], plot'.obj)
  BY DEF Registered, Depth, Listed, Insertion, Claimed
<1>2. CASE Synchronous
  <2>1. intr = 0 /\ plot'.obj # None
    <3>1. Effects
      BY <1>2, InvReady, SynchronousSteps DEF TypeInv, Summary
    <3>2. plot'.obj \in 1 .. Len(proc')
      BY <1>1 DEF Alive, IsPid
    <3> QED
      BY <1>1, <3>1, <3>2 DEF Effects, None
  <2>2. CASE plot'.obj = plot.obj /\ Alive(plot.obj)
    <3>1. ~ Closing
      BY <1>1, <1>2, <2>1, StaysOpen
    <3>2. /\ Listed(list, plot.obj) \/ \E i \in 1 .. Depth : Insertion(cs[i], plot.obj)
          /\ \A i \in 1 .. Depth : Claimed(list, cs[i], plot.obj)
      BY <2>1, <2>2, <3>1 DEF Registered
    <3>3. Claimed(list, Running, plot.obj)
      BY <1>0, <3>2 DEF Running
    <3>4. Listed(list', plot.obj) \/ \E i \in 1 .. Len(cs') : Insertion(cs'[i], plot.obj)
      BY <1>2, <2>2, <3>1, <3>2, <3>3, InsertionMoves
    <3>5. \A i \in 1 .. Len(cs') : Claimed(list', cs'[i], plot.obj)
      BY <1>2, <2>2, <3>1, <3>2, ClaimedMoves
    <3> QED
      BY <2>2, <3>4, <3>5
  <2>3. CASE OpenplotAssign
    BY <1>1, <1>2, <2>1, <2>3, StaysOpen, NewPlotter
  <2> QED
    BY <1>1, <1>2, <2>2, <2>3, StreamStays
<1>3. ASSUME plot' = plot, list' = list, Older(proc'), intr' = intr,
             Closing => Closing',
             \A i \in 1 .. Depth : Insertion(cs[i], plot.obj) =>
               i \in 1 .. Len(cs') /\ cs'[i] = cs[i],
             \A i \in 1 .. Len(cs') : cs'[i].k = "insert" => i \in 1 .. Depth /\ cs'[i] = cs[i]
      PROVE  /\ \/ Listed(list', plot'.obj)
                \/ \E i \in 1 .. Len(cs') : Insertion(cs'[i], plot'.obj)
             /\ \A i \in 1 .. Len(cs') : Claimed(list', cs'[i], plot'.obj)
  <2>1. Alive(plot.obj)
    BY <1>1, <1>3 DEF Alive, IsPid, Older
  <2>2. /\ Listed(list, plot.obj) \/ \E i \in 1 .. Depth : Insertion(cs[i], plot.obj)
        /\ \A i \in 1 .. Depth : Claimed(list, cs[i], plot.obj)
    BY <1>1, <1>3, <2>1 DEF Registered
  <2>3. Listed(list', plot'.obj) \/ \E i \in 1 .. Len(cs') : Insertion(cs'[i], plot'.obj)
    BY <1>3, <2>2
  <2>4. ASSUME NEW i \in 1 .. Len(cs') PROVE Claimed(list', cs'[i], plot'.obj)
    <3>1. CASE cs'[i].k = "insert"
      BY <1>3, <2>2, <3>1
    <3>2. CASE cs'[i].k # "insert"
      BY <3>2 DEF Claimed
    <3> QED
      BY <3>1, <3>2
  <2> QED
    BY <2>3, <2>4
<1>4. CASE MainJumped
  <2>1. /\ Depth = 1 /\ plot' = plot /\ list' = list /\ Older(proc') /\ intr' = intr
        /\ cs[1].k = "main"
    <3>1. Depth = 1 /\ proc' = proc /\ plot' = plot /\ list' = list /\ intr' = intr
      BY <1>0, <1>4, JumpedStep, MainAlone DEF At
    <3>2. Older(proc')
      BY <1>0, <3>1, ProcFacts
    <3> QED
      BY <1>0, <3>1, <3>2 DEF StackOK
  <2>2. \A i \in 1 .. Depth : cs[i].k = "main"
    BY <2>1
  <2>3. ~ Closing /\ \A i \in 1 .. Depth : ~ Insertion(cs[i], plot.obj)
    BY <2>2 DEF Closing, Insertion
  <2>4. \/ Len(cs') = Depth /\ cs'[Depth].k = "main"
        \/ cs' = cs
        \/ Len(cs') = Depth + 1 /\ cs'[Depth].k = "main"
           /\ cs'[Depth + 1] = FrameOf("cleancmd", None)
    BY <1>0, <1>4, JumpedStep
  <2>5. \A i \in 1 .. Len(cs') : cs'[i].k # "insert"
    <3>1. CASE Len(cs') = Depth /\ cs'[Depth].k = "main"
      BY <2>1, <3>1
    <3>2. CASE cs' = cs
      BY <1>0, <2>2, <3>2
    <3>3. CASE /\ Len(cs') = Depth + 1 /\ cs'[Depth].k = "main"
               /\ cs'[Depth + 1] = FrameOf("cleancmd", None)
      <4>1. FrameOf("cleancmd", None).k = "cleancmd"
        BY DEF FrameOf
      <4>2. \A i \in 1 .. 2 : cs'[i].k # "insert"
        BY <2>1, <3>3, <4>1
      <4> QED
        BY <2>1, <3>3, <4>2
    <3> QED
      BY <2>4, <3>1, <3>2, <3>3
  <2> QED
    BY <1>3, <2>1, <2>3, <2>5
<1>5. CASE SigchldBegin
  <2>1. /\ Len(cs') = Depth + 1 /\ \A i \in 1 .. Depth : cs'[i] = cs[i]
        /\ cs'[Depth + 1].k = "chld" /\ plot' = plot /\ list' = list /\ proc' = proc
        /\ intr' = intr
    BY <1>0, <1>5, HandlerStep
  <2>2. Older(proc') /\ \A i \in 1 .. Depth : i \in 1 .. Len(cs')
    BY <1>0, <2>1, ProcFacts
  <2>3. \A i \in 1 .. Len(cs') : i \in 1 .. Depth \/ i = Depth + 1
    BY <1>0, <2>1
  <2>4. Closing => Closing'
    <3>1. Closing' <=> \E i \in 1 .. Len(cs') : cs'[i].k = "closeplot"
      BY DEF Closing, Depth
    <3> QED
      BY <2>1, <2>2, <3>1 DEF Closing
  <2>5. \A i \in 1 .. Len(cs') : cs'[i].k = "insert" => i \in 1 .. Depth /\ cs'[i] = cs[i]
    BY <2>1, <2>3
  <2> QED
    BY <1>3, <2>1, <2>2, <2>4, <2>5
<1>6. CASE Interrupt
  <2>1. intr' > 0
    BY <1>0, <1>6, InterruptStep
  <2> QED
    BY <1>1, <2>1
<1>7. CASE \E p : Die(p)
  <2>1. cs' = cs /\ plot' = plot /\ list' = list /\ Older(proc') /\ intr' = intr
    BY <1>0, <1>7, DieStep
  <2>2. Closing' = Closing /\ Len(cs') = Depth
    BY <1>0, <2>1 DEF Closing, Depth
  <2> QED
    BY <1>3, <2>1, <2>2
<1> QED
  BY <1>2, <1>4, <1>5, <1>6, <1>7, Steps

LEMMA RegisteredInvariant == Spec => [](TypeInv /\ Kinds /\ Registered)
<1>1. Init => Kinds /\ Registered
  <2>1. Init => Registered
    BY DEF Init, Registered, Alive, IsPid, None
  <2> QED
    BY <2>1, KindsInit
<1>2. TypeInv /\ Kinds /\ Registered /\ [Next]_vars => Kinds' /\ Registered'
  <2>1. ASSUME Kinds, Registered, UNCHANGED vars PROVE Kinds' /\ Registered'
    <3>1. UNCHANGED <<cs, proc, list, pager, plot, cmd, intr>>
      BY <2>1 DEF vars
    <3>2. Depth' = Depth
      BY <3>1 DEF Depth
    <3>3. Kinds'
      BY <2>1, <3>1, <3>2 DEF Kinds, KindIn, FrameKind
    <3>4. Closing' = Closing
      BY <3>1, <3>2 DEF Closing
    <3>5. Registered'
      BY <2>1, <3>1, <3>2, <3>4 DEF Registered, Alive, IsPid, Listed, Insertion, Claimed
    <3> QED
      BY <3>3, <3>5
  <2> QED
    BY <2>1, KindsNext, RegisteredNext
<1> QED
  BY <1>1, <1>2, TypeInvariant, PTL DEF Spec

\* Between two commands the gnuplot of plot_stream is on octave_child_list with the
\* plotter's handler unless open_plot_stream has been interrupted: the insertion that
\* is made for it claims an element that no other insertion has found, although the
\* handlers that run in between free elements and insert others.
THEOREM PlotterListed == Spec => []PlotterRegistered
<1>1. ASSUME TypeInv, Registered PROVE PlotterRegistered
  <2> SUFFICES ASSUME Depth = 1, plot.obj # None, Alive(plot.obj), intr = 0
               PROVE  \E i \in SlotsOf(plot.obj) : list[i].h = "plot"
    BY DEF PlotterRegistered
  <2>1. \A i \in 1 .. Depth : cs[i].k = "main"
    <3>1. cs[1].k = "main" /\ \A i \in 1 .. Depth : i = 1
      BY <1>1, TypeParts DEF TypeInv, StackOK
    <3> QED
      BY <3>1
  <2>2. ~ Closing /\ ~ \E i \in 1 .. Depth : Insertion(cs[i], plot.obj)
    BY <2>1 DEF Closing, Insertion
  <2>3. Listed(list, plot.obj)
    BY <1>1, <2>2 DEF Registered
  <2> QED
    BY <2>3 DEF Listed, SlotsOf
<1> QED
  BY <1>1, RegisteredInvariant, PTL

-----------------------------------------------------------------------------
(***************************************************************************)
(* The pager, when output is not paged immediately                         *)
(***************************************************************************)

PagerType == [obj : Pid, ok : BOOLEAN, pid : Pid, saved : IntDisp,
              isSaved : BOOLEAN, flushing : BOOLEAN, really : BOOLEAN, buf : BOOLEAN]

\* What the steps of do_sync and clear_external_pager do to the pager.
OpensPager == /\ pager'.obj = pager.obj /\ pager'.isSaved /\ pager'.saved = sig.int
              /\ sig'.int = "ignore"
StartsPager == /\ pager'.obj # None /\ pager'.isSaved = pager.isSaved
               /\ pager'.saved = pager.saved /\ sig' = sig
GivesUp == /\ pager'.obj = pager.obj /\ pager'.saved = pager.saved /\ pager.obj # None
           /\ pager.isSaved /\ ~ pager'.isSaved /\ sig'.int = pager.saved
Clears == /\ pager'.obj = None /\ ~ pager'.isSaved /\ pager'.saved = pager.saved
          /\ sig'.int = IF pager.isSaved THEN pager.saved ELSE sig.int

LEMMA PagerSteps ==
  ASSUME Ready
  PROVE  /\ SyncOpen => OpensPager
         /\ SyncNew => StartsPager
         /\ SyncCheck => GivesUp \/ (PagerKept /\ sig' = sig)
         /\ ClearDeleted => Clears
<1>0. SigOK /\ pager \in PagerType
  BY TypeParts DEF Ready, DataOK, PagerType
<1>1. ASSUME SyncOpen PROVE OpensPager
  <2>1. /\ sig' = [sig EXCEPT !.int = "ignore"]
        /\ pager' = [pager EXCEPT !.saved = sig.int, !.isSaved = TRUE]
    BY <1>1 DEF SyncOpen
  <2>2. sig'.int = "ignore"
    BY <1>0, <2>1 DEF SigOK
  <2>3. pager'.obj = pager.obj /\ pager'.isSaved /\ pager'.saved = sig.int
    BY <1>0, <2>1 DEF PagerType
  <2> QED
    BY <2>2, <2>3 DEF OpensPager
<1>2. ASSUME SyncNew PROVE StartsPager
  <2>1. PICK p \in 1 .. MaxPid \cup {Failed} : pager' = [pager EXCEPT !.obj = p, !.ok = (p > 0)]
    BY <1>2 DEF SyncNew
  <2>2. sig' = sig
    BY <1>2 DEF SyncNew
  <2>3. p # None
    BY BoundAssumption DEF None, Failed
  <2>4. pager'.obj = p /\ pager'.isSaved = pager.isSaved /\ pager'.saved = pager.saved
    BY <1>0, <2>1 DEF PagerType
  <2> QED
    BY <2>2, <2>3, <2>4 DEF StartsPager
<1>3. ASSUME SyncCheck PROVE GivesUp \/ (PagerKept /\ sig' = sig)
  <2>1. \/ sig' = sig /\ pager' = pager
        \/ /\ pager.obj # None /\ pager.isSaved
           /\ sig' = [sig EXCEPT !.int = pager.saved]
           /\ pager' = [pager EXCEPT !.isSaved = FALSE]
    BY <1>3 DEF SyncCheck, PagerLost
  <2>2. CASE sig' = sig /\ pager' = pager
    BY <2>2 DEF PagerKept
  <2>3. CASE /\ pager.obj # None /\ pager.isSaved
             /\ sig' = [sig EXCEPT !.int = pager.saved]
             /\ pager' = [pager EXCEPT !.isSaved = FALSE]
    <3>1. sig'.int = pager.saved
      BY <1>0, <2>3 DEF SigOK
    <3>2. pager'.obj = pager.obj /\ pager'.saved = pager.saved /\ ~ pager'.isSaved
      BY <1>0, <2>3 DEF PagerType
    <3> QED
      BY <2>3, <3>1, <3>2 DEF GivesUp
  <2> QED
    BY <2>1, <2>2, <2>3
<1>4. ASSUME ClearDeleted PROVE Clears
  <2>1. /\ sig' = IF pager.isSaved THEN [sig EXCEPT !.int = pager.saved] ELSE sig
        /\ pager' = [pager EXCEPT !.obj = None, !.isSaved = FALSE]
    BY <1>4 DEF ClearDeleted
  <2>2. sig'.int = IF pager.isSaved THEN pager.saved ELSE sig.int
    BY <1>0, <2>1 DEF SigOK
  <2>3. pager'.obj = None /\ pager'.saved = pager.saved /\ ~ pager'.isSaved
    BY <1>0, <2>1 DEF PagerType
  <2> QED
    BY <2>2, <2>3 DEF Clears
<1> QED
  BY <1>1, <1>2, <1>3, <1>4

\* Where they are taken.
LEMMA PagerPlaces ==
  /\ SyncOpen => At("sync", "open")
  /\ SyncNew => At("sync", "new")
  /\ SyncCheck => At("sync", "check")
  /\ ClearDeleted => At("clear", "deleted")
BY DEF SyncOpen, SyncNew, SyncCheck, ClearDeleted

\* Only a pager's start and end change external_pager.
LEMMA PagerStays ==
  ASSUME Ready, Summary
  PROVE  /\ pager'.obj = pager.obj \/ SyncNew \/ ClearDeleted
         /\ PagerKept \/ SyncOpen \/ SyncNew \/ SyncCheck \/ ClearDeleted
BY PagerSteps DEF Summary, Effects, PagerKept, OpensPager, GivesUp

-----------------------------------------------------------------------------
\* With buffered output only a flush calls do_sync, and clear only at its end; there
\* is one flush that has gone beyond its test.
LEMMA CalledByFlush ==
  ASSUME TypeInv, ~ Immediate, NEW i \in 1 .. Depth, cs[i].k \in {"sync", "clear"}
  PROVE  /\ i \in 2 .. Depth /\ i - 1 \in Flushing
         /\ cs[i].k = "sync" => cs[i - 1].pc = "clear"
         /\ cs[i].k = "clear" => cs[i - 1].pc = "end"
<1>0. TypeOK /\ WellCalled /\ Depth \in Nat \ {0} /\ cs[1].k = "main"
  BY TypeParts, StackFacts DEF TypeInv, StackOK
<1>1. i # 1
  BY <1>0
<1>2. i \in 2 .. Depth /\ i - 1 \in 1 .. Depth
  BY <1>0, <1>1
<1>3. CallSite(cs[i - 1].k, cs[i - 1].pc, cs[i].k)
  BY <1>0, <1>2, CalledTwo
<1>4. /\ cs[i - 1].k = "flush"
      /\ cs[i].k = "sync" => cs[i - 1].pc = "clear"
      /\ cs[i].k = "clear" => cs[i - 1].pc = "end"
  BY <1>3, Sites
<1>5. Active(cs[i - 1])
  BY <1>4 DEF Active
<1> QED
  BY <1>2, <1>4, <1>5 DEF Flushing

LEMMA OneFlush ==
  ASSUME TypeInv, NEW i \in Flushing, NEW j \in Flushing
  PROVE  i = j
BY DEF TypeInv, Protected

LEMMA OneSync ==
  ASSUME TypeInv, ~ Immediate, NEW i \in 1 .. Depth, NEW j \in 1 .. Depth,
         cs[i].k \in {"sync", "clear"}, cs[j].k \in {"sync", "clear"}
  PROVE  i = j
<1>1. i - 1 \in Flushing /\ j - 1 \in Flushing
  BY CalledByFlush
<1>2. i - 1 = j - 1
  BY <1>1, OneFlush
<1> QED
  BY <1>2

\* A do_sync that is about to start a pager finds none, and one that writes to
\* the pager has the one that there is.
InUse ==
  \A i \in 1 .. Depth : cs[i].k = "sync" =>
    /\ cs[i].pc \in {"write", "flush"} => pager.obj = cs[i].p
    /\ cs[i].pc \in {"open", "new"} => pager.obj = None

\* How do_sync comes to these places.
LEMMA SyncSteps ==
  ASSUME Ready, Summary, Running.k = "sync", GoesOn(cs'[Depth])
  PROVE  /\ cs'[Depth].pc \in {"write", "flush"} =>
              cs'[Depth].p = pager.obj /\ (SyncCheck \/ SyncRecheck)
         /\ cs'[Depth].pc = "open" => pager.obj = None /\ At("sync", "begin")
         /\ cs'[Depth].pc = "new" => At("sync", "open")
<1>0. Depth \in Nat \ {0} /\ Running \in Frame /\ StackOK /\ pager.obj \in Pid
  BY TypeParts, StackFacts DEF Ready, DataOK
<1> DEFINE fr == cs'[Depth]
<1>1. fr.k = "sync" /\ <<Running.k, Running.pc, fr.pc>> \in Goings
  BY DEF GoesOn
<1>2. ASSUME fr.pc \in {"write", "flush"}
      PROVE  fr.p = pager.obj /\ (SyncCheck \/ SyncRecheck)
  <2>1. \/ At("sync", "check") /\ fr.pc = "write"
        \/ At("sync", "recheck") /\ fr.pc = "flush"
    BY <1>1, <1>2 DEF Goings, At
  <2>2. SyncCheck \/ SyncRecheck
    BY <2>1 DEF Summary, Named
  <2>3. PICK pc \in {"write", "flush"} :
          cs' = Top([Running EXCEPT !.pc = pc, !.p = pager.obj]) \/ Goto("done")
    BY <2>2 DEF SyncCheck, SyncRecheck
  <2>4. CASE Goto("done")
    <3>1. fr.pc = "done"
      <4>1. "done" \in Pcs /\ <<Running.k, Running.pc, "done">> \in Goings
        BY <2>1 DEF Pcs, At, Goings
      <4> QED
        BY <1>0, <2>4, <4>1, GotoMoves
    <3> QED
      BY <1>2, <3>1
  <2>5. CASE cs' = Top([Running EXCEPT !.pc = pc, !.p = pager.obj])
    <3>1. PICK x : x = [Running EXCEPT !.pc = pc, !.p = pager.obj]
      OBVIOUS
    <3>2. x \in Frame /\ x.k = Running.k /\ x.p = pager.obj
      BY <1>0, <3>1 DEF Frame, Pcs
    <3>3. fr = x
      BY <1>0, <2>5, <3>1, <3>2, TopFacts
    <3> QED
      BY <2>2, <3>2, <3>3
  <2> QED
    BY <2>3, <2>4, <2>5
<1>3. ASSUME fr.pc = "open" PROVE pager.obj = None /\ At("sync", "begin")
  <2>1. At("sync", "begin")
    BY <1>1, <1>3 DEF Goings, At
  <2>2. SyncBegin
    BY <2>1 DEF Summary, Named
  <2>3. Goto(IF Running.bypass THEN "done" ELSE IF pager.obj = None THEN "open" ELSE "check")
    BY <2>2 DEF SyncBegin
  <2>4. ASSUME pager.obj # None PROVE FALSE
    <3>1. PICK pc \in {"done", "check"} : Goto(pc)
      BY <2>3, <2>4
    <3>2. pc \in Pcs /\ <<Running.k, Running.pc, pc>> \in Goings
      BY <2>1 DEF Pcs, At, Goings
    <3>3. fr.pc = pc
      BY <1>0, <3>1, <3>2, GotoMoves
    <3> QED
      BY <1>3, <3>3
  <2> QED
    BY <2>1, <2>4
<1>4. ASSUME fr.pc = "new" PROVE At("sync", "open")
  BY <1>1, <1>4 DEF Goings, At
<1> QED
  BY <1>2, <1>3, <1>4

\* The pager changes under no other frame that works on it.
LEMMA PagerOfFrame ==
  ASSUME TypeInv, ~ Immediate, Summary, NEW i \in 1 .. Depth - 1, cs[i].k = "sync"
  PROVE  pager'.obj = pager.obj
<1>0. Ready /\ Depth \in Nat \ {0} /\ Running = cs[Depth]
  BY InvReady, TypeParts, StackFacts DEF TypeInv
<1>1. Running.k \notin {"sync", "clear"}
  <2>1. i \in 1 .. Depth /\ Depth \in 1 .. Depth /\ i # Depth
    BY <1>0
  <2> QED
    BY <1>0, <2>1, OneSync
<1>2. ~ SyncNew /\ ~ ClearDeleted
  BY <1>1, PagerPlaces DEF At
<1> QED
  BY <1>0, <1>2, PagerStays

LEMMA InUseMoves ==
  ASSUME TypeInv, ~ Immediate, InUse, Summary
  PROVE  InUse'
<1>0. /\ Ready /\ Depth \in Nat \ {0} /\ Running = cs[Depth] /\ Moves
      /\ Depth \in 1 .. Depth
  BY InvReady, TypeParts, StackFacts DEF TypeInv, Summary
<1> DEFINE Good(fr) == /\ fr.pc \in {"write", "flush"} => pager'.obj = fr.p
                       /\ fr.pc \in {"open", "new"} => pager'.obj = None
<1>1. SUFFICES ASSUME NEW i \in 1 .. Len(cs'), cs'[i].k = "sync"
               PROVE  Good(cs'[i])
  BY DEF InUse, Depth
<1>2. CASE i < Depth
  <2>1. cs'[i] = cs[i] /\ i \in 1 .. Depth - 1 /\ i \in 1 .. Depth
    BY <1>0, <1>2 DEF Moves, Below
  <2>2. pager'.obj = pager.obj
    BY <1>1, <2>1, PagerOfFrame
  <2> QED
    BY <1>1, <2>1, <2>2 DEF InUse
<1>3. CASE i = Depth /\ GoesOn(cs'[Depth])
  <2>1. Running.k = "sync"
    BY <1>1, <1>3 DEF GoesOn
  <2>2. ASSUME cs'[i].pc \in {"write", "flush"} PROVE pager'.obj = cs'[i].p
    <3>1. cs'[i].p = pager.obj /\ (SyncCheck \/ SyncRecheck)
      BY <1>0, <1>3, <2>1, <2>2, SyncSteps
    <3>2. ~ SyncNew /\ ~ ClearDeleted
      BY <3>1, PagerPlaces DEF SyncCheck, SyncRecheck, At
    <3> QED
      BY <1>0, <3>1, <3>2, PagerStays
  <2>3. ASSUME cs'[i].pc \in {"open", "new"} PROVE pager'.obj = None
    <3>1. \/ pager.obj = None /\ At("sync", "begin")
          \/ At("sync", "open")
      BY <1>0, <1>3, <2>1, <2>3, SyncSteps
    <3>2. pager.obj = None
      BY <1>0, <3>1 DEF InUse, At
    <3>3. ~ SyncNew /\ ~ ClearDeleted
      BY <3>1, PagerPlaces DEF At
    <3> QED
      BY <1>0, <3>2, <3>3, PagerStays
  <2> QED
    BY <2>2, <2>3
<1>4. CASE i = Depth + 1 /\ CallStep
  BY <1>1, <1>4 DEF CallStep, Enters
<1>5. CASE SwapStep
  <2>1. cs'[Depth].k = "plotdeath" /\ Len(cs') = Depth
    BY <1>5 DEF SwapStep, FrameOf
  <2> QED
    BY <1>0, <1>1, <1>2, <2>1
<1>6. CASE LeaveStep
  BY <1>0, <1>2, <1>6 DEF LeaveStep
<1>7. CASE GoesStep
  BY <1>0, <1>2, <1>3, <1>7 DEF GoesStep
<1>8. CASE CallStep
  BY <1>0, <1>2, <1>3, <1>4, <1>8 DEF CallStep
<1> QED
  BY <1>0, <1>5, <1>6, <1>7, <1>8 DEF Moves

LEMMA InUseNext ==
  ASSUME TypeInv, ~ Immediate, InUse, Next
  PROVE  InUse'
<1>0. TypeOK /\ Ready /\ Depth \in Nat \ {0} /\ WellCalled
  BY InvReady, TypeParts, StackFacts DEF TypeInv
<1>1. CASE Synchronous
  BY <1>0, <1>1, SynchronousSteps, InUseMoves
<1>2. CASE MainJumped
  <2>1. Depth = 1 /\ cs[1].k = "main"
    BY <1>0, <1>2, JumpedStep, MainAlone, StackFacts, TypeParts DEF At
  <2>2. FrameOf("cleancmd", None).k = "cleancmd"
    BY DEF FrameOf
  <2>3. \A i \in 1 .. Len(cs') : cs'[i].k # "sync"
    <3>1. CASE cs' = cs
      <4>1. Len(cs') = 1 /\ cs'[1].k = "main"
        BY <2>1, <3>1 DEF Depth
      <4> QED
        BY <4>1
    <3>2. CASE Len(cs') = Depth /\ cs'[Depth].k = "main"
      BY <2>1, <3>2
    <3>3. CASE /\ Len(cs') = Depth + 1 /\ cs'[Depth].k = "main"
               /\ cs'[Depth + 1] = FrameOf("cleancmd", None)
      <4>1. Len(cs') = 2 /\ cs'[1].k = "main" /\ cs'[2].k = "cleancmd"
        BY <2>1, <2>2, <3>3
      <4> QED
        BY <4>1
    <3> QED
      BY <1>0, <1>2, <3>1, <3>2, <3>3, JumpedStep
  <2> QED
    BY <2>3 DEF InUse, Depth
<1>3. CASE SigchldBegin
  <2>1. /\ Len(cs') = Depth + 1 /\ \A i \in 1 .. Depth : cs'[i] = cs[i]
        /\ cs'[Depth + 1].k = "chld" /\ pager' = pager
    BY <1>0, <1>3, HandlerStep
  <2>2. \A i \in 1 .. Depth + 1 : i = Depth + 1 \/ i \in 1 .. Depth
    BY <1>0
  <2> QED
    BY <2>1, <2>2 DEF InUse, Depth
<1>4. CASE Interrupt
  <2>1. Len(cs') = 1 /\ cs'[1].k = "main"
    BY <1>0, <1>4, InterruptStep
  <2> QED
    BY <2>1 DEF InUse, Depth
<1>5. CASE \E p : Die(p)
  <2>1. cs' = cs /\ pager' = pager
    BY <1>0, <1>5, DieStep
  <2> QED
    BY <2>1 DEF InUse, Depth
<1> QED
  BY <1>1, <1>2, <1>3, <1>4, <1>5, Steps

-----------------------------------------------------------------------------
(***************************************************************************)
(* The disposition of SIGINT                                               *)
(***************************************************************************)

AtPrompt == cs[1].pc = "prompt"

\* What the pager has saved is given back by the flush that has started it, and until
\* then interrupts are ignored, by whatever handler comes in between as well.
Ignoring ==
  pager.isSaved =>
    /\ sig.int = "ignore"
    /\ pager.obj # None \/ \E j \in 1 .. Depth : cs[j].k = "sync" /\ cs[j].pc = "new"
    /\ \E f \in Flushing : \A j \in Savers : j > f => cs[j].int = "ignore"

\* A flush that has nothing left to do but to end has cleared the pager.
Flushed ==
  \A f \in Flushing : cs[f].pc = "end" =>
    \/ f < Depth /\ cs[f + 1].k = "clear"
    \/ pager.obj = None /\ ~ pager.isSaved

\* Before the prompt there is a flush.
NoPager ==
  AtPrompt => Flushing # {} \/ (Depth > 1 /\ cs[2].k = "flush") \/ pager.obj = None

\* Whoever is lowest of those who ignore interrupts, the pager among them, has saved
\* that they were caught.
PagerBelow(i) == pager.isSaved /\ \E f \in Flushing : f < i
Caught ==
  AtPrompt =>
    /\ ~ pager.isSaved /\ Savers = {} => sig.int = "catch"
    /\ \A i \in Savers : \/ cs[i].int = "catch" \/ PagerBelow(i)
                         \/ \E j \in Savers : j < i
    /\ pager.isSaved => \/ pager.saved = "catch"
                        \/ \E f \in Flushing : \E j \in Savers : j < f

\* SIGINT is given back before SIGCHLD.
GivenBack == Saver(Running) /\ Running.pc = "chld" => sig.int = Running.int

SigintKept == InUse /\ Ignoring /\ Flushed /\ NoPager /\ Caught /\ GivenBack

-----------------------------------------------------------------------------
\* Which steps change what SIGINT does, and to what.
LEMMA IntMoves ==
  ASSUME Ready, Summary
  PROVE  \/ sig'.int = sig.int
         \/ NewOf("wait") /\ CallStep /\ sig'.int = "ignore" /\ cs'[Depth + 1].int = sig.int
         \/ MainTop
         \/ SyncOpen \/ SyncCheck \/ ClearDeleted
         \/ RestoreInt /\ sig'.int = Running.int
<1>0. SigOK /\ Effects /\ Moves /\ Depth \in Nat \ {0}
  BY TypeParts, StackFacts DEF Ready, Summary
<1>1. ASSUME RestoreChld PROVE sig'.int = sig.int
  BY <1>0, <1>1 DEF RestoreChld, SigOK
<1>2. ASSUME RestoreInt PROVE sig'.int = Running.int
  BY <1>0, <1>2 DEF RestoreInt, SigOK
<1>3. ASSUME NewOf("wait")
      PROVE  CallStep /\ sig'.int = "ignore" /\ cs'[Depth + 1].int = sig.int
  <2>1. CallStep
    BY <1>0, <1>3 DEF NewOf, Moves, GoesStep, LeaveStep, SwapStep
  <2> QED
    BY <1>3, <2>1 DEF NewOf, CallStep, Enters
<1> QED
  BY <1>0, <1>1, <1>2, <1>3 DEF Effects

\* What a handler or a wait has saved it keeps.
LEMMA SaverInts ==
  ASSUME Ready, Moves, NEW i \in Savers, i \in Savers'
  PROVE  cs'[i].int = cs[i].int
<1>0. Depth \in Nat \ {0} /\ Running = cs[Depth] /\ i \in 1 .. Depth
  BY TypeParts, StackFacts DEF Ready, Savers
<1>1. i \in 1 .. Len(cs') /\ Saver(cs'[i])
  BY DEF Savers, Saver, Depth
<1>2. CASE i < Depth
  BY <1>0, <1>2 DEF Moves, Below
<1>3. CASE i = Depth
  <2>1. ~ LeaveStep /\ ~ SwapStep
    BY <1>0, <1>1, <1>3 DEF LeaveStep, SwapStep, FrameOf, Saver
  <2>2. GoesOn(cs'[Depth])
    BY <2>1 DEF Moves, GoesStep, CallStep
  <2> QED
    BY <1>0, <1>3, <2>2 DEF GoesOn
<1> QED
  BY <1>0, <1>2, <1>3

\* The steps of the pager are those of the flush below and add no frame.
PagerMoves == SyncOpen \/ SyncNew \/ SyncCheck \/ ClearDeleted

LEMMA PagerAlone ==
  ASSUME TypeInv, ~ Immediate, Synchronous, Summary, PagerMoves
  PROVE  /\ Depth > 1 /\ Depth - 1 \in Flushing /\ Flushing' = Flushing /\ Savers' = Savers
         /\ \A j \in Savers : j < Depth - 1
         /\ ~ NewOf("wait")
         /\ SyncOpen => Len(cs') = Depth /\ cs'[Depth].k = "sync" /\ cs'[Depth].pc = "new"
         /\ SyncNew \/ SyncCheck => cs[Depth - 1].pc = "clear"
         /\ SyncOpen => cs[Depth - 1].pc = "clear"
<1>0. /\ Ready /\ Depth \in Nat \ {0} /\ Running = cs[Depth] /\ Moves /\ StackOK
      /\ Depth \in 1 .. Depth
  BY InvReady, TypeParts, StackFacts DEF TypeInv, Summary
<1>1. /\ Running.k \in {"sync", "clear"}
      /\ SyncOpen \/ SyncNew \/ SyncCheck => Running.k = "sync"
  BY PagerPlaces DEF PagerMoves, At
<1>2. /\ Depth > 1 /\ Depth - 1 \in Flushing
      /\ Running.k = "sync" => cs[Depth - 1].pc = "clear"
  BY <1>0, <1>1, CalledByFlush
<1>3. SyncOpen => /\ Len(cs') = Depth /\ cs'[Depth].k = "sync" /\ cs'[Depth].pc = "new"
                  /\ ~ NewOf("wait")
  <2> SUFFICES ASSUME SyncOpen
               PROVE  /\ Len(cs') = Depth /\ cs'[Depth].k = "sync" /\ cs'[Depth].pc = "new"
                      /\ ~ NewOf("wait")
    OBVIOUS
  <2>1. Goto("new") /\ At("sync", "open")
    BY PagerPlaces DEF SyncOpen
  <2>2. "new" \in Pcs /\ <<Running.k, Running.pc, "new">> \in Goings
    BY <2>1 DEF Pcs, At, Goings
  <2>3. GoesStep /\ cs'[Depth].pc = "new"
    BY <1>0, <2>1, <2>2, GotoMoves
  <2> QED
    BY <1>0, <2>1, <2>3 DEF GoesStep, GoesOn, At, NewOf
<1>4. ~ NewOf("wait")
  <2>1. ASSUME NewOf("wait") PROVE FALSE
    <3>1. CallStep
      BY <1>0, <2>1 DEF NewOf, Moves, GoesStep, LeaveStep, SwapStep
    <3>2. CallSite(Running.k, cs'[Depth].pc, "wait")
      BY <2>1, <3>1 DEF CallStep, Enters, NewOf
    <3>3. Running.k = "clear" /\ cs'[Depth].pc = "deleted"
      BY <1>1, <3>2 DEF CallSite, CallSites
    <3>4. Running.pc = "deleted" /\ <<Running.k, Running.pc, "deleted">> \in Goings
      BY <1>1, <3>1, <3>3, PagerPlaces DEF PagerMoves, At, CallStep, GoesOn
    <3> QED
      BY <3>3, <3>4 DEF Goings
  <2> QED
    BY <2>1
<1>5. ~ RestoreChld
  BY <1>1 DEF RestoreChld
<1>6. Savers' = Savers /\ Flushing' = Flushing
  BY <1>0, <1>1, <1>4, <1>5, SaversMoves, FlushingMoves
<1>7. \A j \in Savers : j < Depth - 1
  <2> SUFFICES ASSUME NEW j \in Savers PROVE j < Depth - 1
    OBVIOUS
  <2>1. j \in 1 .. Depth /\ Saver(cs[j])
    BY DEF Savers
  <2>2. cs[Depth - 1].k = "flush"
    BY <1>2 DEF Flushing, Active
  <2>3. j # Depth /\ j # Depth - 1
    BY <1>0, <1>1, <2>1, <2>2 DEF Saver
  <2> QED
    BY <1>0, <2>1, <2>3
<1> QED
  BY <1>1, <1>2, <1>3, <1>4, <1>6, <1>7

LEMMA FlushingStep ==
  ASSUME TypeInv, Synchronous, Summary
  PROVE  \/ Flushing' = Flushing
         \/ FlushBegin /\ ~ LeaveStep /\ Flushing' = Flushing \cup {Depth}
         \/ FlushEnd /\ At("flush", "end") /\ Depth \in Flushing
            /\ Flushing' = Flushing \ {Depth}
<1>0. /\ Ready /\ Moves /\ Depth \in Nat \ {0} /\ Running = cs[Depth]
  BY InvReady, TypeParts, StackFacts DEF TypeInv, Summary
<1>1. FlushEnd => At("flush", "end")
  BY DEF FlushEnd
<1>2. At("flush", "end") => Depth \in Flushing
  BY <1>0 DEF At, Flushing, Active
<1> QED
  BY <1>0, <1>1, <1>2, FlushingMoves, KindNamed

\* Of a flush that is active below the running frame, or runs itself.
LEMMA FlushStays ==
  ASSUME TypeInv, Synchronous, Summary, NEW f \in Flushing, ~ At("flush", "end")
  PROVE  f \in Flushing'
<1>1. ~ FlushEnd
  BY DEF FlushEnd
<1> QED
  BY <1>1, FlushingStep

LEMMA SaversStep ==
  ASSUME TypeInv, Synchronous, Summary, NEW j \in Savers'
  PROVE  \/ j \in Savers /\ cs'[j].int = cs[j].int
         \/ j = Depth + 1 /\ NewOf("wait")
<1>0. Ready /\ Moves
  BY InvReady DEF TypeInv, Summary
<1>1. j \in Savers \/ (j = Depth + 1 /\ NewOf("wait"))
  BY <1>0, SaversMoves
<1> QED
  BY <1>0, <1>1, SaverInts

LEMMA IgnoringMoves ==
  ASSUME TypeInv, ~ Immediate, Ignoring, Flushed, Synchronous, Summary
  PROVE  Ignoring'
<1>0. /\ Ready /\ Depth \in Nat \ {0} /\ Running = cs[Depth] /\ Moves
      /\ Depth \in 1 .. Depth
  BY InvReady, TypeParts, StackFacts DEF TypeInv, Summary
<1>1. SUFFICES ASSUME pager'.isSaved
               PROVE  /\ sig'.int = "ignore"
                      /\ \/ pager'.obj # None
                         \/ \E j \in 1 .. Len(cs') : cs'[j].k = "sync" /\ cs'[j].pc = "new"
                      /\ \E f \in Flushing' : \A j \in Savers' : j > f => cs'[j].int = "ignore"
  BY DEF Ignoring, Depth
<1>2. CASE SyncOpen
  <2>1. sig'.int = "ignore"
    BY <1>0, <1>2, PagerSteps DEF OpensPager
  <2>2. /\ Depth - 1 \in Flushing' /\ Savers' = Savers /\ \A j \in Savers : j < Depth - 1
        /\ Len(cs') = Depth /\ cs'[Depth].k = "sync" /\ cs'[Depth].pc = "new"
    BY <1>2, PagerAlone DEF PagerMoves
  <2>3. \A j \in Savers : ~ (j > Depth - 1)
    <3>1. \A j \in Savers : j \in Nat
      BY DEF Savers
    <3> QED
      BY <1>0, <2>2, <3>1
  <2> QED
    BY <1>0, <2>1, <2>2, <2>3
<1>3. CASE ~ SyncOpen
  <2>1. ~ ClearDeleted /\ (SyncCheck => PagerKept /\ sig' = sig)
    BY <1>0, <1>1, PagerSteps DEF Clears, GivesUp
  <2>2. pager.isSaved
    BY <1>0, <1>1, <1>3, <2>1, PagerStays, PagerSteps DEF PagerKept, StartsPager
  <2>3. sig.int = "ignore"
    BY <2>2 DEF Ignoring
  <2>4. PICK f \in Flushing : \A j \in Savers : j > f => cs[j].int = "ignore"
    BY <2>2 DEF Ignoring
  <2>5. ~ At("flush", "end")
    <3>1. ASSUME At("flush", "end") PROVE FALSE
      <4>1. Depth \in Flushing /\ cs[Depth].pc = "end"
        BY <1>0, <3>1 DEF At, Flushing, Active
      <4> QED
        BY <1>0, <2>2, <4>1 DEF Flushed
    <3> QED
      BY <3>1
  <2>6. f \in Flushing' /\ f \in 1 .. Depth /\ cs[f].k = "flush"
    BY <2>5, FlushStays DEF Flushing, Active
  <2>7. sig'.int = "ignore"
    <3>1. CASE MainTop
      <4>1. Running.k = "main" /\ Depth = 1
        BY <3>1, MainAlone DEF MainTop, At, TypeInv
      <4> QED
        BY <1>0, <2>6, <4>1
    <3>2. CASE RestoreInt /\ sig'.int = Running.int
      <4>1. Running.k \in {"chld", "wait"}
        BY <3>2 DEF RestoreInt
      <4>2. Depth \in Savers /\ Depth > f
        BY <1>0, <2>6, <4>1 DEF Savers, Saver
      <4> QED
        BY <1>0, <2>4, <3>2, <4>2
    <3> QED
      BY <1>0, <1>3, <2>1, <2>3, <3>1, <3>2, IntMoves
  <2>8. \A j \in Savers' : j > f => cs'[j].int = "ignore"
    <3> SUFFICES ASSUME NEW j \in Savers', j > f
                 PROVE  cs'[j].int = "ignore"
      OBVIOUS
    <3>1. CASE j \in Savers /\ cs'[j].int = cs[j].int
      BY <2>4, <3>1
    <3>2. CASE j = Depth + 1 /\ NewOf("wait")
      <4>1. CallStep
        BY <1>0, <3>2 DEF NewOf, Moves, GoesStep, LeaveStep, SwapStep
      <4>2. cs'[Depth + 1].int = sig.int
        BY <3>2, <4>1 DEF NewOf, CallStep, Enters
      <4> QED
        BY <2>3, <3>2, <4>2
    <3> QED
      BY <3>1, <3>2, SaversStep
  <2>9. \/ pager'.obj # None
        \/ \E j \in 1 .. Len(cs') : cs'[j].k = "sync" /\ cs'[j].pc = "new"
    <3>1. CASE pager.obj # None
      BY <1>0, <2>1, <3>1, PagerStays, PagerSteps DEF StartsPager
    <3>2. ASSUME NEW j \in 1 .. Depth, cs[j].k = "sync", cs[j].pc = "new"
          PROVE  \/ pager'.obj # None
                 \/ j \in 1 .. Len(cs') /\ cs'[j].k = "sync" /\ cs'[j].pc = "new"
      <4>1. CASE j = Depth
        <5>1. SyncNew
          BY <1>0, <3>2, <4>1 DEF At, Summary, Named
        <5> QED
          BY <1>0, <5>1, PagerSteps DEF StartsPager
      <4>2. CASE j # Depth
        <5>1. j \in 1 .. Depth - 1
          BY <1>0, <4>2
        <5>2. cs'[j] = cs[j]
          BY <1>0, <5>1 DEF Moves, Below
        <5>3. Len(cs') \in {Depth - 1, Depth, Depth + 1}
          BY <1>0 DEF Moves, GoesStep, CallStep, LeaveStep, SwapStep
        <5>4. j \in 1 .. Len(cs')
          BY <1>0, <5>1, <5>3
        <5> QED
          BY <3>2, <5>2, <5>4
      <4> QED
        BY <4>1, <4>2
    <3> QED
      BY <2>2, <3>1, <3>2 DEF Ignoring
  <2> QED
    BY <2>6, <2>7, <2>8, <2>9
<1> QED
  BY <1>2, <1>3

\* Neither a Goto nor a call removes a frame.
LEMMA NoLeave ==
  ASSUME Ready
  PROVE  /\ \A pc : Goto(pc) => ~ LeaveStep
         /\ \A pc, new : Call(new, pc) => ~ LeaveStep
<1>0. StackOK /\ Depth \in Nat
  BY TypeParts, StackFacts DEF Ready
<1>1. ASSUME NEW pc, NEW new, Call(new, pc) PROVE ~ LeaveStep
  <2>1. PICK t : t = Top([Running EXCEPT !.pc = pc])
    OBVIOUS
  <2>2. Len(t) = Depth
    BY <1>0, <2>1 DEF Top, Depth, StackOK
  <2>3. cs' = Append(t, new)
    BY <1>1, <2>1 DEF Call, Calling
  <2>4. Len(cs') = Depth + 1
    BY <2>2, <2>3
  <2> QED
    BY <1>0, <2>4 DEF LeaveStep
<1>2. ASSUME NEW pc, Goto(pc) PROVE ~ LeaveStep
  <2>1. Len(cs') = Depth
    BY <1>0, <1>2 DEF Goto, Top, Depth, StackOK
  <2> QED
    BY <1>0, <2>1 DEF LeaveStep
<1> QED
  BY <1>1, <1>2

LEMMA ClearNamed ==
  ASSUME Synchronous, Running.k = "clear"
  PROVE  ClearBegin \/ ClearRemoved \/ ClearDeleted
<1>1. CASE MainTop \/ MainRead \/ MainDone \/ Command \/ Leave
  BY <1>1 DEF MainTop, MainRead, MainDone, Command, Leave, At
<1>2. CASE ChildList
  BY <1>2 DEF ChildList, At, InsertFind, InsertPid, InsertHandler, InsertFile,
              RemoveFind, RemoveCall
<1>3. CASE SigchldScan \/ SigchldOther \/ Wait
  BY <1>3 DEF At, SigchldScan, SigchldOther, Wait, WaitReturns, RestoreInt, RestoreChld
<1>4. CASE Pager
  BY <1>4
  DEF Pager, At, FlushBegin, Flush, FlushClear, FlushEnd, ErrorBegin, ErrorEnd,
      SyncBegin, SyncOpen, SyncNew, SyncInsert, SyncCheck, SyncWrite, SyncRecheck,
      SyncFlush, SyncDone
<1>5. CASE Plotter
  BY <1>5
  DEF Plotter, At, OpenplotBegin, OpenplotDeleted, OpenplotNew, OpenplotAssign,
      OpenplotInsert,
      SendBegin, SendOpened, SendUse, SendUsing, CloseplotBegin, CloseplotRemoved,
      CloseplotSent, CloseplotDeleted, PlotdeathBegin, PlotdeathWarn
<1>6. CASE Systems
  BY <1>6
  DEF Systems, At, SystemBegin, SystemAdd, SystemRead, SystemStatus, SystemCleanup,
      CleancmdBegin, CleancmdRemoved, CleancmdDeleted
<1> QED
  BY <1>1, <1>2, <1>3, <1>4, <1>5, <1>6 DEF Synchronous

\* clear_external_pager comes back without a pager.
LEMMA ClearLeaves ==
  ASSUME Ready, Synchronous, Running.k = "clear", LeaveStep
  PROVE  Clears
<1>1. ~ ClearBegin /\ ~ ClearRemoved
  BY NoLeave DEF ClearBegin, ClearRemoved, Delete, WaitFor
<1> QED
  BY <1>1, ClearNamed, PagerSteps

\* The end of a flush finds no pager or clears it.
LEMMA FlushClears ==
  ASSUME Ready, FlushClear
  PROVE  /\ pager' = pager
         /\ \/ Len(cs') = Depth + 1 /\ cs'[Depth + 1].k = "clear"
            \/ pager.obj = None
<1>0. StackOK
  BY TypeParts DEF Ready
<1>1. At("flush", "clear") /\ pager' = pager
  BY DEF FlushClear, Quiet
<1>2. CASE pager.obj # None
  <2>1. Call(FrameOf("clear", None), "end")
    BY <1>2 DEF FlushClear
  <2>2. "end" \in Pcs /\ <<Running.k, Running.pc, "end">> \in Goings
        /\ CallSite(Running.k, "end", "clear")
        /\ "clear" \in FrameKinds \ {"wait", "insert", "remove"} /\ None \in Pid
    BY <1>1 DEF Pcs, At, Goings, CallSite, CallSites, FrameKinds, Pid, None
  <2>3. CallStep /\ cs'[Depth + 1].k = "clear"
    BY <1>0, <2>1, <2>2, CallStacked
  <2> QED
    BY <1>1, <2>3 DEF CallStep
<1> QED
  BY <1>1, <1>2

LEMMA FlushedMoves ==
  ASSUME TypeInv, ~ Immediate, Ignoring, Flushed, Synchronous, Summary
  PROVE  Flushed'
<1>0. /\ Ready /\ Depth \in Nat \ {0} /\ Running = cs[Depth] /\ Moves
      /\ Depth \in 1 .. Depth
  BY InvReady, TypeParts, StackFacts DEF TypeInv, Summary
<1>1. SUFFICES ASSUME NEW f \in Flushing', cs'[f].pc = "end"
               PROVE  \/ f < Len(cs') /\ cs'[f + 1].k = "clear"
                      \/ pager'.obj = None /\ ~ pager'.isSaved
  BY DEF Flushed, Depth
<1>2. f \in 1 .. Len(cs') /\ cs'[f].k = "flush"
  BY DEF Flushing, Active, Depth
<1>3. Len(cs') \in {Depth - 1, Depth, Depth + 1}
  BY <1>0 DEF Moves, GoesStep, CallStep, LeaveStep, SwapStep
<1>4. CASE f < Depth
  <2>1. cs'[f] = cs[f] /\ f \in Flushing /\ f \in 1 .. Depth - 1
    <3>1. f \in 1 .. Depth - 1 /\ f \in 1 .. Depth
      BY <1>0, <1>2, <1>3, <1>4
    <3>2. cs'[f] = cs[f]
      BY <1>0, <3>1 DEF Moves, Below
    <3> QED
      BY <1>1, <1>2, <3>1, <3>2 DEF Flushing, Active
  <2>2. CASE pager.obj = None /\ ~ pager.isSaved
    <3>1. CASE SyncOpen \/ SyncNew \/ SyncCheck
      <4>1. Depth - 1 \in Flushing /\ cs[Depth - 1].pc = "clear"
        BY <3>1, PagerAlone DEF PagerMoves
      <4>2. f = Depth - 1
        BY <2>1, <4>1, OneFlush
      <4> QED
        BY <1>1, <2>1, <4>1, <4>2
    <3>2. CASE ~ (SyncOpen \/ SyncNew \/ SyncCheck)
      BY <1>0, <2>2, <3>2, PagerStays, PagerSteps DEF PagerKept, Clears
    <3> QED
      BY <3>1, <3>2
  <2>3. CASE cs[f + 1].k = "clear"
    <3>1. CASE f + 1 < Depth
      <4>1. f + 1 \in 1 .. Depth - 1 /\ f < Len(cs')
        BY <1>0, <1>3, <2>1, <3>1
      <4>2. cs'[f + 1] = cs[f + 1]
        BY <1>0, <4>1 DEF Moves, Below
      <4> QED
        BY <2>3, <4>1, <4>2
    <3>2. CASE f + 1 = Depth
      <4>1. Running.k = "clear"
        BY <1>0, <2>3, <3>2
      <4>2. CASE LeaveStep
        BY <1>0, <4>1, <4>2, ClearLeaves DEF Clears
      <4>3. CASE GoesStep \/ CallStep
        <5>1. cs'[Depth].k = "clear" /\ Len(cs') >= Depth
          BY <1>0, <4>1, <4>3 DEF GoesStep, CallStep, GoesOn
        <5>2. f < Len(cs') /\ cs'[f + 1].k = "clear"
          BY <1>0, <1>3, <2>1, <3>2, <5>1
        <5> QED
          BY <5>2
      <4>4. ~ SwapStep
        BY <4>1 DEF SwapStep, At
      <4> QED
        BY <1>0, <4>2, <4>3, <4>4 DEF Moves
    <3> QED
      BY <1>0, <1>4, <2>1, <3>1, <3>2
  <2> QED
    BY <1>1, <2>1, <2>2, <2>3 DEF Flushed
<1>5. CASE f = Depth
  <2>1. ~ LeaveStep /\ ~ SwapStep
    BY <1>0, <1>2, <1>5 DEF LeaveStep, SwapStep, FrameOf
  <2>2. GoesOn(cs'[Depth])
    BY <1>0, <2>1 DEF Moves, GoesStep, CallStep
  <2>3. At("flush", "clear")
    BY <1>1, <1>2, <1>5, <2>2 DEF GoesOn, Goings, At
  <2>4. FlushClear
    BY <2>3 DEF Summary, Named
  <2>5. Depth \in Flushing
    BY <1>0, <2>3 DEF At, Flushing, Active
  <2>6. pager' = pager /\ (pager.obj = None \/ (Len(cs') = Depth + 1 /\ cs'[Depth + 1].k = "clear"))
    BY <1>0, <2>4, FlushClears
  <2>7. pager.obj = None => ~ pager.isSaved
    <3> SUFFICES ASSUME pager.obj = None, pager.isSaved PROVE FALSE
      OBVIOUS
    <3>1. PICK j \in 1 .. Depth : cs[j].k = "sync"
      BY DEF Ignoring
    <3>2. j - 1 \in Flushing
      BY <3>1, CalledByFlush
    <3>3. j - 1 = Depth
      BY <2>5, <3>2, OneFlush
    <3> QED
      BY <1>0, <3>3
  <2> QED
    BY <1>0, <1>5, <2>6, <2>7
<1>6. CASE f = Depth + 1
  <2>1. CallStep
    BY <1>0, <1>2, <1>6 DEF Moves, GoesStep, LeaveStep, SwapStep
  <2> QED
    BY <1>1, <1>2, <1>6, <2>1 DEF CallStep, Enters
<1> QED
  BY <1>0, <1>2, <1>3, <1>4, <1>5, <1>6

\* main_loop comes to the prompt by a flush.
LEMMA PromptSteps ==
  ASSUME TypeInv, Synchronous, Summary, cs'[1].pc = "prompt"
  PROVE  \/ Depth > 1 /\ AtPrompt
         \/ /\ Depth = 1 /\ MainTop /\ CallStep /\ cs'[2].k = "flush"
            /\ sig'.int = "catch" /\ PagerKept
<1>0. /\ Ready /\ Depth \in Nat \ {0} /\ Running = cs[Depth] /\ Moves /\ StackOK /\ SigOK
  BY InvReady, TypeParts, StackFacts DEF TypeInv, Summary
<1>1. CASE Depth > 1
  <2>1. 1 \in 1 .. Depth - 1
    BY <1>0, <1>1
  <2> QED
    BY <1>0, <1>1, <2>1 DEF Moves, Below, AtPrompt
<1>2. CASE Depth = 1
  <2>1. Running.k = "main" /\ ~ LeaveStep /\ ~ SwapStep
    BY <1>0, <1>2 DEF StackOK, LeaveStep, SwapStep
  <2>2. GoesOn(cs'[1])
    BY <1>0, <1>2, <2>1 DEF Moves, GoesStep, CallStep
  <2>3. At("main", "top")
    BY <2>1, <2>2 DEF GoesOn, Goings, At
  <2>4. MainTop
    BY <2>3 DEF Summary, Named
  <2>5. /\ Call(FrameOf("flush", None), "prompt") /\ sig' = [sig EXCEPT !.int = "catch"]
        /\ pager' = pager
    BY <2>4 DEF MainTop
  <2>6. "prompt" \in Pcs /\ <<Running.k, Running.pc, "prompt">> \in Goings
        /\ CallSite(Running.k, "prompt", "flush")
        /\ "flush" \in FrameKinds \ {"wait", "insert", "remove"} /\ None \in Pid
    BY <2>3 DEF Pcs, At, Goings, CallSite, CallSites, FrameKinds, Pid, None
  <2>7. CallStep /\ cs'[2].k = "flush"
    <3>1. CallStep /\ cs'[Depth + 1].k = "flush"
      BY <1>0, <2>5, <2>6, CallStacked
    <3> QED
      BY <1>2, <3>1
  <2>8. sig'.int = "catch"
    BY <1>0, <2>5 DEF SigOK
  <2> QED
    BY <1>2, <2>4, <2>5, <2>7, <2>8 DEF PagerKept
<1> QED
  BY <1>0, <1>1, <1>2

\* A flush that begins at the prompt goes on unless another is active.
LEMMA FlushGoesOn ==
  ASSUME TypeInv, AtPrompt, FlushBegin, LeaveStep
  PROVE  Flushing # {}
<1>1. Ready
  BY InvReady DEF TypeInv
<1>2. pager.flushing
  BY <1>1, FlushSteps, TypeParts, StackFacts DEF Ready, GoesStep, CallStep, LeaveStep
<1> QED
  BY <1>2 DEF TypeInv, Protected, AtPrompt

LEMMA NoPagerMoves ==
  ASSUME TypeInv, ~ Immediate, Flushed, NoPager, Synchronous, Summary
  PROVE  NoPager'
<1>0. /\ Ready /\ Depth \in Nat \ {0} /\ Running = cs[Depth] /\ Moves
      /\ Depth \in 1 .. Depth
  BY InvReady, TypeParts, StackFacts DEF TypeInv, Summary
<1>1. SUFFICES ASSUME cs'[1].pc = "prompt"
               PROVE  \/ Flushing' # {} \/ (Len(cs') > 1 /\ cs'[2].k = "flush")
                      \/ pager'.obj = None
  BY DEF NoPager, AtPrompt, Depth
<1>2. CASE /\ Depth = 1 /\ CallStep /\ cs'[2].k = "flush"
  BY <1>2 DEF CallStep
<1>3. CASE Depth > 1 /\ AtPrompt
  <2>1. CASE Flushing # {}
    <3>1. CASE ~ At("flush", "end")
      BY <2>1, <3>1, FlushStays
    <3>2. CASE At("flush", "end")
      <4>1. Depth \in Flushing /\ cs[Depth].pc = "end"
        BY <1>0, <3>2 DEF At, Flushing, Active
      <4>2. pager.obj = None
        BY <1>0, <4>1 DEF Flushed
      <4>3. ~ SyncNew /\ ~ ClearDeleted
        BY <3>2, PagerPlaces DEF At
      <4> QED
        BY <1>0, <4>2, <4>3, PagerStays
    <3> QED
      BY <3>1, <3>2
  <2>2. CASE Flushing = {} /\ cs[2].k = "flush"
    <3>1. CASE Depth > 2
      <4>1. 2 \in 1 .. Depth - 1 /\ Len(cs') > 1
        BY <1>0, <3>1 DEF Moves, GoesStep, CallStep, LeaveStep, SwapStep
      <4> QED
        BY <1>0, <2>2, <4>1 DEF Moves, Below
    <3>2. CASE Depth = 2
      <4>1. Running.k = "flush" /\ Running.pc = "begin"
        BY <1>0, <2>2, <3>2 DEF Flushing, Active
      <4>2. FlushBegin
        BY <4>1 DEF Summary, Named, At
      <4>3. ~ LeaveStep
        BY <1>3, <2>2, <4>2, FlushGoesOn
      <4> QED
        BY <1>0, <4>2, <4>3, FlushingMoves
    <3> QED
      BY <1>0, <1>3, <3>1, <3>2
  <2>3. CASE Flushing = {} /\ pager.obj = None
    <3>1. ~ SyncNew
      BY <2>3, PagerAlone DEF PagerMoves
    <3> QED
      BY <1>0, <2>3, <3>1, PagerStays, PagerSteps DEF Clears
  <2> QED
    BY <1>3, <2>1, <2>2, <2>3 DEF NoPager
<1> QED
  BY <1>1, <1>2, <1>3, PromptSteps

\* A handler that has called nothing or that is called by nothing that saves.
LEMMA GivenBackMoves ==
  ASSUME TypeInv, SigchldKept, GivenBack, Synchronous, Summary
  PROVE  GivenBack'
<1>0. /\ Ready /\ Depth \in Nat \ {0} /\ Running = cs[Depth] /\ Moves
      /\ Depth \in 1 .. Depth /\ TypeOK /\ WellCalled
  BY InvReady, TypeParts, StackFacts DEF TypeInv, Summary
<1>1. SUFFICES ASSUME Saver(cs'[Len(cs')]), cs'[Len(cs')].pc = "chld"
               PROVE  sig'.int = cs'[Len(cs')].int
  BY DEF GivenBack, Running, Saver, Depth
<1>2. CASE GoesStep
  <2>1. cs'[Len(cs')] = cs'[Depth] /\ GoesOn(cs'[Depth])
    BY <1>2 DEF GoesStep
  <2>2. Saver(Running) /\ Running.pc = "int" /\ cs'[Depth].int = Running.int
    BY <1>1, <2>1 DEF GoesOn, Saver, Goings
  <2>3. RestoreInt
    <3>1. ~ SigchldScan /\ ~ SigchldOther /\ ~ WaitReturns /\ ~ RestoreChld
      BY <2>2 DEF SigchldScan, SigchldOther, WaitReturns, RestoreChld, At
    <3> QED
      BY <2>2, <3>1, KindNamed
  <2>4. sig'.int = Running.int
    BY <1>0, <2>3, TypeParts DEF RestoreInt, SigOK
  <2> QED
    BY <2>1, <2>2, <2>4
<1>3. CASE CallStep
  <2>1. cs'[Len(cs')] = cs'[Depth + 1]
    BY <1>3 DEF CallStep
  <2>2. cs'[Depth + 1].pc # "chld"
    BY <1>3 DEF CallStep, Enters
  <2> QED
    BY <1>1, <2>1, <2>2
<1>4. CASE SwapStep
  <2>1. cs'[Len(cs')].k = "plotdeath"
    BY <1>4 DEF SwapStep, FrameOf
  <2> QED
    BY <1>1, <2>1 DEF Saver
<1>5. CASE LeaveStep
  <2>1. Depth > 1 /\ Len(cs') = Depth - 1 /\ Depth - 1 \in 1 .. Depth - 1 /\ Depth \in 2 .. Depth
    BY <1>0, <1>5 DEF LeaveStep
  <2>2. cs'[Depth - 1] = cs[Depth - 1] /\ Saver(cs[Depth - 1]) /\ cs[Depth - 1].pc = "chld"
    BY <1>0, <1>1, <2>1 DEF Moves, Below
  <2>3. CASE Running.k = "chld"
    <3>1. Depth - 1 \in Savers /\ Depth \in Savers /\ Depth - 1 < Depth
      BY <1>0, <2>1, <2>2, <2>3 DEF Savers, Saver
    <3> QED
      BY <1>0, <2>3, <3>1 DEF SigchldKept
  <2>4. CASE CallSite(cs[Depth - 1].k, "chld", Running.k)
    BY <2>2, <2>4 DEF Saver, CallSite, CallSites
  <2> QED
    BY <1>0, <2>1, <2>2, <2>3, <2>4, CalledTwo
<1> QED
  BY <1>0, <1>2, <1>3, <1>4, <1>5 DEF Moves

\* What has to hold again, in three parts.
CatchNext == ~ pager'.isSaved /\ Savers' = {} => sig'.int = "catch"
LowestNext ==
  \A i \in Savers' : \/ cs'[i].int = "catch"
                     \/ pager'.isSaved /\ \E f \in Flushing' : f < i
                     \/ \E j \in Savers' : j < i
SavedNext ==
  pager'.isSaved => pager'.saved = "catch" \/ \E f \in Flushing' : \E j \in Savers' : j < f

LEMMA CaughtParts ==
  ASSUME Caught, AtPrompt
  PROVE  /\ ~ pager.isSaved /\ Savers = {} => sig.int = "catch"
         /\ \A i \in Savers : \/ cs[i].int = "catch"
                              \/ pager.isSaved /\ \E f \in Flushing : f < i
                              \/ \E j \in Savers : j < i
         /\ pager.isSaved => pager.saved = "catch"
                             \/ \E f \in Flushing : \E j \in Savers : j < f
BY DEF Caught, PagerBelow

LEMMA CaughtPager ==
  ASSUME TypeInv, ~ Immediate, InUse, Ignoring, Caught, AtPrompt, Synchronous, Summary,
         PagerMoves
  PROVE  CatchNext /\ LowestNext /\ SavedNext
<1>0. /\ Ready /\ Depth \in Nat \ {0} /\ Running = cs[Depth] /\ Moves
      /\ Depth \in 1 .. Depth
  BY InvReady, TypeParts, StackFacts DEF TypeInv, Summary
<1>1. /\ Depth > 1 /\ Depth - 1 \in Flushing /\ Flushing' = Flushing /\ Savers' = Savers
      /\ \A j \in Savers : j < Depth - 1
  BY PagerAlone
<1>2. \A i \in Savers : cs'[i].int = cs[i].int
  BY <1>0, <1>1, SaverInts
<1>3. \A i \in Savers : \A f \in Flushing : ~ (f < i)
  <2> SUFFICES ASSUME NEW i \in Savers, NEW f \in Flushing PROVE ~ (f < i)
    OBVIOUS
  <2>1. f = Depth - 1 /\ i \in Nat
    BY <1>1, OneFlush DEF Savers
  <2> QED
    BY <1>0, <1>1, <2>1
<1>4. LowestNext
  BY <1>1, <1>2, <1>3, CaughtParts DEF LowestNext
<1>5. pager.isSaved /\ Savers = {} => pager.saved = "catch"
  BY CaughtParts
<1>6. CASE SyncOpen
  <2>1. At("sync", "open") /\ pager.obj = None
    BY <1>0, <1>6, PagerPlaces DEF InUse, At
  <2>2. ~ pager.isSaved
    <3> SUFFICES ASSUME pager.isSaved PROVE FALSE
      OBVIOUS
    <3>1. PICK j \in 1 .. Depth : cs[j].k = "sync" /\ cs[j].pc = "new"
      BY <2>1 DEF Ignoring
    <3>2. j = Depth
      BY <1>0, <2>1, <3>1, OneSync DEF At
    <3> QED
      BY <1>0, <2>1, <3>1, <3>2 DEF At
  <2>3. pager'.isSaved /\ pager'.saved = sig.int
    BY <1>0, <1>6, PagerSteps DEF OpensPager
  <2>4. Savers = {} => sig.int = "catch"
    BY <2>2, CaughtParts
  <2> QED
    BY <1>1, <1>4, <2>3, <2>4 DEF CatchNext, SavedNext
<1>7. CASE SyncNew
  <2>1. pager'.isSaved = pager.isSaved /\ pager'.saved = pager.saved /\ sig' = sig
    BY <1>0, <1>7, PagerSteps DEF StartsPager
  <2> QED
    BY <1>1, <1>4, <2>1, CaughtParts DEF CatchNext, SavedNext
<1>8. CASE SyncCheck
  <2>1. CASE PagerKept /\ sig' = sig
    BY <1>1, <1>4, <2>1, CaughtParts DEF CatchNext, SavedNext, PagerKept
  <2>2. CASE GivesUp
    BY <1>1, <1>4, <1>5, <2>2 DEF CatchNext, SavedNext, GivesUp
  <2> QED
    BY <1>0, <1>8, <2>1, <2>2, PagerSteps
<1>9. CASE ClearDeleted
  <2>1. Clears
    BY <1>0, <1>9, PagerSteps
  <2>2. ~ pager.isSaved /\ Savers = {} => sig.int = "catch"
    BY CaughtParts
  <2> QED
    BY <1>1, <1>4, <1>5, <2>1, <2>2 DEF CatchNext, SavedNext, Clears
<1> QED
  BY <1>6, <1>7, <1>8, <1>9 DEF PagerMoves

LEMMA CaughtWait ==
  ASSUME TypeInv, ~ Immediate, Ignoring, Caught, AtPrompt, Synchronous, Summary,
         ~ PagerMoves, NewOf("wait")
  PROVE  CatchNext /\ LowestNext /\ SavedNext
<1>0. /\ Ready /\ Depth \in Nat \ {0} /\ Running = cs[Depth] /\ Moves
  BY InvReady, TypeParts, StackFacts DEF TypeInv, Summary
<1>1. Savers' = Savers \cup {Depth + 1} /\ CallStep
  BY <1>0, SaversMoves
<1>2. cs'[Depth + 1].int = sig.int
  BY <1>1 DEF CallStep, Enters, NewOf
<1>3. \A f \in Flushing : f \in Flushing' /\ f < Depth + 1
  <2>1. ~ FlushEnd
    BY <1>0, <1>1, FlushSteps DEF CallStep, LeaveStep
  <2>2. \A f \in Flushing : f \in Flushing'
    BY <2>1, FlushingStep
  <2>3. \A f \in Flushing : f < Depth + 1
    BY <1>0 DEF Flushing
  <2> QED
    BY <2>2, <2>3
<1>4. PagerKept
  BY <1>0, PagerStays DEF PagerMoves
<1>5. \A i \in Savers : i < Depth + 1 /\ cs'[i].int = cs[i].int
  BY <1>0, <1>1, SaverInts DEF Savers
<1>6. ASSUME NEW i \in Savers'
      PROVE  \/ cs'[i].int = "catch"
             \/ pager'.isSaved /\ \E f \in Flushing' : f < i
             \/ \E j \in Savers' : j < i
  <2>1. CASE i \in Savers
    BY <1>1, <1>3, <1>4, <1>5, <2>1, CaughtParts DEF PagerKept
  <2>2. CASE i = Depth + 1 /\ Savers # {}
    BY <1>1, <1>5, <2>2
  <2>3. CASE i = Depth + 1 /\ Savers = {} /\ pager.isSaved
    <3>1. PICK f \in Flushing : TRUE
      BY <2>3 DEF Ignoring
    <3> QED
      BY <1>3, <1>4, <2>3, <3>1 DEF PagerKept
  <2>4. CASE i = Depth + 1 /\ Savers = {} /\ ~ pager.isSaved
    BY <1>2, <2>4, CaughtParts
  <2> QED
    BY <1>1, <2>1, <2>2, <2>3, <2>4
<1>7. SavedNext
  BY <1>1, <1>3, <1>4, CaughtParts DEF SavedNext, PagerKept
<1> QED
  BY <1>1, <1>6, <1>7 DEF CatchNext, LowestNext

LEMMA CaughtRestored ==
  ASSUME TypeInv, Caught, GivenBack, AtPrompt, Synchronous, Summary, RestoreChld
  PROVE  CatchNext /\ LowestNext /\ SavedNext
<1>0. /\ Ready /\ Depth \in Nat \ {0} /\ Running = cs[Depth] /\ Moves /\ SigOK
  BY InvReady, TypeParts, StackFacts DEF TypeInv, Summary
<1>1. Depth \in Savers /\ Savers' = Savers \ {Depth} /\ Saver(Running)
  BY <1>0, SaversMoves, RestoreChldStep
<1>2. Running.k \in {"chld", "wait"} /\ Running.pc = "chld"
  BY DEF RestoreChld
<1>3. Flushing' = Flushing
  BY <1>0, <1>2, FlushingMoves
<1>4. PagerKept
  BY <1>0, <1>2, PagerStays, PagerPlaces DEF At
<1>5. sig'.int = cs[Depth].int
  <2>1. sig'.int = sig.int
    BY <1>0 DEF RestoreChld, SigOK
  <2> QED
    BY <1>0, <1>1, <1>2, <2>1 DEF GivenBack
<1>6. \A i \in Savers' : i \in Savers /\ i < Depth /\ cs'[i].int = cs[i].int
  <2>1. \A i \in Savers' : i \in Savers /\ i \in 1 .. Depth /\ i # Depth
    BY <1>1 DEF Savers
  <2> QED
    BY <1>0, <2>1, SaverInts
<1>7. \A i \in Savers : i < Depth => i \in Savers'
  BY <1>0, <1>1
<1>8. \A f \in Flushing : f <= Depth /\ f \in Nat
  BY <1>0 DEF Flushing
<1>9. CatchNext
  <2> SUFFICES ASSUME ~ pager'.isSaved, Savers' = {} PROVE sig'.int = "catch"
    BY DEF CatchNext
  <2>1. \A j \in Savers : ~ (j < Depth)
    BY <1>7
  <2>2. ~ pager.isSaved
    BY <1>4 DEF PagerKept
  <2> QED
    BY <1>1, <1>5, <2>1, <2>2, CaughtParts
<1>10. LowestNext
  <2> SUFFICES ASSUME NEW i \in Savers'
               PROVE  \/ cs'[i].int = "catch"
                      \/ pager'.isSaved /\ \E f \in Flushing' : f < i
                      \/ \E j \in Savers' : j < i
    BY DEF LowestNext
  <2>1. i \in Savers /\ i < Depth /\ cs'[i].int = cs[i].int /\ i \in Nat
    BY <1>6 DEF Savers
  <2>2. \A j \in Savers : j < i => j \in Savers'
    <3>1. \A j \in Savers : j \in Nat
      BY DEF Savers
    <3> QED
      BY <1>0, <1>7, <2>1, <3>1
  <2> QED
    BY <1>3, <1>4, <2>1, <2>2, CaughtParts DEF PagerKept
<1>11. SavedNext
  <2>1. \A j \in Savers : \A f \in Flushing : j < f => j \in Savers'
    <3>1. \A j \in Savers : j \in Nat
      BY DEF Savers
    <3> QED
      BY <1>0, <1>7, <1>8, <3>1
  <2> QED
    BY <1>3, <1>4, <2>1, CaughtParts DEF SavedNext, PagerKept
<1> QED
  BY <1>9, <1>10, <1>11

LEMMA CaughtOther ==
  ASSUME TypeInv, Flushed, Caught, AtPrompt, Synchronous, Summary,
         ~ PagerMoves, ~ NewOf("wait"), ~ RestoreChld, Depth > 1
  PROVE  CatchNext /\ LowestNext /\ SavedNext
<1>0. /\ Ready /\ Depth \in Nat \ {0} /\ Running = cs[Depth] /\ Moves
      /\ Depth \in 1 .. Depth
  BY InvReady, TypeParts, StackFacts DEF TypeInv, Summary
<1>1. Savers' = Savers /\ PagerKept
  BY <1>0, SaversMoves, PagerStays DEF PagerMoves
<1>2. \A i \in Savers : cs'[i].int = cs[i].int
  BY <1>0, <1>1, SaverInts
<1>3. pager.isSaved => \A f \in Flushing : f \in Flushing'
  <2> SUFFICES ASSUME pager.isSaved, NEW f \in Flushing PROVE f \in Flushing'
    OBVIOUS
  <2>1. CASE ~ At("flush", "end")
    BY <2>1, FlushStays
  <2>2. CASE At("flush", "end")
    <3>1. Depth \in Flushing /\ cs[Depth].pc = "end"
      BY <1>0, <2>2 DEF At, Flushing, Active
    <3> QED
      BY <1>0, <3>1 DEF Flushed
  <2> QED
    BY <2>1, <2>2
<1>4. CatchNext
  <2> SUFFICES ASSUME ~ pager'.isSaved, Savers' = {} PROVE sig'.int = "catch"
    BY DEF CatchNext
  <2>1. sig.int = "catch"
    BY <1>1, CaughtParts DEF PagerKept
  <2>2. ~ MainTop
    <3>1. ASSUME MainTop PROVE FALSE
      <4>1. Running.k = "main"
        BY <3>1 DEF MainTop, At
      <4> QED
        BY <4>1, MainAlone DEF TypeInv
    <3> QED
      BY <3>1
  <2>3. ~ RestoreInt
    <3>1. ASSUME RestoreInt PROVE FALSE
      <4>1. Depth \in Savers
        BY <1>0, <3>1 DEF RestoreInt, Savers, Saver
      <4> QED
        BY <1>1, <4>1
    <3> QED
      BY <3>1
  <2> QED
    BY <1>0, <2>1, <2>2, <2>3, IntMoves DEF PagerMoves
<1>5. LowestNext
  BY <1>1, <1>2, <1>3, CaughtParts DEF LowestNext, PagerKept
<1>6. SavedNext
  BY <1>1, <1>3, CaughtParts DEF SavedNext, PagerKept
<1> QED
  BY <1>4, <1>5, <1>6

\* With nothing but main_loop on the stack nothing is saved.
LEMMA AloneEmpty ==
  ASSUME TypeInv, Depth = 1
  PROVE  /\ Flushing = {} /\ Savers = {} /\ \A j \in 1 .. Depth : cs[j].k = "main"
         /\ Ignoring => ~ pager.isSaved
<1>1. \A j \in 1 .. Depth : cs[j].k = "main"
  BY TypeParts DEF TypeInv, StackOK
<1>2. Flushing = {} /\ Savers = {}
  BY <1>1 DEF Flushing, Active, Savers, Saver
<1> QED
  BY <1>1, <1>2 DEF Ignoring

LEMMA CaughtTop ==
  ASSUME TypeInv, Ignoring, Synchronous, Summary,
         Depth = 1, CallStep, cs'[2].k = "flush", sig'.int = "catch", PagerKept
  PROVE  CatchNext /\ LowestNext /\ SavedNext
<1>1. ~ pager'.isSaved
  BY AloneEmpty DEF PagerKept
<1>2. Savers' = {}
  <2>1. ~ NewOf("wait")
    BY DEF NewOf
  <2> QED
    BY <2>1, AloneEmpty, SaversStep
<1> QED
  BY <1>1, <1>2 DEF CatchNext, LowestNext, SavedNext

LEMMA CaughtMoves ==
  ASSUME TypeInv, ~ Immediate, InUse, Ignoring, Flushed, Caught, GivenBack,
         Synchronous, Summary
  PROVE  Caught'
<1>1. SUFFICES ASSUME cs'[1].pc = "prompt"
               PROVE  CatchNext /\ LowestNext /\ SavedNext
  BY DEF Caught, PagerBelow, AtPrompt, CatchNext, LowestNext, SavedNext
<1>2. CASE /\ Depth = 1 /\ MainTop /\ CallStep /\ cs'[2].k = "flush"
           /\ sig'.int = "catch" /\ PagerKept
  BY <1>2, CaughtTop
<1>3. CASE Depth > 1 /\ AtPrompt
  BY <1>3, CaughtPager, CaughtWait, CaughtRestored, CaughtOther
<1> QED
  BY <1>1, <1>2, <1>3, PromptSteps

-----------------------------------------------------------------------------
LEMMA SigintMoves ==
  ASSUME TypeInv, SigchldKept, ~ Immediate, SigintKept, Synchronous
  PROVE  SigintKept'
<1>1. Summary
  BY InvReady, SynchronousSteps DEF TypeInv
<1> QED
  BY <1>1, InUseMoves, IgnoringMoves, FlushedMoves, NoPagerMoves, CaughtMoves,
     GivenBackMoves DEF SigintKept

\* When main_loop runs all protections nothing is saved, and it is not at the prompt.
LEMMA SigintJumped ==
  ASSUME TypeInv, Ignoring, MainJumped
  PROVE  Ignoring' /\ Flushed' /\ NoPager' /\ Caught' /\ GivenBack'
<1>0. TypeOK /\ WellCalled /\ Depth \in Nat \ {0}
  BY TypeParts, StackFacts DEF TypeInv
<1>1. Depth = 1 /\ At("main", "jumped") /\ PagerKept
  BY <1>0, JumpedStep, MainAlone DEF At
<1>2. ~ pager'.isSaved
  BY <1>1, AloneEmpty DEF PagerKept
<1>3. FrameOf("cleancmd", None).k = "cleancmd"
  BY DEF FrameOf
<1>4. /\ Len(cs') \in {1, 2} /\ cs'[1].k = "main" /\ cs'[1].pc # "prompt"
      /\ Len(cs') = 2 => cs'[2].k = "cleancmd"
  <2>1. CASE cs' = cs
    <3>1. Len(cs') = 1 /\ cs'[1] = Running
      BY <1>1, <2>1 DEF Depth, Running
    <3> QED
      BY <1>1, <3>1 DEF At
  <2>2. CASE Len(cs') = Depth /\ cs'[Depth].k = "main" /\ cs'[Depth].pc = "top"
    BY <1>1, <2>2
  <2>3. CASE /\ Len(cs') = Depth + 1 /\ cs'[Depth].k = "main" /\ cs'[Depth].pc = "jumped"
             /\ cs'[Depth + 1] = FrameOf("cleancmd", None)
    BY <1>1, <1>3, <2>3
  <2> QED
    BY <1>0, <2>1, <2>2, <2>3, JumpedStep
<1>5. \A i \in 1 .. Len(cs') : cs'[i].k \in {"main", "cleancmd"}
  BY <1>4
<1>6. Flushing' = {}
  BY <1>5 DEF Flushing, Active, Depth
<1>7. GivenBack'
  <2>1. Len(cs') \in 1 .. Len(cs')
    BY <1>4
  <2>2. cs'[Len(cs')].k \in {"main", "cleancmd"}
    BY <1>5, <2>1
  <2> QED
    BY <2>2 DEF GivenBack, Saver, Running, Depth
<1>8. Ignoring' /\ Flushed' /\ NoPager' /\ Caught'
  BY <1>2, <1>4, <1>6 DEF Ignoring, Flushed, NoPager, Caught, AtPrompt
<1> QED
  BY <1>7, <1>8

-----------------------------------------------------------------------------
\* The handler saves what the pager has made of SIGINT, or that it was caught.
LEMMA SigintHandler ==
  ASSUME TypeInv, SigchldKept, Ignoring, Flushed, NoPager, Caught, SigchldBegin
  PROVE  Ignoring' /\ Flushed' /\ NoPager' /\ Caught' /\ GivenBack'
<1>0. TypeOK /\ Depth \in Nat \ {0}
  BY TypeParts, StackFacts DEF TypeInv
<1>1. /\ Len(cs') = Depth + 1 /\ \A i \in 1 .. Depth : cs'[i] = cs[i]
      /\ cs'[Depth + 1].k = "chld" /\ cs'[Depth + 1].pc = "scan"
      /\ cs'[Depth + 1].int = sig.int
      /\ sig.chld = "handler" /\ sig'.int = "ignore" /\ pager' = pager
  BY <1>0, HandlerStep
<1>2. Savers = {}
  BY <1>1 DEF SigchldKept
<1>3. \A i : i \in 1 .. Depth + 1 <=> i \in 1 .. Depth \/ i = Depth + 1
  BY <1>0
<1>4. Savers' = {Depth + 1}
  <2>1. \A i : i \in Savers' <=> i \in 1 .. Depth + 1 /\ Saver(cs'[i])
    BY <1>1 DEF Savers, Saver, Depth
  <2>2. Saver(cs'[Depth + 1]) /\ \A i \in 1 .. Depth : ~ Saver(cs'[i])
    BY <1>1, <1>2 DEF Savers, Saver
  <2> QED
    BY <1>3, <2>1, <2>2
<1>5. Flushing' = Flushing
  <2>1. \A i : i \in Flushing' <=> i \in 1 .. Depth + 1 /\ Active(cs'[i])
    BY <1>1 DEF Flushing, Active, Depth
  <2>2. ~ Active(cs'[Depth + 1]) /\ \A i \in 1 .. Depth : cs'[i] = cs[i]
    BY <1>1 DEF Active
  <2>3. \A i : i \in Flushing' <=> i \in 1 .. Depth /\ Active(cs[i])
    BY <1>3, <2>1, <2>2
  <2> QED
    BY <2>3 DEF Flushing
<1>6. \A f \in Flushing : f \in 1 .. Depth /\ cs'[f] = cs[f] /\ f < Depth + 1
  BY <1>0, <1>1 DEF Flushing
<1>7. Ignoring'
  <2> SUFFICES ASSUME pager.isSaved
               PROVE  /\ sig'.int = "ignore"
                      /\ pager.obj # None \/ \E j \in 1 .. Depth + 1 :
                                               cs'[j].k = "sync" /\ cs'[j].pc = "new"
                      /\ \E f \in Flushing : \A j \in Savers' :
                           j > f => cs'[j].int = "ignore"
    BY <1>1, <1>5 DEF Ignoring, Depth
  <2>1. pager.obj # None \/ \E j \in 1 .. Depth + 1 : cs'[j].k = "sync" /\ cs'[j].pc = "new"
    BY <1>1, <1>3 DEF Ignoring
  <2>2. Flushing # {} /\ sig.int = "ignore"
    BY DEF Ignoring
  <2> QED
    BY <1>1, <1>4, <2>1, <2>2
<1>8. Flushed'
  <2> SUFFICES ASSUME NEW f \in Flushing, cs'[f].pc = "end"
               PROVE  \/ f < Depth + 1 /\ cs'[f + 1].k = "clear"
                      \/ pager.obj = None /\ ~ pager.isSaved
    BY <1>1, <1>5 DEF Flushed, Depth
  <2>1. \/ f < Depth /\ cs[f + 1].k = "clear"
        \/ pager.obj = None /\ ~ pager.isSaved
    BY <1>6 DEF Flushed
  <2>2. f < Depth => cs'[f + 1] = cs[f + 1]
    <3>1. f < Depth => f + 1 \in 1 .. Depth
      BY <1>0, <1>6
    <3> QED
      BY <1>1, <3>1
  <2> QED
    BY <1>6, <2>1, <2>2
<1>9. cs'[1] = cs[1] /\ (Depth > 1 => cs'[2] = cs[2])
  <2>1. 1 \in 1 .. Depth /\ (Depth > 1 => 2 \in 1 .. Depth)
    BY <1>0
  <2> QED
    BY <1>1, <2>1
<1>10. NoPager'
  <2>1. Depth > 1 => Len(cs') > 1
    BY <1>0, <1>1
  <2>2. AtPrompt' => AtPrompt
    BY <1>9 DEF AtPrompt
  <2> QED
    BY <1>1, <1>5, <1>9, <2>1, <2>2 DEF NoPager, Depth
<1>11. Caught'
  <2> SUFFICES ASSUME AtPrompt
               PROVE  /\ \/ cs'[Depth + 1].int = "catch"
                         \/ pager.isSaved /\ \E f \in Flushing : f < Depth + 1
                      /\ pager.isSaved => pager.saved = "catch"
    BY <1>1, <1>4, <1>5, <1>9 DEF Caught, AtPrompt, PagerBelow
  <2>1. pager.isSaved => Flushing # {}
    BY DEF Ignoring
  <2>2. ~ pager.isSaved => sig.int = "catch"
    BY <1>2 DEF Caught
  <2>3. pager.isSaved => pager.saved = "catch"
    BY <1>2 DEF Caught
  <2> QED
    BY <1>1, <1>6, <2>1, <2>2, <2>3
<1>12. GivenBack'
  <2>1. Running' = cs'[Depth + 1]
    BY <1>1 DEF Running, Depth
  <2> QED
    BY <1>1, <2>1 DEF GivenBack
<1> QED
  BY <1>7, <1>8, <1>10, <1>11, <1>12

\* An interrupt finds nothing saved by the pager: it would have been ignored.
LEMMA SigintInterrupt ==
  ASSUME TypeInv, Ignoring, Interrupt
  PROVE  Ignoring' /\ Flushed' /\ NoPager' /\ Caught' /\ GivenBack'
<1>1. /\ Len(cs') = 1 /\ cs'[1].k = "main" /\ cs'[1].pc = "jumped" /\ pager' = pager
  BY InterruptStep DEF TypeInv
<1>2. ~ pager'.isSaved
  BY <1>1 DEF Interrupt, Ignoring
<1>3. Flushing' = {}
  BY <1>1 DEF Flushing, Active, Depth
<1>4. GivenBack'
  BY <1>1 DEF GivenBack, Saver, Running, Depth
<1> QED
  BY <1>1, <1>2, <1>3, <1>4 DEF Ignoring, Flushed, NoPager, Caught, AtPrompt

LEMMA SigintNext ==
  ASSUME TypeInv, SigchldKept, ~ Immediate, SigintKept, Next
  PROVE  SigintKept'
<1>0. /\ InUse /\ Ignoring /\ Flushed /\ NoPager /\ Caught /\ GivenBack /\ TypeOK
  BY DEF SigintKept, TypeInv
<1>1. CASE Synchronous
  BY <1>1, SigintMoves
<1>2. CASE MainJumped
  BY <1>0, <1>2, SigintJumped, InUseNext DEF SigintKept
<1>3. CASE SigchldBegin
  BY <1>0, <1>3, SigintHandler, InUseNext DEF SigintKept
<1>4. CASE Interrupt
  BY <1>0, <1>4, SigintInterrupt, InUseNext DEF SigintKept
<1>5. CASE \E p : Die(p)
  <2>1. cs' = cs /\ pager' = pager /\ sig'.int = sig.int
    BY <1>0, <1>5, DieStep
  <2>2. Flushing' = Flushing /\ Savers' = Savers /\ Depth' = Depth /\ AtPrompt' = AtPrompt
    BY <2>1 DEF Flushing, Active, Savers, Saver, Depth, AtPrompt
  <2>3. Ignoring' /\ Flushed' /\ NoPager'
    BY <1>0, <2>1, <2>2 DEF Ignoring, Flushed, NoPager
  <2>4. Caught'
    BY <1>0, <2>1, <2>2 DEF Caught, PagerBelow
  <2>5. GivenBack'
    BY <1>0, <2>1, <2>2 DEF GivenBack, Saver, Running
  <2> QED
    BY <1>0, <2>3, <2>4, <2>5, InUseNext DEF SigintKept
<1> QED
  BY <1>1, <1>2, <1>3, <1>4, <1>5, Steps

LEMMA SigintInit ==
  ASSUME Init
  PROVE  SigintKept
<1>1. /\ Depth = 1 /\ cs[1].k = "main" /\ cs[1].pc = "top" /\ Running = cs[1]
  BY InitStack
<1>2. ~ pager.isSaved
  BY DEF Init
<1>3. \A i \in 1 .. Depth : cs[i].k = "main"
  BY <1>1
<1>4. Flushing = {}
  BY <1>3 DEF Flushing, Active
<1>5. InUse /\ GivenBack
  BY <1>1, <1>3 DEF InUse, GivenBack, Saver
<1> QED
  BY <1>1, <1>2, <1>4, <1>5 DEF SigintKept, Ignoring, Flushed, NoPager, Caught, AtPrompt

LEMMA SigintInvariant == ~ Immediate /\ Spec => [](TypeInv /\ SigchldKept /\ SigintKept)
<1>1. CASE Immediate
  BY <1>1, PTL
<1>2. CASE ~ Immediate
  <2>1. TypeInv /\ SigchldKept /\ SigintKept /\ [Next]_vars => SigintKept'
    <3>1. ASSUME SigintKept, UNCHANGED vars PROVE SigintKept'
      <4>1. cs' = cs /\ pager' = pager /\ sig' = sig
        BY <3>1 DEF vars
      <4>2. Flushing' = Flushing /\ Savers' = Savers /\ Depth' = Depth
            /\ AtPrompt' = AtPrompt
        BY <4>1 DEF Flushing, Active, Savers, Saver, Depth, AtPrompt
      <4>3. InUse' /\ Ignoring' /\ Flushed' /\ NoPager'
        BY <3>1, <4>1, <4>2 DEF SigintKept, InUse, Ignoring, Flushed, NoPager
      <4>4. Caught' /\ GivenBack'
        BY <3>1, <4>1, <4>2
           DEF SigintKept, Caught, PagerBelow, GivenBack, Saver, Running
      <4> QED
        BY <4>3, <4>4 DEF SigintKept
    <3> QED
      BY <1>2, <3>1, SigintNext
  <2>2. Init => SigintKept
    BY SigintInit
  <2> QED
    BY <2>1, <2>2, SigchldInvariant, PTL DEF Spec
<1> QED
  BY <1>1, <1>2

\* With buffered output the pager's stream stays while do_sync writes to it.  Only the
\* flush that has set flushing_output_to_pager calls do_sync and clear_external_pager,
\* one after the other, and the warnings of a death handler that runs meanwhile do not
\* get past the flag.
THEOREM PagerNotDeleted == ~ Immediate /\ Spec => []PagerInUse
<1>1. SigintKept => PagerInUse
  BY DEF SigintKept, InUse, PagerInUse
<1> QED
  BY <1>1, SigintInvariant, PTL

\* With buffered output the prompt finds no pager and interrupts caught: whatever has
\* been nested, SIGINT has come back to what it was, and an interrupt comes only when
\* neither a pager nor a handler has anything to give back.
THEOREM QuietPrompt == ~ Immediate /\ Spec => []PromptQuiet
<1>1. ASSUME TypeInv, SigintKept PROVE PromptQuiet
  <2> SUFFICES ASSUME At("main", "prompt")
               PROVE  /\ pager.obj = None /\ ~ pager.isSaved /\ ~ pager.flushing
                      /\ sig.int = "catch" /\ ul = <<>>
    BY DEF PromptQuiet
  <2>0. TypeOK /\ WellCalled /\ Protected /\ Ignoring /\ NoPager /\ Caught
    BY <1>1 DEF TypeInv, SigintKept
  <2>1. Depth = 1 /\ Running = cs[1] /\ cs[1].pc = "prompt"
    BY <2>0, MainAlone DEF At, Running
  <2>2. Flushing = {} /\ Savers = {} /\ ~ pager.isSaved
    BY <1>1, <2>0, <2>1, AloneEmpty
  <2>3. pager.obj = None
    BY <2>0, <2>1, <2>2 DEF NoPager, AtPrompt
  <2>4. sig.int = "catch"
    BY <2>0, <2>1, <2>2 DEF Caught, AtPrompt
  <2>5. ~ FlushPending
    BY <2>0, <2>1, <2>2 DEF Protected
  <2>6. ul = <<>>
    <3>1. ul \in Seq(Saved)
      BY <2>0 DEF TypeOK
    <3>2. \A j \in 1 .. Len(ul) : ul[j].e # "cmd"
      BY <2>0, <2>1 DEF Protected, ReadingCmd
    <3>3. ASSUME ul # <<>> PROVE FALSE
      <4>1. Len(ul) \in 1 .. Len(ul)
        BY <3>1, <3>3
      <4>2. ul[Len(ul)] \in Saved
        BY <3>1, <4>1
      <4>3. ul[Len(ul)].e = "flush"
        BY <3>2, <4>1, <4>2 DEF Saved
      <4> QED
        BY <2>5, <3>3, <4>3 DEF FlushPending
    <3> QED
      BY <3>3
  <2>7. ~ pager.flushing
    BY <2>0, <2>5 DEF Protected
  <2> QED
    BY <2>2, <2>3, <2>4, <2>6, <2>7
<1> QED
  BY <1>1, SigintInvariant, PTL

-----------------------------------------------------------------------------
(***************************************************************************)
(* The temporary files                                                     *)
(***************************************************************************)

Lives(q, p) == p \in 1 .. Len(q) /\ q[p].st \in {"running", "ending"}
Temp(q, p) == p \in 1 .. Len(q) /\ q[p].kind = "file"
Unused(q, f) == f = None \/ ~ Lives(q, f)

\* An element with the file of a child that runs is the element of that child.
FileIn(q, el) == /\ el.file # None => Temp(q, el.file)
                 /\ el.pid = el.file \/ Unused(q, el.file)

\* Only child_purge_temp inserts such a child, from the main loop, and nobody removes
\* one.  What an insertion or a removal has found is no element of one that runs, and
\* one that is half assigned is taken by another only after the child has ended.
Purging(l, q, fr, i) ==
  /\ fr.k = "insert" =>
       /\ fr.h = "file" => i = 2
       /\ fr.pc = "pid" => /\ Unused(q, l[fr.i].file)
                           /\ ~ (Temp(q, l[fr.i].pid) /\ Lives(q, l[fr.i].pid))
       /\ fr.h = "file" /\ fr.pc \in {"handler", "file"} =>
            l[fr.i].pid = fr.p \/ ~ Lives(q, fr.p)
  /\ fr.k = "remove" =>
       /\ fr.p > 0 => fr.p \in 1 .. Len(q) /\ q[fr.p].kind # "file"
       /\ fr.pc = "call" => Unused(q, l[fr.i].file)

FilesKept ==
  /\ KindIn(proc, plot.pid, "plot")
  /\ \A i \in 1 .. Len(list) : FileIn(proc, list[i])
  /\ \A i \in 1 .. Depth : Purging(list, proc, cs[i], i)

\* Who has ended does not live again, and nobody changes his kind.
LEMMA LivesLater ==
  ASSUME ProcOK, Older(proc') \/ \E k : Born(k)
  PROVE  /\ Len(proc) \in Nat /\ Len(proc) <= Len(proc') /\ Len(proc') \in Nat
         /\ \A p \in 1 .. Len(proc) :
              /\ p \in 1 .. Len(proc') /\ proc'[p].kind = proc[p].kind
              /\ Lives(proc', p) => Lives(proc, p)
<1>1. Extended
  BY ProcExtended
<1>2. \A p \in 1 .. Len(proc) : p \in 1 .. Len(proc') /\ proc'[p].kind = proc[p].kind
  BY <1>1 DEF Extended
<1>3. \A p \in 1 .. Len(proc) :
        proc'[p].st \in {"running", "ending"} => proc[p].st \in {"running", "ending"}
  <2>1. CASE Older(proc')
    BY <2>1 DEF Older
  <2>2. CASE \E k : Born(k)
    BY <2>2 DEF Born
  <2> QED
    BY <2>1, <2>2
<1> QED
  BY <1>1, <1>2, <1>3 DEF Extended, Lives

LEMMA TempLater ==
  ASSUME ProcOK, Older(proc') \/ \E k : Born(k)
  PROVE  /\ \A f : f = None \/ Temp(proc, f) => f = None \/ Temp(proc', f)
         /\ \A f : (f = None \/ Temp(proc, f)) /\ Unused(proc, f) => Unused(proc', f)
         /\ \A f : Temp(proc, f) /\ ~ Lives(proc, f) => ~ Lives(proc', f)
         /\ \A p \in Int : /\ p <= Len(proc) /\ ~ (Temp(proc, p) /\ Lives(proc, p))
                           => ~ (Temp(proc', p) /\ Lives(proc', p))
         /\ \A p : p \in 1 .. Len(proc) /\ proc[p].kind # "file"
                     => p \in 1 .. Len(proc') /\ proc'[p].kind # "file"
         /\ \A el : FileIn(proc, el) => FileIn(proc', el)
<1>1. \A f : Temp(proc, f) => Temp(proc', f) /\ (Lives(proc', f) => Lives(proc, f))
  BY LivesLater DEF Temp
<1>2. ASSUME NEW p \in Int, p <= Len(proc), ~ (Temp(proc, p) /\ Lives(proc, p)),
             Temp(proc', p), Lives(proc', p)
      PROVE  FALSE
  <2>1. p \in 1 .. Len(proc)
    BY <1>2, LivesLater DEF Temp
  <2> QED
    BY <1>2, <2>1, LivesLater DEF Temp
<1>3. \A f : Unused(proc, f) /\ Temp(proc, f) => Unused(proc', f)
  BY <1>1 DEF Unused
<1>4. Unused(proc, None) /\ Unused(proc', None)
  BY DEF Unused
<1>5. \A p : p \in 1 .. Len(proc) /\ proc[p].kind # "file"
               => p \in 1 .. Len(proc') /\ proc'[p].kind # "file"
  BY LivesLater
<1>6. \A el : FileIn(proc, el) => FileIn(proc', el)
  BY <1>1, <1>3, <1>4 DEF FileIn
<1> QED
  BY <1>1, <1>2, <1>3, <1>4, <1>5, <1>6

\* What a step does to the files of the elements.
NewFile == IF Running.h = "file" THEN Running.p ELSE None
Filed(i) == list'[i].file = list[i].file \/ (InsertFile /\ i = Running.i /\ list'[i].file = NewFile)

LEMMA SlotFiles ==
  ASSUME DataOK, NEW i \in 1 .. Len(list)
  PROVE  /\ \A p : PidSet(i, p) => \A j \in 1 .. Len(list) : list'[j].file = list[j].file
         /\ \A h : HandlerSet(i, h) => \A j \in 1 .. Len(list) : list'[j].file = list[j].file
         /\ \A f : FileSet(i, f) =>
              /\ list'[i].file = f
              /\ \A j \in 1 .. Len(list) : j # i => list'[j].file = list[j].file
<1>1. list \in Seq(Slot) /\ list[i] \in Slot
  BY ElementOfSeq DEF DataOK
<1>2. ASSUME NEW x, list' = [list EXCEPT ![i] = x]
      PROVE  list'[i] = x
  BY <1>1, <1>2
<1>3. ASSUME NEW p, PidSet(i, p)
      PROVE  \A j \in 1 .. Len(list) : list'[j].file = list[j].file
  <2>1. PICK x : x = [list[i] EXCEPT !.pid = p]
    OBVIOUS
  <2>2. x.file = list[i].file /\ list' = [list EXCEPT ![i] = x]
    BY <1>1, <1>3, <2>1 DEF Slot, PidSet
  <2> QED
    BY <1>2, <1>3, <2>2, SlotChanged
<1>4. ASSUME NEW h, HandlerSet(i, h)
      PROVE  \A j \in 1 .. Len(list) : list'[j].file = list[j].file
  <2>1. PICK x : x = [list[i] EXCEPT !.h = h]
    OBVIOUS
  <2>2. x.file = list[i].file /\ list' = [list EXCEPT ![i] = x]
    BY <1>1, <1>4, <2>1 DEF Slot, HandlerSet
  <2> QED
    BY <1>2, <1>4, <2>2, SlotChanged
<1>5. ASSUME NEW f, FileSet(i, f)
      PROVE  /\ list'[i].file = f
             /\ \A j \in 1 .. Len(list) : j # i => list'[j].file = list[j].file
  <2>1. PICK x : x = [list[i] EXCEPT !.file = f]
    OBVIOUS
  <2>2. x.file = f /\ list' = [list EXCEPT ![i] = x]
    BY <1>1, <1>5, <2>1 DEF Slot, FileSet
  <2> QED
    BY <1>2, <1>5, <2>2, SlotChanged
<1> QED
  BY <1>3, <1>4, <1>5

LEMMA FiledSteps ==
  ASSUME Ready, Summary
  PROVE  /\ \A i \in 1 .. Len(list) : Filed(i)
         /\ Appended => list'[Len(list) + 1].file = NewFile
<1>0. FrameOK(Running) /\ DataOK /\ Running \in Frame /\ Effects /\ Len(list) \in Nat
      /\ list \in Seq(Slot)
  BY TypeParts, StackFacts, LenProperties DEF Ready, Summary, DataOK
<1>1. Appended => list'[Len(list) + 1].file = NewFile
  <2> SUFFICES ASSUME Appended PROVE list'[Len(list) + 1].file = NewFile
    OBVIOUS
  <2>1. PICK x : x = [pid |-> Running.p, h |-> Running.h,
                      file |-> IF Running.h = "file" THEN Running.p ELSE None]
    OBVIOUS
  <2>2. x.file = NewFile
    BY <2>1 DEF NewFile
  <2>3. list' = list \/ list' = Append(list, x)
    BY <2>1 DEF Appended, InsertFind
  <2>4. list' # list
    BY <1>0 DEF Appended
  <2>5. list'[Len(list) + 1] = x
    BY <1>0, <2>3, <2>4
  <2> QED
    BY <2>2, <2>5
<1>2. CASE InsertFind
  <2>1. list' = list \/ Appended
    <3>1. InsertFind /\ ~ InsertPid /\ ~ InsertHandler /\ ~ InsertFile /\ ~ RemoveFind
          /\ ~ SigchldScan
      BY <1>2 DEF InsertFind, InsertPid, InsertHandler, InsertFile, RemoveFind, SigchldScan, At
    <3> QED
      BY <3>1, ListSteps DEF Changed
  <2> QED
    BY <1>1, <2>1 DEF Filed, Appended
<1>3. CASE InsertPid \/ InsertHandler \/ InsertFile
  <2>1. Running.k = "insert" /\ Running.pc # "begin"
    BY <1>3 DEF InsertPid, InsertHandler, InsertFile, At
  <2>2. Running.i \in 1 .. Len(list)
    BY <1>0, <2>1 DEF FrameOK
  <2>3. /\ InsertPid => PidSet(Running.i, Running.p)
        /\ InsertHandler => HandlerSet(Running.i, Running.h)
        /\ InsertFile => FileSet(Running.i, NewFile)
    BY DEF InsertPid, InsertHandler, InsertFile, PidSet, HandlerSet, FileSet, NewFile
  <2>4. \A i \in 1 .. Len(list) : Filed(i)
    BY <1>0, <1>3, <2>2, <2>3, SlotFiles DEF Filed
  <2> QED
    BY <1>1, <2>4
<1>4. CASE RemoveFind
  <2> DEFINE S == SlotsOf(Running.p)
  <2>1. list' = list \/ (S # {} /\ PidSet(First(S), Failed))
    BY <1>4 DEF RemoveFind, PidSet
  <2>2. S \subseteq 1 .. Len(list)
    BY DEF SlotsOf
  <2> HIDE DEF S
  <2>3. S # {} => First(S) \in 1 .. Len(list)
    BY <1>0, <2>2, FirstIn
  <2>4. \A i \in 1 .. Len(list) : list'[i].file = list[i].file
    BY <1>0, <2>1, <2>3, SlotFiles
  <2> QED
    BY <1>1, <2>4 DEF Filed
<1>5. CASE SigchldScan
  <2>1. list' = list \/ PidSet(Running.i, Failed)
    BY <1>5 DEF SigchldScan, PidSet
  <2>2. Running.i \in 1 .. Len(list)
    <3>1. Running.k = "chld" /\ Running.i <= Running.p
      BY <1>5 DEF SigchldScan, At
    <3>2. Running.p \in 0 .. Len(list) /\ Running.i > 0 /\ Running.i \in Nat
      BY <1>0, <3>1 DEF FrameOK, Frame
    <3> QED
      BY <1>0, <3>1, <3>2
  <2>3. \A i \in 1 .. Len(list) : list'[i].file = list[i].file
    BY <1>0, <2>1, <2>2, SlotFiles
  <2> QED
    BY <1>1, <2>3 DEF Filed
<1>6. CASE list' = list
  BY <1>1, <1>6 DEF Filed
<1> QED
  BY <1>0, <1>2, <1>3, <1>4, <1>5, <1>6 DEF Effects

\* plot_stream_pid is that of plot_stream or of one before it.
LEMMA PlotPid ==
  ASSUME Ready, Synchronous
  PROVE  plot'.pid \in {plot.pid, plot.obj}
<1>0. plot \in [obj : Pid, ok : BOOLEAN, pid : Pid, was : SUBSET Pid]
  BY TypeParts DEF Ready, DataOK
<1>1. CASE ChildList \/ SigchldScan \/ SigchldOther \/ Wait \/ Leave
  BY <1>1 DEF ChildList, InsertFind, InsertPid, InsertHandler, InsertFile, RemoveFind,
     RemoveCall, SigchldScan, SigchldOther, Wait, WaitReturns, RestoreInt, RestoreChld,
     Leave, Quiet
<1>2. CASE Pager
  <2>1. CASE FlushBegin \/ FlushClear \/ FlushEnd \/ ErrorBegin \/ ErrorEnd
    BY <2>1 DEF FlushBegin, Flush, FlushClear, FlushEnd, ErrorBegin, ErrorEnd, Quiet
  <2>2. CASE \/ SyncBegin \/ SyncOpen \/ SyncNew \/ SyncInsert \/ SyncCheck
             \/ SyncWrite \/ SyncRecheck \/ SyncFlush \/ SyncDone
    BY <2>2 DEF SyncBegin, SyncOpen, SyncNew, SyncInsert, SyncCheck, SyncWrite,
       SyncRecheck, SyncFlush, SyncDone, Quiet
  <2>3. CASE ClearBegin \/ ClearRemoved \/ ClearDeleted
    BY <2>3 DEF ClearBegin, ClearRemoved, ClearDeleted, Quiet
  <2> QED
    BY <1>2, <2>1, <2>2, <2>3 DEF Pager
<1>3. CASE Systems
  BY <1>3 DEF Systems, SystemBegin, SystemAdd, SystemRead, SystemStatus, SystemCleanup,
     CleancmdBegin, CleancmdRemoved, CleancmdDeleted, Quiet
<1>4. CASE MainTop \/ MainRead \/ MainDone \/ Command
  BY <1>4 DEF MainTop, MainRead, MainDone, Command, Output, Error, Plot, Closeplot,
     System, Async, Purge, Waitpid, Quiet
<1>5. CASE Plotter
  <2>1. ASSUME NEW o, plot' = [plot EXCEPT !.obj = o] PROVE plot'.pid = plot.pid
    BY <1>0, <2>1
  <2>2. ASSUME NEW o, NEW w, plot' = [plot EXCEPT !.obj = o, !.ok = TRUE, !.was = w]
        PROVE  plot'.pid = plot.pid
    BY <1>0, <2>2
  <2>3. ASSUME NEW o, plot' = [plot EXCEPT !.ok = o] PROVE plot'.pid = plot.pid
    BY <1>0, <2>3
  <2>4. ASSUME plot' = [plot EXCEPT !.pid = plot.obj] PROVE plot'.pid = plot.obj
    BY <1>0, <2>4
  <2>5. CASE \/ OpenplotBegin \/ OpenplotNew \/ SendBegin \/ SendOpened \/ SendUse
             \/ CloseplotBegin \/ CloseplotRemoved \/ CloseplotSent
             \/ PlotdeathBegin \/ PlotdeathWarn
    BY <2>5 DEF OpenplotBegin, OpenplotNew, SendBegin, SendOpened, SendUse, CloseplotBegin,
       CloseplotRemoved, CloseplotSent, PlotdeathBegin, PlotdeathWarn, Quiet
  <2>6. CASE OpenplotDeleted \/ CloseplotDeleted
    BY <2>1, <2>6 DEF OpenplotDeleted, CloseplotDeleted
  <2>7. CASE OpenplotAssign
    BY <2>2, <2>7 DEF OpenplotAssign
  <2>8. CASE OpenplotInsert
    BY <2>4, <2>8 DEF OpenplotInsert
  <2>9. CASE SendUsing
    BY <2>3, <2>9 DEF SendUsing
  <2> QED
    BY <1>5, <2>5, <2>6, <2>7, <2>8, <2>9 DEF Plotter
<1> QED
  BY <1>1, <1>2, <1>3, <1>4, <1>5 DEF Synchronous

\* No file is removed.
NoneGone ==
  \A p \in 1 .. Len(proc) : proc'[p].file = "gone" => proc[p].file = "gone"

LEMMA GoneFacts ==
  ASSUME ProcOK
  PROVE  /\ \A p, st : proc' = [proc EXCEPT ![p].st = st] => NoneGone
         /\ \A p : proc' = [proc EXCEPT ![p].file = "asked"] => NoneGone
         /\ \A p : proc' = Reaped(p) => NoneGone
         /\ \A k, p : Spawn(k, p) => NoneGone
         /\ proc' = proc => NoneGone
<1>0. proc \in Seq(Process) /\ \A p \in 1 .. Len(proc) : proc[p] \in Process
  BY ProcFacts DEF ProcOK
<1>1. ASSUME NEW p, NEW x, proc' = [proc EXCEPT ![p] = x],
             p \in 1 .. Len(proc) => x.file # "gone" \/ x.file = proc[p].file
      PROVE  NoneGone
  BY <1>0, <1>1 DEF NoneGone
<1>2. ASSUME NEW p, NEW st, proc' = [proc EXCEPT ![p].st = st] PROVE NoneGone
  <2>1. PICK x : x = [proc[p] EXCEPT !.st = st]
    OBVIOUS
  <2>2. p \in 1 .. Len(proc) => x.file = proc[p].file
    BY <1>0, <2>1 DEF Process
  <2>3. proc' = [proc EXCEPT ![p] = x]
    BY <1>2, <2>1
  <2> QED
    BY <1>1, <2>2, <2>3
<1>3. ASSUME NEW p, proc' = [proc EXCEPT ![p].file = "asked"] PROVE NoneGone
  <2>1. PICK x : x = [proc[p] EXCEPT !.file = "asked"]
    OBVIOUS
  <2>2. p \in 1 .. Len(proc) => x.file = "asked"
    BY <1>0, <2>1 DEF Process
  <2>3. proc' = [proc EXCEPT ![p] = x]
    BY <1>3, <2>1
  <2> QED
    BY <1>1, <2>2, <2>3
<1>4. proc' = proc => NoneGone
  BY DEF NoneGone
<1>5. ASSUME NEW k, NEW p, Spawn(k, p) PROVE NoneGone
  <2>1. proc' = proc \/ \E x : proc' = Append(proc, x)
    BY <1>5 DEF Spawn
  <2>2. ASSUME NEW x, proc' = Append(proc, x) PROVE NoneGone
    <3>1. \A j \in 1 .. Len(proc) : proc'[j] = proc[j]
      BY <1>0, <2>2
    <3> QED
      BY <3>1 DEF NoneGone
  <2> QED
    BY <1>4, <2>1, <2>2
<1>6. ASSUME NEW p, proc' = Reaped(p) PROVE NoneGone
  BY <1>2, <1>4, <1>6 DEF Reaped
<1> QED
  BY <1>2, <1>3, <1>4, <1>5, <1>6

LEMMA WaitGone ==
  ASSUME ProcOK
  PROVE  /\ \A p, c, pc : WaitFor(p, c, pc) => NoneGone
         /\ \A p, o, pc : Delete(p, o, pc) => NoneGone
<1>1. ASSUME NEW p, NEW c, NEW pc, WaitFor(p, c, pc) PROVE NoneGone
  <2>1. proc' = proc \/ proc' = [proc EXCEPT ![p].st = "ending"]
    BY <1>1 DEF WaitFor
  <2> QED
    BY <2>1, GoneFacts
<1>2. ASSUME NEW p, NEW o, NEW pc, Delete(p, o, pc) PROVE NoneGone
  BY <1>1, <1>2, GoneFacts DEF Delete
<1> QED
  BY <1>1, <1>2

\* Only the null handler removes one.
LEMMA WhoRemoves ==
  ASSUME Ready, Synchronous
  PROVE  NoneGone \/ RemoveCall \/ SigchldScan
<1>0. ProcOK
  BY TypeParts DEF Ready
<1>1. CASE ChildList \/ SigchldOther \/ Wait \/ Leave
  <2>1. CASE \/ InsertFind \/ InsertPid \/ InsertHandler \/ InsertFile \/ RemoveFind
             \/ RestoreInt \/ RestoreChld \/ Leave
    <3>1. proc' = proc
      BY <2>1 DEF InsertFind, InsertPid, InsertHandler, InsertFile, RemoveFind,
         RestoreInt, RestoreChld, Leave
    <3> QED
      BY <1>0, <3>1, GoneFacts
  <2>2. CASE SigchldOther \/ WaitReturns
    <3>1. proc' = proc \/ \E p : proc' = Reaped(p)
      BY <2>2 DEF SigchldOther, WaitReturns
    <3> QED
      BY <1>0, <3>1, GoneFacts
  <2> QED
    BY <1>1, <2>1, <2>2 DEF ChildList, Wait
<1>2. CASE Pager
  <2>1. CASE \/ FlushBegin \/ FlushClear \/ FlushEnd \/ ErrorBegin \/ ErrorEnd
             \/ SyncBegin \/ SyncOpen \/ SyncInsert \/ SyncCheck
             \/ SyncWrite \/ SyncRecheck \/ SyncFlush \/ SyncDone
             \/ ClearBegin \/ ClearDeleted
    <3>1. proc' = proc
      BY <2>1 DEF FlushBegin, Flush, FlushClear, FlushEnd, ErrorBegin, ErrorEnd,
         SyncBegin, SyncOpen, SyncInsert, SyncCheck, SyncWrite,
         SyncRecheck, SyncFlush, SyncDone, ClearBegin, ClearDeleted
    <3> QED
      BY <1>0, <3>1, GoneFacts
  <2>2. CASE SyncNew \/ ClearRemoved
    BY <1>0, <2>2, GoneFacts, WaitGone DEF SyncNew, ClearRemoved
  <2> QED
    BY <1>2, <2>1, <2>2 DEF Pager
<1>3. CASE Systems
  <2>1. CASE SystemAdd \/ SystemStatus \/ SystemCleanup \/ CleancmdBegin \/ CleancmdDeleted
    <3>1. proc' = proc
      BY <2>1 DEF SystemAdd, SystemStatus, SystemCleanup, CleancmdBegin, CleancmdDeleted
    <3> QED
      BY <1>0, <3>1, GoneFacts
  <2>2. CASE SystemBegin \/ SystemRead \/ CleancmdRemoved
    BY <1>0, <2>2, GoneFacts, WaitGone DEF SystemBegin, SystemRead, CleancmdRemoved
  <2> QED
    BY <1>3, <2>1, <2>2 DEF Systems
<1>4. CASE MainTop \/ MainRead \/ MainDone \/ Command
  <2>1. CASE MainTop \/ MainRead \/ MainDone \/ Output \/ Error \/ Plot \/ Closeplot \/ System
    <3>1. proc' = proc
      BY <2>1 DEF MainTop, MainRead, MainDone, Output, Error, Plot, Closeplot, System
    <3> QED
      BY <1>0, <3>1, GoneFacts
  <2>2. CASE Async \/ Purge \/ Waitpid
    BY <1>0, <2>2, GoneFacts, WaitGone DEF Async, Purge, Waitpid
  <2> QED
    BY <1>4, <2>1, <2>2 DEF Command
<1>5. CASE Plotter
  <2>1. CASE \/ OpenplotDeleted \/ OpenplotAssign \/ OpenplotInsert
             \/ SendBegin \/ SendOpened \/ SendUse \/ SendUsing
             \/ CloseplotBegin \/ CloseplotRemoved \/ CloseplotDeleted
             \/ PlotdeathBegin \/ PlotdeathWarn
    <3>1. proc' = proc
      BY <2>1 DEF OpenplotDeleted, OpenplotAssign, OpenplotInsert, SendBegin, SendOpened, SendUse,
         SendUsing, CloseplotBegin, CloseplotRemoved, CloseplotDeleted, PlotdeathBegin,
         PlotdeathWarn
    <3> QED
      BY <1>0, <3>1, GoneFacts
  <2>2. CASE OpenplotBegin \/ OpenplotNew \/ CloseplotSent
    BY <1>0, <2>2, GoneFacts, WaitGone DEF OpenplotBegin, OpenplotNew, CloseplotSent
  <2> QED
    BY <1>5, <2>1, <2>2 DEF Plotter
<1> QED
  BY <1>1, <1>2, <1>3, <1>4, <1>5 DEF Synchronous

\* RunHandler removes only the file of the element.
LEMMA HandlerGone ==
  ASSUME ProcOK, NEW h, NEW r, NEW f, NEW st, NEW stack, NEW z,
         RunHandler(h, r, f, st, Reaped(z), stack) \/ RunHandler(h, r, f, st, proc, stack),
         NEW p \in 1 .. Len(proc), proc[p].file # "gone", proc'[p].file = "gone"
  PROVE  p = f /\ f # None
<1>0. proc \in Seq(Process) /\ \A j \in 1 .. Len(proc) : proc[j] \in Process
  BY ProcFacts DEF ProcOK
<1>1. PICK q : q \in {proc, Reaped(z)} /\ proc' \in {q, Unlinked(q, f)}
  BY DEF RunHandler
<1>2. q[p].file # "gone" /\ q \in Seq(Process) /\ p \in 1 .. Len(q) /\ q[p] \in Process
  <2>1. CASE q = proc
    BY <1>0, <2>1
  <2>2. CASE q = Reaped(z) /\ q # proc
    <3>1. z \in 1 .. Len(proc) /\ q = [proc EXCEPT ![z].st = "reaped"]
      BY <2>2 DEF Reaped, Zombie, IsPid
    <3>2. PICK x : x = [proc[z] EXCEPT !.st = "reaped"]
      OBVIOUS
    <3>3. x.file = proc[z].file /\ x \in Process
      BY <1>0, <3>1, <3>2 DEF Process
    <3>4. q = [proc EXCEPT ![z] = x]
      BY <3>1, <3>2
    <3>5. q \in Seq(Process) /\ Len(q) = Len(proc) /\ q[p] = IF p = z THEN x ELSE proc[p]
      BY <1>0, <3>1, <3>3, <3>4
    <3> QED
      BY <1>0, <3>3, <3>5
  <2> QED
    BY <1>1, <2>1, <2>2
<1>3. proc' # q
  BY <1>2
<1>4. f # None /\ proc' = [q EXCEPT ![f].file = "gone"]
  BY <1>1, <1>3 DEF Unlinked
<1>5. PICK y : y = [q[f] EXCEPT !.file = "gone"]
  OBVIOUS
<1>6. proc' = [q EXCEPT ![f] = y]
  BY <1>4, <1>5
<1>7. p # f => proc'[p] = q[p]
  BY <1>2, <1>6
<1> QED
  BY <1>2, <1>4, <1>7

\* A file is inserted from the main loop.
LEMMA FileFromMain ==
  ASSUME TypeInv, Summary, CallStep, cs'[Depth + 1].k = "insert", cs'[Depth + 1].h = "file"
  PROVE  Depth = 1
<1>0. /\ TypeOK /\ StackOK /\ WellCalled /\ Ready /\ NewOf("insert")
  BY InvReady, TypeParts, StackFacts DEF TypeInv, CallStep, NewOf
<1>1. Inserts
  BY <1>0 DEF Summary, Entered
<1>2. ASSUME NEW pc, NEW p, NEW h, h # "file", Call(InsertOf(p, h), pc) PROVE FALSE
  <2>1. InsertOf(p, h).h = h
    BY DEF InsertOf, FrameOf
  <2> QED
    BY <1>0, <1>2, <2>1, CalledIs
<1>3. ~ SyncInsert /\ ~ OpenplotInsert /\ ~ SystemBegin
  BY <1>2 DEF SyncInsert, OpenplotInsert, SystemBegin
<1>4. Running.k = "main"
  BY <1>1, <1>3 DEF Inserts, Command, At
<1> QED
  BY <1>0, <1>4, MainAlone

\* A found element of no process has no file of one that runs.
LEMMA FreeFile ==
  ASSUME NEW q, NEW el, el.pid \in Int, el.pid < 0, FileIn(q, el), Len(q) \in Nat
  PROVE  Unused(q, el.file) /\ ~ Temp(q, el.pid)
<1>1. \A p : Temp(q, p) => p > 0
  BY DEF Temp
<1> QED
  BY <1>1 DEF FileIn, Unused

LEMMA FilesFacts ==
  ASSUME TypeInv, Kinds, FilesKept, Synchronous
  PROVE  /\ Ready /\ Summary /\ Depth \in Nat \ {0} /\ Running = cs[Depth] /\ ProcOK
         /\ (Older(proc') \/ \E k : Born(k)) /\ Len(proc) \in Nat /\ Len(list) \in Nat
         /\ FileIn(proc, list[Running.i]) \/ Running.i \notin 1 .. Len(list)
         /\ Purging(list, proc, Running, Depth)
         /\ \A i \in 1 .. Len(list) : list[i].pid \in Int /\ list[i].pid <= Len(proc)
         /\ Running.p \in Int /\ Running \in Frame
         /\ Running.k = "insert" =>
              /\ KindIn(proc, Running.p, Running.h)
              /\ Running.h = "file" => Temp(proc, Running.p) /\ Running.p > 0
              /\ Running.h # "file" => ~ Temp(proc, Running.p)
              /\ Running.pc # "begin" => Running.i \in 1 .. Len(list)
              /\ Running.p <= Len(proc)
<1>1. /\ Ready /\ Summary /\ Depth \in Nat \ {0} /\ Running = cs[Depth] /\ ProcOK /\ TypeOK
      /\ list \in Seq(Slot) /\ FrameOK(Running) /\ Depth \in 1 .. Depth /\ Running \in Frame
  BY InvReady, SynchronousSteps, TypeParts, StackFacts DEF TypeInv, Ready, DataOK
<1>2. /\ Older(proc') \/ \E k : Born(k)
      /\ Len(proc) \in Nat /\ Len(list) \in Nat
  BY <1>1, ProcFacts, LenProperties DEF Summary, Effects
<1>3. \A i \in 1 .. Len(list) : list[i].pid \in Int /\ list[i].pid <= Len(proc)
  <2>1. \A i \in 1 .. Len(list) : list[i] \in Slot
    BY <1>1, ElementOfSeq
  <2> QED
    BY <2>1 DEF Slot, Pid, Failed, Kinds
<1>4. Running.p \in Int
  <2>1. Running.p \in Pid
    BY <1>1 DEF Frame
  <2> QED
    BY <2>1 DEF Pid, Failed
<1>5. Running.k = "insert" => KindIn(proc, Running.p, Running.h)
  BY <1>1, CallerOf DEF FrameKind
<1>6. Running.k = "insert" =>
        /\ Running.h = "file" => Temp(proc, Running.p) /\ Running.p > 0
        /\ Running.h # "file" => ~ Temp(proc, Running.p)
        /\ Running.pc # "begin" => Running.i \in 1 .. Len(list)
        /\ Running.p <= Len(proc)
  <2>1. \A p : Temp(proc, p) => p > 0
    BY <1>2 DEF Temp
  <2>2. Running.k = "insert" /\ Running.h = "file" => Running.p > 0
    BY <1>1 DEF FrameOK
  <2>3. Running.k = "insert" /\ Running.pc # "begin" => Running.i \in 1 .. Len(list)
    BY <1>1 DEF FrameOK
  <2>4. Running.k = "insert" => Running.p <= Len(proc)
    BY <1>2, <1>4, <1>5 DEF KindIn
  <2> QED
    BY <1>5, <2>1, <2>2, <2>3, <2>4 DEF KindIn, Temp
<1>7. FileIn(proc, list[Running.i]) \/ Running.i \notin 1 .. Len(list)
  BY DEF FilesKept
<1>8. Purging(list, proc, Running, Depth)
  BY <1>1 DEF FilesKept
<1> QED
  BY <1>1, <1>2, <1>3, <1>4, <1>5, <1>6, <1>7, <1>8

LEMMA FilesList ==
  ASSUME TypeInv, Kinds, FilesKept, Synchronous
  PROVE  \A i \in 1 .. Len(list') : FileIn(proc', list'[i])
<1>0. /\ ProcOK /\ Len(list) \in Nat /\ Ready /\ Summary
      /\ Older(proc') \/ \E k : Born(k)
      /\ \A i \in 1 .. Len(list) : FileIn(proc, list[i])
      /\ Len(proc) \in Nat
  BY FilesFacts DEF FilesKept
<1>1. \A i \in 1 .. Len(list) : list'[i] = list[i] => FileIn(proc', list'[i])
  BY <1>0, TempLater
<1>2. Unused(proc', None)
  BY DEF Unused
<1>3. \A f, p : /\ f = None \/ Temp(proc, f)
                /\ p = f \/ Unused(proc, f)
                => \A el : el.file = f /\ el.pid = p => FileIn(proc', el)
  BY <1>0, <1>2, TempLater DEF FileIn
<1>4. ASSUME NEW i \in 1 .. Len(list), Changed(i) PROVE FileIn(proc', list'[i])
  <2> DEFINE f == list[i].file
             p == list[i].pid
  <2>0. /\ f = None \/ Temp(proc, f)
        /\ p = f \/ Unused(proc, f)
        /\ Filed(i)
    BY <1>0, FiledSteps DEF FileIn
  <2>1. CASE InsertPid
    <3>1. /\ i = Running.i /\ list'[i].pid = Running.p /\ Running.k = "insert"
          /\ Running.pc = "pid" /\ list'[i].file = f
      BY <1>4, <2>0, <2>1
         DEF Changed, Filed, InsertPid, InsertHandler, InsertFile, RemoveFind, SigchldScan, At
    <3>2. Unused(proc, f)
      BY <3>1, FilesFacts DEF Purging
    <3> QED
      BY <1>3, <2>0, <3>1, <3>2
  <2>2. CASE InsertHandler
    <3>1. list'[i].pid = p /\ list'[i].file = f
      BY <1>4, <2>0, <2>2
         DEF Changed, Filed, InsertPid, InsertHandler, InsertFile, RemoveFind, SigchldScan, At
    <3> QED
      BY <1>3, <2>0, <3>1
  <2>3. CASE InsertFile
    <3>1. /\ list'[i].pid = p /\ i = Running.i /\ Running.k = "insert" /\ Running.pc = "file"
          /\ list'[i].file \in {f, NewFile}
      BY <1>4, <2>0, <2>3
         DEF Changed, Filed, InsertPid, InsertHandler, InsertFile, RemoveFind, SigchldScan, At
    <3>2. NewFile = None \/ (/\ Running.h = "file" /\ NewFile = Running.p
                             /\ Temp(proc, Running.p))
      BY <3>1, FilesFacts DEF NewFile
    <3>3. Running.h = "file" => p = Running.p \/ ~ Lives(proc, Running.p)
      BY <3>1, FilesFacts DEF Purging
    <3>4. p = NewFile \/ Unused(proc, NewFile)
      BY <3>2, <3>3 DEF Unused
    <3> QED
      BY <1>3, <2>0, <3>1, <3>2, <3>4
  <2>4. CASE RemoveFind
    <3>1. /\ p = Running.p /\ list'[i].file = f /\ list'[i].pid = Failed
          /\ Running.k = "remove"
      BY <1>4, <2>0, <2>4
         DEF Changed, Filed, InsertPid, InsertHandler, InsertFile, RemoveFind, SigchldScan, At
    <3>2. Running.p > 0 => proc[Running.p].kind # "file"
      BY <3>1, FilesFacts DEF Purging
    <3>3. Temp(proc, f) => f > 0 /\ proc[f].kind = "file"
      BY <1>0 DEF Temp
    <3>4. Unused(proc, f)
      BY <2>0, <3>1, <3>2, <3>3 DEF Unused
    <3> QED
      BY <1>3, <2>0, <3>1, <3>4
  <2>5. CASE SigchldScan
    <3>1. Zombie(p) /\ list'[i].file = f /\ list'[i].pid = Failed
      BY <1>4, <2>0, <2>5
         DEF Changed, Filed, InsertPid, InsertHandler, InsertFile, RemoveFind, SigchldScan, At
    <3>2. Unused(proc, f)
      BY <2>0, <3>1 DEF Unused, Lives, Zombie
    <3> QED
      BY <1>3, <2>0, <3>1, <3>2
  <2> QED
    BY <1>4, <2>1, <2>2, <2>3, <2>4, <2>5 DEF Changed
<1>5. CASE Appended
  <2>1. /\ Running.k = "insert" /\ list'[Len(list) + 1].pid = Running.p
        /\ list'[Len(list) + 1].file = NewFile
        /\ \A i \in 1 .. Len(list') : i \in 1 .. Len(list) \/ i = Len(list) + 1
        /\ \A i \in 1 .. Len(list) : list'[i] = list[i]
    BY <1>0, <1>5, FiledSteps DEF Appended, InsertFind, At
  <2>2. NewFile = None \/ (NewFile = Running.p /\ Temp(proc, Running.p))
    BY <2>1, FilesFacts DEF NewFile
  <2>3. FileIn(proc', list'[Len(list) + 1])
    BY <1>3, <2>1, <2>2 DEF Unused
  <2> QED
    BY <1>1, <2>1, <2>3
<1>6. CASE list' = list
  BY <1>1, <1>6
<1>7. ASSUME NEW i \in 1 .. Len(list), Changed(i)
      PROVE  \A j \in 1 .. Len(list') : FileIn(proc', list'[j])
  BY <1>1, <1>4, <1>7 DEF Changed
<1> QED
  BY <1>0, <1>5, <1>6, <1>7, ListSteps

FileInserted == Running.k = "insert" /\ Running.h = "file"

LEMMA SlotKept ==
  ASSUME TypeInv, Kinds, FilesKept, Synchronous, NEW j \in 1 .. Len(list)
  PROVE  /\ ~ FileInserted =>
              /\ Unused(proc, list[j].file) => Unused(proc', list'[j].file)
              /\ ~ (Temp(proc, list[j].pid) /\ Lives(proc, list[j].pid))
                   => ~ (Temp(proc', list'[j].pid) /\ Lives(proc', list'[j].pid))
         /\ \A p : Temp(proc, p) /\ (list[j].pid = p \/ ~ Lives(proc, p))
                     => list'[j].pid = p \/ ~ Lives(proc', p)
<1>0. /\ ProcOK /\ Len(list) \in Nat /\ Ready /\ Summary
      /\ Older(proc') \/ \E k : Born(k)
      /\ FileIn(proc, list[j]) /\ list[j].pid \in Int /\ list[j].pid <= Len(proc)
      /\ Len(proc) \in Nat /\ Running.p \in Int
  BY FilesFacts DEF FilesKept
<1>1. \/ list'[j].pid = list[j].pid
      \/ InsertPid /\ j = Running.i /\ list'[j].pid = Running.p
      \/ RemoveFind /\ list[j].pid = Running.p /\ list'[j].pid = Failed
      \/ SigchldScan /\ Zombie(list[j].pid) /\ list'[j].pid = Failed
  <2>1. ASSUME NEW i \in 1 .. Len(list), Changed(i), i # j PROVE list'[j] = list[j]
    BY <2>1 DEF Changed
  <2>2. CASE list'[j] = list[j]
    BY <2>2
  <2>3. CASE Changed(j)
    BY <2>3 DEF Changed
  <2>4. CASE list' = list \/ Appended
    BY <2>4 DEF Appended
  <2> QED
    BY <1>0, <2>1, <2>2, <2>3, <2>4, ListSteps
<1>2. ASSUME ~ FileInserted, Unused(proc, list[j].file)
      PROVE  Unused(proc', list'[j].file)
  <2>1. list'[j].file = list[j].file \/ list'[j].file = None
    <3>1. InsertFile => NewFile = None
      BY <1>2 DEF InsertFile, At, NewFile, FileInserted
    <3> QED
      BY <1>0, <3>1, FiledSteps DEF Filed
  <2>2. Unused(proc', list[j].file)
    BY <1>0, <1>2, TempLater DEF FileIn
  <2> QED
    BY <2>1, <2>2 DEF Unused
<1>3. ~ Temp(proc', Failed)
  BY DEF Temp, Failed
<1>4. ASSUME ~ FileInserted, ~ (Temp(proc, list[j].pid) /\ Lives(proc, list[j].pid))
      PROVE  ~ (Temp(proc', list'[j].pid) /\ Lives(proc', list'[j].pid))
  <2>1. ~ (Temp(proc', list[j].pid) /\ Lives(proc', list[j].pid))
    BY <1>0, <1>4, TempLater
  <2>2. InsertPid => ~ (Temp(proc', Running.p) /\ Lives(proc', Running.p))
    <3> SUFFICES ASSUME InsertPid
                 PROVE  ~ (Temp(proc', Running.p) /\ Lives(proc', Running.p))
      OBVIOUS
    <3>1. Running.k = "insert" /\ Running.h # "file"
      BY <1>4 DEF InsertPid, At, FileInserted
    <3>2. ~ Temp(proc, Running.p) /\ Running.p <= Len(proc)
      BY <3>1, FilesFacts
    <3> QED
      BY <1>0, <3>2, TempLater
  <2> QED
    BY <1>1, <1>3, <2>1, <2>2
<1>5. ASSUME NEW p, Temp(proc, p), list[j].pid = p \/ ~ Lives(proc, p)
      PROVE  list'[j].pid = p \/ ~ Lives(proc', p)
  <2>1. ~ Lives(proc, p) => ~ Lives(proc', p)
    BY <1>0, <1>5, TempLater
  <2>2. CASE Lives(proc, p)
    <3>1. list[j].pid = p /\ p > 0 /\ p \in 1 .. Len(proc) /\ proc[p].kind = "file"
      BY <1>0, <1>5, <2>2 DEF Temp
    <3>2. ~ (InsertPid /\ j = Running.i)
      <4>1. ASSUME InsertPid, j = Running.i PROVE FALSE
        <5>1. Running.k = "insert" /\ Running.pc = "pid"
          BY <4>1 DEF InsertPid, At
        <5>2. ~ (Temp(proc, list[j].pid) /\ Lives(proc, list[j].pid))
          BY <4>1, <5>1, FilesFacts DEF Purging
        <5> QED
          BY <1>5, <2>2, <3>1, <5>2
      <4> QED
        BY <4>1
    <3>3. ~ (RemoveFind /\ list[j].pid = Running.p)
      <4>1. ASSUME RemoveFind, list[j].pid = Running.p PROVE FALSE
        <5>1. Running.k = "remove"
          BY <4>1 DEF RemoveFind, At
        <5>2. Running.p > 0 => proc[Running.p].kind # "file"
          BY <5>1, FilesFacts DEF Purging
        <5> QED
          BY <3>1, <4>1, <5>2
      <4> QED
        BY <4>1
    <3>4. ~ Zombie(list[j].pid)
      BY <2>2, <3>1 DEF Lives, Zombie
    <3> QED
      BY <1>1, <3>1, <3>2, <3>3, <3>4
  <2> QED
    BY <2>1, <2>2
<1> QED
  BY <1>2, <1>4, <1>5

\* Frames that do not run.
LEMMA FilesBelow ==
  ASSUME TypeInv, Kinds, FilesKept, Synchronous, NEW i \in 1 .. Depth - 1
  PROVE  Purging(list', proc', cs[i], i)
<1> DEFINE fr == cs[i]
<1>0. /\ Depth \in Nat \ {0} /\ ProcOK
      /\ Older(proc') \/ \E k : Born(k)
      /\ i \in 1 .. Depth /\ i < Depth
  BY FilesFacts
<1>1. /\ Purging(list, proc, fr, i) /\ FrameOK(fr) /\ fr \in Frame
      /\ i # 1 => FrameKind(proc, fr, cs[i - 1])
      /\ cs[1].k = "main"
  <2>1. i # 1 => i \in 2 .. Depth
    BY <1>0
  <2>2. fr \in Frame /\ cs[1].k = "main"
    BY <1>0, TypeParts, StackFacts DEF TypeInv, StackOK
  <2> QED
    BY <1>0, <2>1, <2>2 DEF FilesKept, TypeInv, FramesOK, Kinds
<1>2. fr.k \in {"insert", "remove"} => i # 1 /\ ~ FileInserted
  <2>1. FileInserted => Depth = 2
    BY FilesFacts DEF Purging, FileInserted
  <2>2. fr.k \in {"insert", "remove"} => i # 1
    BY <1>1
  <2> QED
    BY <1>0, <2>1, <2>2
<1> HIDE DEF fr
<1>3. CASE fr.k = "insert"
  <2>1. fr.pc \in {"pid", "handler", "file"} => fr.i \in 1 .. Len(list)
    BY <1>1, <1>3 DEF FrameOK
  <2>2. fr.pc = "pid" => /\ Unused(proc', list'[fr.i].file)
                         /\ ~ (Temp(proc', list'[fr.i].pid) /\ Lives(proc', list'[fr.i].pid))
    BY <1>1, <1>2, <1>3, <2>1, SlotKept DEF Purging
  <2>3. fr.h = "file" /\ fr.pc \in {"handler", "file"} =>
          list'[fr.i].pid = fr.p \/ ~ Lives(proc', fr.p)
    <3> SUFFICES ASSUME fr.h = "file", fr.pc \in {"handler", "file"}
                 PROVE  list'[fr.i].pid = fr.p \/ ~ Lives(proc', fr.p)
      OBVIOUS
    <3>1. Temp(proc, fr.p)
      <4>1. fr.p > 0
        BY <1>1, <1>3 DEF FrameOK
      <4> QED
        BY <1>1, <1>2, <1>3, <4>1 DEF FrameKind, KindIn, Temp
    <3>2. list[fr.i].pid = fr.p \/ ~ Lives(proc, fr.p)
      BY <1>1, <1>3 DEF Purging
    <3> QED
      BY <2>1, <3>1, <3>2, SlotKept
  <2>4. fr.h = "file" => i = 2
    BY <1>1, <1>3 DEF Purging
  <2> QED
    BY <1>3, <2>2, <2>3, <2>4 DEF Purging, fr
<1>4. CASE fr.k = "remove"
  <2>1. fr.p > 0 => fr.p \in 1 .. Len(proc') /\ proc'[fr.p].kind # "file"
    <3>1. fr.p > 0 => fr.p \in 1 .. Len(proc) /\ proc[fr.p].kind # "file"
      BY <1>1, <1>4 DEF Purging
    <3> QED
      BY <1>0, <3>1, TempLater
  <2>2. fr.pc = "call" => Unused(proc', list'[fr.i].file)
    <3>1. fr.pc = "call" => fr.i \in 1 .. Len(list)
      BY <1>1, <1>4 DEF FrameOK
    <3> QED
      BY <1>1, <1>2, <1>4, <3>1, SlotKept DEF Purging
  <2> QED
    BY <1>4, <2>1, <2>2 DEF Purging, fr
<1>5. CASE fr.k \notin {"insert", "remove"}
  BY <1>5 DEF Purging, fr
<1> QED
  BY <1>3, <1>4, <1>5

\* What is removed.
LEMMA RemoveGoes ==
  ASSUME Ready, Summary, RemoveFind, GoesStep
  PROVE  cs'[Depth].i \in 1 .. Len(list) /\ list'[cs'[Depth].i].pid = Failed
         /\ Len(list') = Len(list)
<1>0. /\ StackOK /\ DataOK /\ Len(list) \in Nat /\ Depth \in Nat \ {0} /\ Running \in Frame
  <2>1. list \in Seq(Slot)
    BY TypeParts DEF Ready, DataOK
  <2> QED
    BY <2>1, TypeParts, StackFacts, LenProperties DEF Ready
<1>1. SlotsOf(Running.p) # {}
  <2>1. SlotsOf(Running.p) = {} => Return
    BY DEF RemoveFind
  <2>2. Return => Len(cs') = Depth - 1
    BY <1>0, ReturnMoves DEF LeaveStep, RemoveFind, At, StackOK
  <2> QED
    BY <1>0, <2>1, <2>2 DEF GoesStep
<1>2. PICK i : i = First(SlotsOf(Running.p))
  OBVIOUS
<1>3. i \in 1 .. Len(list) /\ i \in Nat
  <2>1. SlotsOf(Running.p) \subseteq 1 .. Len(list)
    BY DEF SlotsOf
  <2> QED
    BY <1>0, <1>1, <1>2, <2>1, FirstIn
<1>4. PidSet(i, Failed) /\ cs' = Top([Running EXCEPT !.pc = "call", !.i = i])
  BY <1>1, <1>2 DEF RemoveFind, PidSet
<1>5. PICK fr : fr = [Running EXCEPT !.pc = "call", !.i = i]
  OBVIOUS
<1>6. fr.i = i /\ fr.k = Running.k /\ fr \in Frame
  BY <1>0, <1>3, <1>5 DEF Frame, Pcs
<1>7. cs'[Depth] = fr
  BY <1>0, <1>4, <1>5, <1>6, TopFacts
<1> QED
  BY <1>0, <1>3, <1>4, <1>6, <1>7, SlotChanged

\* The frame that runs and goes on.
LEMMA FilesGoes ==
  ASSUME TypeInv, Kinds, FilesKept, Synchronous, GoesOn(cs'[Depth]), GoesStep \/ CallStep
  PROVE  Purging(list', proc', cs'[Depth], Depth)
<1>0. /\ Ready /\ Summary /\ Named /\ Depth \in Nat \ {0} /\ ProcOK /\ DataOK
      /\ Older(proc') \/ \E k : Born(k)
      /\ Len(list) \in Nat /\ Len(proc') \in Nat
      /\ Purging(list, proc, Running, Depth)
  BY FilesFacts, TypeParts, LivesLater DEF Ready, Summary
<1>1. ~ LeaveStep /\ ~ SwapStep
  <2>1. ~ LeaveStep
    BY <1>0 DEF GoesStep, CallStep, LeaveStep
  <2>2. ~ SwapStep
    <3>1. FrameOf("plotdeath", Running.p).k = "plotdeath"
      BY DEF FrameOf
    <3> QED
      BY <3>1 DEF SwapStep, GoesOn, At
  <2> QED
    BY <2>1, <2>2
<1>2. ASSUME Running.k = "insert" PROVE Purging(list', proc', cs'[Depth], Depth)
  <2> DEFINE fr == cs'[Depth]
  <2> SUFFICES Purging(list', proc', fr, Depth)
    OBVIOUS
  <2>1. /\ fr.k = "insert" /\ fr.p = Running.p /\ fr.h = Running.h
        /\ <<"insert", Running.pc, fr.pc>> \in Goings
    BY <1>2 DEF GoesOn
  <2>2. \/ Running.pc = "begin" /\ fr.pc = "pid"
        \/ Running.pc = "pid" /\ fr.pc = "handler"
        \/ Running.pc = "handler" /\ fr.pc = "file"
    BY <2>1 DEF Goings
  <2>3. Running.pc # "begin" => fr.i = Running.i /\ Running.i \in 1 .. Len(list)
    BY <1>0, <1>1, <1>2, FilesFacts
       DEF Summary, Indexed, InsertFind, RemoveFind, SigchldScan, At
  <2>4. fr.h = "file" => Depth = 2
    BY <1>0, <1>2, <2>1 DEF Purging
  <2>5. fr.pc = "pid" => /\ Unused(proc', list'[fr.i].file)
                         /\ ~ (Temp(proc', list'[fr.i].pid) /\ Lives(proc', list'[fr.i].pid))
    <3> SUFFICES ASSUME fr.pc = "pid"
                 PROVE  /\ Unused(proc', list'[fr.i].file)
                        /\ ~ Temp(proc', list'[fr.i].pid)
      OBVIOUS
    <3>1. InsertFind
      BY <1>0, <1>2, <2>2 DEF Named, At
    <3>2. list' = list /\ fr.i \in 1 .. Len(list) /\ list[fr.i].pid < 0
      BY <1>0, <1>1, <1>2, <3>1, InsertRuns
    <3> HIDE DEF fr
    <3>3. list'[fr.i].pid \in Int /\ list'[fr.i].pid < 0 /\ FileIn(proc', list'[fr.i])
      BY <3>2, FilesFacts, FilesList
    <3> QED
      BY <1>0, <3>3, FreeFile
  <2>6. fr.h = "file" /\ fr.pc \in {"handler", "file"} =>
          list'[fr.i].pid = fr.p \/ ~ Lives(proc', fr.p)
    <3> SUFFICES ASSUME fr.h = "file", fr.pc \in {"handler", "file"}
                 PROVE  list'[fr.i].pid = fr.p \/ ~ Lives(proc', fr.p)
      OBVIOUS
    <3>1. Temp(proc, Running.p)
      BY <1>2, <2>1, FilesFacts
    <3>2. CASE fr.pc = "handler"
      <4>1. InsertPid
        BY <1>0, <1>2, <2>2, <3>2 DEF Named, At
      <4>2. PidSet(Running.i, Running.p)
        BY <4>1 DEF InsertPid, PidSet
      <4>3. list'[Running.i].pid = Running.p
        BY <1>0, <2>2, <2>3, <3>2, <4>2, SlotChanged
      <4> QED
        BY <2>1, <2>2, <2>3, <3>2, <4>3
    <3>3. CASE fr.pc = "file"
      <4>1. Running.pc = "handler"
        BY <2>2, <3>3
      <4>2. list[Running.i].pid = Running.p \/ ~ Lives(proc, Running.p)
        BY <1>0, <1>2, <2>1, <4>1 DEF Purging
      <4>3. list'[Running.i].pid = Running.p \/ ~ Lives(proc', Running.p)
        BY <2>3, <3>1, <4>1, <4>2, SlotKept
      <4> QED
        BY <2>1, <2>3, <4>1, <4>3
    <3> QED
      BY <3>2, <3>3
  <2> HIDE DEF fr
  <2> QED
    BY <2>1, <2>4, <2>5, <2>6 DEF Purging
<1>3. ASSUME Running.k = "remove" PROVE Purging(list', proc', cs'[Depth], Depth)
  <2> DEFINE fr == cs'[Depth]
  <2> SUFFICES Purging(list', proc', fr, Depth)
    OBVIOUS
  <2>1. fr.k = "remove" /\ fr.p = Running.p /\ <<"remove", Running.pc, fr.pc>> \in Goings
    BY <1>3 DEF GoesOn
  <2>2. Running.pc = "begin" /\ fr.pc = "call"
    BY <2>1 DEF Goings
  <2>3. fr.p > 0 => fr.p \in 1 .. Len(proc') /\ proc'[fr.p].kind # "file"
    <3>1. Running.p > 0 => Running.p \in 1 .. Len(proc) /\ proc[Running.p].kind # "file"
      BY <1>0, <1>3 DEF Purging
    <3> QED
      BY <1>0, <2>1, <3>1, TempLater
  <2>4. RemoveFind
    BY <1>0, <1>3, <2>2 DEF Named, At
  <2>5. GoesStep
    <3>1. ~ CallStep
      <4>1. CallStep => CallSite("remove", fr.pc, cs'[Depth + 1].k)
        BY <1>3 DEF CallStep, Enters
      <4>2. \A c : ~ CallSite("remove", "call", c)
        BY DEF CallSite, CallSites
      <4> QED
        BY <2>2, <4>1, <4>2
    <3> QED
      BY <3>1
  <2>6. fr.i \in 1 .. Len(list') /\ list'[fr.i].pid = Failed
    BY <1>0, <2>4, <2>5, RemoveGoes
  <2> HIDE DEF fr
  <2>7. Unused(proc', list'[fr.i].file)
    <3>1. FileIn(proc', list'[fr.i])
      BY <2>6, FilesList
    <3>2. list'[fr.i].pid \in Int /\ list'[fr.i].pid < 0
      BY <2>6 DEF Failed
    <3> QED
      BY <1>0, <3>1, <3>2, FreeFile
  <2> QED
    BY <2>1, <2>3, <2>7 DEF Purging
<1>4. ASSUME Running.k \notin {"insert", "remove"}
      PROVE  Purging(list', proc', cs'[Depth], Depth)
  <2>1. cs'[Depth].k \notin {"insert", "remove"}
    BY <1>4 DEF GoesOn
  <2> QED
    BY <2>1 DEF Purging
<1> QED
  BY <1>2, <1>3, <1>4

\* A frame that is called.
LEMMA FilesCalled ==
  ASSUME TypeInv, Kinds, FilesKept, Synchronous, CallStep
  PROVE  Purging(list', proc', cs'[Depth + 1], Depth + 1)
<1> DEFINE new == cs'[Depth + 1]
<1> SUFFICES Purging(list', proc', new, Depth + 1)
  OBVIOUS
<1>0. /\ Ready /\ Summary /\ Depth \in Nat \ {0} /\ ProcOK
      /\ Older(proc') \/ \E k : Born(k)
  BY FilesFacts
<1>1. new.k \in {"insert", "remove"} => new.pc = "begin"
  BY DEF CallStep, Enters
<1>2. new.k = "insert" /\ new.h = "file" => Depth + 1 = 2
  BY <1>0, FileFromMain
<1>3. new.k = "remove" /\ new.p > 0 => new.p \in 1 .. Len(proc) /\ proc[new.p].kind # "file"
  <2> SUFFICES ASSUME new.k = "remove", new.p > 0
               PROVE  new.p \in 1 .. Len(proc) /\ proc[new.p].kind # "file"
    OBVIOUS
  <2>1. new.p \in {pager.pid, plot.pid, cmd.pid}
    BY <1>0, RemovesWhat
  <2>2. /\ KindIn(proc, pager.pid, "pager") /\ KindIn(proc, plot.pid, "plot")
        /\ KindIn(proc, cmd.pid, "cmd")
    BY DEF Kinds, FilesKept
  <2> HIDE DEF new
  <2> QED
    BY <2>1, <2>2 DEF KindIn
<1> HIDE DEF new
<1>4. new.k = "remove" /\ new.p > 0 => new.p \in 1 .. Len(proc') /\ proc'[new.p].kind # "file"
  BY <1>0, <1>3, TempLater
<1> QED
  BY <1>1, <1>2, <1>4 DEF Purging

LEMMA FilesMoves ==
  ASSUME TypeInv, Kinds, FilesKept, Synchronous
  PROVE  FilesKept'
<1>0. /\ Ready /\ Summary /\ Moves /\ Depth \in Nat \ {0} /\ Extended /\ DataOK
  BY FilesFacts, StreamKinds, TypeParts DEF TypeInv, Summary, Ready
<1>1. KindIn(proc', plot'.pid, "plot")
  <2>1. plot.pid \in Pid /\ plot.obj \in Pid
    BY <1>0 DEF DataOK
  <2>2. KindIn(proc, plot.pid, "plot") /\ KindIn(proc, plot.obj, "plot")
    BY DEF FilesKept, Kinds
  <2>3. plot'.pid \in {plot.pid, plot.obj}
    BY <1>0, PlotPid
  <2> QED
    BY <1>0, <2>1, <2>2, <2>3, KindKept
<1>2. \A i \in 1 .. Depth - 1 : Purging(list', proc', cs'[i], i)
  BY <1>0, FilesBelow DEF Moves, Below
<1>3. GoesStep \/ CallStep => Purging(list', proc', cs'[Depth], Depth)
  <2>1. GoesStep \/ CallStep => GoesOn(cs'[Depth])
    BY DEF GoesStep, CallStep
  <2> QED
    BY <2>1, FilesGoes
<1>4. SwapStep => Purging(list', proc', cs'[Depth], Depth)
  <2>1. FrameOf("plotdeath", Running.p).k = "plotdeath"
    BY DEF FrameOf
  <2> QED
    BY <2>1 DEF SwapStep, Purging
<1>5. CallStep => Purging(list', proc', cs'[Depth + 1], Depth + 1)
  BY FilesCalled
<1>6. \A i \in 1 .. Len(cs') : Purging(list', proc', cs'[i], i)
  <2>1. CASE GoesStep \/ SwapStep
    <3>1. Len(cs') = Depth
      BY <2>1 DEF GoesStep, SwapStep
    <3>2. \A i \in 1 .. Depth : i = Depth \/ i \in 1 .. Depth - 1
      BY <1>0
    <3> QED
      BY <1>2, <1>3, <1>4, <2>1, <3>1, <3>2
  <2>2. CASE CallStep
    <3>1. Len(cs') = Depth + 1
      BY <2>2 DEF CallStep
    <3>2. \A i \in 1 .. Depth + 1 : i = Depth + 1 \/ i = Depth \/ i \in 1 .. Depth - 1
      BY <1>0
    <3> QED
      BY <1>2, <1>3, <1>5, <2>2, <3>1, <3>2
  <2>3. CASE LeaveStep
    BY <1>2, <2>3 DEF LeaveStep
  <2> QED
    BY <1>0, <2>1, <2>2, <2>3 DEF Moves
<1>7. \A i \in 1 .. Len(list') : FileIn(proc', list'[i])
  BY FilesList
<1> QED
  BY <1>1, <1>6, <1>7 DEF FilesKept, Depth

\* Nothing but that a child has ended.
LEMMA PurgingKept ==
  ASSUME TypeInv, Kinds, FilesKept, Older(proc'), NEW i \in 1 .. Depth
  PROVE  Purging(list, proc', cs[i], i)
<1> DEFINE fr == cs[i]
<1>0. /\ Depth \in Nat \ {0} /\ ProcOK /\ Len(list) \in Nat /\ list \in Seq(Slot)
  BY TypeParts, StackFacts, LenProperties DEF TypeInv, DataOK
<1>1. /\ Purging(list, proc, fr, i) /\ FrameOK(fr) /\ fr \in Frame
      /\ i # 1 => FrameKind(proc, fr, cs[i - 1])
      /\ cs[1].k = "main"
  <2>1. i # 1 => i \in 2 .. Depth
    BY <1>0
  <2>2. fr \in Frame /\ cs[1].k = "main"
    BY <1>0, TypeParts, StackFacts DEF TypeInv, StackOK
  <2> QED
    BY <1>0, <2>1, <2>2 DEF FilesKept, TypeInv, FramesOK, Kinds
<1>2. fr.k \in {"insert", "remove"} => i # 1
  BY <1>1
<1> HIDE DEF fr
<1>3. ASSUME NEW j \in 1 .. Len(list)
      PROVE  /\ Unused(proc, list[j].file) => Unused(proc', list[j].file)
             /\ ~ (Temp(proc, list[j].pid) /\ Lives(proc, list[j].pid))
                  => ~ (Temp(proc', list[j].pid) /\ Lives(proc', list[j].pid))
  <2>1. FileIn(proc, list[j]) /\ list[j] \in Slot /\ list[j].pid <= Len(proc)
    BY <1>0, ElementOfSeq DEF FilesKept, Kinds
  <2>2. list[j].pid \in Int
    BY <2>1 DEF Slot, Pid, Failed
  <2>3. Unused(proc, list[j].file) => Unused(proc', list[j].file)
    BY <1>0, <2>1, TempLater DEF FileIn
  <2>4. ~ (Temp(proc, list[j].pid) /\ Lives(proc, list[j].pid))
          => ~ (Temp(proc', list[j].pid) /\ Lives(proc', list[j].pid))
    BY <1>0, <2>1, <2>2, TempLater
  <2> QED
    BY <2>3, <2>4
<1>4. CASE fr.k = "insert"
  <2>1. fr.pc \in {"pid", "handler", "file"} => fr.i \in 1 .. Len(list)
    BY <1>1, <1>4 DEF FrameOK
  <2>2. fr.pc = "pid" => /\ Unused(proc', list[fr.i].file)
                         /\ ~ (Temp(proc', list[fr.i].pid) /\ Lives(proc', list[fr.i].pid))
    BY <1>1, <1>3, <1>4, <2>1 DEF Purging
  <2>3. fr.h = "file" /\ fr.pc \in {"handler", "file"} =>
          list[fr.i].pid = fr.p \/ ~ Lives(proc', fr.p)
    <3> SUFFICES ASSUME fr.h = "file", fr.pc \in {"handler", "file"}
                 PROVE  list[fr.i].pid = fr.p \/ ~ Lives(proc', fr.p)
      OBVIOUS
    <3>1. Temp(proc, fr.p)
      <4>1. fr.p > 0
        BY <1>1, <1>4 DEF FrameOK
      <4> QED
        BY <1>1, <1>2, <1>4, <4>1 DEF FrameKind, KindIn, Temp
    <3>2. list[fr.i].pid = fr.p \/ ~ Lives(proc, fr.p)
      BY <1>1, <1>4 DEF Purging
    <3> QED
      BY <1>0, <3>1, <3>2, TempLater
  <2>4. fr.h = "file" => i = 2
    BY <1>1, <1>4 DEF Purging
  <2> QED
    BY <1>4, <2>2, <2>3, <2>4 DEF Purging, fr
<1>5. CASE fr.k = "remove"
  <2>1. fr.p > 0 => fr.p \in 1 .. Len(proc) /\ proc[fr.p].kind # "file"
    BY <1>1, <1>5 DEF Purging
  <2>2. fr.p > 0 => fr.p \in 1 .. Len(proc') /\ proc'[fr.p].kind # "file"
    BY <1>0, <2>1, TempLater
  <2>3. fr.pc = "call" => fr.i \in 1 .. Len(list)
    BY <1>1, <1>5 DEF FrameOK
  <2>4. fr.pc = "call" => Unused(proc', list[fr.i].file)
    BY <1>1, <1>3, <1>5, <2>3 DEF Purging
  <2> QED
    BY <1>5, <2>2, <2>4 DEF Purging, fr
<1>6. CASE fr.k \notin {"insert", "remove"}
  BY <1>6 DEF Purging, fr
<1> QED
  BY <1>4, <1>5, <1>6

LEMMA FilesStay ==
  ASSUME TypeInv, Kinds, FilesKept, Older(proc'), list' = list, plot' = plot,
         \A i \in 1 .. Len(cs') : \/ i \in 1 .. Depth /\ cs'[i] = cs[i]
                                  \/ cs'[i].k \notin {"insert", "remove"}
  PROVE  FilesKept'
<1>0. ProcOK /\ plot.pid \in Pid
  BY TypeParts DEF TypeInv, DataOK
<1>1. KindIn(proc', plot.pid, "plot")
  BY <1>0, ProcExtended, KindKept DEF FilesKept
<1>2. \A i \in 1 .. Len(list) : FileIn(proc', list[i])
  BY <1>0, TempLater DEF FilesKept
<1>3. \A i \in 1 .. Len(cs') : Purging(list, proc', cs'[i], i)
  <2>1. \A i \in 1 .. Depth : Purging(list, proc', cs[i], i)
    BY PurgingKept
  <2>2. \A i \in 1 .. Len(cs') : cs'[i].k \notin {"insert", "remove"} =>
          Purging(list, proc', cs'[i], i)
    BY DEF Purging
  <2> QED
    BY <2>1, <2>2
<1> QED
  BY <1>1, <1>2, <1>3 DEF FilesKept, Depth

LEMMA FilesNext ==
  ASSUME TypeInv, Kinds, FilesKept, Next
  PROVE  FilesKept'
<1>0. /\ TypeOK /\ Depth \in Nat \ {0} /\ Older(proc) /\ StackOK
  BY TypeParts, StackFacts, ProcFacts DEF TypeInv
<1>1. CASE Synchronous
  BY <1>1, FilesMoves
<1>2. CASE MainJumped
  <2>1. /\ proc' = proc /\ list' = list /\ plot' = plot
        /\ \/ Len(cs') = Depth /\ cs'[Depth].k = "main"
           \/ cs' = cs
           \/ Len(cs') = Depth + 1 /\ cs'[Depth].k = "main"
              /\ cs'[Depth + 1] = FrameOf("cleancmd", None)
        /\ Below
    BY <1>0, <1>2, JumpedStep
  <2>2. FrameOf("cleancmd", None).k = "cleancmd"
    BY DEF FrameOf
  <2>3. \A i \in 1 .. Depth + 1 : /\ i = Depth + 1 \/ i = Depth \/ i \in 1 .. Depth - 1
                                  /\ i \in 1 .. Depth - 1 => i \in 1 .. Depth
    BY <1>0
  <2>4. \A i \in 1 .. Len(cs') : \/ i \in 1 .. Depth /\ cs'[i] = cs[i]
                                 \/ cs'[i].k \notin {"insert", "remove"}
    <3>1. CASE cs' = cs
      BY <3>1 DEF Depth
    <3>2. CASE Len(cs') = Depth /\ cs'[Depth].k = "main"
      BY <1>0, <2>1, <2>3, <3>2 DEF Below
    <3>3. CASE Len(cs') = Depth + 1 /\ cs'[Depth].k = "main"
               /\ cs'[Depth + 1] = FrameOf("cleancmd", None)
      BY <2>1, <2>2, <2>3, <3>3 DEF Below
    <3> QED
      BY <2>1, <3>1, <3>2, <3>3
  <2> QED
    BY <1>0, <2>1, <2>4, FilesStay
<1>3. CASE SigchldBegin
  <2>1. /\ Len(cs') = Depth + 1 /\ \A i \in 1 .. Depth : cs'[i] = cs[i]
        /\ cs'[Depth + 1].k = "chld"
        /\ plot' = plot /\ proc' = proc /\ list' = list
    BY <1>0, <1>3, HandlerStep
  <2>2. \A i \in 1 .. Len(cs') : i = Depth + 1 \/ i \in 1 .. Depth
    BY <1>0, <2>1
  <2> QED
    BY <1>0, <2>1, <2>2, FilesStay
<1>4. CASE Interrupt
  <2>1. /\ Len(cs') = 1 /\ cs'[1].k = "main"
        /\ plot' = plot /\ proc' = proc /\ list' = list
    BY <1>0, <1>4, InterruptStep
  <2>2. \A i \in 1 .. Len(cs') : cs'[i].k \notin {"insert", "remove"}
    BY <2>1
  <2> QED
    BY <1>0, <2>1, <2>2, FilesStay
<1>5. CASE \E p : Die(p)
  <2>1. cs' = cs /\ plot' = plot /\ Older(proc') /\ list' = list
    BY <1>0, <1>5, DieStep
  <2> QED
    BY <2>1, FilesStay DEF Depth
<1> QED
  BY <1>1, <1>2, <1>3, <1>4, <1>5, Steps

LEMMA FilesInvariant == Spec => [](TypeInv /\ Kinds /\ FilesKept)
<1>1. Init => Kinds /\ FilesKept
  <2> SUFFICES ASSUME Init PROVE Kinds /\ FilesKept
    OBVIOUS
  <2>1. Depth = 1 /\ cs[1].k = "main" /\ Len(list) = 0 /\ plot.pid = 0
    BY InitStack DEF Init
  <2>2. FilesKept
    BY <2>1 DEF FilesKept, KindIn, Purging
  <2> QED
    BY <2>2, KindsInit
<1>2. TypeInv /\ Kinds /\ FilesKept /\ [Next]_vars => Kinds' /\ FilesKept'
  <2>1. ASSUME Kinds, FilesKept, UNCHANGED vars PROVE Kinds' /\ FilesKept'
    <3>1. UNCHANGED <<cs, proc, list, pager, plot, cmd>>
      BY <2>1 DEF vars
    <3>2. Depth' = Depth
      BY <3>1 DEF Depth
    <3>3. Kinds'
      BY <2>1, <3>1, <3>2 DEF Kinds, KindIn, FrameKind
    <3>4. FilesKept'
      BY <2>1, <3>1, <3>2 DEF FilesKept, KindIn, FileIn, Purging, Temp, Unused, Lives
    <3> QED
      BY <3>3, <3>4
  <2> QED
    BY <2>1, KindsNext, FilesNext
<1> QED
  BY <1>1, <1>2, TypeInvariant, PTL DEF Spec

\* Whoever loses his file has ended.
LEMMA GoneEnded ==
  ASSUME TypeInv, Kinds, FilesKept, Next,
         NEW p \in 1 .. Len(proc), proc[p].file # "gone", proc'[p].file = "gone"
  PROVE  ~ Alive(p)
<1>0. /\ TypeOK /\ ProcOK /\ Ready /\ Depth \in Nat \ {0} /\ FrameOK(Running)
      /\ Purging(list, proc, Running, Depth)
      /\ Len(list) \in Nat /\ list \in Seq(Slot) /\ Running \in Frame
  <2>1. TypeOK /\ ProcOK /\ Ready /\ Depth \in Nat \ {0} /\ Running = cs[Depth]
        /\ Depth \in 1 .. Depth /\ list \in Seq(Slot) /\ Running \in Frame
    BY InvReady, TypeParts, StackFacts DEF TypeInv, DataOK
  <2> QED
    BY <2>1, LenProperties DEF FilesKept, Ready
<1>1. ~ NoneGone
  BY DEF NoneGone
<1>2. RemoveCall \/ SigchldScan
  <2>1. MainJumped \/ SigchldBegin \/ Interrupt => proc' = proc
    BY <1>0, JumpedStep, HandlerStep, InterruptStep
  <2>2. (\E q : Die(q)) => NoneGone
    BY <1>0, GoneFacts DEF Die
  <2> QED
    BY <1>0, <1>1, <2>1, <2>2, Steps, WhoRemoves
<1>3. Alive(p) => Lives(proc, p)
  BY DEF Alive, IsPid, Lives
<1>4. CASE RemoveCall
  <2> DEFINE el == list[Running.i]
  <2>1. Running.k = "remove" /\ Running.pc = "call"
    BY <1>4 DEF RemoveCall, At
  <2>2. \E st : \/ RunHandler(el.h, Running.p, el.file, st, proc, Returned)
                \/ \E z : RunHandler(el.h, Running.p, el.file, st, Reaped(z), Returned)
    BY <1>4 DEF RemoveCall
  <2>3. Unused(proc, el.file)
    BY <1>0, <2>1 DEF Purging
  <2> HIDE DEF el
  <2>4. p = el.file /\ el.file # None
    BY <1>0, <2>2, HandlerGone
  <2> QED
    BY <1>3, <2>3, <2>4 DEF Unused
<1>5. CASE SigchldScan
  <2> DEFINE el == list[Running.i]
  <2>1. Running.k = "chld" /\ Running.i <= Running.p
    BY <1>5 DEF SigchldScan, At
  <2>2. Running.i \in 1 .. Len(list)
    <3>1. Running.p \in 0 .. Len(list) /\ Running.i > 0 /\ Running.i \in Nat
      BY <1>0, <2>1 DEF FrameOK, Frame
    <3> QED
      BY <1>0, <2>1, <3>1
  <2>3. /\ Zombie(el.pid)
        /\ \E st, z, stack : RunHandler(el.h, el.pid, el.file, st, Reaped(z), stack)
    <3>1. ~ Zombie(el.pid) => proc' = proc
      BY <1>5 DEF SigchldScan
    <3>2. Zombie(el.pid) =>
            RunHandler(el.h, el.pid, el.file, "exit", Reaped(el.pid),
                       Top([Running EXCEPT !.pc = "int"]))
      BY <1>5 DEF SigchldScan
    <3> HIDE DEF el
    <3> QED
      BY <3>1, <3>2
  <2>4. FileIn(proc, el)
    BY <2>2 DEF FilesKept
  <2> HIDE DEF el
  <2>5. p = el.file /\ el.file # None
    BY <1>0, <2>3, HandlerGone
  <2>6. ~ Lives(proc, el.pid)
    BY <2>3 DEF Zombie, Lives
  <2> QED
    BY <1>3, <2>4, <2>5, <2>6 DEF FileIn, Unused
<1> QED
  BY <1>2, <1>4, <1>5

\* child_purge_temp never removes the file of a child that still runs: neither the
\* SIGCHLD handler nor do_remove calls the null handler for an element of which one
\* member is that of such a child and another that of a process before it.
THEOREM FileStays == Spec => TempFileKept
<1>1. ASSUME TypeInv, Kinds, FilesKept, [Next]_vars
      PROVE  \A p \in 1 .. Len(proc) :
               proc[p].file # "gone" /\ proc'[p].file = "gone" => ~ Alive(p)
  <2>1. UNCHANGED vars => proc' = proc
    BY DEF vars
  <2> QED
    BY <1>1, <2>1, GoneEnded
<1> QED
  BY <1>1, FilesInvariant, PTL DEF Spec, TempFileKept
=============================================================================

------------------------------ MODULE Children ------------------------------
(***************************************************************************)
(* The child processes of Octave 2.0.17 on EMX and the SIGCHLD handler:    *)
(* octave_child_list and the signal dispositions (sighandlers.cc), the     *)
(* pager (pager.cc), the stream to gnuplot (pt-plot.cc), a shell command   *)
(* whose output is read and the waits for a child (toplev.cc, syscalls.cc, *)
(* iopopen.c).                                                             *)
(*                                                                         *)
(* Octave is one thread; the frames of its C stack are in cs, and a signal *)
(* handler is one more frame on top of whatever was running.  A step is as *)
(* long as the code between two accesses to something that the handler     *)
(* also reads or writes.                                                   *)
(***************************************************************************)
EXTENDS Integers, Sequences, FiniteSets

CONSTANTS
  Commands,    \* what the user of this instance does
  Immediate,   \* Vpage_output_immediately
  SpawnFails,  \* starting a process may fail
  MaxPid,      \* bound: processes ever started
  MaxIntr      \* bound: SIGINTs

ASSUME BoundAssumption == MaxPid \in Nat /\ MaxIntr \in Nat
ASSUME SwitchAssumption == Immediate \in BOOLEAN /\ SpawnFails \in BOOLEAN

VARIABLES
  cs,     \* the C stack, the running frame last
  ul,     \* the part of unwind_protect_list that concerns the children
  proc,   \* the processes started so far, by their pid
  list,   \* octave_child_list: its first curr_len elements
  sig,    \* the dispositions of SIGINT and SIGCHLD, and a pending SIGCHLD
  pager,  \* the static variables of pager.cc
  plot,   \* plot_stream and plot_stream_pid; was (history): what it has been
  cmd,    \* cmd, cmd_pid and cmd_status of run_command_and_return_output
  err,    \* error_state
  intr    \* number of SIGINTs delivered

vars == <<cs, ul, proc, list, sig, pager, plot, cmd, err, intr>>

(***************************************************************************)
(* Data                                                                    *)
(***************************************************************************)

\* pid () of a procstream that could not be opened, which is also what marks a
\* free element of the list; and no stream.  Processes are numbered from 1 and
\* a number is not used again.
Failed == -1
None == 0
Pid == Nat \cup {Failed}

\* Handlers and kinds of children: "file" is the null handler of
\* child_purge_temp, which removes a file.
Handlers == {"pager", "plot", "cmd", "file"}

\* A process: "ending" once its pipe is closed, so that it will exit.  file is
\* the temporary file of an asynchronous one, "asked" once child_purge_temp has
\* been called for it.
Process == [kind : Handlers, st : {"running", "ending", "zombie", "reaped"},
            file : {"none", "there", "asked", "gone"}]

Slot == [pid : Pid, h : Handlers, file : Nat]

IntDisp == {"catch", "ignore"}
ChldDisp == {"handler", "ignore"}

FrameKinds == {"main", "insert", "remove", "wait", "chld", "plotdeath", "flush",
               "sync", "clear", "send", "openplot", "closeplot", "system",
               "cleancmd", "error"}

Pcs == {"top", "prompt", "run", "jumped", "begin", "pid", "handler", "file",
        "call", "wait", "chld", "scan", "int", "clear", "end", "open", "new",
        "assign", "insert", "check", "write", "recheck", "flush", "removed", "deleted",
        "opened", "use", "using", "sent", "warn", "add", "read", "status",
        "cleanup", "done"}

\* A frame: p is the process or stream it works on, i an index, h the handler
\* to insert, int and chld the dispositions that it has saved, bypass the
\* bypass_pager of do_sync.  A wait is for one process, never waitpid (-1).
Frame ==
  {fr \in [k : FrameKinds, pc : Pcs, p : Pid, i : Nat, h : Handlers,
           int : IntDisp, chld : ChldDisp, bypass : BOOLEAN] :
     fr.k = "wait" => fr.p > 0}

\* status and result of a command: -1 before it has ended and when it could not
\* be waited for, its exit status, or 127.
Status == {"-1", "exit", "127"}

Saved == [e : {"flush", "cmd"}, flushing : BOOLEAN, really : BOOLEAN]

TypeOK ==
  /\ cs \in Seq(Frame) /\ cs # <<>> /\ cs[1].k = "main"
  /\ ul \in Seq(Saved)
  /\ proc \in Seq(Process)
  /\ list \in Seq(Slot)
  /\ sig \in [int : IntDisp, chld : ChldDisp, pend : BOOLEAN]
  /\ pager \in [obj : Pid, ok : BOOLEAN, pid : Pid, saved : IntDisp,
                isSaved : BOOLEAN, flushing : BOOLEAN, really : BOOLEAN,
                buf : BOOLEAN]
  /\ plot \in [obj : Pid, ok : BOOLEAN, pid : Pid, was : SUBSET Pid]
  /\ cmd \in [obj : Pid, open : BOOLEAN, pid : Pid, status : Status,
              result : Status]
  /\ err \in BOOLEAN
  /\ intr \in 0 .. MaxIntr

-----------------------------------------------------------------------------
(***************************************************************************)
(* The C stack, as in Evaluator                                            *)
(***************************************************************************)

Depth == Len(cs)
Running == cs[Depth]
At(k, pc) == Running.k = k /\ Running.pc = pc

FrameOf(k, p) == [k |-> k, pc |-> "begin", p |-> p, i |-> 0, h |-> "file",
                  int |-> "catch", chld |-> "handler", bypass |-> FALSE]

Top(fr) == [cs EXCEPT ![Depth] = fr]
Goto(pc) == cs' = Top([Running EXCEPT !.pc = pc])
Calling(fr, pc) == Append(Top([Running EXCEPT !.pc = pc]), fr)
Call(fr, pc) == cs' = Calling(fr, pc)
Returned == SubSeq(cs, 1, Depth - 1)
Return == cs' = Returned

InsertOf(p, h) == [FrameOf("insert", p) EXCEPT !.h = h]

Quiet == UNCHANGED <<list, sig, pager, plot, cmd>>

(***************************************************************************)
(* Processes                                                               *)
(***************************************************************************)

IsPid(p) == p \in 1 .. Len(proc)
Alive(p) == IsPid(p) /\ proc[p].st \in {"running", "ending"}
Zombie(p) == IsPid(p) /\ proc[p].st = "zombie"

\* _IO_proc_open and _IO_system: the pid of the new process.  Beyond the bound
\* no process can be started.
Spawn(kind, p) ==
  \/ /\ Len(proc) < MaxPid /\ p = Len(proc) + 1
     /\ proc' = Append(proc, [kind |-> kind, st |-> "running",
                  file |-> IF kind = "file" THEN "there" ELSE "none"])
  \/ (SpawnFails \/ Len(proc) = MaxPid) /\ p = Failed /\ UNCHANGED proc

\* What is left when waitpid has returned p.
Reaped(p) == IF Zombie(p) THEN [proc EXCEPT ![p].st = "reaped"] ELSE proc

Unlinked(procs, f) ==
  IF f = None THEN procs ELSE [procs EXCEPT ![f].file = "gone"]

\* A child ends.  SIGCHLD is pending unless it is ignored; it does not queue.
Die(p) ==
  /\ Alive(p)
  /\ proc' = [proc EXCEPT ![p].st = "zombie"]
  /\ sig' = [sig EXCEPT !.pend = @ \/ sig.chld = "handler"]
  /\ UNCHANGED <<cs, ul, list, pager, plot, cmd, err, intr>>

(***************************************************************************)
(* octave_child_list                                                       *)
(***************************************************************************)

Free == {i \in 1 .. Len(list) : list[i].pid < 0}
SlotsOf(p) == {i \in 1 .. Len(list) : list[i].pid = p}
First(S) == CHOOSE i \in S : \A j \in S : i <= j

\* What a death handler does: the pager's writes to cerr, the plotter's has
\* calls to make, the command's keeps the status, the null one stands for
\* unlink.  procs is proc after the wait, stack the C stack to return to.
RunHandler(h, p, f, st, procs, stack) ==
  /\ cs' = IF h = "plot" THEN Append(stack, FrameOf("plotdeath", p)) ELSE stack
  /\ cmd' = IF h = "cmd" THEN [cmd EXCEPT !.status = st] ELSE cmd
  /\ proc' = IF h = "file" THEN Unlinked(procs, f) ELSE procs

\* do_insert: the first open slot ...
InsertFind ==
  /\ At("insert", "begin")
  /\ IF Free = {}
     THEN /\ list' = Append(list, [pid |-> Running.p, h |-> Running.h,
                                   file |-> IF Running.h = "file"
                                            THEN Running.p ELSE None])
          /\ Return
     ELSE /\ cs' = Top([Running EXCEPT !.pc = "pid", !.i = First(Free)])
          /\ UNCHANGED list
  /\ UNCHANGED <<ul, proc, sig, pager, plot, cmd, err, intr>>

\* ... is assigned member by member.
InsertPid ==
  /\ At("insert", "pid")
  /\ list' = [list EXCEPT ![Running.i].pid = Running.p]
  /\ Goto("handler")
  /\ UNCHANGED <<ul, proc, sig, pager, plot, cmd, err, intr>>

InsertHandler ==
  /\ At("insert", "handler")
  /\ list' = [list EXCEPT ![Running.i].h = Running.h]
  /\ Goto("file")
  /\ UNCHANGED <<ul, proc, sig, pager, plot, cmd, err, intr>>

InsertFile ==
  /\ At("insert", "file")
  /\ list' = [list EXCEPT ![Running.i].file =
                IF Running.h = "file" THEN Running.p ELSE None]
  /\ Return
  /\ UNCHANGED <<ul, proc, sig, pager, plot, cmd, err, intr>>

\* do_remove: claim the first slot of the pid ...
RemoveFind ==
  /\ At("remove", "begin")
  /\ IF SlotsOf(Running.p) = {}
     THEN Return /\ UNCHANGED list
     ELSE LET i == First(SlotsOf(Running.p))
          IN /\ list' = [list EXCEPT ![i].pid = Failed]
             /\ cs' = Top([Running EXCEPT !.pc = "call", !.i = i])
  /\ UNCHANGED <<ul, proc, sig, pager, plot, cmd, err, intr>>

\* ... and call its handler, whether the child has ended or not.  The null
\* handler does not wait; waitpid (-1) takes any child.
RemoveCall ==
  /\ At("remove", "call")
  /\ LET el == list[Running.i]
         dead == {p \in 1 .. Len(proc) : Zombie(p) /\ Running.p \in {p, Failed}}
     IN IF el.h = "file" \/ dead = {}
        THEN RunHandler(el.h, Running.p, el.file, "127", proc, Returned)
        ELSE \E p \in dead :
               RunHandler(el.h, Running.p, el.file, "exit", Reaped(p), Returned)
  /\ UNCHANGED <<ul, list, sig, pager, plot, err, intr>>

(***************************************************************************)
(* sigchld_handler                                                         *)
(***************************************************************************)

\* It runs on top of any frame.  n, the length of the list, is read once.
SigchldBegin ==
  /\ sig.pend /\ sig.chld = "handler"
  /\ cs' = Append(cs, [FrameOf("chld", Len(list)) EXCEPT
                         !.pc = "scan", !.i = 1, !.int = sig.int])
  /\ sig' = [int |-> "ignore", chld |-> "ignore", pend |-> FALSE]
  /\ UNCHANGED <<ul, proc, list, pager, plot, cmd, err, intr>>

\* Not the code: a mutant of SigchldScan.
SigchldScanAnyState ==
  /\ At("chld", "scan") /\ Running.i <= Running.p
  /\ LET i == Running.i
         el == list[i]
     IN IF el.pid > 0
        THEN /\ list' = [list EXCEPT ![i].pid = Failed]
             /\ RunHandler(el.h, el.pid, el.file, "exit", Reaped(el.pid),
                           Top([Running EXCEPT !.pc = "int"]))
        ELSE /\ cs' = Top([Running EXCEPT !.i = i + 1])
             /\ UNCHANGED <<proc, list, cmd>>
  /\ UNCHANGED <<ul, sig, pager, plot, err, intr>>

\* The element that waitpid (pid, &status, WNOHANG) finds dead is freed and its
\* handler called; only one child is dealt with.
SigchldScan ==
  /\ At("chld", "scan") /\ Running.i <= Running.p
  /\ LET i == Running.i
         el == list[i]
     IN IF Zombie(el.pid)
        THEN /\ list' = [list EXCEPT ![i].pid = Failed]
             /\ RunHandler(el.h, el.pid, el.file, "exit", Reaped(el.pid),
                           Top([Running EXCEPT !.pc = "int"]))
        ELSE /\ cs' = Top([Running EXCEPT !.i = i + 1])
             /\ UNCHANGED <<proc, list, cmd>>
  /\ UNCHANGED <<ul, sig, pager, plot, err, intr>>

\* None of the list: waitpid (-1, NULL, WNOHANG).
SigchldOther ==
  /\ At("chld", "scan") /\ Running.i > Running.p
  /\ \/ \E p \in 1 .. Len(proc) : Zombie(p) /\ proc' = Reaped(p)
     \/ (\A p \in 1 .. Len(proc) : ~ Zombie(p)) /\ UNCHANGED proc
  /\ Goto("int")
  /\ UNCHANGED <<ul, err, intr>> /\ Quiet

\* SIGINT is given back before SIGCHLD, in all three places that save both.
RestoreInt ==
  /\ Running.k \in {"chld", "wait"} /\ Running.pc = "int"
  /\ sig' = [sig EXCEPT !.int = Running.int]
  /\ Goto("chld")
  /\ UNCHANGED <<ul, proc, list, pager, plot, cmd, err, intr>>

\* Not the code: a mutant of RestoreChld.
RestoreChldForgotten ==
  /\ Running.k \in {"chld", "wait"} /\ Running.pc = "chld"
  /\ Return
  /\ UNCHANGED <<ul, proc, err, intr>> /\ Quiet

RestoreChld ==
  /\ Running.k \in {"chld", "wait"} /\ Running.pc = "chld"
  /\ sig' = [sig EXCEPT !.chld = Running.chld]
  /\ Return
  /\ UNCHANGED <<ul, proc, list, pager, plot, cmd, err, intr>>

(***************************************************************************)
(* Waiting for a child: _IO_proc_close and Fwaitpid                        *)
(***************************************************************************)

\* A wait with both signals ignored; of a stream, once its pipe is closed.
Waiting(p) ==
  [FrameOf("wait", p) EXCEPT !.pc = "wait", !.int = sig.int, !.chld = sig.chld]
WaitFor(p, closed, pc) ==
  /\ Call(Waiting(p), pc)
  /\ sig' = [int |-> "ignore", chld |-> "ignore", pend |-> FALSE]
  /\ proc' = IF closed /\ Alive(p) THEN [proc EXCEPT ![p].st = "ending"]
             ELSE proc

\* delete of a stream: nothing to wait for if it is null, was never open or has
\* been closed before.
Delete(p, open, pc) ==
  IF p > 0 /\ open THEN WaitFor(p, TRUE, pc)
  ELSE Goto(pc) /\ UNCHANGED <<sig, proc>>

Closed(st) ==
  [cmd EXCEPT !.open = FALSE,
              !.status = IF cs[Depth - 1].k = "system" THEN st ELSE @]

\* Not the code: a mutant of WaitReturns.
WaitReturnsOwn ==
  /\ At("wait", "wait") /\ Zombie(Running.p)
  /\ cmd' = IF Running.p = cmd.obj
            THEN Closed("exit") ELSE cmd
  /\ proc' = Reaped(Running.p)
  /\ Goto("int")
  /\ UNCHANGED <<ul, list, sig, pager, plot, err, intr>>

\* waitpid returns p, or -1 if somebody else has reaped it; close () of the
\* command's stream returns the same.
WaitReturns ==
  /\ At("wait", "wait") /\ ~ Alive(Running.p)
  /\ cmd' = IF Running.p = cmd.obj
            THEN Closed(IF Zombie(Running.p) THEN "exit" ELSE "-1") ELSE cmd
  /\ proc' = Reaped(Running.p)
  /\ Goto("int")
  /\ UNCHANGED <<ul, list, sig, pager, plot, err, intr>>

(***************************************************************************)
(* pager.cc                                                                *)
(***************************************************************************)

\* flush_octave_stdout, which does nothing inside itself.  A short output goes
\* to the screen unless pages are output immediately.
Flush(guarded) ==
  /\ At("flush", "begin")
  /\ IF guarded /\ pager.flushing
     THEN Return /\ UNCHANGED <<ul, pager>>
     ELSE /\ ul' = Append(ul, [e |-> "flush", flushing |-> pager.flushing,
                               really |-> pager.really])
          /\ pager' = [pager EXCEPT !.really = TRUE, !.flushing = TRUE]
          /\ IF pager.buf
             THEN \E b \in BOOLEAN :
                    /\ b => ~ Immediate
                    /\ Call([FrameOf("sync", None) EXCEPT !.bypass = b], "clear")
             ELSE Goto("clear")
  /\ UNCHANGED <<proc, list, sig, plot, cmd, err, intr>>
\* Not the code: a mutant of FlushBegin.
FlushAlways == Flush(FALSE)
FlushBegin == Flush(TRUE)

FlushClear ==
  /\ At("flush", "clear")
  /\ IF pager.obj # None THEN Call(FrameOf("clear", None), "end") ELSE Goto("end")
  /\ UNCHANGED <<ul, proc, err, intr>> /\ Quiet

\* run_unwind_frame; the same when an interrupt runs all protections.
Restored(el) == [pager EXCEPT !.flushing = el.flushing, !.really = el.really]
Popped == SubSeq(ul, 1, Len(ul) - 1)

FlushEnd ==
  /\ At("flush", "end")
  /\ pager' = Restored(ul[Len(ul)])
  /\ ul' = Popped
  /\ Return
  /\ UNCHANGED <<proc, list, sig, plot, cmd, err, intr>>

\* error: verror flushes before it prints; then error_state is set.
ErrorBegin ==
  /\ At("error", "begin")
  /\ Call(FrameOf("flush", None), "end")
  /\ UNCHANGED <<ul, proc, err, intr>> /\ Quiet

ErrorEnd ==
  /\ At("error", "end")
  /\ err' = TRUE
  /\ Return
  /\ UNCHANGED <<ul, proc, intr>> /\ Quiet

\* do_sync.
SyncBegin ==
  /\ At("sync", "begin")
  /\ Goto(IF Running.bypass THEN "done"
          ELSE IF pager.obj = None THEN "open" ELSE "check")
  /\ UNCHANGED <<ul, proc, err, intr>> /\ Quiet

\* Interrupts are ignored from here until the pager is cleared.
SyncOpen ==
  /\ At("sync", "open")
  /\ sig' = [sig EXCEPT !.int = "ignore"]
  /\ pager' = [pager EXCEPT !.saved = sig.int, !.isSaved = TRUE]
  /\ Goto("new")
  /\ UNCHANGED <<ul, proc, list, plot, cmd, err, intr>>

SyncNew ==
  /\ At("sync", "new")
  /\ \E p \in 1 .. MaxPid \cup {Failed} :
       /\ Spawn("pager", p)
       /\ pager' = [pager EXCEPT !.obj = p, !.ok = (p > 0)]
  /\ Goto("insert")
  /\ UNCHANGED <<ul, list, sig, plot, cmd, err, intr>>

SyncInsert ==
  /\ At("sync", "insert")
  /\ pager' = [pager EXCEPT !.pid = pager.obj]
  /\ Call(InsertOf(pager.obj, "pager"), "check")
  /\ UNCHANGED <<ul, proc, list, sig, plot, cmd, err, intr>>

PagerUsable == pager.pid > 0 /\ pager.obj # None /\ pager.ok

\* A pager that died gives the interrupts back.
PagerLost ==
  IF pager.obj # None /\ pager.isSaved
  THEN /\ sig' = [sig EXCEPT !.int = pager.saved]
       /\ pager' = [pager EXCEPT !.isSaved = FALSE]
  ELSE UNCHANGED <<sig, pager>>

SyncCheck ==
  /\ At("sync", "check")
  /\ IF PagerUsable
     THEN cs' = Top([Running EXCEPT !.pc = "write", !.p = pager.obj])
          /\ UNCHANGED <<sig, pager>>
     ELSE Goto("done") /\ PagerLost
  /\ UNCHANGED <<ul, proc, list, plot, cmd, err, intr>>

\* The end of a write to p or of its flush: it fails if the pager is gone.
Written(p) == [pager EXCEPT !.ok = @ /\ (pager.obj = p => Alive(p))]

SyncWrite ==
  /\ At("sync", "write")
  /\ pager' = Written(Running.p)
  /\ Goto("recheck")
  /\ UNCHANGED <<ul, proc, list, sig, plot, cmd, err, intr>>

SyncRecheck ==
  /\ At("sync", "recheck")
  /\ IF PagerUsable
     THEN cs' = Top([Running EXCEPT !.pc = "flush", !.p = pager.obj])
     ELSE Goto("done")
  /\ UNCHANGED <<ul, proc, err, intr>> /\ Quiet

SyncFlush ==
  /\ At("sync", "flush")
  /\ pager' = Written(Running.p)
  /\ Goto("done")
  /\ UNCHANGED <<ul, proc, list, sig, plot, cmd, err, intr>>

\* octave_pager_buf::sync empties its buffer.
SyncDone ==
  /\ At("sync", "done")
  /\ pager' = [pager EXCEPT !.buf = FALSE]
  /\ Return
  /\ UNCHANGED <<ul, proc, list, sig, plot, cmd, err, intr>>

\* clear_external_pager.
ClearBegin ==
  /\ At("clear", "begin")
  /\ Call(FrameOf("remove", pager.pid), "removed")
  /\ UNCHANGED <<ul, proc, err, intr>> /\ Quiet

ClearRemoved ==
  /\ At("clear", "removed")
  /\ pager' = [pager EXCEPT !.pid = Failed]
  /\ Delete(pager.obj, TRUE, "deleted")
  /\ UNCHANGED <<ul, list, plot, cmd, err, intr>>

\* Not the code: a mutant of ClearDeleted.
ClearDeletedKeepsIgnoring ==
  /\ At("clear", "deleted")
  /\ pager' = [pager EXCEPT !.obj = None, !.isSaved = FALSE]
  /\ Return
  /\ UNCHANGED <<ul, proc, list, sig, plot, cmd, err, intr>>

ClearDeleted ==
  /\ At("clear", "deleted")
  /\ pager' = [pager EXCEPT !.obj = None, !.isSaved = FALSE]
  /\ sig' = IF pager.isSaved THEN [sig EXCEPT !.int = pager.saved] ELSE sig
  /\ Return
  /\ UNCHANGED <<ul, proc, list, plot, cmd, err, intr>>

(***************************************************************************)
(* pt-plot.cc                                                              *)
(***************************************************************************)

\* open_plot_stream: a stream whose writes failed is deleted first.
OpenplotBegin ==
  /\ At("openplot", "begin")
  /\ IF plot.obj # None /\ ~ plot.ok
     THEN Delete(plot.obj, TRUE, "deleted")
     ELSE Goto(IF plot.obj = None THEN "new" ELSE "done") /\ UNCHANGED <<sig, proc>>
  /\ UNCHANGED <<ul, list, pager, plot, cmd, err, intr>>

OpenplotDeleted ==
  /\ At("openplot", "deleted")
  /\ plot' = [plot EXCEPT !.obj = None]
  /\ Goto("new")
  /\ UNCHANGED <<ul, proc, list, sig, pager, cmd, err, intr>>

\* new oprocstream starts gnuplot ...
OpenplotNew ==
  /\ At("openplot", "new")
  /\ \E p \in 1 .. MaxPid \cup {Failed} :
       /\ Spawn("plot", p)
       /\ IF p > 0
          THEN cs' = Top([Running EXCEPT !.pc = "assign", !.p = p])
          ELSE Call(FrameOf("error", None), "done")
  /\ UNCHANGED <<ul, list, sig, pager, plot, cmd, err, intr>>

\* ... and plot_stream is assigned, which an interrupt can prevent.
OpenplotAssign ==
  /\ At("openplot", "assign")
  /\ plot' = [plot EXCEPT !.obj = Running.p, !.ok = TRUE, !.was = @ \cup {Running.p}]
  /\ Goto("insert")
  /\ UNCHANGED <<ul, proc, list, sig, pager, cmd, err, intr>>

\* Not the code: a mutant of OpenplotInsert.
OpenplotInsertOld ==
  /\ At("openplot", "insert")
  /\ plot' = [plot EXCEPT !.pid = plot.obj]
  /\ Call(InsertOf(plot.pid, "plot"), "done")
  /\ UNCHANGED <<ul, proc, list, sig, pager, cmd, err, intr>>

OpenplotInsert ==
  /\ At("openplot", "insert")
  /\ plot' = [plot EXCEPT !.pid = plot.obj]
  /\ Call(InsertOf(plot.obj, "plot"), "done")
  /\ UNCHANGED <<ul, proc, list, sig, pager, cmd, err, intr>>

\* send_to_plot_stream.
SendBegin ==
  /\ At("send", "begin")
  /\ IF plot.obj # None /\ plot.ok
     THEN Goto("use") ELSE Call(FrameOf("openplot", None), "opened")
  /\ UNCHANGED <<ul, proc, err, intr>> /\ Quiet

SendOpened ==
  /\ At("send", "opened")
  /\ IF err THEN Return ELSE Goto("use")
  /\ UNCHANGED <<ul, proc, err, intr>> /\ Quiet

\* The command is written to whatever plot_stream now is; a null pointer ends
\* the program.  A write to a dead gnuplot makes the stream bad.
SendUse ==
  /\ At("send", "use") /\ plot.obj # None
  /\ cs' = Top([Running EXCEPT !.pc = "using", !.p = plot.obj])
  /\ UNCHANGED <<ul, proc, err, intr>> /\ Quiet

SendUsing ==
  /\ At("send", "using")
  /\ plot' = [plot EXCEPT !.ok = @ /\ (plot.obj = Running.p => Alive(Running.p))]
  /\ Return
  /\ UNCHANGED <<ul, proc, list, sig, pager, cmd, err, intr>>

\* close_plot_stream.
CloseplotBegin ==
  /\ At("closeplot", "begin")
  /\ Call(FrameOf("remove", plot.pid), "removed")
  /\ UNCHANGED <<ul, proc, err, intr>> /\ Quiet

CloseplotRemoved ==
  /\ At("closeplot", "removed")
  /\ IF plot.obj # None THEN Call(FrameOf("send", None), "sent") ELSE Return
  /\ UNCHANGED <<ul, proc, err, intr>> /\ Quiet

\* Not the code: a mutant of CloseplotSent.
CloseplotSentOnly ==
  /\ At("closeplot", "sent")
  /\ Goto("deleted")
  /\ UNCHANGED <<ul, proc, err, intr>> /\ Quiet

CloseplotSent ==
  /\ At("closeplot", "sent")
  /\ Delete(plot.obj, TRUE, "deleted")
  /\ UNCHANGED <<ul, list, pager, plot, cmd, err, intr>>

CloseplotDeleted ==
  /\ At("closeplot", "deleted")
  /\ plot' = [plot EXCEPT !.obj = None]
  /\ Return
  /\ UNCHANGED <<ul, proc, list, sig, pager, cmd, err, intr>>

\* plot_stream_death_handler: close_plot_stream and two warnings.
PlotdeathBegin ==
  /\ At("plotdeath", "begin")
  /\ Call(FrameOf("closeplot", None), "warn")
  /\ UNCHANGED <<ul, proc, err, intr>> /\ Quiet

PlotdeathWarn ==
  /\ At("plotdeath", "warn")
  /\ Call(FrameOf("flush", None), "done")
  /\ UNCHANGED <<ul, proc, err, intr>> /\ Quiet

(***************************************************************************)
(* run_command_and_return_output                                           *)
(***************************************************************************)

SystemBegin ==
  /\ At("system", "begin")
  /\ \E p \in 1 .. MaxPid \cup {Failed} :
       /\ Spawn("cmd", p)
       /\ cmd' = [obj |-> p, open |-> p > 0, pid |-> p, status |-> "-1",
                  result |-> "-1"]
       /\ Call(InsertOf(p, "cmd"), "add")
  /\ UNCHANGED <<ul, list, sig, pager, plot, err, intr>>

SystemAdd ==
  /\ At("system", "add")
  /\ ul' = Append(ul, [e |-> "cmd", flushing |-> FALSE, really |-> FALSE])
  /\ Goto(IF cmd.obj > 0 THEN "read" ELSE "cleanup")
  /\ UNCHANGED <<proc, err, intr>> /\ Quiet

\* Read up to the end of the output, which comes when the command exits, and
\* close.
SystemRead ==
  /\ At("system", "read") /\ ~ Alive(cmd.obj)
  /\ WaitFor(cmd.obj, TRUE, "status")
  /\ UNCHANGED <<ul, list, pager, plot, cmd, err, intr>>

SystemStatus ==
  /\ At("system", "status")
  /\ LET s == IF cmd.status = "exit" THEN "exit" ELSE "127"
     IN cmd' = [cmd EXCEPT !.status = s, !.result = s]
  /\ Goto("cleanup")
  /\ UNCHANGED <<ul, proc, list, sig, pager, plot, err, intr>>

SystemCleanup ==
  /\ At("system", "cleanup")
  /\ ul' = Popped
  /\ Call(FrameOf("cleancmd", None), "done")
  /\ UNCHANGED <<proc, err, intr>> /\ Quiet

\* cleanup_iprocstream.
CleancmdBegin ==
  /\ At("cleancmd", "begin")
  /\ Call(FrameOf("remove", cmd.pid), "removed")
  /\ UNCHANGED <<ul, proc, err, intr>> /\ Quiet

CleancmdRemoved ==
  /\ At("cleancmd", "removed")
  /\ Delete(cmd.obj, cmd.open, "deleted")
  /\ UNCHANGED <<ul, list, pager, plot, cmd, err, intr>>

CleancmdDeleted ==
  /\ At("cleancmd", "deleted")
  /\ cmd' = [cmd EXCEPT !.obj = None]
  /\ Return
  /\ UNCHANGED <<ul, proc, list, sig, pager, plot, err, intr>>

(***************************************************************************)
(* main_loop and the commands of the user                                  *)
(***************************************************************************)

Init ==
  /\ cs = <<[FrameOf("main", None) EXCEPT !.pc = "top"]>>
  /\ ul = <<>> /\ proc = <<>> /\ list = <<>>
  /\ sig = [int |-> "catch", chld |-> "handler", pend |-> FALSE]
  /\ pager = [obj |-> None, ok |-> FALSE, pid |-> Failed, saved |-> "catch",
              isSaved |-> FALSE, flushing |-> FALSE, really |-> FALSE,
              buf |-> FALSE]
  /\ plot = [obj |-> None, ok |-> FALSE, pid |-> 0, was |-> {}]
  /\ cmd = [obj |-> None, open |-> FALSE, pid |-> Failed, status |-> "-1",
            result |-> "-1"]
  /\ err = FALSE /\ intr = 0

\* octave_catch_interrupts, reset_parser and the flush before the prompt.
MainTop ==
  /\ At("main", "top")
  /\ sig' = [sig EXCEPT !.int = "catch"]
  /\ err' = FALSE
  /\ Call(FrameOf("flush", None), "prompt")
  /\ UNCHANGED <<ul, proc, list, pager, plot, cmd, intr>>

MainRead ==
  /\ At("main", "prompt")
  /\ Goto("run")
  /\ UNCHANGED <<ul, proc, err, intr>> /\ Quiet

MainDone ==
  /\ At("main", "run")
  /\ Goto("top")
  /\ UNCHANGED <<ul, proc, err, intr>> /\ Quiet

\* Something is printed: sync sends it on at once only if it is to be paged
\* immediately.
Output ==
  /\ pager' = [pager EXCEPT !.buf = TRUE]
  /\ IF Immediate THEN Call(FrameOf("sync", None), "run") ELSE Goto("run")
  /\ UNCHANGED <<ul, proc, list, sig, plot, cmd, err, intr>>

Error ==
  /\ Call(FrameOf("error", None), "run")
  /\ UNCHANGED <<ul, proc, err, intr>> /\ Quiet

Plot ==
  /\ Call(FrameOf("send", None), "run")
  /\ UNCHANGED <<ul, proc, err, intr>> /\ Quiet

Closeplot ==
  /\ Call(FrameOf("closeplot", None), "run")
  /\ UNCHANGED <<ul, proc, err, intr>> /\ Quiet

System ==
  /\ Call(FrameOf("system", None), "run")
  /\ UNCHANGED <<ul, proc, err, intr>> /\ Quiet

\* system (CMD, 0, "async").
Async ==
  /\ \E p \in 1 .. MaxPid \cup {Failed} :
       /\ Spawn("file", p)
       /\ IF p > 0 THEN Goto("run") ELSE Call(FrameOf("error", None), "run")
  /\ UNCHANGED <<ul, err, intr>> /\ Quiet

\* child_purge_temp (p, NAME).
Purge ==
  /\ \E p \in 1 .. Len(proc) :
       /\ proc[p].file = "there"
       /\ proc' = [proc EXCEPT ![p].file = "asked"]
       /\ Call(InsertOf(p, "file"), "run")
  /\ UNCHANGED <<ul, err, intr>> /\ Quiet

\* waitpid (p) for an asynchronous child.
Waitpid ==
  /\ \E p \in 1 .. Len(proc) :
       proc[p].kind = "file" /\ proc[p].st # "reaped" /\ WaitFor(p, FALSE, "run")
  /\ UNCHANGED <<ul, list, pager, plot, cmd, err, intr>>

Command ==
  /\ At("main", "run") /\ ~ err
  /\ \/ "output" \in Commands /\ Output
     \/ "error" \in Commands /\ Error
     \/ "plot" \in Commands /\ Plot
     \/ "closeplot" \in Commands /\ Closeplot
     \/ "system" \in Commands /\ System
     \/ "async" \in Commands /\ (Async \/ Purge)
     \/ "waitpid" \in Commands /\ Waitpid

\* sigint_handler: longjmp to main_loop.
Interrupt ==
  /\ intr < MaxIntr /\ sig.int = "catch"
  /\ cs' = <<[cs[1] EXCEPT !.pc = "jumped"]>>
  /\ intr' = intr + 1
  /\ UNCHANGED <<ul, proc, err>> /\ Quiet

\* run_all_unwind_protects.
MainJumped ==
  /\ At("main", "jumped")
  /\ IF ul = <<>>
     THEN Goto("top") /\ UNCHANGED <<ul, pager>>
     ELSE /\ ul' = Popped
          /\ IF ul[Len(ul)].e = "flush"
             THEN pager' = Restored(ul[Len(ul)]) /\ UNCHANGED cs
             ELSE Call(FrameOf("cleancmd", None), "jumped") /\ UNCHANGED pager
  /\ UNCHANGED <<proc, list, sig, plot, cmd, err, intr>>

Leave ==
  /\ Running.k \in {"openplot", "plotdeath", "system"} /\ Running.pc = "done"
  /\ Return
  /\ UNCHANGED <<ul, proc, err, intr>> /\ Quiet

-----------------------------------------------------------------------------

ChildList == \/ InsertFind \/ InsertPid \/ InsertHandler \/ InsertFile
             \/ RemoveFind \/ RemoveCall
Sigchld == SigchldBegin \/ SigchldScan \/ SigchldOther
Wait == WaitReturns \/ RestoreInt \/ RestoreChld
Pager == \/ FlushBegin \/ FlushClear \/ FlushEnd \/ ErrorBegin \/ ErrorEnd
         \/ SyncBegin \/ SyncOpen \/ SyncNew \/ SyncInsert \/ SyncCheck
         \/ SyncWrite \/ SyncRecheck \/ SyncFlush \/ SyncDone
         \/ ClearBegin \/ ClearRemoved \/ ClearDeleted
Plotter == \/ OpenplotBegin \/ OpenplotDeleted \/ OpenplotNew \/ OpenplotAssign
           \/ OpenplotInsert \/ SendBegin \/ SendOpened \/ SendUse \/ SendUsing
           \/ CloseplotBegin \/ CloseplotRemoved \/ CloseplotSent
           \/ CloseplotDeleted \/ PlotdeathBegin \/ PlotdeathWarn
Systems == \/ SystemBegin \/ SystemAdd \/ SystemRead \/ SystemStatus
           \/ SystemCleanup \/ CleancmdBegin \/ CleancmdRemoved \/ CleancmdDeleted

\* What octave does by itself; MainRead, MainDone and Command wait for the user.
Work == \/ MainTop \/ MainJumped \/ ChildList \/ Sigchld \/ Wait \/ Pager
        \/ Plotter \/ Systems \/ Leave

Next == \/ Work \/ MainRead \/ MainDone \/ Command \/ Interrupt
        \/ \E p \in 1 .. MaxPid : Die(p)

Spec == Init /\ [][Next]_vars

\* Octave never stops by itself, a pending signal is delivered, a process whose
\* pipe has been closed exits and so does a shell command.
Ends(p) == Die(p) /\ (proc[p].st = "ending" \/ proc[p].kind = "cmd")
FairSpec == /\ Spec
            /\ WF_vars(Work) /\ WF_vars(SigchldBegin)
            /\ \A p \in 1 .. MaxPid : WF_vars(Ends(p))

-----------------------------------------------------------------------------
(***************************************************************************)
(* Properties                                                              *)
(***************************************************************************)

InFrames(kinds) == \E i \in 1 .. Depth : cs[i].k \in kinds

\* The prompt finds no pager, nothing saved by one, and interrupts caught,
\* whatever died or was interrupted while output was flushed.
PromptQuiet ==
  At("main", "prompt") =>
    /\ pager.obj = None /\ ~ pager.isSaved /\ ~ pager.flushing
    /\ sig.int = "catch" /\ ul = <<>>

\* The pager's stream is not deleted by a signal handler while do_sync writes
\* to it: with buffered output the flag flushing_output_to_pager keeps the
\* warnings of a death handler from clearing it.
PagerInUse ==
  \A i \in 1 .. Depth :
    cs[i].k = "sync" /\ cs[i].pc \in {"write", "flush"} => pager.obj = cs[i].p

\* SIGCHLD is ignored only by the handler itself and by those who wait for a
\* child; each gives it back, however they are nested.  Only a SIGINT between
\* their two restores can leave it ignored.
ChildSignalRestored ==
  sig.chld = "ignore" => InFrames({"chld", "wait"}) \/ intr > 0

\* A gnuplot that plot_stream talks to is on the list with its own handler, so
\* that its death is noticed; only an interrupt of open_plot_stream can prevent
\* that.
PlotterRegistered ==
  Depth = 1 /\ plot.obj # None /\ Alive(plot.obj) /\ intr = 0 =>
    \E i \in SlotsOf(plot.obj) : list[i].h = "plot"

\* open_plot_stream has started p and is about to assign it to plot_stream.
BeingOpened(p) ==
  \E i \in 1 .. Depth : cs[i].k = "openplot" /\ cs[i].pc = "assign" /\ cs[i].p = p

\* A SIGINT between the start of gnuplot and the assignment to plot_stream.
LostAtBirth(p) == p \notin plot.was /\ intr > 0

\* No gnuplot is lost: one whose pipe has not been closed is plot_stream's or is
\* about to be.  Excepted is one that never was plot_stream's because of an
\* interrupt: the code does lose that one.
NoOrphanPlotter ==
  \A p \in 1 .. Len(proc) :
    proc[p].kind = "plot" /\ proc[p].st = "running" =>
      plot.obj = p \/ BeingOpened(p) \/ LostAtBirth(p)

\* child_purge_temp never removes the file of a child that still runs, also
\* when list elements are reused and half assigned.
TempFileKept ==
  [][\A p \in 1 .. Len(proc) :
       proc[p].file # "gone" /\ proc'[p].file = "gone" => ~ Alive(p)]_vars

\* The program ends because send_to_plot_stream uses a null plot_stream.
Crashed == At("send", "use") /\ plot.obj = None

\* waitpid of the user for an asynchronous child that still runs.
WaitsForUser == At("wait", "wait") /\ proc[Running.p].kind = "file" /\ Alive(Running.p)

\* Every builtin comes back: no wait is for a child that somebody else has
\* reaped or that will not end, and the handler ends too.  Excepted are the
\* end of the program and a wait that the user has asked for.
EveryCallReturns == []<>(Depth = 1 \/ Crashed \/ WaitsForUser)

\* system.tex: the second value of system is the exit status of the command.
StatusOfCommand ==
  At("system", "cleanup") /\ cmd.obj > 0 => cmd.result = "exit"

\* child_purge_temp (pid, name): remove the file NAME, when child PID dies.
FilePurged ==
  \A p \in 1 .. MaxPid :
    IsPid(p) /\ proc[p].file = "asked" /\ ~ Alive(p)
      ~> IsPid(p) /\ proc[p].file = "gone"
=============================================================================

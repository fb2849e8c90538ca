------------------------------ MODULE Evaluator ------------------------------
(***************************************************************************)
(* The tree-walking evaluator of Octave 2.0.17 and the mechanism that      *)
(* cleans up behind it: the statement lists, loops, try and unwind_protect *)
(* commands, functions, scripts and eval () of pt-cmd.cc, pt-misc.cc,      *)
(* pt-fcn.cc and toplev.cc, the LIFO unwind_protect_list of unwind-prot.cc *)
(* and the interrupt that longjmps out of any of them.                     *)
(*                                                                         *)
(* The user's program is not fixed: a statement list chooses each of its   *)
(* statements when it reaches it, so that a run of the model covers every  *)
(* program whose lists, loops and nesting fit the bounds below.            *)
(***************************************************************************)
EXTENDS Integers, Sequences, FiniteSets

CONSTANTS
  Fn,           \* the user-defined functions (tree_function objects)
  NoFn,         \* no function: the evaluator is at top level
  MaxDepth,     \* Vmax_recursion_depth
  StmtKinds,    \* the statements a program of this instance may contain
  Interactive,  \* octave reads from a terminal, not from a pipe or a file
  MaxList,      \* bound: statements in a list
  MaxIter,      \* bound: iterations of a loop
  MaxStack,     \* bound: C frames; no compound statement starts beyond it
  MaxIntr       \* bound: SIGINTs

ASSUME FnAssumption == NoFn \notin Fn
ASSUME BoundAssumption ==
  /\ MaxDepth \in Nat \ {0} /\ MaxList \in Nat \ {0}
  /\ MaxIter \in Nat /\ MaxStack \in Nat /\ MaxIntr \in Nat

ASSUME InteractiveAssumption == Interactive \in BOOLEAN

VARIABLES
  cs,    \* the C stack of the evaluator: frames, the running one last
  ul,    \* unwind_protect_list, its top last
  g,     \* the global flags
  fn,    \* per tree_function: the members that a call changes
  cur,   \* curr_function and curr_sym_tab (the function that owns it)
  emb,   \* error_message_buffer: which try or eval buffered its messages
  txt,   \* the builtin variable __error_text__, in the same terms
  leak,  \* a message was printed while the body of a try was executing
  intr   \* number of SIGINTs delivered

vars == <<cs, ul, g, fn, cur, emb, txt, leak, intr>>

(***************************************************************************)
(* Data                                                                    *)
(***************************************************************************)

\* error_state, breaking, continuing, returning, buffer_error_messages and
\* reading_script_file.
Flags == {"err", "brk", "cont", "ret", "buf", "rsf"}
FlagValues == -2 .. 1
Levels(v) == IF v = "err" THEN FlagValues ELSE 0 .. 1

FrameKinds == {"main", "list", "while", "for", "try", "unw", "call", "script",
               "eval", "catch", "cleanup", "run"}

Pcs == {"read", "eval", "jumped", "quit", "enter", "next", "check", "test",
        "after", "assign", "body", "caught", "cleaned", "begin", "push",
        "protect", "bind", "exit", "leave", "done", "loop", "parse", "parse2",
        "brk", "ret", "err", "pop"}

\* Tags of begin_unwind_frame, and "one" and "all" for run_unwind_protect and
\* run_all_unwind_protects.
Tags == {"tree_try_catch::eval", "func_eval", "parse_fcn_file",
         "parse_and_execute", "Feval", "one", "all"}

Roles == {"cmd", "plain", "try", "catch", "protected", "cleanup", "fcn",
          "script", "string"}

\* A C frame.  n counts the statements or iterations left (the saved
\* buffer_error_messages of a try); brk and cont say whether the parser
\* accepts break and continue there; flag is "has a catch part" for try, eval
\* and catch, and "the body failed" for unw; base is the height of ul when
\* the frame was entered.
Frame ==
  {fr \in [k : FrameKinds, pc : Pcs, tag : Tags \cup Roles, n : Nat,
           f : Fn \cup {NoFn}, brk : BOOLEAN, cont : BOOLEAN, flag : BOOLEAN,
           base : Nat] :
     /\ fr.k = "try" => fr.n \in Levels("buf")
     /\ fr.k = "call" => fr.f \in Fn}

ElemKinds == {"mark", "restore", "catch", "cleanup", "clearerr", "depth",
              "popctx", "vr", "delvr", "clearsym", "tab", "fun", "clearargs",
              "nargs"}

\* The cleanup functions that concern a tree_function.
FnElems == {"depth", "popctx", "vr", "delvr", "clearsym", "clearargs", "nargs"}

\* An unwind_elem: a frame mark or a cleanup function with its argument; a
\* restore names a flag and one of its values, the others a function if they
\* need one.
Elem ==
  {el \in [e : ElemKinds, tag : Tags \cup Flags, val : FlagValues, d : Nat,
           f : Fn \cup {NoFn}, brk : BOOLEAN, cont : BOOLEAN, flag : BOOLEAN] :
     /\ el.e = "restore" => el.tag \in Flags /\ el.val \in Levels(el.tag)
     /\ el.e \in FnElems => el.f \in Fn}

\* call_depth, the saved contexts and the live locals of sym_tab,
\* args_passed, num_args_passed and vr_list.  The last four are named by the
\* call_depth of the activation they belong to, 0 when there is none.
FnState == [depth : Nat, ctx : Seq(Nat), sym : Nat, args : Nat, nargs : Nat,
            vr : Nat]

StackOK  == cs \in Seq(Frame) /\ cs # <<>> /\ cs[1].k = "main"
UnwindOK == ul \in Seq(Elem)
FlagsOK  == g \in [Flags -> FlagValues] /\ \A v \in Flags : g[v] \in Levels(v)
FnOK     == /\ fn \in [Fn -> FnState]
            /\ cur \in [fun : Fn \cup {NoFn}, tab : Fn \cup {NoFn}]
TextOK   == emb \subseteq Nat /\ txt \subseteq Nat /\ leak \in BOOLEAN
IntrOK   == intr \in 0 .. MaxIntr

TypeOK == StackOK /\ UnwindOK /\ FlagsOK /\ FnOK /\ TextOK /\ IntrOK

-----------------------------------------------------------------------------
(***************************************************************************)
(* The C stack                                                             *)
(***************************************************************************)

Depth == Len(cs)
Running == cs[Depth]
At(k, pc) == Running.k = k /\ Running.pc = pc

FrameOf(k, pc) == [k |-> k, pc |-> pc, tag |-> "plain", n |-> 0, f |-> NoFn,
                   brk |-> FALSE, cont |-> FALSE, flag |-> FALSE,
                   base |-> Len(ul)]

\* A statement list of n statements.
ListOf(role, n, brk, cont) ==
  [FrameOf("list", "enter") EXCEPT !.tag = role, !.n = n,
                                   !.brk = brk, !.cont = cont]

\* A call of run_unwind_frame (tag), run_unwind_protect () ("one") or
\* run_all_unwind_protects () ("all").
RunOf(tag) == [FrameOf("run", "pop") EXCEPT !.tag = tag]

\* The running frame is replaced, goes to pc, or also counts down.
Top(fr) == [cs EXCEPT ![Depth] = fr]
Goto(pc) == cs' = Top([Running EXCEPT !.pc = pc])
Counted(pc) == Top([Running EXCEPT !.pc = pc, !.n = @ - 1])
Call(fr, pc) == cs' = Append(Top([Running EXCEPT !.pc = pc]), fr)
Return == cs' = SubSeq(cs, 1, Depth - 1)

(***************************************************************************)
(* The unwind_protect list and the messages                                *)
(***************************************************************************)

ElemOf(e, f) == [e |-> e, tag |-> "one", val |-> 0, d |-> 0, f |-> f,
                 brk |-> FALSE, cont |-> FALSE, flag |-> FALSE]

Mark(tag) == [ElemOf("mark", NoFn) EXCEPT !.tag = tag]
\* Not the code: a mutant of Saved.
SavedLate(v) == [ElemOf("restore", NoFn) EXCEPT !.tag = v, !.val = 1]
Saved(v) == [ElemOf("restore", NoFn) EXCEPT !.tag = v, !.val = g[v]]
SavedCount(e, f, d) == [ElemOf(e, f) EXCEPT !.d = d]

Marks(tag) == {i \in 1 .. Len(ul) : ul[i].e = "mark" /\ ul[i].tag = tag}
BufferMarks == {i \in 1 .. Len(ul) : ul[i].e = "restore" /\ ul[i].tag = "buf"}

\* The last of some places in a sequence, 0 if there is none.
Latest(S) ==
  IF \E i \in S : \A j \in S : j <= i
  THEN CHOOSE i \in S : \A j \in S : j <= i ELSE 0

\* Not the code: a mutant of Discarded.
DiscardedAll(tag) == <<>>

\* discard_unwind_frame: pop without running, up to the mark; everything if
\* there is no such mark.
Discarded(tag) == SubSeq(ul, 1, Latest(Marks(tag)) - 1)

\* The try commands and two-argument evals whose first part is executing.
TryBodies ==
  {i \in 1 .. Depth : /\ cs[i].k \in {"try", "eval"} /\ cs[i].flag
                      /\ cs[i].pc \in {"body", "parse"}}

\* verror: the message is buffered or printed.
Say ==
  IF g["buf"] = 1
  THEN emb' = emb \cup {Latest(BufferMarks)} /\ UNCHANGED leak
  ELSE leak' = (leak \/ TryBodies # {}) /\ UNCHANGED emb
Silent == UNCHANGED <<emb, leak>>

\* Not the code: a mutant of Less.
LessAlways(n) == n - 1

\* quit_loop_now and its twins: leave one level of break.
Less(n) == IF n > 0 THEN n - 1 ELSE n
\* Not the code: a mutant of Jumping.
JumpingNotReturning == \E v \in {"brk", "cont"} : g[v] # 0
Jumping == \E v \in {"brk", "cont", "ret"} : g[v] # 0

(***************************************************************************)
(* main_loop                                                               *)
(***************************************************************************)

Init ==
  /\ cs = <<[k |-> "main", pc |-> "read", tag |-> "plain", n |-> 0,
             f |-> NoFn, brk |-> FALSE, cont |-> FALSE, flag |-> FALSE,
             base |-> 0]>>
  /\ ul = <<>>
  /\ g = [v \in Flags |-> 0]
  /\ fn = [f \in Fn |-> [depth |-> 0, ctx |-> <<>>, sym |-> 0, args |-> 0,
                         nargs |-> 0, vr |-> 0]]
  /\ cur = [fun |-> NoFn, tab |-> NoFn]
  /\ emb = {} /\ txt = {} /\ leak = FALSE
  /\ intr = 0

\* Read a command and evaluate it; reset_parser clears error_state, but none
\* of the other flags.
MainRead ==
  /\ At("main", "read")
  /\ g' = [g EXCEPT !["err"] = 0]
  /\ cur' = [cur EXCEPT !.tab = NoFn]
  /\ \E n \in 1 .. MaxList : Call(ListOf("cmd", n, FALSE, FALSE), "eval")
  /\ UNCHANGED <<ul, fn, txt, intr>> /\ Silent

\* Only a session that is not interactive looks at the flags afterwards.
MainEval ==
  /\ At("main", "eval")
  /\ \/ /\ Interactive
        /\ Goto("read") /\ UNCHANGED g
     \/ /\ ~ Interactive
        /\ g' = [g EXCEPT !["ret"] = 0, !["brk"] = Less(@)]
        /\ Goto(IF g["ret"] # 0 \/ g["brk"] # 0 \/ g["err"] # 0
                THEN "quit" ELSE "read")
  /\ UNCHANGED <<ul, fn, cur, txt, intr>> /\ Silent

\* Not the code: a mutant of MainJumped.
MainJumpedElsewhere ==
  /\ At("main", "jumped")
  /\ Goto("read")
  /\ UNCHANGED <<ul, g, fn, cur, txt, intr>> /\ Silent

\* The second return of setjmp (toplevel) in main_loop; on the systems other
\* than this port it does not run the protections.
MainJumped ==
  /\ At("main", "jumped")
  /\ Call(RunOf("all"), "read")
  /\ UNCHANGED <<ul, g, fn, cur, txt, intr>> /\ Silent

(***************************************************************************)
(* tree_statement_list::eval                                               *)
(***************************************************************************)

\* The list is about to evaluate a statement.
AtStatement ==
  /\ Running.k = "list" /\ Running.n > 0
  /\ Running.pc = "next" \/ (Running.pc = "enter" /\ g["err"] = 0)

ListEnd ==
  /\ Running.k = "list"
  /\ \/ Running.pc = "enter" /\ g["err"] # 0
     \/ Running.pc = "check" /\ (g["err"] # 0 \/ Jumping \/ Running.n = 0)
  /\ Return
  /\ UNCHANGED <<ul, g, fn, cur, txt, intr>> /\ Silent

ListNext ==
  /\ At("list", "check") /\ g["err"] = 0 /\ ~ Jumping /\ Running.n > 0
  /\ Goto("next")
  /\ UNCHANGED <<ul, g, fn, cur, txt, intr>> /\ Silent

Stepped == Counted("check")

\* A statement that neither fails nor moves control.
Simple ==
  /\ "simple" \in StmtKinds
  /\ cs' = Stepped
  /\ UNCHANGED <<ul, g, fn, cur, txt, intr>> /\ Silent

\* error (MSG), error ("MSG\n") and usage (MSG) leave error_state 1, -2, -1.
Raise(e) ==
  /\ "error" \in StmtKinds
  /\ cs' = Stepped
  /\ g' = [g EXCEPT !["err"] = e]
  /\ Say
  /\ UNCHANGED <<ul, fn, cur, txt, intr>>

Warn ==
  /\ "warning" \in StmtKinds
  /\ cs' = Stepped
  /\ Say
  /\ UNCHANGED <<ul, g, fn, cur, txt, intr>>

\* break, continue and return set a flag; break and continue are no-ops where
\* make_break_command and make_continue_command do not accept them.
SetJump(v) ==
  /\ v \in StmtKinds
  /\ v = "brk" => Running.brk
  /\ v = "cont" => Running.cont
  /\ cs' = Stepped
  /\ g' = [g EXCEPT ![v] = 1]
  /\ UNCHANGED <<ul, fn, cur, txt, intr>> /\ Silent

While ==
  /\ "while" \in StmtKinds /\ Depth < MaxStack
  /\ cs' = Append(Stepped, [FrameOf("while", "test") EXCEPT !.n = MaxIter])
  /\ UNCHANGED <<ul, g, fn, cur, txt, intr>> /\ Silent

For ==
  /\ "for" \in StmtKinds /\ Depth < MaxStack
  /\ \E n \in 0 .. MaxIter :
       cs' = Append(Stepped, [FrameOf("for", "assign") EXCEPT !.n = n])
  /\ UNCHANGED <<ul, g, fn, cur, txt, intr>> /\ Silent

If ==
  /\ "if" \in StmtKinds /\ Depth < MaxStack
  /\ \E n \in 1 .. MaxList :
       cs' = Append(Stepped, ListOf("plain", n, Running.brk, Running.cont))
  /\ UNCHANGED <<ul, g, fn, cur, txt, intr>> /\ Silent

\* tree_try_catch_command::eval, as far as the start of its body.
Try(hasCatch) ==
  /\ (IF hasCatch THEN "try" ELSE "trynocatch") \in StmtKinds
  /\ Depth < MaxStack
  /\ ul' = ul \o <<Mark("tree_try_catch::eval"),
                   [ElemOf("catch", NoFn) EXCEPT !.brk = Running.brk,
                      !.cont = Running.cont, !.flag = hasCatch]>>
              \o (IF hasCatch THEN <<Saved("buf")>> ELSE <<>>)
  /\ g' = IF hasCatch THEN [g EXCEPT !["buf"] = 1] ELSE g
  /\ \E n \in 1 .. MaxList :
       cs' = Stepped \o
             <<[FrameOf("try", "body") EXCEPT !.flag = hasCatch, !.n = g["buf"]],
               [ListOf("try", n, Running.brk, Running.cont)
                  EXCEPT !.base = Len(ul')]>>
  /\ UNCHANGED <<fn, cur, txt, intr>> /\ Silent

\* tree_unwind_protect_command::eval, as far as the start of its body.
UnwindProtect ==
  /\ "unwind" \in StmtKinds /\ Depth < MaxStack
  /\ ul' = Append(ul, [ElemOf("cleanup", NoFn) EXCEPT !.brk = Running.brk,
                                                      !.cont = Running.cont])
  /\ \E n \in 1 .. MaxList :
       cs' = Stepped \o
             <<FrameOf("unw", "body"),
               [ListOf("protected", n, Running.brk, Running.cont)
                  EXCEPT !.base = Len(ul')]>>
  /\ UNCHANGED <<g, fn, cur, txt, intr>> /\ Silent

CallFunction(f) ==
  /\ "call" \in StmtKinds /\ Depth < MaxStack
  /\ cs' = Append(Stepped, [FrameOf("call", "begin") EXCEPT !.f = f])
  /\ UNCHANGED <<ul, g, fn, cur, txt, intr>> /\ Silent

\* A script file, or source (FILE).
Source ==
  /\ "script" \in StmtKinds /\ Depth < MaxStack
  /\ \E n \in 1 .. MaxList :
       cs' = Append(Stepped, [FrameOf("script", "begin") EXCEPT !.n = n])
  /\ UNCHANGED <<ul, g, fn, cur, txt, intr>> /\ Silent

\* Feval with one or with two strings; the code under it is parsed anew, so
\* break is accepted only if a script is being read, and continue never.
Eval(hasCatch) ==
  /\ (IF hasCatch THEN "eval2" ELSE "eval1") \in StmtKinds
  /\ Depth < MaxStack
  /\ ul' = Append(ul, Mark("Feval"))
           \o (IF hasCatch THEN <<Saved("buf")>> ELSE <<>>)
  /\ g' = IF hasCatch THEN [g EXCEPT !["buf"] = 1] ELSE g
  /\ cs' = Append(Stepped, [FrameOf("eval", "parse") EXCEPT !.flag = hasCatch])
  /\ UNCHANGED <<fn, cur, txt, intr>> /\ Silent

Statement ==
  /\ AtStatement
  /\ \/ Simple \/ Warn \/ While \/ For \/ If \/ UnwindProtect \/ Source
     \/ \E e \in {1, -1, -2} : Raise(e)
     \/ \E v \in {"brk", "cont", "ret"} : SetJump(v)
     \/ \E b \in BOOLEAN : Try(b) \/ Eval(b)
     \/ \E f \in Fn : CallFunction(f)

(***************************************************************************)
(* Loops                                                                   *)
(***************************************************************************)

WhileTrue ==
  /\ At("while", "test") /\ Running.n > 0
  /\ \E n \in 1 .. MaxList :
       cs' = Append(Counted("after"),
                    ListOf("plain", n, TRUE, TRUE))
  /\ UNCHANGED <<ul, g, fn, cur, txt, intr>> /\ Silent

WhileFalse ==
  /\ At("while", "test")
  /\ Return
  /\ UNCHANGED <<ul, g, fn, cur, txt, intr>> /\ Silent

\* is_logically_true fails: the loop ends with error_state set.
WhileFails ==
  /\ At("while", "test") /\ "error" \in StmtKinds
  /\ Return
  /\ g' = [g EXCEPT !["err"] = 1]
  /\ Say
  /\ UNCHANGED <<ul, fn, cur, txt, intr>>

ForNext ==
  /\ At("for", "assign") /\ Running.n > 0 /\ g["err"] = 0
  /\ \E n \in 1 .. MaxList :
       cs' = Append(Counted("after"),
                    ListOf("plain", n, TRUE, TRUE))
  /\ UNCHANGED <<ul, g, fn, cur, txt, intr>> /\ Silent

\* Not the code: a mutant of ForAssignFails.
ForAssignFailsForever ==
  /\ At("for", "assign") /\ Running.n > 0
  /\ g["err"] # 0 \/ "error" \in StmtKinds
  /\ g' = [g EXCEPT !["err"] = IF @ = 0 THEN 1 ELSE @]
  /\ Say
  /\ UNCHANGED <<cs, ul, fn, cur, txt, intr>>

\* do_for_loop_once returns with quit FALSE when the assignment to the loop
\* variable fails: the remaining steps are taken, each of them failing.
ForAssignFails ==
  /\ At("for", "assign") /\ Running.n > 0
  /\ g["err"] # 0 \/ "error" \in StmtKinds
  /\ cs' = Counted("assign")
  /\ g' = [g EXCEPT !["err"] = IF @ = 0 THEN 1 ELSE @]
  /\ Say
  /\ UNCHANGED <<ul, fn, cur, txt, intr>>

ForEnd ==
  /\ At("for", "assign") /\ Running.n = 0
  /\ Return
  /\ UNCHANGED <<ul, g, fn, cur, txt, intr>> /\ Silent

\* After the body: leave on an error, else quit_loop_now.
LoopAfter ==
  /\ Running.k \in {"while", "for"} /\ Running.pc = "after"
  /\ \/ /\ g["err"] # 0
        /\ Return /\ UNCHANGED g
     \/ /\ g["err"] = 0
        /\ g' = [g EXCEPT !["cont"] = Less(@), !["brk"] = Less(@)]
        /\ IF g["ret"] # 0 \/ g["brk"] # 0 \/ g'["cont"] # 0
           THEN Return
           ELSE Goto(IF Running.k = "while" THEN "test" ELSE "assign")
  /\ UNCHANGED <<ul, fn, cur, txt, intr>> /\ Silent

(***************************************************************************)
(* try and unwind_protect                                                  *)
(***************************************************************************)

\* The messages of a try that went well stay in error_message_buffer.
Aged(i) == {IF j = i THEN 0 ELSE j : j \in emb}

TryFailed ==
  /\ At("try", "body") /\ Running.flag /\ g["err"] # 0
  /\ g' = [g EXCEPT !["err"] = 0]
  /\ Call(RunOf("tree_try_catch::eval"), "caught")
  /\ UNCHANGED <<ul, fn, cur, txt, intr>> /\ Silent

TrySucceeded ==
  /\ At("try", "body") /\ ~ (Running.flag /\ g["err"] # 0)
  /\ g' = [g EXCEPT !["err"] = 0, !["buf"] = Running.n]
  /\ ul' = Discarded("tree_try_catch::eval")
  /\ Return
  /\ emb' = Aged(Latest(BufferMarks))
  /\ UNCHANGED <<fn, cur, txt, leak, intr>>

\* The end of the unwind_protect body: run_unwind_protect.  flag remembers
\* whether the body failed.
UnwindBodyDone ==
  /\ At("unw", "body")
  /\ cs' = Append(Top([Running EXCEPT !.pc = "cleaned",
                                      !.flag = (g["err"] # 0)]),
                   RunOf("one"))
  /\ UNCHANGED <<ul, g, fn, cur, txt, intr>> /\ Silent

\* do_unwind_protect_cleanup_code, up to its list.
CleanupBegin ==
  /\ At("cleanup", "begin")
  /\ ul' = ul \o <<Saved("err"), Saved("ret"), Saved("brk")>>
  /\ g' = [g EXCEPT !["err"] = 0, !["ret"] = 0, !["brk"] = 0]
  /\ \E n \in 1 .. MaxList :
       Call([ListOf("cleanup", n, Running.brk, Running.cont)
               EXCEPT !.base = Len(ul')], "brk")
  /\ UNCHANGED <<fn, cur, txt, intr>> /\ Silent

\* do_catch_code, up to its list: bind_global_error_variable ...
CatchBind ==
  /\ At("catch", "begin")
  /\ g' = [g EXCEPT !["buf"] = 0]
  /\ txt' = emb /\ emb' = {}
  /\ Goto("protect")
  /\ UNCHANGED <<ul, fn, cur, leak, intr>>

\* ... and the protections it adds.
CatchProtect ==
  /\ At("catch", "protect")
  /\ ul' = ul \o <<ElemOf("clearerr", NoFn), Saved("ret"), Saved("brk")>>
  /\ g' = [g EXCEPT !["ret"] = 0, !["brk"] = 0]
  /\ IF Running.flag
     THEN \E n \in 1 .. MaxList :
            Call([ListOf("catch", n, Running.brk, Running.cont)
                    EXCEPT !.base = Len(ul')], "brk")
     ELSE Goto("brk")
  /\ UNCHANGED <<fn, cur, txt, intr>> /\ Silent

\* After the list of either: restore breaking ...
RestoreBreaking ==
  /\ Running.k \in {"catch", "cleanup"} /\ Running.pc = "brk"
  /\ Call(RunOf("one"), "ret")
  /\ UNCHANGED <<ul, g, fn, cur, txt, intr>> /\ Silent

\* ... leave one level of it, and keep a return of the list itself.
RestoreReturning ==
  /\ Running.k \in {"catch", "cleanup"} /\ Running.pc = "ret"
  /\ g' = [g EXCEPT !["brk"] = Less(@)]
  /\ IF g["ret"] # 0
     THEN ul' = SubSeq(ul, 1, Len(ul) - 1) /\ Goto("err")
     ELSE Call(RunOf("one"), "err") /\ UNCHANGED ul
  /\ UNCHANGED <<fn, cur, txt, intr>> /\ Silent

\* Not the code: a mutant of RestoreLast.
RestoreLastNever ==
  /\ Running.k \in {"catch", "cleanup"} /\ Running.pc = "err"
  /\ ul' = SubSeq(ul, 1, Len(ul) - 1) /\ Goto("done")
  /\ UNCHANGED <<g, fn, cur, txt, intr>> /\ Silent

\* The last run_unwind_protect: clear_global_error_variable for a catch,
\* error_state for a cleanup, unless the cleanup code itself failed.
RestoreLast ==
  /\ Running.k \in {"catch", "cleanup"} /\ Running.pc = "err"
  /\ IF Running.k = "cleanup" /\ g["err"] # 0
     THEN ul' = SubSeq(ul, 1, Len(ul) - 1) /\ Goto("done")
     ELSE Call(RunOf("one"), "done") /\ UNCHANGED ul
  /\ UNCHANGED <<g, fn, cur, txt, intr>> /\ Silent

(***************************************************************************)
(* tree_function::eval                                                     *)
(***************************************************************************)

\* Not the code: a mutant of TooDeep.
TooDeepLate(d) == d > MaxDepth + 1

\* The two tests on call_depth.
TooDeep(d) == d > MaxDepth
\* Not the code: a mutant of NeedsContext.
NeedsContextLate(d) == d > 2
NeedsContext(d) == d > 1

CallBegin ==
  /\ At("call", "begin")
  /\ LET f == Running.f
         d == fn[f].depth + 1
     IN /\ ul' = ul \o <<Mark("func_eval"), SavedCount("depth", f, d - 1)>>
        /\ fn' = [fn EXCEPT ![f].depth = d]
        /\ IF TooDeep(d)
           THEN Goto("exit") /\ g' = [g EXCEPT !["err"] = 1] /\ Say
           ELSE Goto(IF NeedsContext(d) THEN "push" ELSE "bind")
                /\ UNCHANGED g /\ Silent
  /\ UNCHANGED <<cur, txt, intr>>

\* A recursive call gets a symbol table context and a vr_list of its own.
CallPush ==
  /\ At("call", "push")
  /\ LET f == Running.f
     IN /\ fn' = [fn EXCEPT ![f].ctx = Append(@, fn[f].sym), ![f].sym = 0,
                            ![f].vr = fn[f].depth]
        /\ ul' = ul \o <<ElemOf("popctx", f), SavedCount("vr", f, fn[f].vr),
                         ElemOf("delvr", f)>>
  /\ Goto("bind")
  /\ UNCHANGED <<g, cur, txt, intr>> /\ Silent

\* Bind curr_sym_tab, curr_function and the arguments, and run the body; a
\* magic colon among the arguments is an error.
CallBind ==
  /\ At("call", "bind")
  /\ LET f == Running.f
         d == fn[f].depth
     IN /\ ul' = ul \o <<ElemOf("clearsym", f), ElemOf("tab", cur.tab),
                         ElemOf("fun", cur.fun), ElemOf("clearargs", f),
                         SavedCount("nargs", f, fn[f].nargs)>>
        /\ fn' = [fn EXCEPT ![f].sym = d, ![f].args = d, ![f].nargs = d,
                            ![f].vr = d]
        /\ cur' = [fun |-> f, tab |-> f]
  /\ \/ /\ \E n \in 1 .. MaxList :
             Call([ListOf("fcn", n, TRUE, FALSE) EXCEPT !.base = Len(ul')],
                  "body")
        /\ UNCHANGED g /\ Silent
     \/ /\ "error" \in StmtKinds
        /\ Goto("exit") /\ g' = [g EXCEPT !["err"] = 1] /\ Say
  /\ UNCHANGED <<txt, intr>>

\* The flags end with the body; traceback_error.
CallBodyDone ==
  /\ At("call", "body")
  /\ g' = [g EXCEPT !["ret"] = 0, !["brk"] = Less(@),
                    !["err"] = IF @ = 1 THEN -1 ELSE @]
  /\ IF g["err"] \in {1, -1} THEN Say ELSE Silent
  /\ Goto("exit")
  /\ UNCHANGED <<ul, fn, cur, txt, intr>>

CallExit ==
  /\ At("call", "exit")
  /\ Call(RunOf("func_eval"), "done")
  /\ UNCHANGED <<ul, g, fn, cur, txt, intr>> /\ Silent

(***************************************************************************)
(* parse_fcn_file and parse_and_execute                                    *)
(***************************************************************************)

ScriptBegin ==
  /\ At("script", "begin")
  /\ ul' = ul \o <<Mark("parse_fcn_file"), Saved("rsf"),
                   Mark("parse_and_execute"), ElemOf("tab", cur.tab)>>
  /\ g' = [g EXCEPT !["rsf"] = 1]
  /\ Goto("loop")
  /\ UNCHANGED <<fn, cur, txt, intr>> /\ Silent

ScriptCommand ==
  /\ At("script", "loop") /\ Running.n > 0
  /\ g' = [g EXCEPT !["err"] = 0]
  /\ \E n \in 1 .. MaxList :
       cs' = Append(Counted("after"),
                    ListOf("script", n, TRUE, FALSE))
  /\ UNCHANGED <<ul, fn, cur, txt, intr>> /\ Silent

ScriptParseError ==
  /\ At("script", "loop") /\ "error" \in StmtKinds
  /\ g' = [g EXCEPT !["err"] = 1]
  /\ Say
  /\ Goto("exit")
  /\ UNCHANGED <<ul, fn, cur, txt, intr>>

ScriptEnd ==
  /\ At("script", "loop") /\ Running.n = 0
  /\ g' = [g EXCEPT !["err"] = 0]
  /\ Goto("exit")
  /\ UNCHANGED <<ul, fn, cur, txt, intr>> /\ Silent

ScriptAfter ==
  /\ At("script", "after")
  /\ g' = [g EXCEPT !["ret"] = 0, !["brk"] = Less(@)]
  /\ IF g["err"] \in {1, -1} THEN Say ELSE Silent
  /\ Goto(IF g["err"] # 0 \/ g["ret"] # 0 \/ g["brk"] # 0
          THEN "exit" ELSE "loop")
  /\ UNCHANGED <<ul, fn, cur, txt, intr>>

\* The second return of setjmp (toplevel) in parse_and_execute.
ScriptJumped ==
  /\ At("script", "jumped")
  /\ g' = [g EXCEPT !["err"] = IF @ = 0 THEN 1 ELSE @]
  /\ IF g["err"] # -2 THEN Say ELSE Silent
  /\ Goto("exit")
  /\ UNCHANGED <<ul, fn, cur, txt, intr>>

\* Not the code: a mutant of ScriptExit.
ScriptExitOuter ==
  /\ At("script", "exit")
  /\ Call(RunOf("parse_fcn_file"), "leave")
  /\ UNCHANGED <<ul, g, fn, cur, txt, intr>> /\ Silent

ScriptExit ==
  /\ At("script", "exit")
  /\ Call(RunOf("parse_and_execute"), "leave")
  /\ UNCHANGED <<ul, g, fn, cur, txt, intr>> /\ Silent

\* toplevel is restored; the rest of parse_fcn_file.
ScriptLeave ==
  /\ At("script", "leave")
  /\ Call(RunOf("parse_fcn_file"), "done")
  /\ UNCHANGED <<ul, g, fn, cur, txt, intr>> /\ Silent

(***************************************************************************)
(* Feval and eval_string                                                   *)
(***************************************************************************)

EvalParse ==
  /\ Running.k = "eval" /\ Running.pc \in {"parse", "parse2"}
  /\ LET next == IF Running.pc = "parse" THEN "body" ELSE "exit"
     IN \/ /\ g' = [g EXCEPT !["err"] = 0]
           /\ \E n \in 1 .. MaxList :
                Call(ListOf("string", n, g["rsf"] = 1, FALSE), next)
           /\ Silent
        \/ /\ "error" \in StmtKinds
           /\ g' = [g EXCEPT !["err"] = 1]
           /\ Say
           /\ Goto(next)
  /\ UNCHANGED <<ul, fn, cur, txt, intr>>

EvalFailed ==
  /\ At("eval", "body") /\ Running.flag /\ g["err"] # 0
  /\ g' = [g EXCEPT !["err"] = 0, !["buf"] = 0]
  /\ txt' = emb /\ emb' = {}
  /\ ul' = Append(ul, ElemOf("clearerr", NoFn))
  /\ Goto("parse2")
  /\ UNCHANGED <<fn, cur, leak, intr>>

EvalSucceeded ==
  /\ At("eval", "body") /\ ~ (Running.flag /\ g["err"] # 0)
  /\ emb' = IF Running.flag THEN Aged(Latest(BufferMarks)) ELSE emb
  /\ Goto("exit")
  /\ UNCHANGED <<ul, g, fn, cur, txt, leak, intr>>

EvalExit ==
  /\ At("eval", "exit")
  /\ Call(RunOf("Feval"), "done")
  /\ UNCHANGED <<ul, g, fn, cur, txt, intr>> /\ Silent

\* The commands and calls that have nothing left to do.
Leave ==
  /\ \/ At("try", "caught") \/ At("unw", "cleaned")
     \/ Running.k \in {"call", "script", "eval", "catch", "cleanup", "run"}
        /\ Running.pc = "done"
  /\ Return
  /\ UNCHANGED <<ul, g, fn, cur, txt, intr>> /\ Silent

(***************************************************************************)
(* run_unwind_protect, run_unwind_frame and run_all_unwind_protects        *)
(***************************************************************************)

\* What the cleanup function of an element does to the function it names.
FnAfter(el) ==
  LET s == fn[el.f]
  IN CASE el.e = "depth"     -> [s EXCEPT !.depth = el.d]
       [] el.e = "popctx"    ->
            IF s.ctx = <<>> THEN s
            ELSE [s EXCEPT !.sym = s.ctx[Len(s.ctx)],
                           !.ctx = SubSeq(s.ctx, 1, Len(s.ctx) - 1)]
       [] el.e = "vr"        -> [s EXCEPT !.vr = el.d]
       [] el.e = "delvr"     -> [s EXCEPT !.vr = 0]
       [] el.e = "clearsym"  -> [s EXCEPT !.sym = 0]
       [] el.e = "clearargs" -> [s EXCEPT !.args = 0]
       [] el.e = "nargs"     -> [s EXCEPT !.nargs = el.d]

\* Pop one element and run it.
RunPop ==
  /\ At("run", "pop") /\ ul # <<>>
  /\ LET el == ul[Len(ul)]
         pc == IF Running.tag = "one"
                  \/ (el.e = "mark" /\ el.tag = Running.tag)
               THEN "done" ELSE "pop"
     IN /\ ul' = SubSeq(ul, 1, Len(ul) - 1)
        /\ g' = IF el.e = "restore" THEN [g EXCEPT ![el.tag] = el.val] ELSE g
        /\ fn' = IF el.e \in FnElems THEN [fn EXCEPT ![el.f] = FnAfter(el)]
                 ELSE fn
        /\ cur' = CASE el.e = "tab" -> [cur EXCEPT !.tab = el.f]
                    [] el.e = "fun" -> [cur EXCEPT !.fun = el.f]
                    [] OTHER -> cur
        /\ IF el.e = "clearerr" THEN emb' = {} /\ txt' = {}
           ELSE UNCHANGED <<emb, txt>>
        /\ IF el.e \in {"catch", "cleanup"}
           THEN Call([FrameOf(el.e, "begin") EXCEPT !.brk = el.brk,
                        !.cont = el.cont, !.flag = el.flag,
                        !.base = Len(ul')], pc)
           ELSE Goto(pc)
  /\ UNCHANGED <<leak, intr>>

RunEmpty ==
  /\ At("run", "pop") /\ ul = <<>>
  /\ Goto("done")
  /\ UNCHANGED <<ul, g, fn, cur, txt, intr>> /\ Silent

(***************************************************************************)
(* sigint_handler: jump_to_top_level, to the innermost setjmp (toplevel).  *)
(* The signal is taken where user code runs: at a statement or a loop test.*)
(***************************************************************************)

Interruptible ==
  \/ AtStatement \/ At("list", "check")
  \/ At("while", "test") \/ At("for", "assign")

Setjmps ==
  {i \in 1 .. Depth : /\ cs[i].k = "script"
                      /\ cs[i].pc \in {"loop", "after", "jumped", "exit",
                                       "leave"}}

Interrupt ==
  /\ intr < MaxIntr /\ Interruptible
  /\ intr' = intr + 1
  /\ \E i \in Setjmps \cup {1} :
       /\ \A j \in Setjmps : j <= i
       /\ cs' = Append(SubSeq(cs, 1, i - 1), [cs[i] EXCEPT !.pc = "jumped"])
  /\ UNCHANGED <<ul, g, fn, cur, txt>> /\ Silent

-----------------------------------------------------------------------------

Loops == \/ WhileTrue \/ WhileFalse \/ WhileFails \/ LoopAfter
         \/ ForNext \/ ForAssignFails \/ ForEnd

Protections == \/ TryFailed \/ TrySucceeded \/ UnwindBodyDone
               \/ CleanupBegin \/ CatchBind \/ CatchProtect
               \/ RestoreBreaking \/ RestoreReturning \/ RestoreLast

Calls == CallBegin \/ CallPush \/ CallBind \/ CallBodyDone \/ CallExit

Scripts == \/ ScriptBegin \/ ScriptCommand \/ ScriptParseError \/ ScriptEnd
           \/ ScriptAfter \/ ScriptJumped \/ ScriptExit \/ ScriptLeave

Evals == EvalParse \/ EvalFailed \/ EvalSucceeded \/ EvalExit

\* What the evaluator does by itself once it has been given a command.
Work == \/ MainEval \/ MainJumped
        \/ ListEnd \/ ListNext \/ Statement
        \/ Loops \/ Protections \/ Calls \/ Scripts \/ Evals
        \/ Leave \/ RunPop \/ RunEmpty

Next == MainRead \/ Work \/ Interrupt

Spec == Init /\ [][Next]_vars

\* The evaluator is one thread of control that never waits for anybody.
FairSpec == Spec /\ WF_vars(Work)

-----------------------------------------------------------------------------
(***************************************************************************)
(* Properties                                                              *)
(***************************************************************************)

AtPrompt == Depth = 1 /\ At("main", "read")

\* Every construct gets back the unwind_protect_list as it left it: while it
\* runs, the elements below its base are untouched, and when it is left the
\* list ends at its base again.  A construct that popped one element too few
\* or too many would make all the enclosing ones run the wrong cleanups.
UnwindBalanced ==
  /\ \A i \in 1 .. Depth : cs[i].k # "run" => cs[i].base <= Len(ul)
  /\ Running.k # "run" /\ Running.pc \in {"done", "caught", "cleaned"}
       => Running.base = Len(ul)

\* However the last command ended -- normally, by an error, by an interrupt
\* that threw the C stack away -- the prompt finds no protection pending, no
\* call in progress, no context pushed, no local left and messages printed.
PromptClean ==
  AtPrompt =>
    /\ ul = <<>> /\ g["buf"] = 0 /\ g["rsf"] = 0 /\ txt = {}
    /\ cur.fun = NoFn
    /\ \A f \in Fn : fn[f].depth = 0 /\ fn[f].ctx = <<>> /\ fn[f].sym = 0

\* error_state, breaking and returning stop everything but cleanup: no
\* statement is evaluated while one of them is set.  (continuing is the
\* subject of CleanupWhole.)
NothingRunsWhileJumping ==
  AtStatement => g["err"] = 0 /\ g["brk"] = 0 /\ g["ret"] = 0

\* stmt.tex on unwind_protect: the statements in its cleanup part are
\* guaranteed to be executed regardless of how control exits the body.  A
\* flag that is set when the cleanup list starts stops it after its first
\* statement.
CleanupWhole ==
  AtStatement /\ Running.pc = "enter" /\ Running.tag = "cleanup" => ~ Jumping

\* stmt.tex on try: no warnings or error messages are printed while its body
\* is executing.
QuietTry == ~ leak

\* Messages are held back only while a try or an eval with a catch part is
\* pending that will restore buffer_error_messages: no error message of a
\* plain command can disappear.
BufferedOnlyInTry == g["buf"] = 1 => BufferMarks # {}

\* An error in the body of an unwind_protect is not lost to its cleanup code:
\* error_state is set again afterwards, also when the cleanup code used try,
\* loops or calls of its own.
ErrorSurvivesCleanup ==
  At("unw", "cleaned") /\ Running.flag => g["err"] # 0

\* func.tex on va_arg: it returns the next argument of the function that calls
\* it.  num_args_passed and args_passed belong to the running activation.
ArgsOfActivation ==
  AtStatement /\ cur.fun # NoFn =>
    fn[cur.fun].args = fn[cur.fun].depth

\* The statements of a function see the locals, the argument count and the
\* return list of their own activation, also after a recursive call of the
\* function has come back or failed.
LocalsOfActivation ==
  AtStatement /\ cur.fun # NoFn =>
    LET s == fn[cur.fun] IN s.sym = s.depth /\ s.nargs = s.depth /\ s.vr = s.depth

\* max_recursion_depth holds: no statement is evaluated while a function is
\* deeper than that, whatever has failed, returned or been interrupted before.
RecursionLimited == AtStatement => \A f \in Fn : fn[f].depth <= MaxDepth

Cleanups == {i \in 1 .. Len(ul) : ul[i].e = "cleanup"}

\* A step never drops cleanup code without starting it.
CleanupNeverDropped ==
  [][Cardinality(Cleanups') < Cardinality(Cleanups)
       => Running'.k = "cleanup" /\ Running'.pc = "begin"]_vars

\* Every command comes to its end (its loops do) and the prompt returns, also
\* out of a loop whose assignment fails and out of an interrupt.
PromptReturns == []<>(AtPrompt \/ At("main", "quit"))
=============================================================================

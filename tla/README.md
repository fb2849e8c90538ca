# Octave 2.0.17 in TLA+

A verification project for the interpreter of Octave 2.0.17 as this repository
ports it to OS/2 (EMX). The program is one process with one thread: a
tree-walking evaluator, the global state it works on, signal handlers that run
on top of it, and child processes (pager, gnuplot, shell commands) that live and
die beside it. There is little parallelism and a lot of *non-local control*:
errors are a flag that everybody must look at, `break` and `return` are flags
too, an interrupt `longjmp`s out of any depth, and everything that has to be
undone is on one list of cleanup functions. That is where this code can be wrong
in ways a test hardly reaches, and that is what is modelled first. The one part
with real threads is the fifo server that the port brings along, and it is modelled
next. Then come the algorithms on shared data: reference counts, index vectors,
time stamps of function files, templates of `printf` and `scanf`.

Paths below are relative to `src/octave/octave-2.0.17/`, those of the fifo server to
`src/utils/mkfifo/` and those that begin with `libs/` to `src/`.

## 1. Inventory

`PROJECT.json` lists every component with its sources and its status. The parts
that keep state and have logic of their own:

| component | state it keeps | operations | interacts with |
|---|---|---|---|
| evaluator (`src/pt-cmd.cc`, `pt-misc.cc`, `pt-fcn.cc`) | the C stack; `breaking`, `continuing`, `returning`; per function `call_depth`, contexts, arguments | statement lists, loops, `if`, `try`, `unwind_protect`, calls | reads `error_state` after everything; pushes cleanups; saves symbol table contexts |
| `unwind_protect_list` (`src/unwind-prot.cc`) | one LIFO of cleanup functions and frame marks | add, begin/run/discard frame, run/discard one, run all | called by nearly every file; runs evaluator code itself (`catch` and cleanup parts) |
| top level (`src/toplev.cc`) | `toplevel` (a `jmp_buf`), `curr_function`, `curr_sym_tab`, `top_level_sym_tab` | `main_loop`, scripts, `eval`, `system`, exit | target of the interrupt's `longjmp` |
| error messages (`src/error.cc`) | `error_state`, `buffer_error_messages`, `error_message_buffer`, `__error_text__` | `verror`, `error`, `warning`, `usage` | `try`, `eval`, `unwind_protect` save and restore its flags |
| symbol tables (`src/symtab.cc`, `variables.cc`, `pt-fvc.cc`) | global, top-level and per-function tables of records that share reference-counted `symbol_def`s | define, assign, alias, global, clear, push/pop context, look-up and linking | identifiers of the tree keep pointers to records |
| children and signals (`src/sighandlers.cc`, `syswait.h`) | `octave_child_list` of pids with death handlers; dispositions of SIGINT and SIGCHLD | insert, remove, SIGCHLD handler, SIGINT handler, save/restore of dispositions | the handler runs between any two instructions of everything below |
| pager (`src/pager.cc`) | `external_pager`, its pid, `saved_interrupt_handler`, the output buffer | write, flush, clear, death handler | children and signals |
| plot stream (`src/pt-plot.cc`) | `plot_stream`, counters, temporary files | open, send, close, death handler | children and signals |
| commands (`src/toplev.cc` `system`, `oct-prcstrm.cc`, `libs/stdcpp/iopopen.c`) | the pipe, the child's status | run, read, close, wait | children and signals |
| stream list (`src/oct-stream.cc`, `file-io.cc`) | the array of open streams, slots 0 to 2 reserved | open, insert, remove, clear, look-up | process streams |
| formatted I/O (`src/oct-stream.cc`) | the stream's bits and `fail`, the element of the template, the matrix under construction, the value cache of `printf` | `printf`, `scanf`, `scanf` with `"C"` | stream list, values |
| function files (`src/variables.cc`, `parse.y`, `pt-fvc.cc`) | time stamps of files, readings and checks, the file of each function | out-of-date test, look-up on the path, reading, parsing, clear | symbol tables; editors change the files meanwhile |
| dynamic linking (`src/dynamic-ld.cc`) | loaded libraries | load, unload | function files |
| values (`src/ov.h`, `ov.cc`, `ov-*.cc`) | counted reps | copy, assign, convert, narrow, increment | arrays; an interrupt skips destructors |
| arrays and indices (`liboctave/Array.cc`, `Array-idx.h`, `Array2-idx.h`, `idx-vector.cc`) | counted `ArrayRep`s; a matrix's dimensions beside its data | copy on write, index, assign, delete, resize | values; built-in variables change the rules |
| mkfifo library (`libs/merlin/process/mkfifo.c`) | nothing between calls | create, remove, list, stop; starts the server | the server, over one pipe |
| mkfifo server (`nmpserv.c`, `nmp_thread.c`) | the list of fifos, one thread for each, one event semaphore | the commands of the library; each thread moves data between two pipes | any number of client processes, which may be killed |

Everything else is numerical code, file formats, text, or vendored code
(LAPACK, readline, kpathsea, f2c) and is listed in `PROJECT.json` as not modelled
with the reason.

What is hard, by kind, is the list `hazards` of `PROJECT.json`; each names the
line where it bites and the properties that watch it, or says why none does.

What makes each component correct:

* *evaluator and unwind_protect list* -- a construct leaves the list as it found
  it, whatever happened inside; nothing runs past an error, a break or a return;
  cleanup code always runs, once, completely and without swallowing the error
  that was pending; a function's activations do not see each other's locals,
  arguments and depth; after an interrupt the prompt finds no trace of the
  abandoned command.
* *error messages* -- held back only inside `try` and `eval`, never lost, and
  `__error_text__` is the text of the last one.
* *symbol tables* -- no record refers to a freed definition, locals are private,
  a global is the same variable wherever it is declared, a running function is
  not deleted.
* *children* -- a death handler runs only for its own dead child, a dead child is
  eventually reaped and its handler run, an object is not deleted while it is in
  use, the dispositions of the signals are what they were.
* *stream list* -- a number names the stream it was given out for.
* *formatted I/O* -- every value is printed once and in order, whatever the lengths
  of matrices, strings and templates; every item read stands in its place, however the
  matrix grew; both loops end.
* *function files* -- a changed file is reread before the function runs; a function
  whose file is what it was is not replaced; a running function is not unloaded.
* *values and arrays* -- sharing is invisible: who has a value has it alone, and
  what nobody has is freed; an index names the same elements when it is read, written
  and deleted through; a statement that fails changes nothing.
* *mkfifo* -- the server's list is a list of live, distinct fifos; every call returns;
  a removed fifo's thread ends; bytes arrive once and in order.

## 2. Plan

The modules in the order in which they are written, the most important
behaviour of the system first:

| # | module | component | abstract specification it is to implement | state |
|---|---|---|---|---|
| 1 | `Evaluator` | evaluator, unwind_protect list, error flags, top level | | done |
| 2 | `Evaluator_proofs`, `Restoring_proofs` | theorems about it | | all its invariants proved, one of them under three hypotheses |
| 3 | `Children`, `Children_proofs` | children and signals, pager, plotter, commands | | done; types, SIGCHLD, SIGINT, the plotter, the temporary files and the pager proved |
| 4 | `SymbolTable`, `SymbolTable_proofs` | symbol tables | every activation has its own variable or shares the global one, as invariants | done, proved |
| 5 | `FifoServer`, `FifoServer_proofs`, `FifoRelay`, `FifoRelay_proofs` | mkfifo library, server, threads | | done, the server's list and the data loop proved |
| 6 | `Indexing`, `IndexedVariable` | index vectors, indexed reading, assignment and deletion | the manual's account of indices, as properties | done |
| 7 | `CopyOnWrite`, `CopyOnWrite_proofs` | values and their storage | `Values`: every holder has its value alone | done, refinement proved |
| 8 | `FunctionFiles`, `FunctionFiles_proofs` | time stamps and reading of function files | a call runs what was in the file at the last prompt, as a property | done, proved |
| 9 | `FormattedIO` | `printf` and `scanf` | values meet conversions in order (`Expected`) | done |
| 10 | `StreamList` | stream list | a partial function from numbers to open streams | left |
| 11 | `Loading` | dynamic linking | a running function is not unloaded | left |

`Evaluator` and `SymbolTable` meet in the contexts of recursive calls:
`Evaluator` has the context stack of a function's table as a whole and decides
when it is pushed and popped (also by errors and interrupts); `SymbolTable` has
what one push or pop does to a record and takes calls as properly nested, which
is `LocalsOfActivation` of `Evaluator`. `Evaluator` and `Children` meet in the
interrupt and in `run_all_unwind_protects`, and both have a small model of it.
`SymbolTable` and `FunctionFiles` both have records that share definitions: the
first has everything that a program can do to them, the second only what the
files' time stamps do. `IndexedVariable` has what an indexed assignment
computes, `CopyOnWrite` in which storage it does so. `FifoServer` starts and ends
the threads whose loop is `FifoRelay`.

Theorems worth proving next: `FailureKeeps` of `IndexedVariable` and `Shrinks` of
`FormattedIO`, which need no induction over data. No module declares a RECURSIVE
operator.

## 3. Evaluator

The C++ recursion of `tree_*::eval` is an explicit stack `cs` of frames, each
with a program counter that stops before every call; the caller's frame goes on
when the callee's has been removed. The user's program is not part of the state:
a list frame chooses each statement when it gets there (`Statement`), so that
the model runs every program within the bounds, and the same loop body may do
different things in different iterations, which stands for every outcome of
the conditions.

| state | code |
|---|---|
| `cs` | the C stack between `main_loop` and the running construct |
| `ul` | `unwind_protect_list`; an element names the cleanup function and its argument |
| `g` | `error_state`, `breaking`, `continuing`, `returning`, `buffer_error_messages`, `reading_script_file` |
| `fn` | per `tree_function`: `call_depth`, the contexts of `sym_tab`, its live locals, `args_passed`, `num_args_passed`, `vr_list` |
| `cur` | `curr_function`, `curr_sym_tab` |
| `emb`, `txt` | which `try` or `eval` has written `error_message_buffer` and `__error_text__` |
| `leak` | history: a message was printed while a `try` body ran |
| `intr` | bound on interrupts |

Each frame kind has its actions, grouped as `Statement`, `Loops`,
`Protections`, `Calls`, `Scripts` and `Evals`; `RunPop` is `run_unwind_protect`,
`run_unwind_frame` and `run_all_unwind_protects` as they pop element by element
and call cleanup functions, which may be user code and fail, return, call or be
interrupted. `break` and `return` are accepted where the parser accepts them
(frames carry `brk` and `cont`). An interrupt cuts `cs` down to the innermost
`setjmp` (main loop or script) and leaves everything else, as `longjmp` does.

An interrupt is taken where user code runs: when a statement is about to be
evaluated or has been, and at the test of a loop. The windows of a few instructions inside C functions are not
modelled: between popping an element and calling it (`unwind-prot.cc:57`), between a
change and the registration of its undoing (`pt-fcn.cc:291-292`,
`pt-cmd.cc:610-611`), and around the installation of the jump buffers
(`toplev.cc:219-224`). In them the cleanup is lost; the hazards say so.
Formatting of messages and the traceback lines are left out.

## 4. Children

Here the grain is finer, because the SIGCHLD handler may run between any two
instructions: a step is as long as the code between two accesses to something
that a handler also touches. The handler is a frame on top of whatever ran, and
what it calls (death handlers, warnings that flush the pager, deletion of streams
that wait for their process) are frames on top of it.

| state | code |
|---|---|
| `cs`, `ul` | C stack, and the elements of the unwind_protect list that `flush_octave_stdout` and `system` push |
| `proc` | the processes: running, ending (pipe closed), zombie, reaped; the temporary file of an asynchronous one |
| `list` | `octave_child_list`: pid, handler, file of each slot, also of free ones |
| `sig` | dispositions of SIGINT and SIGCHLD, a pending SIGCHLD |
| `pager` | `external_pager`, its pid, `saved_interrupt_handler`, the two flushing flags, whether the buffer has output |
| `plot` | `plot_stream`, its pid |
| `cmd` | the command of `run_command_and_return_output`, `cmd_status` and what it returns |

The operating system is external: `Die` turns a process into a zombie at any
moment and makes SIGCHLD pending unless it is ignored; signals do not queue; a
signal may be delivered arbitrarily late. An ignored SIGCHLD leaves zombies that
can be waited for, which is what the code relies on under EMX. Pids are not
reused: a list element with an old pid would otherwise match a new process, and
then more goes wrong than is modelled.

`open_plot_stream` starts gnuplot in one step and assigns `plot_stream` in the next
(`pt-plot.cc:159`). SIGINT is not blocked there and jumps away under EMX; the gnuplot
it leaves has never been `plot_stream`'s, nothing refers to it, and it runs until octave
ends. The code does lose it, so `NoOrphanPlotter` excepts exactly that one
(`LostAtBirth`). The pager is started with SIGINT ignored, so nothing comes
between there.

## 5. SymbolTable

One name `x` in all tables. Names do not interact (the hash chains only find
records), so one is enough. `heap` is the memory of `symbol_def`s with their
counts and `next_elem`; `rec` has each table's record for `x` with its two context
stacks; `act` is the nesting of running functions. The member functions of
`symbol_def`, `symbol_record` and `symbol_table` are operators on a store, composed in the
order of the code; each statement is one action, since nothing interrupts these
functions in between. A program is any sequence of statements.

A definition that `maybe_delete` has freed becomes `"deleted"` while somebody
still points to it; memory nobody points to becomes `"free"` again, so the finite
heap is not a limit on programs. A function object that no definition holds any
more, and that does not run, is gone with its table.

`Mixing = FALSE` keeps a name from being a function and a declared global
*at the same time*. With `Mixing = TRUE` `RefsLive`, `CountCovers` and
`OwnValueKept` fail: of the function and the global the younger hides the older
through `next_elem` in the global record, and the tables that have an alias of the
upper definition share what it hides without being counted; when one of
them pops it at the end of a call, the hidden one becomes visible there, and the next
`clear` or definition frees it although it is in use. No document promises
anything for that mix, so it is recorded as a hazard.

`DeclaredShared` is about activations that have declared `x` global, which is what
`Declared` remembers. One declaration does not count, because the code returns before
it does anything (`variables.cc:1044`): the function is still linked to a definition
that an earlier call has declared, nobody had assigned it when that call
ended, so `clear` left the link, and meanwhile the global table has another definition, or none
(`StaleLink`). Such a function goes on with the old definition, and
`global x` does not share the new one, against `var.tex:96-98`; `StaleLink.cfg` finds that.

Left out: function files (the name is then looked up on the load path), `sv_fcn`
of builtin variables that refuse a value, read-only and eternal variables
(builtin functions are read-only), indexed assignment, `rename`,
`initialize_global_variables` (0 by default), `clear -x`, which does to the names
that do not match what `clear` does to those that do.

## 6. FifoServer and FifoRelay

OS/2 has no FIFOs; the port brings a library, `mkfifo`, whose server keeps a thread
for each of them. The library calls of several client processes, the server and the
threads are interleaved at every call that touches the control pipe, the list, a
structure of the heap or the event semaphore.

| state of `FifoServer` | code |
|---|---|
| `cl` | where each client is in `merlin_mkfifo`, `_remove`, `_list` or `_exit` |
| `ctl` | the control pipe: its state, who is connected, requests and answers in it |
| `coming`, `srv` | servers that have been spawned; the one that owns the pipe, with its local variables |
| `list`, `heap` | `_nmp_list_`; the `_named_pipe_` structures, where `free` leaves what is in them and `malloc` hands out any free cell |
| `hev`, `thr` | `_hev_`; the threads, which read their structure when they get to it |

Named pipes, threads and the semaphore of OS/2 are external. A thread, a pipe or the
spawning of the server may fail (`Fails`), a client may be killed in the middle
of a call (`Kills`), a server may have been started by hand (`Noexit`), a thread may
have to wait in `DosWrite` for somebody who reads (`Blocks`).

`CallReturns` names the two ways in which a call waits for ever, and the model has
both: the server waits for a semaphore that nobody will post because the thread was
not started (`Hung`, `nmpserv.c:79`), and a client waits for a server that it has
started once and that another client's command has ended (`Orphaned`,
`libs/merlin/process/mkfifo.c:45`). Besides, an answer may be thrown away by the disconnect before
it is read (`nmpserv.c:348`), a client that is killed while it is connected ends the
server (`nmpserv.c:323`), and a structure is freed while its thread still
reads it (`nmpserv.c:155`, `nmp_thread.c:93`). A thread writes `tid = -1` in a step of its
own when it has left its loop, perhaps into the structure of another fifo by then. If
there is memory for a structure but none for the copy of its name, the structure
is lost (`nmpserv.c:64-65`; `"lost"` cells, which `ListIntact` names).

`RemovedEnds` excepts a thread whose structure has been handed out again before it looked,
and one that is blocked in `DosWrite` (`nmp_thread.c:128`, `149`): nobody has to read a fifo, so
that may last for ever. What it says is that a thread which does come back from there
ends too.

`FifoRelay` is the loop of one thread between the two ends of its fifo, which
programs open, write, read and close at any time, also between the look at an
end (`DosPeekNPipe`) and what the thread does because of it. Bytes are numbered; `Way(e)`
is what is between the ends. `DosWrite` puts in one byte after the other
(`PutByte`) and may return when it has written a part only (`Written`): the rest is for a
later round, and until it is out the thread does not read that end. If it fails in the
middle, `count2w` has not been advanced and the whole is written again
(`WriteFails`, `nmp_thread.c:116-133`).

The properties say what this code does and no more: bytes come twice only when a write has
failed half way, and then the second time to the next program that opens the end (`again`);
bytes that were written are lost only when a write to their end has failed, so that
it is created anew (`failed`), or when the end was closed while older bytes of it
were still being written and it was therefore not read (`cut`, `nmp_thread.c:135`).
`MovesData`, which takes the comment at `nmp_thread.c:68` at its word and has no such
exception, does not hold.

## 7. Indexing and IndexedVariable

`Indexing` has the functions: `idx_vector_rep` with the conversion of zero-one vectors,
`freeze`, and `index`, `assign`, `maybe_delete_elements` and `resize` of `Array` and
`Array2`, for one and for two indices, in the order of the code, with its errors.
A matrix has its dimensions and its data apart, since the code sets them apart.
`IndexedVariable` runs any sequence of assignments and deletions, and changes of the
four built-in variables that index code reads, on one variable, with what
`octave_value::assign` does around them.

The properties are the manual's account of indices (`expr.tex`), told without `Indexing`: `Positions`
gives the elements that an index names. What they leave out is what the code
does otherwise:

* `x(:,2) = []` and `x([1 2 7]) = []` empty a variable with fewer elements than
  names, because names that do not exist count (`Array2-idx.h:236`; `expr.tex:924`
  deletes what is named);
* a zero-one vector of several ones never is "all rows", so that a deletion with it
  is refused or ignored;
* `A(i,j) = []` in which neither index covers its dimension is ignored without a
  message;
* an assignment through an empty index to an undefined variable makes an element;
* `x(:,:) = y` of an empty `x` with `resize_on_range_error = 0` does not resize `x`,
  checks nothing and stores behind the empty array (`Array2-idx.h:430`); in the model `x`
  stays empty.

`WritesNamed` is about all other assignments that succeed, those to variables with no element or
one and those with one index to a matrix included. `DeletesNamed` says nothing of
deletions that name elements out of range.

Left out: an index that is NaN (it leaves the `idx_vector_rep` uninitialised,
`idx-vector.cc:138`), structures, ranges, and the text of the messages.

## 8. Values and CopyOnWrite

`Values` is what the user of the language sees: every holder (variable, constant of
the program text, temporary) has its value alone, and a statement changes the value
of the variable that it names and nothing else. `CopyOnWrite` is how it is done:

| state | code |
|---|---|
| `mem.ref` | the `rep` pointer of each `octave_value`, also of the two local ones of a conversion |
| `mem.cell` | `octave_base_value`s: scalar, range or matrix, with `count` |
| `mem.block` | `ArrayRep`s with their own `count`, which `clone` shares |
| `pc`, `stmt` | the stage of `octave_value::assign`: try, convert the left or right side, drop, mutate, undo |
| `lost` | an interrupt has thrown away temporaries without destructors |

`value` is the refinement mapping, `ValueSemantics == Abstract!Spec` the property.
The bounded heap may be full in the middle of an assignment, which `Room`
says; the proof is for every heap.

A zero is an index that names nothing where it can be taken for a zero-one vector, that
is for a variable of one element (`idx-vector.cc:351-361`), and an error else.

Left out: interrupts inside a stage (`ov.h:171-177`), the first indexed assignment
to an undefined variable (`pt-fvc.cc:185-196`), other types than scalar, range and real
matrix. One interrupt is enough to lose counts; counts are only required to cover
references after it.

## 9. FunctionFiles

One function `f`, the directories of the path, the tables whose code calls it, and
editors that write, break, turn into a script and remove the file at any time. The
clock has `Ticks` ticks in a second, because the prompt and the checks are stamped by
`gettimeofday`, readings and files in whole seconds. A call is two or three
steps: look-up with the check of the file (`CallReads`, `CallRuns`), finding
and reading it, and what the parse makes of it.

`Fresh` excepts a definition that the same command has already found out of date.
That exception is what the code does: the check marks a definition as checked before
it compares (`variables.cc:457`), so that a second caller that shares it runs the old
function although the file has changed and the first caller has read it again
(`Reread`, below). Other things the model contains: only the file that a definition
came from is looked at, not whether an earlier directory has one by now; a function
whose file has been removed goes on running; a parse error clears the global record
only; each caller reads the file for itself, so that static variables are per
caller; a file that has become a script is executed at the first call, and the old
function runs at the next; the name of the file is found by a second look-up
after the parse (`pt-fcn.cc:136-144`), which may name another file. Left out:
changes of `LOADPATH`, the cache of `fn-cache.cc`, which only serves listings, and
dynamically linked functions.

## 10. FormattedIO

One step is one element of the template. `printf`'s value cache and `scanf`'s growing
matrix are as in the code; characters are codes, and the conversion of one number or
word (`istream::scan`, `ostream::form`) is external. `Expected` tells what `printf`
should print without elements and cache: values in order meet conversions in order. A
`printf` ends in one of four ways, which `PrintsInOrder` tells apart: the values are used
up; a number meets `%s` or `%p` (the stream's `error`); a string meets another conversion
and may not be converted (`::error` of `matrix_value`); a width is not an integer
(`conversion_error`, of which nobody is told).

The models contain, and the properties except or need not see, the following
differences from `io.tex`:

* characters after the last conversion of a `scanf` template are an "internal format
  error", and what was read is dropped (`oct-stream.cc:1225`; `oct-stream.h:65-68`
  describes such a template);
* a string of 512 characters or more that is read with one size loses all but the
  first, since the one-row matrix is resized to a column (`StringsWhole`, below);
* `[nr, Inf]` with only characters writes to a null pointer (`NoMatrix` leaves it out);
* `%s` stores many elements and counts as one conversion of the requested size;
* literal text before a `%s` without a width is never looked at (`oct-stream.cc:1162`);
* `%5s` with `"C"` is read and not assigned, so that later values move left
  (`oct-stream.cc:1486-1493`);
* an empty matrix hides a string behind it from `%s` (`oct-stream.cc:1772`; `Hidden`);
* a `*` width that is not an integer stops the printing without a message
  (`oct-stream.cc:1853-1856`), where `io.tex:803-806` rounds it (`WidthsRounded`, below);
* a string at `%c` or `%d` is an error unless `implicit_str_to_num_ok` is set
  (`ov-str-mat.cc:172`, as `strings.tex:412` has it), where the example at `io.tex:1023-1028` prints it
  (`CharactersPrinted`, below);
* `[nr, nc]` with fewer than `nr` items gives a short column, and a negative second
  size counts as `Inf`;
* the stream's `fail` is cleared at the next operation of any kind
  (`oct-stream.cc:2420-2432`).

Left out: streams that cannot be written, the terminal as input, `%c` with a width,
precisions, the text of `%p`, `fread` and `fgetl`.

## 11. Runs

All with small sets; statements, commands and programs are not fixed but chosen
freely from the sets named in the MC modules and configurations.

| run | instance | distinct states | shows |
|---|---|---|---|
| `protect` | a session that is not interactive; loops, `if`, `try`, `unwind_protect`, errors, `break`, `return` | 1,651,852 | nothing runs while an error, break or return is pending; cleanup is never dropped and does not swallow the error of the body |
| `jumps` | `try`, `eval`, `unwind_protect`, `for`, scripts inside scripts, two interrupts; fair | 525,025 | the list is balanced; the prompt comes back, clean; messages are held back only inside `try` and `eval` |
| `calls` | two functions that call themselves and each other, errors, an interrupt | 2,015,524 | locals, counts and return lists are the running activation's; the recursion limit holds |
| `paging` | buffered output, errors, plots; the pager fails to start, is quit or dies at any time; an interrupt | 1,966,924 | signals and pager are in order at the prompt; the pager is not deleted in use; no gnuplot is lost |
| `mixed` | plots, shell commands, asynchronous children, waits; an interrupt; fair | 1,392,240 | gnuplot stays registered, no file of a live child is removed, every builtin comes back |
| `symbols` | a caller with `x` as a parameter and one without, two bodies for a function `x`, a builtin `x` of either kind | 150,171 | counts cover references, nothing freed is used, values are private, globals shared, running functions kept |
| `fifo` | two clients, two names, two structures, three threads that fail, block and are late, kills; fair | 581,264 | the list holds live, distinct fifos; calls return but for `Hung` and `Orphaned`; a removed fifo's threads end unless they are blocked or their structure is in use again |
| `relay` | three openings and three bytes at both ends together, pipes of two bytes, short and failing writes; fair | 403,448 | bytes come in order and once, but for a write that fails half way; two named ways to lose them; bytes arrive |
| `indexing` | eleven indices, five right-hand sides, four elements, three settings | 297,900 | reading, writing and deleting concern the named elements; a failure changes nothing |
| `values` | a variable, a constant, a temporary, four cells, three blocks | 854,465 | counts cover references; plain values are implemented |
| `files` | one user's and one system directory, two callers, three versions, two seconds of two ticks | 1,375,359 | what runs was read after the file was written, but for `Reread`'s case; a definition is replaced by another version only |
| `formatted` | templates, arguments, sizes and files of `MCFormattedIO`, first matrix of two columns | 64,666 | values are printed once and in order; items stand in their places; the loops end |

### Where code and documents differ

Each of these configurations checks one sentence of a document or a comment, and TLC
finds that the code does not do it:

| configuration, module | what the code does | what is said |
|---|---|---|
| `Continue.cfg`, `MCEvaluator` | a `continue` in an `unwind_protect` body inside a loop leaves `continuing` set, and the cleanup list stops after its first statement (`pt-misc.cc:142`) | cleanup statements are guaranteed to be executed (`stmt.tex:677`) |
| `NestedTry.cfg`, `MCEvaluator` | after an inner `try` has caught an error, the messages of the outer body are printed (`pt-cmd.cc:609`) | nothing is printed while the body is executing (`stmt.tex:727`) |
| `Recursion.cfg`, `MCEvaluator` | a recursive call leaves its caller without `args_passed` (`pt-fcn.cc:327`) | `va_arg` returns the next argument (`func.tex:430`) |
| `Status.cfg`, `MCChildren` | a command reaped by the SIGCHLD handler has status 127 (`toplev.cc:785`) | `system` returns its status (`system.tex:705`) |
| `Purged.cfg`, `MCChildren` | the file of a child that dies before its registration is never removed (`file-io.cc:1323`) | it is removed when the child dies (`file-io.cc:1306`) |
| `StaleLink.cfg`, `MCSymbolTable` | a function that has declared a global nobody had assigned stays linked to that definition (`symtab.cc:959`); when it declares `x` again in a later call, `link_to_global_variable` returns early (`variables.cc:1044`) and `x` is not the global that exists by then | a function that declares `x` global changes the global (`var.tex:96-98`) |
| `FifoThread.cfg`, `MCFifoServer` | the structure of a new fifo may still hold the thread id -1 of the one it was freed by; the thread reads that and quits, while `mkfifo` reports success (`nmpserv.c:78`) | a thread serves every fifo of the list (`nmpserv.c:64-74`, `nmp.h:44`) |
| `Reread.cfg`, `MCFunctionFiles` | the second caller of a shared definition in one command runs the old function (`variables.cc:457`) | a changed file is read again every time the function is needed (`func.tex:603-607`) |
| `Strings.cfg`, `MCFormattedIO` | a long string that is read with one size is lost but for one character | all matching data is returned (`io.tex`, `fscanf`) |
| `Widths.cfg`, `MCFormattedIO` | a `*` width that is not an integer ends the printing (`oct-stream.cc:1853`) | it is rounded to the nearest integer (`io.tex:803-806`) |
| `Letters.cfg`, `MCFormattedIO` | `%c` refuses a string with the default preferences (`ov-str-mat.cc:172`) | `%c` prints strings of one character (`io.tex:1023-1028`) |

Other disagreements met while modelling, which the models contain but no
configuration is spent on, besides those of sections 6 to 10:

* `catch` code also runs for a Ctrl-C, because `main_loop` runs all protections
  (`toplev.cc:292`), although `stmt.tex:724` speaks of errors in the body;
* `__error_text__` may hold the text of an earlier `try` that went well
  (`pt-cmd.cc:675` does not clear the buffer; `errors.tex:67`);
* a `return` typed at the prompt of an interactive session acts on a later list
  (`toplev.cc:330`), while `func.tex:553` calls it an error at top level;
* `closeplot` calls the death handler of a gnuplot that lives
  (`sighandlers.cc:752`; the comment at `sighandlers.h:139` says when the child dies);
* a slot of the child list may be read half assigned (`sighandlers.cc:693`);
* with `page_output_immediately`, `pager.cc:157` may write to a pager that the death
  handler has deleted before the check that lines 159 to 161 describe;
* one `clear foo` clears a variable and the function that it hides, because all
  three lists are gone through (`variables.cc:2001-2021`); `var.tex:228-233` says it
  takes two.

### Bounds

`MaxList`, `MaxIter` and `MaxStack` bound one program text: two statements per
list are enough for "before and after a jump", one iteration for "leaves the loop or
not", six to eight frames for a construct inside the body, the catch and the cleanup
part of another, with the run frames between them. `MaxDepth = 2` is the smallest
limit with a recursive call and a refused one. `MaxIntr = 2` lets the second interrupt
fall into cleanup code that the first has started. The lists of commands are not
bounded: the prompt comes back for ever, so that what one command leaves behind
meets the next.

`MaxPid` is the number of processes ever started; when it is used up, starting
one fails, as it may in the code. Three give a pager, a gnuplot and a successor of
either. `Cells`, `MaxCount` and `MaxDepth` of `SymbolTable` bound memory, references and
nesting: two nested activations of the same function give a saved context below
a live one. The values and the objects called `x` are symmetric; `symbols` uses that,
which is sound for invariants and for the action property.

`FifoServer`: three calls (kills count as calls) let one client remove a fifo that
another has made while a third call is under way; two structures let a freed
one be handed out again while the other is on the list. A server that stays when its
list is empty, which lets one structure be removed and handed out twice in three calls, is too
much together with all of that; `Removed.cfg`, which is not one of the runs above, checks
`RemovedEnds` with one client and such a server, and passes (110,882 states). `FifoRelay`: of
three bytes one can have been received, one be in the pipe and one be held by a short
write; three openings give two at one end and one at the other, so that what was seen of the first
is used for the second.
`IndexedVariable`: four elements hold every shape up to 2 by 2 and vectors that are
longer than either. `CopyOnWrite`: a variable, a constant and a temporary can
share one cell pairwise and all three. `FunctionFiles`: three versions give a file that is
changed twice, once during a reading, or a file beside that of the distribution; two
seconds are enough for stamps that agree although the times differ. `FormattedIO`: a
first matrix with `Room = 2` instead of 32 columns (`CharRoom = 4` instead of 512)
grows twice on files of six items.

### Fairness

The evaluator is one thread that waits for nobody but the user at the prompt, and
`MainRead`, which stands for the user, is not fair; `WF_vars(Work)` says that the
processor goes on. In `Children` the same holds for octave's own steps; besides, a
pending signal is delivered in the end, a process whose pipe has been closed
ends (it reads end of file) and a shell command ends. A pager, a gnuplot or an
asynchronous child need not end. `EveryCallReturns` excepts a wait that the user
has asked for and the end of the program by a null `plot_stream`. In `FifoServer`
OS/2 schedules every client, the server and every thread; nobody has to make a call,
to be killed, or to open, read or close an end, so a blocked thread may stay blocked. In `FifoRelay` the thread runs and a program
that has an end open reads what comes; nobody has to open, write or close.
`FormattedIO` states no fairness: `Shrinks` bounds its loops by a measure that every
step lowers.

## 12. Proofs

Checked by TLAPS, for every value of the constants that meets the named
assumptions of each module:

* `TypeCorrect` (`Evaluator_proofs`): `Spec => []TypeOK`. `TypeOK` is inductive as
  it stands because its frames and elements are constrained records: a `try`
  frame carries a value that `buffer_error_messages` may take, a call frame a
  function, a `restore` element a flag and a value in the range of that flag. What an
  element puts back is therefore always in range, whatever was popped on the
  way. One lemma per group of actions; lemmas on stack, list and messages first.
* `RecursionLimit` (`Evaluator_proofs`): `Spec => []RecursionLimited`. The property
  is not inductive: `call_depth` does exceed the limit between `call_depth++` and the
  end of `run_unwind_frame`, and it is restored from the list, which anybody may have
  pushed to. The invariant `LimitInv` adds that no element of the list holds a count
  above the limit (`SavedLimited`) and that a function is above it only while the
  element that takes it back is on top of the list and the frame at hand is about
  to pop it (`Refused`). No interrupt is taken there, so nothing can get in between.
* `Balanced` and `NeverDropped` (`Evaluator_proofs`): `Spec =>
  []UnwindBalanced` and `Spec => CleanupNeverDropped`. That a construct gets back the
  height of the list with which it started says nothing about the elements in between,
  so it is not inductive. `Layout` divides the whole of `unwind_protect_list` among
  the frames of the C stack: a frame owns what lies between its base and the base of the
  frame above it, and its kind and pc say what that is -- nothing, so many elements,
  or a mark with what was added since (`Settled`). A `run` frame eats the piece of the
  frame that has called it and of nobody else (`Pending`). After a `longjmp` the pieces
  of the frames that are gone belong to the script or to `main_loop` that was jumped to;
  this does no harm because a script looks for its own mark, and above its base there
  is one only (`Owned`). The first lemmas are about any stack and any
  list, the later ones apply them to the actions. `Layout` is inductive
  together with `TypeOK`.
* `MessagesComeBack`, `ErrorOutlivesCleanup`, `OwnActivation` and `CleanPrompt`
  (`Restoring_proofs`): `Spec =>` always `BufferedOnlyInTry`, `ErrorSurvivesCleanup`,
  `LocalsOfActivation` and `PromptClean`. `Layout` counts the elements of a frame;
  these need what the elements hold. `Held` says that a frame which is going to pop
  elements finds them: the body of an `unwind_protect` its cleanup, cleanup and catch code
  what they have saved, a `try` its mark, its catch part and the flag, and a frame that has called
  `run_unwind_protect` the right element on top, whatever ran in between. Each action is
  summed up once by what it does to the list (grown by given elements, cut, one
  popped) and to the frames (`Moves`, `Ordinary`); the four invariants use the summaries:
  `BufferKnown` (the outermost saved `buffer_error_messages` and `reading_script_file` are
  0, and so is the flag if none is saved; a `try` keeps its copy in a C variable, which is 0 unless
  a `try` below it has saved the flag), `TextKept` (what is in `__error_text__` has an element
  that clears it), `ErrKept` (while cleanup code that an error has led to runs, the error is in
  `error_state` or in the element that the cleanup code will pop last) and `Restorable`.
  The last is about the members of the `tree_function`s, which are saved
  by up to six elements of each call, in two actions with an error exit between them, and which
  several activations of one function share: it says that there is a history, one state
  for each element of the list, such that popping an element turns the state
  after it into the one before it (`Link`, `Undoes`), beginning with functions that nobody has called
  (`Clean`), and that the calls in it are whole except where `tree_function::eval` is between its two
  actions (`Rests`). Popping any number of elements, for an error, a `return` or an interrupt
  that ends many activations at once, therefore goes back along the history.
* `StatementsInStep` (`Restoring_proofs`): `~ Interactive /\ MaxIntr = 0 /\
  "eval2" \notin StmtKinds /\ Spec => []NothingRunsWhileJumping`. `InStep` says where
  `breaking` and `returning` are 0: wherever the running frame may start a list (`Starts`), and no frame
  that waits for another one is at such a place. The three hypotheses hold in the run
  `protect` and are needed. An interactive session reads the next command after a `return` at
  the prompt, with `returning` still set (only `reset_parser` runs, and it clears
  `error_state` alone). An interrupt may come while `breaking` or `returning` is set, and
  the script or `main_loop` goes on with it. The second string of an `eval` runs after an
  error in the first, and if cleanup code in the first has executed a `return`, that is still set.
* `WellTyped`, `ChildSignal`, `PlotterNotLost` and `PlotterListed` (`Children_proofs`):
  `Spec =>` always `TypeOK` (with the three parts named below), `ChildSignalRestored`,
  `NoOrphanPlotter` and `PlotterRegistered`. Since a handler may come between any two steps, what a
  frame knows must outlive whatever runs above it. Every action is first summed up
  by the kind and the pc of the running frame: how the stack moves (`Moves`), which
  variables may change (`Effects`), which actions are possible where (`Named`) and what a new
  frame is like (`Entered`); `Summary` is used from then on in place of the
  forty actions. `TypeInv` adds to the types who may call whom (`WellCalled`), that
  indices stay inside the list, which never shrinks (`FramesOK`), and that each element
  of the cleanup list has its owner (`Protected`); `WellTyped` states all of this. `ChildSignal` follows from the order of
  the frames that have saved a disposition: each saver has saved `ignore` unless it is
  the lowest (`SigchldKept`). `PlotterNotLost` is inductive with what the frames of
  `open_plot_stream` and `close_plot_stream` know when they are about to forget a
  stream (`NoneInv`); the one between the start of a gnuplot and its assignment counts as nobody's
yet (`Plotters`). `PlotterListed` needs to know whose process each pid in a
  frame or on the list is (`Kinds`), and that of the insertions on the stack only one
  is for the present gnuplot and that the element it has found is its own (`Claimed`): no
  handler that comes in between finds a half assigned element free or dead.
* `PagerNotDeleted` and `QuietPrompt` (`Children_proofs`): `~ Immediate /\ Spec =>` always
  `PagerInUse` and `PromptQuiet`. The hypothesis is the default of
  `page_output_immediately`, and is needed: with immediate output `do_sync` is called by
  whoever prints, outside the flag `flushing_output_to_pager`, and TLC finds a prompt
  that is not quiet. With it one flush at most is active (`Protected`), which alone calls
  `do_sync` and then `clear_external_pager`, so between two of its steps nobody
  else touches the stream (`InUse`). For SIGINT it is not enough to say who saves what: the
  pager, the handler and the waits save it one above the other and the pager's saving is
  not on the stack. `SigintKept` orders them by the flush that has started the pager:
  while something is saved SIGINT is ignored and so is what any saver above that flush has
  saved (`Ignoring`), whoever is lowest has saved that it was caught (`Caught`), a flush
  that only has to end has cleared the pager (`Flushed`), and SIGINT comes back before
  SIGCHLD (`GivenBack`). That the handler starts only when no saver is on the stack is
  `SigchldKept` again.
* `FileStays` (`Children_proofs`): `Spec => TempFileKept`, an action property. The members of a
  list element are assigned one by one and an element is taken again while the
  handler's or the file's name of the process before it is still there, so the file
  of one child may stand beside the pid of another. `FilesKept` says when that does no
  harm: if the two differ, the child of the file has ended (`FileIn`); an insertion has
  found an element of no child that runs, and one that puts a file in keeps its
  element until its child has ended; and only the main loop inserts a file, so no second
  insertion is half done below it (`Purging`). Nobody removes a child that has one
  (`plot_stream_pid` is a gnuplot's also when `plot_stream` is a later one), and whoever calls the null
  handler has the element of a zombie or one that `FilesKept` has shown to be harmless.
* `RefsStayLive`, `CountsSuffice`, `OwnValues`, `GlobalsShared` and `RunningStays`
  (`SymbolTable_proofs`): `~ Mixing` and `Spec =>` always `RefsLive`, `CountCovers`,
  `OwnValueKept` and `DeclaredShared`, and `RunningKept`. The hypothesis is needed, see
  section 5. The types alone allow a store in which two records hold an uncounted
  definition, so the first part of `ScopeInv` is about any store (`Good`): nothing hides anything
  (`Shape`), whoever refers to a definition, from a record or from a saved context, is
  counted (`Counted`), a variable that is not linked to a global has one place that refers to
  it (`Private`), a parameter is a variable of its function (`ParamsOwn`) and links to a user function
  exist only while the global table has it (`FnGlobal`). With `Shape` the chain of
  definitions that `Reached` follows has length one, which is shown for any number
  of cells by a least counterexample instead of induction. The second part is about the
  activations: what an activation has is not in one place, but in the record while it
  runs and in a saved context while a recursive call of the same function does. `Placed` maps
  each activation to its place, in order, and `Owned` says what is there. Every
  statement has a lemma, built from those on the operations of `symbol_record` as the statement is
  from the operations; `Frame` and `Follows` say what a statement may do to the places of
  all other activations. That memory without a reference is used again enters as a lemma
  of its own: it changes no place that anybody has. `RunningKept` follows from
  `SelfRuns`: while a function `x` runs the global table has a function `x`.
* `CountsRight` and `Implements` (`CopyOnWrite_proofs`): `Spec => []Counted` and
  `Spec => ValueSemantics`. The invariant says of the heap that each count covers its
  users, exactly until an interrupt (`Heap`), and of an assignment under way what
  its stage knows of the cells it works on (`Ready`). Each operation on the heap has a
  lemma of one form (`Gives`): counts stay right and of all values only that of one
  holder changes, to a given one. Each action then maps to a step of `Values` or to a
  stutter; an assignment maps to one step, taken where the storage is written.
* `Freshness` and `Replacement` (`FunctionFiles_proofs`): `Spec => []Fresh` and
  `Spec => ReplacedByAnother`. `Fresh` speaks of one step; the invariant `IInv` relates
  the stamps of every definition to those of its file: no stamp is in the future
  (`Past`), a definition is not older than the version that was read for it
  (`Stamped`), one whose file has changed since before the prompt has not been
  checked after it unless it is in `spent` (`Watched`), and what is being read for a
  caller is not the version that it has (`Replacing`). That time goes in whole seconds
  enters through `SecondGrows` only.
* `ListSound` (`FifoServer_proofs`): `Spec => []ListIntact`, without the fairness of
  `FairSpec`. `ListInv` adds that the cell being added is on no list and has the name
  of the command, which nobody on the list has (`NewName`): the name was looked up
  before the thread was started, and the server answers one client at a time, so
  nothing is added or removed until the thread has posted the semaphore. Threads
  write `tid` and `result` into whatever structure they hold, freed or not, but never
  `st` or `name` (`CellTold`); and a second server finds the control pipe and ends, since
  there is one as long as there is a server (`PipeOK`).
* `Delivery` and `Lossless` (`FifoRelay_proofs`): `Spec => []InOrder` and
  `Spec => []NothingLost`, without the fairness of `FairSpec`. What an end has written
  is a chain of four pieces (`Line`): received, in the pipe of the other end, in the
  hands of the thread, in the pipe of the end itself. A step moves bytes from one piece
  to the next, adds one at the end or drops a piece, so the chain stays in order
  (`Ordered`). That the restart of an end drops nothing of its own needs more: only a program
  closes an end (`Shut`), and what the thread has seen to be closing is closing still and
  is empty when the thread comes to the test, unless it was not read because of bytes that were held back
  (`Looked`): the thread reads first and a closed end gets no more bytes. A write that fails
  half way puts back what it has put out, and a second chain, of what may go back (`back`), what the
  thread has and what is in the end's pipe (`Kept`), says that this is in order too.

Everything else is model-checked only: the invariants of `IndexedVariable` and
`FormattedIO`. `ReadsNamed`, `WritesNamed` and `DeletesNamed` select from index vectors and
compare with what the positions name one by one, `PrintsInOrder` and `ItemsInPlace` are about folds
over templates and arguments: each is an induction over data. `FailureKeeps` and `Shrinks`
are not, and are left for later. Out of the prover's reach are the liveness properties (`PromptReturns`,
`EveryCallReturns`, `CallReturns`, `RemovedEnds`, `Arrives`) and whatever needs
induction over data, such as the folds of `FormattedIO` and the loops over index
vectors of `Indexing`.

## 13. Not modelled

An interrupt is taken between statements in `Evaluator`, between stages in
`CopyOnWrite`. The windows of a few instructions inside C functions are not modelled, and what
they lose is not found by any run: between popping an element and calling it
(`unwind-prot.cc:57`), between a change and the registration of its undoing
(`pt-fcn.cc:291-292`, `pt-cmd.cc:610-611`), around the installation of the jump
buffers (`toplev.cc:219-224`), in the handler that is itself interrupted
(`sighandlers.cc:208`), between the start of a shell command and the assignment of its pid
(`toplev.cc:747-750`), and between the return of SIGINT and that of SIGCHLD
(`libs/stdcpp/iopopen.c:247`). Neither are the uses of `plot_stream` after the
death handler has set it to null outside the commands of `Children`
(`pt-plot.cc:229`), nor `do_clear` of the stream list, which flushes slots 0 and 1
although its comment speaks of stdout and stderr (`oct-stream.cc:2728`).

Five hazards of `PROJECT.json` have no property; their notes say why.

Components that are not modelled, with the reason, are in `PROJECT.json`: numerical
code and vendored libraries, since they keep no control state; input, history, help,
file formats and output formats, which are text; parser and lexer, which are generated;
the stream list and dynamic linking, which the plan has for later.

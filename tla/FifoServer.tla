----------------------------- MODULE FifoServer -----------------------------
(***************************************************************************)
(* mkfifo for OS/2: the library calls of libs/merlin/process/mkfifo.c,     *)
(* the server nmpserv.c that they start and talk to over one control pipe, *)
(* and the thread that the server starts for every fifo (nmp_thread.c; the *)
(* data that this thread moves is module FifoRelay).  Named pipes, threads *)
(* and the event semaphore of OS/2 are external.  A cell of the heap is a  *)
(* _named_pipe_ structure: free () leaves what is in it, and malloc () may *)
(* hand out any free cell with what an earlier fifo has left there.        *)
(***************************************************************************)
EXTENDS Integers, Sequences, FiniteSets, SequencesExt

CONSTANTS Clients,    \* processes that call the library
          Names,      \* names of fifos
          NoName,     \* what the server's name buffer holds before the first command
          Cells,      \* heap cells for _named_pipe_ structures
          Threads,    \* thread ids
          Ops,        \* the calls that clients make, a subset of Requests
          Fails,      \* whether memory, a thread or its pipes may fail to be created
          Kills,      \* whether a client may be killed
          Blocks,     \* whether a thread may have to wait for somebody who reads
          Noexit,     \* whether a server may have been started by hand, with --noexit
          MaxCalls    \* bound: library calls made, and clients killed, altogether

Requests == {"create", "remove", "list", "exit"}

ASSUME FifoAssumption ==
  /\ NoName \notin Names /\ 0 \notin Threads /\ -1 \notin Threads
  /\ Ops \subseteq Requests /\ MaxCalls \in Nat
  /\ MaxCalls <= Cardinality(Threads)   \* so that ids do not run out
  /\ {Fails, Kills, Blocks, Noexit} \subseteq BOOLEAN

VARIABLES
  cl,      \* per client: where it is in its call
  calls,   \* calls begun and clients killed (bound)
  ctl,     \* the control pipe MERLIN_MKFIFO_NAMED_PIPE
  coming,  \* servers that have been spawned and have not created the pipe yet
  srv,     \* the server process
  list,    \* _nmp_list_, a sequence of cells; its length is _named_pipes_
  heap,    \* the cells
  hev,     \* _hev_ is posted
  thr      \* the threads; removed is a history: the fifo in its structure has been removed

vars == <<cl, calls, ctl, coming, srv, list, heap, hev, thr>>

NoPipe == [st |-> "none", who |-> "nobody", shut |-> FALSE, in |-> <<>>, out |-> <<>>]
Down   == [pc |-> "down", op |-> "none", name |-> NoName, cell |-> 0, tid |-> 0, rc |-> 0, i |-> 0, noexit |-> FALSE]
Idle   == [pc |-> "idle", op |-> "none", name |-> NoName, pid |-> -1, n |-> -1, i |-> 0]
NoThread == [pc |-> "none", cell |-> 0, removed |-> FALSE]

FreshHeap == [x \in Cells |-> [st |-> "free", name |-> NoName, tid |-> 0, result |-> 0]]

Init ==
  /\ cl = [c \in Clients |-> Idle] /\ calls = 0
  /\ \/ ctl = NoPipe /\ srv = Down
     \/ /\ Noexit
        /\ ctl = [NoPipe EXCEPT !.st = "idle"]
        /\ srv = [Down EXCEPT !.pc = "connect", !.noexit = TRUE]
  /\ coming = 0 /\ list = <<>>
  /\ heap = FreshHeap
  /\ hev = FALSE /\ thr = [t \in Threads |-> NoThread]

Connected(c) == ctl.st = "conn" /\ ctl.who = c
Live == {t \in Threads : thr[t].pc # "none"}

(*************************** the library calls ****************************)

\* Enter merlin_mkfifo (), merlin_mkfifo_remove (), _list () or _exit ().
\* Only the first waits for the pipe and may start a server.
Call(c) ==
  /\ cl[c].pc = "idle" /\ calls < MaxCalls
  /\ \E op \in Ops, n \in Names :
       /\ op \in {"list", "exit"} => n = CHOOSE m \in Names : TRUE
       /\ cl' = [cl EXCEPT ![c] = [Idle EXCEPT !.op = op, !.name = n,
                   !.pc = IF op = "create" THEN "wait" ELSE "open"]]
  /\ calls' = calls + 1
  /\ UNCHANGED <<ctl, coming, srv, list, heap, hev, thr>>

\* What a call returns is not kept; nobody acts on it.
Return(c) == cl' = [cl EXCEPT ![c] = Idle]

\* DosWaitNPipe says that there is no such pipe: start the server, once.  While
\* the pipe is busy the call times out and the loop goes round.
SpawnServer(c) ==
  /\ cl[c].pc = "wait" /\ ctl.st = "none" /\ cl[c].pid = -1
  /\ \/ cl' = [cl EXCEPT ![c].pid = 1] /\ coming' = coming + 1
     \/ Fails /\ Return(c) /\ UNCHANGED coming
  /\ UNCHANGED <<calls, ctl, srv, list, heap, hev, thr>>

WaitOver(c) ==
  /\ cl[c].pc = "wait" /\ ctl.st = "listen"
  /\ cl' = [cl EXCEPT ![c].pc = "open"]
  /\ UNCHANGED <<calls, ctl, coming, srv, list, heap, hev, thr>>

\* DosOpen, which fails when another client was faster: merlin_mkfifo () waits
\* again, the other calls return.
Open(c) ==
  /\ cl[c].pc = "open"
  /\ IF ctl.st = "listen"
     THEN /\ ctl' = [NoPipe EXCEPT !.st = "conn", !.who = c]
          /\ cl' = [cl EXCEPT ![c].pc = "write"]
     ELSE /\ IF cl[c].op = "create" THEN cl' = [cl EXCEPT ![c].pc = "wait"] ELSE Return(c)
          /\ UNCHANGED ctl
  /\ UNCHANGED <<calls, coming, srv, list, heap, hev, thr>>

\* What a call writes: a command and what belongs to it, or the index of the next name.
Request(c) == CASE cl[c].pc = "index"  -> <<cl[c].i>>
                [] cl[c].op = "create" -> <<"create", "mode", cl[c].name>>
                [] cl[c].op = "remove" -> <<"remove", cl[c].name>>
                [] OTHER -> <<cl[c].op>>

\* The DosWrites of a request (nobody else writes to the pipe meanwhile), or the end
\* of the call if the server has hung up.  Only a failure of the first is seen, but
\* the read after them fails as well.
Write(c) ==
  /\ cl[c].pc \in {"write", "index"}
  /\ IF Connected(c)
     THEN /\ ctl' = [ctl EXCEPT !.in = @ \o Request(c)]
          /\ cl' = [cl EXCEPT ![c].pc = "read"]
     ELSE /\ Return(c)
          /\ UNCHANGED ctl
  /\ UNCHANGED <<calls, coming, srv, list, heap, hev, thr>>

\* DosRead of the answer.  If the server has disconnected before, the answer is
\* lost and result is still 0, what it was initialised with.  A list is read name by
\* name, each asked for by its index.
ReadAnswer(c) ==
  /\ cl[c].pc = "read"
  /\ \/ /\ Connected(c) /\ ctl.out # <<>>
        /\ LET first == cl[c].n = -1
               n == IF first THEN Head(ctl.out) ELSE cl[c].n
               i == IF first THEN 0 ELSE cl[c].i + 1
           IN IF cl[c].op = "list" /\ i < n
              THEN /\ cl' = [cl EXCEPT ![c].pc = "index", ![c].n = n, ![c].i = i]
                   /\ ctl' = [ctl EXCEPT !.out = Tail(@)]
              ELSE /\ Return(c)
                   /\ ctl' = [ctl EXCEPT !.out = Tail(@), !.shut = TRUE]
     \/ /\ ~Connected(c)
        /\ Return(c)
        /\ UNCHANGED ctl
  /\ UNCHANGED <<calls, coming, srv, list, heap, hev, thr>>

\* A client is killed: the system closes its end of the pipe, in which there may be
\* a part of its request.
Kill(c) ==
  /\ Kills /\ cl[c].pc # "idle" /\ calls < MaxCalls
  /\ calls' = calls + 1
  /\ cl' = [cl EXCEPT ![c] = Idle]
  /\ IF ~Connected(c) THEN UNCHANGED ctl
     ELSE \E k \in 0 .. (IF cl[c].pc = "write" THEN Len(Request(c)) - 1 ELSE 0) :
            ctl' = [ctl EXCEPT !.shut = TRUE, !.in = @ \o SubSeq(Request(c), 1, k)]
  /\ UNCHANGED <<coming, srv, list, heap, hev, thr>>

(******************************* the server *******************************)

\* A spawned server creates the control pipe, or finds that there is one and exits.
StartServer ==
  /\ coming > 0 /\ coming' = coming - 1
  /\ IF ctl.st = "none"
     THEN /\ ctl' = [NoPipe EXCEPT !.st = "idle"]
          /\ srv' = [Down EXCEPT !.pc = "connect"]
     ELSE UNCHANGED <<ctl, srv>>
  /\ UNCHANGED <<cl, calls, list, heap, hev, thr>>

\* The process ends, and with it its threads, its memory and its pipes
\* (cleanup_on_exit () runs when the other threads have ended already).
Exit ==
  /\ srv' = Down /\ ctl' = NoPipe /\ list' = <<>> /\ hev' = FALSE
  /\ heap' = FreshHeap
  /\ thr' = [t \in Threads |-> NoThread]

Go(pc) == srv' = [srv EXCEPT !.pc = pc]
Answer(rc) == srv' = [srv EXCEPT !.pc = "reply", !.rc = rc]

\* DosConnectNPipe, which waits for a client.
Listen ==
  /\ srv.pc = "connect" /\ Go("cmd")
  /\ ctl' = [ctl EXCEPT !.st = "listen"]
  /\ UNCHANGED <<cl, calls, coming, list, heap, hev, thr>>

Incoming == ctl.st = "conn" /\ ctl.in # <<>>
HungUp   == ctl.st = "conn" /\ ctl.in = <<>> /\ ctl.shut
Consume  == ctl' = [ctl EXCEPT !.in = Tail(@)]

\* The switch of main (): a client that closes its end without a command ends the server.
ReadCommand ==
  /\ srv.pc = "cmd"
  /\ \/ /\ Incoming /\ Consume
        /\ srv' = [srv EXCEPT !.op = Head(ctl.in),
                     !.rc = Len(list),
                     !.pc = IF Head(ctl.in) \in {"create", "remove"} THEN "request" ELSE "reply"]
        /\ UNCHANGED <<list, heap, hev, thr>>
     \/ HungUp /\ Exit
  /\ UNCHANGED <<cl, calls, coming>>

\* create_nmp () and remove_nmp () read the mode and the name.  Without a mode they
\* give up; at the end of the pipe the DosRead of the name may succeed with nothing,
\* and name is that of an earlier command then.
ReadRequest ==
  /\ srv.pc = "request"
  /\ LET parts == IF srv.op = "create" THEN 2 ELSE 1
         next  == IF srv.op = "create" THEN "add" ELSE "remove"
     IN \/ /\ Len(ctl.in) = parts
           /\ ctl' = [ctl EXCEPT !.in = <<>>]
           /\ srv' = [srv EXCEPT !.pc = next, !.name = ctl.in[parts]]
        \/ /\ ctl.shut /\ Len(ctl.in) < parts
           /\ ctl' = [ctl EXCEPT !.in = <<>>]
           /\ Go("disconnect") \/ (Len(ctl.in) = parts - 1 /\ Go(next))
  /\ UNCHANGED <<cl, calls, coming, list, heap, hev, thr>>

\* lookup_nmp_list ()
Found(name) == {x \in ToSet(list) : heap[x].name = name}

\* The threads that read the structure x, and what has become of the fifo in it.
Mark(x, b) == thr' = [t \in Threads |->
                           IF thr[t].cell = x THEN [thr[t] EXCEPT !.removed = b] ELSE thr[t]]

\* Not the code: the name is not looked up, or the thread is not told to end.
AddNmpAnyway ==
  /\ srv.pc = "add"
  /\ \E x \in Cells :
       /\ heap[x].st = "free"
       /\ heap' = [heap EXCEPT ![x].st = "used", ![x].name = srv.name]
       /\ srv' = [srv EXCEPT !.cell = x, !.pc = "begin"]
       /\ Mark(x, FALSE)
  /\ hev' = FALSE
  /\ UNCHANGED <<cl, calls, ctl, coming, list>>
RemoveNmpQuietly ==
  /\ srv.pc = "remove"
  /\ IF Found(srv.name) = {}
     THEN Answer(-1) /\ UNCHANGED <<list, heap, thr>>
     ELSE \E i \in DOMAIN list :
            /\ list[i] \in Found(srv.name)
            /\ Answer(0) /\ list' = RemoveAt(list, i)
            /\ heap' = [heap EXCEPT ![list[i]].st = "free"]
            /\ Mark(list[i], TRUE)
  /\ UNCHANGED <<cl, calls, ctl, coming, hev>>

\* create_nmp () and the first half of add_to_nmp_list (): the structure is allocated
\* and the semaphore is reset before the thread is started.  If there is no memory for
\* the copy of the name, the structure stays allocated and is lost.
AddNmp ==
  /\ srv.pc = "add"
  /\ \/ Found(srv.name) # {} /\ Answer(-1) /\ UNCHANGED <<heap, hev, thr>>
     \/ /\ Found(srv.name) = {}
        /\ \E x \in Cells :
             /\ heap[x].st = "free" /\ Mark(x, FALSE)
             /\ \/ /\ heap' = [heap EXCEPT ![x].st = "used", ![x].name = srv.name]
                   /\ srv' = [srv EXCEPT !.cell = x, !.pc = "begin"]
                   /\ hev' = FALSE
                \/ /\ Fails /\ Answer(-1)
                   /\ heap' = [heap EXCEPT ![x].st = "lost"]
                   /\ UNCHANGED hev
     \/ Found(srv.name) = {} /\ Fails /\ Answer(-1) /\ UNCHANGED <<heap, hev, thr>>
  /\ UNCHANGED <<cl, calls, ctl, coming, list>>

\* _beginthread (): the thread runs before its id has been stored.
BeginThread ==
  /\ srv.pc = "begin"
  /\ \/ LET t == CHOOSE u \in Threads : u \notin Live
        IN /\ Live # Threads
           /\ thr' = [thr EXCEPT ![t] = [NoThread EXCEPT !.pc = "start", !.cell = srv.cell]]
           /\ srv' = [srv EXCEPT !.pc = "settid", !.tid = t]
     \/ Fails /\ srv' = [srv EXCEPT !.pc = "settid", !.tid = -1] /\ UNCHANGED thr
  /\ UNCHANGED <<cl, calls, ctl, coming, list, heap, hev>>

\* Not the code: the semaphore is reset when the thread has been started.
SetTidReset ==
  /\ srv.pc = "settid" /\ Go("event") /\ hev' = FALSE
  /\ heap' = [heap EXCEPT ![srv.cell].tid = srv.tid]
  /\ UNCHANGED <<cl, calls, ctl, coming, list, thr>>

SetTid ==
  /\ srv.pc = "settid" /\ Go("event")
  /\ heap' = [heap EXCEPT ![srv.cell].tid = srv.tid]
  /\ UNCHANGED <<cl, calls, ctl, coming, list, hev, thr>>

\* DosWaitEventSem, and the second half of add_to_nmp_list ().
Added ==
  /\ srv.pc = "event" /\ hev
  /\ IF heap[srv.cell].tid = -1 \/ heap[srv.cell].result = -1
     THEN Answer(-1) /\ heap' = [heap EXCEPT ![srv.cell].st = "free"] /\ UNCHANGED list
     ELSE Answer(0) /\ list' = Append(list, srv.cell) /\ UNCHANGED heap
  /\ UNCHANGED <<cl, calls, ctl, coming, hev, thr>>

\* remove_nmp_from_list (): the thread is told to end by its tid, and the structure
\* in which it is to read that is freed.
RemoveNmp ==
  /\ srv.pc = "remove"
  /\ IF Found(srv.name) = {}
     THEN Answer(-1) /\ UNCHANGED <<list, heap, thr>>
     ELSE \E i \in DOMAIN list :
            /\ list[i] \in Found(srv.name)
            /\ Answer(0)
            /\ list' = RemoveAt(list, i)
            /\ heap' = [heap EXCEPT ![list[i]].tid = -1, ![list[i]].st = "free"]
            /\ Mark(list[i], TRUE)
  /\ UNCHANGED <<cl, calls, ctl, coming, hev>>

Send(v) == ctl' = IF ctl.shut THEN ctl ELSE [ctl EXCEPT !.out = Append(@, v)]

\* DosWrite of the answer: the return code, or the number of fifos.
Reply ==
  /\ srv.pc = "reply" /\ Send(srv.rc)
  /\ srv' = [srv EXCEPT !.i = 0,
               !.pc = IF srv.op = "list" /\ list # <<>> /\ ~ctl.shut THEN "index" ELSE "disconnect"]
  /\ UNCHANGED <<cl, calls, coming, list, heap, hev, thr>>

\* The loop of list_nmps ().
ListName ==
  /\ srv.pc = "index"
  /\ \/ /\ Incoming /\ ~ctl.shut
        /\ ctl' = [ctl EXCEPT !.in = Tail(@), !.out = Append(@, heap[list[srv.i + 1]].name)]
        /\ srv' = [srv EXCEPT !.i = @ + 1,
                     !.pc = IF srv.i + 1 < Len(list) THEN "index" ELSE "disconnect"]
     \/ /\ HungUp \/ (Incoming /\ ctl.shut)
        /\ Go("disconnect") /\ UNCHANGED ctl
  /\ UNCHANGED <<cl, calls, coming, list, heap, hev, thr>>

\* DosDisConnectNPipe throws away what the client has not read.  The server goes on
\* while there are fifos, unless it was told to exit.
Disconnect ==
  /\ srv.pc = "disconnect"
  /\ IF srv.op # "exit" /\ (list # <<>> \/ srv.noexit)
     THEN /\ srv' = [Down EXCEPT !.pc = "connect", !.name = srv.name, !.noexit = srv.noexit]
          /\ ctl' = [NoPipe EXCEPT !.st = "idle"]
          /\ UNCHANGED <<list, heap, hev, thr>>
     ELSE Exit
  /\ UNCHANGED <<cl, calls, coming>>

Server == \/ Listen \/ ReadCommand \/ ReadRequest \/ AddNmp \/ BeginThread \/ SetTid
          \/ Added \/ RemoveNmp \/ Reply \/ ListName \/ Disconnect

(************************* the threads (nmp_thread) ************************)

ThreadEnds(t) == thr' = [thr EXCEPT ![t] = NoThread]
Cell(t) == thr[t].cell

\* result = 0, then the two instances of the pipe are created.  Without them the
\* thread ends and does not post the semaphore.
ThreadStart(t) ==
  /\ thr[t].pc = "start"
  /\ heap' = [heap EXCEPT ![Cell(t)].result = 0]
  /\ \/ thr' = [thr EXCEPT ![t].pc = "post"]
     \/ Fails /\ thr' = [thr EXCEPT ![t].pc = "end"]
  /\ UNCHANGED <<cl, calls, ctl, coming, srv, list, hev>>

Post(t) ==
  /\ thr[t].pc = "post"
  /\ thr' = [thr EXCEPT ![t].pc = "loop"]
  /\ hev' = TRUE
  /\ UNCHANGED <<cl, calls, ctl, coming, srv, list, heap>>

\* while (nmp->tid != -1)
Quit(t) ==
  /\ thr[t].pc = "loop" /\ heap[Cell(t)].tid = -1
  /\ thr' = [thr EXCEPT ![t].pc = "end"]
  /\ UNCHANGED <<cl, calls, ctl, coming, srv, list, heap, hev>>

\* In the loop, perhaps since before tid was set: DosWrite blocks until somebody reads
\* the fifo; an end has been closed and is created again under the name in the
\* structure; a pipe cannot be created again, or reading or writing it fails.
Block(t) ==
  /\ Blocks /\ thr[t].pc = "loop"
  /\ thr' = [thr EXCEPT ![t].pc = "blocked"]
  /\ UNCHANGED <<cl, calls, ctl, coming, srv, list, heap, hev>>
Unblock(t) ==
  /\ thr[t].pc = "blocked"
  /\ thr' = [thr EXCEPT ![t].pc = "loop"]
  /\ UNCHANGED <<cl, calls, ctl, coming, srv, list, heap, hev>>
ThreadError(t) ==
  /\ thr[t].pc \in {"loop", "blocked"} /\ Fails
  /\ heap' = [heap EXCEPT ![Cell(t)].result = -1]
  /\ thr' = [thr EXCEPT ![t].pc = "end"]
  /\ UNCHANGED <<cl, calls, ctl, coming, srv, list, hev>>

\* end: and error: write tid, perhaps into the structure of another fifo by now.
End(t) ==
  /\ thr[t].pc = "end"
  /\ heap' = [heap EXCEPT ![Cell(t)].tid = -1]
  /\ ThreadEnds(t)
  /\ UNCHANGED <<cl, calls, ctl, coming, srv, list, hev>>

Thread(t) == ThreadStart(t) \/ Post(t) \/ Quit(t) \/ End(t)
Users(t) == Block(t) \/ Unblock(t) \/ ThreadError(t)
Client(c) == SpawnServer(c) \/ WaitOver(c) \/ Open(c) \/ Write(c) \/ ReadAnswer(c)

Next ==
  \/ \E c \in Clients : Call(c) \/ Client(c) \/ Kill(c)
  \/ StartServer
  \/ Server
  \/ \E t \in Threads : Thread(t) \/ Users(t)

Spec == Init /\ [][Next]_vars

\* The scheduler of OS/2 runs every process and every thread; nobody has to call, or to
\* open, read or close an end of a fifo: a thread that waits in DosWrite may wait for ever.
Fairness ==
  /\ \A c \in Clients : WF_vars(Client(c))
  /\ WF_vars(StartServer) /\ WF_vars(Server)
  /\ \A t \in Threads : WF_vars(Thread(t))

FairSpec == Spec /\ Fairness

(******************************* properties *******************************)

\* _nmp_list_ holds allocated structures with different names; besides them only the
\* one that is being added is in use, whatever threads and clients do meanwhile, and
\* those are lost that have been allocated without memory for a name (nmpserv.c:64).
ListIntact ==
  /\ \A i, j \in DOMAIN list : i # j => heap[list[i]].name # heap[list[j]].name
  /\ {x \in Cells : heap[x].st = "used"} =
       ToSet(list) \cup (IF srv.pc \in {"begin", "settid", "event"} THEN {srv.cell} ELSE {})

\* The server waits for a thread that will not post: it was not started, or has failed.
Hung == srv.pc = "event" /\ ~hev /\ (srv.tid = -1 \/ thr[srv.tid].pc = "none")

\* merlin_mkfifo () has started a server, once, and that server is gone.
Orphaned(c) == cl[c].pc = "wait" /\ cl[c].pid # -1 /\ ctl.st = "none" /\ coming = 0

\* Every library call returns, so that a client is again and again in none, but for two
\* ways to wait for ever: the server hangs because no thread could be started for a
\* fifo, or the server that the call has started has ended, for another client's
\* command, before the call got to it.
CallReturns ==
  \A c \in Clients : []<>(cl[c].pc = "idle" \/ Hung \/ Orphaned(c))

\* The threads of a fifo that has been removed end, unless its structure is handed out
\* again before they have looked, or they wait for a reader in DosWrite (nmp_thread.c:128,
\* 149), which may last for ever; when it returns, they end as well.
RemovedEnds ==
  \A t \in Threads : []<>(thr[t].removed => thr[t].pc = "blocked")

\* A fifo of the list whose tid is not -1 has its thread (nmpserv.c:64).
FifoServed ==
  \A x \in ToSet(list) :
    heap[x].tid # -1 => \E t \in Threads : thr[t].pc \in {"post", "loop", "blocked"} /\ Cell(t) = x
=============================================================================

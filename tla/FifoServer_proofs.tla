------------------------- MODULE FifoServer_proofs -------------------------
(***************************************************************************)
(* The list of the fifo server is what it says, for any number of clients, *)
(* fifos and threads, with threads that fail, clients that are killed and  *)
(* servers that are started twice: the cells that are in use are those of  *)
(* the list and the one that is being added, and no name is there twice.   *)
(***************************************************************************)
EXTENDS FifoServer, SequenceTheorems, TLAPS

-----------------------------------------------------------------------------
(***************************************************************************)
(* The inductive invariant                                                 *)
(***************************************************************************)

\* The members that a cell and the server have.
Structures ==
  heap = [x \in Cells |-> [st |-> heap[x].st, name |-> heap[x].name,
                           tid |-> heap[x].tid, result |-> heap[x].result]]
ServerOK ==
  srv = [pc |-> srv.pc, op |-> srv.op, name |-> srv.name, cell |-> srv.cell,
         tid |-> srv.tid, rc |-> srv.rc, i |-> srv.i, noexit |-> srv.noexit]

\* A fifo is being added: its name is that of the command and nobody else's.
Adding == srv.pc \in {"begin", "settid", "event"}
NewName == Adding => /\ srv.cell \in Cells \ ToSet(list)
                     /\ heap[srv.cell].name = srv.name
                     /\ Found(srv.name) = {}

\* There is a control pipe while there is a server.
PipeShape ==
  ctl = [st |-> ctl.st, who |-> ctl.who, shut |-> ctl.shut, in |-> ctl.in, out |-> ctl.out]
PipeOK ==
  /\ PipeShape
  /\ srv.pc # "down" => ctl.st # "none"

ListInv == PipeOK /\ Structures /\ ServerOK /\ list \in Seq(Cells) /\ ListIntact /\ NewName

-----------------------------------------------------------------------------
(***************************************************************************)
(* The heap                                                                *)
(***************************************************************************)

\* Cell x is given other contents.
Becomes(x, y) == heap' = [heap EXCEPT ![x] = y]
IsCell(y) == y = [st |-> y.st, name |-> y.name, tid |-> y.tid, result |-> y.result]

LEMMA CellSet ==
  ASSUME Structures, NEW x, NEW y, Becomes(x, y), IsCell(y)
  PROVE  /\ Structures'
         /\ \A z \in Cells : heap'[z] = IF z = x THEN y ELSE heap[z]
<1>1. DOMAIN heap = Cells
  BY DEF Structures
<1>2. heap' = [z \in Cells |-> IF z = x THEN y ELSE heap[z]]
  BY <1>1 DEF Structures, Becomes
<1>3. \A z \in Cells : heap[z] = [st |-> heap[z].st, name |-> heap[z].name,
                                  tid |-> heap[z].tid, result |-> heap[z].result]
  BY DEF Structures
<1>4. \A z \in Cells : heap'[z] = [st |-> heap'[z].st, name |-> heap'[z].name,
                                   tid |-> heap'[z].tid, result |-> heap'[z].result]
  BY <1>2, <1>3 DEF IsCell
<1>5. heap' = [z \in Cells |-> heap'[z]]
  BY <1>2
<1>6. Structures'
  BY <1>4, <1>5 DEF Structures
<1> QED
  BY <1>2, <1>6

\* The names and what is allocated.
SameNames ==
  \A x \in Cells : /\ heap'[x].name = heap[x].name
                   /\ heap'[x].st = "used" <=> heap[x].st = "used"

\* Threads write tid and result only.
LEMMA CellTold ==
  ASSUME Structures, NEW x
  PROVE  /\ \A t : heap' = [heap EXCEPT ![x].tid = t] => Structures' /\ SameNames
         /\ \A r : heap' = [heap EXCEPT ![x].result = r] => Structures' /\ SameNames
         /\ heap' = [heap EXCEPT ![x].st = "lost"] /\ (x \in Cells => heap[x].st = "free")
              => Structures' /\ SameNames
<1>1. ASSUME NEW y, heap' = [heap EXCEPT ![x] = y],
             x \in Cells => /\ y.name = heap[x].name
                            /\ y.st = "used" <=> heap[x].st = "used"
                            /\ y = [st |-> y.st, name |-> y.name,
                                    tid |-> y.tid, result |-> y.result]
      PROVE  Structures' /\ SameNames
  <2>1. CASE x \in Cells
    <3>1. IsCell(y) /\ Becomes(x, y)
      BY <1>1, <2>1 DEF IsCell, Becomes
    <3>2. Structures' /\ \A z \in Cells : heap'[z] = IF z = x THEN y ELSE heap[z]
      BY <3>1, CellSet
    <3>3. y.name = heap[x].name /\ (y.st = "used" <=> heap[x].st = "used")
      BY <1>1, <2>1
    <3>4. ASSUME NEW z \in Cells
          PROVE  heap'[z].name = heap[z].name /\ (heap'[z].st = "used" <=> heap[z].st = "used")
      BY <3>2, <3>3
    <3> QED
      BY <3>2, <3>4 DEF SameNames
  <2>2. CASE x \notin Cells
    <3>1. heap' = heap
      BY <1>1, <2>2 DEF Structures
    <3> QED
      BY <3>1 DEF Structures, SameNames
  <2> QED
    BY <2>1, <2>2
<1>2. x \in Cells => heap[x] = [st |-> heap[x].st, name |-> heap[x].name,
                                tid |-> heap[x].tid, result |-> heap[x].result]
  BY DEF Structures
<1>3. ASSUME NEW t, heap' = [heap EXCEPT ![x].tid = t] PROVE Structures' /\ SameNames
  <2>1. PICK y : y = [heap[x] EXCEPT !.tid = t]
    OBVIOUS
  <2>2. x \in Cells => /\ y.name = heap[x].name
                       /\ y.st = "used" <=> heap[x].st = "used"
                       /\ y = [st |-> y.st, name |-> y.name,
                               tid |-> y.tid, result |-> y.result]
    BY <1>2, <2>1
  <2>3. heap' = [heap EXCEPT ![x] = y]
    BY <1>3, <2>1
  <2> QED
    BY <1>1, <2>2, <2>3
<1>4. ASSUME NEW r, heap' = [heap EXCEPT ![x].result = r] PROVE Structures' /\ SameNames
  <2>1. PICK y : y = [heap[x] EXCEPT !.result = r]
    OBVIOUS
  <2>2. x \in Cells => /\ y.name = heap[x].name
                       /\ y.st = "used" <=> heap[x].st = "used"
                       /\ y = [st |-> y.st, name |-> y.name,
                               tid |-> y.tid, result |-> y.result]
    BY <1>2, <2>1
  <2>3. heap' = [heap EXCEPT ![x] = y]
    BY <1>4, <2>1
  <2> QED
    BY <1>1, <2>2, <2>3
<1>5. ASSUME heap' = [heap EXCEPT ![x].st = "lost"], x \in Cells => heap[x].st = "free"
      PROVE  Structures' /\ SameNames
  <2>1. PICK y : y = [heap[x] EXCEPT !.st = "lost"]
    OBVIOUS
  <2>2. x \in Cells => /\ y.name = heap[x].name
                       /\ y.st = "used" <=> heap[x].st = "used"
                       /\ y = [st |-> y.st, name |-> y.name,
                               tid |-> y.tid, result |-> y.result]
    BY <1>2, <1>5, <2>1
  <2>3. heap' = [heap EXCEPT ![x] = y]
    BY <1>5, <2>1
  <2> QED
    BY <1>1, <2>2, <2>3
<1> QED
  BY <1>3, <1>4, <1>5

-----------------------------------------------------------------------------
(***************************************************************************)
(* Steps that leave the list and the names alone                           *)
(***************************************************************************)

LEMMA InCells == list \in Seq(Cells) => ToSet(list) \subseteq Cells
  BY DEF ToSet

LEMMA ListKept ==
  ASSUME ListInv, UNCHANGED list, SameNames, Structures', ServerOK', PipeOK',
         Adding' <=> Adding,
         Adding => srv'.cell = srv.cell /\ srv'.name = srv.name
  PROVE  ListInv'
<1>1. ToSet(list) \subseteq Cells /\ DOMAIN list = 1 .. Len(list)
  BY InCells DEF ListInv
<1>2. \A i \in DOMAIN list : list[i] \in Cells
  BY DEF ListInv
<1>3. ToSet(list') = ToSet(list) /\ list' \in Seq(Cells)
  BY DEF ListInv
<1>4. \A i, j \in DOMAIN list' : i # j => heap'[list'[i]].name # heap'[list'[j]].name
  BY <1>2 DEF SameNames, ListInv, ListIntact
<1>5. {x \in Cells : heap'[x].st = "used"} = {x \in Cells : heap[x].st = "used"}
  BY DEF SameNames
<1>6. (IF srv'.pc \in {"begin", "settid", "event"} THEN {srv'.cell} ELSE {})
        = (IF srv.pc \in {"begin", "settid", "event"} THEN {srv.cell} ELSE {})
  BY DEF Adding
<1>7. ListIntact'
  BY <1>3, <1>4, <1>5, <1>6 DEF ListInv, ListIntact
<1>8. \A n : Found(n)' = Found(n)
  BY <1>1, <1>3 DEF Found, SameNames
<1>9. NewName'
  <2>1. SUFFICES ASSUME Adding'
                 PROVE  /\ srv'.cell \in Cells \ ToSet(list')
                        /\ heap'[srv'.cell].name = srv'.name
                        /\ Found(srv.name)' = {}
    BY DEF NewName
  <2>2. /\ srv.cell \in Cells \ ToSet(list)
        /\ heap[srv.cell].name = srv.name
        /\ Found(srv.name) = {}
    BY <2>1 DEF ListInv, NewName
  <2>3. Found(srv.name)' = Found(srv.name)
    BY <2>1, <1>1, <1>3 DEF Found, SameNames
  <2> QED
    BY <2>1, <2>2, <2>3, <1>3 DEF SameNames
<1> QED
  BY <1>3, <1>7, <1>9 DEF ListInv

LEMMA HeapKept == Structures /\ UNCHANGED heap => Structures' /\ SameNames
  BY DEF Structures, SameNames

LEMMA PipeSame == PipeOK /\ UNCHANGED <<ctl, srv>> => PipeOK'
  BY DEF PipeOK, PipeShape

\* Steps of clients and threads that leave the server and its heap alone.
LEMMA Elsewhere ==
  ASSUME ListInv, UNCHANGED <<srv, list, heap>>, PipeOK'
  PROVE  ListInv'
<1>1. Structures' /\ SameNames
  BY HeapKept DEF ListInv
<1>2. ServerOK' /\ (Adding' <=> Adding)
  BY DEF ListInv, ServerOK, Adding
<1> QED
  BY <1>1, <1>2, ListKept

\* What a step writes into the pipe is not its state.
LEMMA PipeWritten ==
  ASSUME PipeShape
  PROVE  /\ \A a : ctl' = [ctl EXCEPT !.in = a] => PipeShape' /\ ctl'.st = ctl.st
         /\ \A a : ctl' = [ctl EXCEPT !.out = a] => PipeShape' /\ ctl'.st = ctl.st
         /\ \A a, b : ctl' = [ctl EXCEPT !.in = a, !.out = b] => PipeShape' /\ ctl'.st = ctl.st
         /\ \A a, b : ctl' = [ctl EXCEPT !.out = a, !.shut = b] => PipeShape' /\ ctl'.st = ctl.st
         /\ \A a, b : ctl' = [ctl EXCEPT !.shut = a, !.in = b] => PipeShape' /\ ctl'.st = ctl.st
         /\ \A a : ctl' = [ctl EXCEPT !.st = a] => PipeShape' /\ ctl'.st = a
  BY DEF PipeShape

LEMMA NoPipeShape ==
  ASSUME NEW a
  PROVE  /\ ctl' = [NoPipe EXCEPT !.st = a] => PipeShape' /\ ctl'.st = a
         /\ \A b : ctl' = [NoPipe EXCEPT !.st = a, !.who = b] => PipeShape' /\ ctl'.st = a
         /\ ctl' = NoPipe => PipeShape' /\ ctl'.st = "none"
<1>1. ASSUME ctl' = [NoPipe EXCEPT !.st = a] PROVE PipeShape' /\ ctl'.st = a
  <2>1. ctl' = [st |-> a, who |-> "nobody", shut |-> FALSE, in |-> <<>>, out |-> <<>>]
    BY <1>1 DEF NoPipe
  <2> QED
    BY <2>1 DEF PipeShape
<1>2. ASSUME NEW b, ctl' = [NoPipe EXCEPT !.st = a, !.who = b]
      PROVE  PipeShape' /\ ctl'.st = a
  <2>1. ctl' = [st |-> a, who |-> b, shut |-> FALSE, in |-> <<>>, out |-> <<>>]
    BY <1>2 DEF NoPipe
  <2> QED
    BY <2>1 DEF PipeShape
<1>3. ASSUME ctl' = NoPipe PROVE PipeShape' /\ ctl'.st = "none"
  BY <1>3 DEF PipeShape, NoPipe
<1> QED
  BY <1>1, <1>2, <1>3

-----------------------------------------------------------------------------
(***************************************************************************)
(* The steps of clients and threads                                        *)
(***************************************************************************)

LEMMA ClientKeeps ==
  ASSUME ListInv, NEW c \in Clients, Call(c) \/ Client(c) \/ Kill(c)
  PROVE  ListInv'
<1>1. UNCHANGED <<srv, list, heap>>
  BY DEF Call, Client, Kill, SpawnServer, WaitOver, Open, Write, ReadAnswer
<1>2. PipeShape /\ (srv.pc # "down" => ctl.st # "none")
  BY DEF ListInv, PipeOK
<1>3. SUFFICES PipeShape' /\ (ctl.st # "none" => ctl'.st # "none")
  <2>1. PipeOK'
    BY <1>1, <1>2, <1>3 DEF PipeOK
  <2> QED
    BY <1>1, <2>1, Elsewhere
<1>4. CASE UNCHANGED ctl
  BY <1>2, <1>4 DEF PipeShape
<1>5. CASE Call(c) \/ SpawnServer(c) \/ WaitOver(c)
  BY <1>4, <1>5 DEF Call, SpawnServer, WaitOver
<1>6. CASE Open(c)
  <2>1. UNCHANGED ctl \/ ctl' = [NoPipe EXCEPT !.st = "conn", !.who = c]
    BY <1>6 DEF Open
  <2>2. CASE ctl' = [NoPipe EXCEPT !.st = "conn", !.who = c]
    <3>1. PipeShape' /\ ctl'.st = "conn"
      BY <2>2, NoPipeShape
    <3> QED
      BY <3>1
  <2> QED
    BY <1>4, <2>1, <2>2
<1>7. CASE Write(c)
  <2>1. UNCHANGED ctl \/ \E a : ctl' = [ctl EXCEPT !.in = a]
    BY <1>7 DEF Write
  <2> QED
    BY <1>2, <1>4, <2>1, PipeWritten
<1>8. CASE ReadAnswer(c)
  <2>1. \/ UNCHANGED ctl
        \/ \E a : ctl' = [ctl EXCEPT !.out = a]
        \/ \E a, b : ctl' = [ctl EXCEPT !.out = a, !.shut = b]
    BY <1>8 DEF ReadAnswer
  <2> QED
    BY <1>2, <1>4, <2>1, PipeWritten
<1>9. CASE Kill(c)
  <2>1. UNCHANGED ctl \/ \E a, b : ctl' = [ctl EXCEPT !.shut = a, !.in = b]
    BY <1>9 DEF Kill
  <2> QED
    BY <1>2, <1>4, <2>1, PipeWritten
<1> QED
  BY <1>5, <1>6, <1>7, <1>8, <1>9 DEF Client

LEMMA ThreadKeeps ==
  ASSUME ListInv, NEW t \in Threads, Thread(t) \/ Users(t)
  PROVE  ListInv'
<1> USE DEF Thread, Users, ThreadStart, Post, Quit, End, Block, Unblock, ThreadError
<1>1. UNCHANGED <<ctl, srv, list>>
  OBVIOUS
<1>2. PipeOK' /\ ServerOK' /\ (Adding' <=> Adding)
  BY <1>1, PipeSame DEF ListInv, ServerOK, Adding
<1>3. \/ UNCHANGED heap
      \/ \E x, r : heap' = [heap EXCEPT ![x].result = r]
      \/ \E x, u : heap' = [heap EXCEPT ![x].tid = u]
  OBVIOUS
<1>4. Structures' /\ SameNames
  BY <1>3, HeapKept, CellTold DEF ListInv
<1> QED
  BY <1>1, <1>2, <1>4, ListKept

-----------------------------------------------------------------------------
(***************************************************************************)
(* The steps of the server                                                 *)
(***************************************************************************)

LEMMA ServerGoes ==
  ASSUME ServerOK, NEW p
  PROVE  /\ srv' = [srv EXCEPT !.pc = p] =>
              ServerOK' /\ srv'.pc = p /\ srv'.name = srv.name /\ srv'.cell = srv.cell
         /\ \A a : srv' = [srv EXCEPT !.pc = p, !.rc = a] =>
              ServerOK' /\ srv'.pc = p /\ srv'.name = srv.name /\ srv'.cell = srv.cell
         /\ \A a, b : srv' = [srv EXCEPT !.op = a, !.rc = b, !.pc = p] =>
              ServerOK' /\ srv'.pc = p
         /\ \A a : srv' = [srv EXCEPT !.pc = p, !.name = a] => ServerOK' /\ srv'.pc = p
         /\ \A a : srv' = [srv EXCEPT !.cell = a, !.pc = p] =>
              ServerOK' /\ srv'.pc = p /\ srv'.name = srv.name /\ srv'.cell = a
         /\ \A a : srv' = [srv EXCEPT !.pc = p, !.tid = a] =>
              ServerOK' /\ srv'.pc = p /\ srv'.name = srv.name /\ srv'.cell = srv.cell
         /\ \A a : srv' = [srv EXCEPT !.i = a, !.pc = p] => ServerOK' /\ srv'.pc = p
  BY DEF ServerOK

LEMMA NewServer ==
  ASSUME NEW p
  PROVE  /\ srv' = [Down EXCEPT !.pc = p] => ServerOK' /\ srv'.pc = p
         /\ \A a, b : srv' = [Down EXCEPT !.pc = p, !.name = a, !.noexit = b]
              => ServerOK' /\ srv'.pc = p
         /\ srv' = Down => ServerOK' /\ srv'.pc = "down"
<1>1. ASSUME srv' = [Down EXCEPT !.pc = p] PROVE ServerOK' /\ srv'.pc = p
  <2>1. srv' = [pc |-> p, op |-> "none", name |-> NoName, cell |-> 0, tid |-> 0,
                rc |-> 0, i |-> 0, noexit |-> FALSE]
    BY <1>1 DEF Down
  <2> QED
    BY <2>1 DEF ServerOK
<1>2. ASSUME NEW a, NEW b, srv' = [Down EXCEPT !.pc = p, !.name = a, !.noexit = b]
      PROVE  ServerOK' /\ srv'.pc = p
  <2>1. srv' = [pc |-> p, op |-> "none", name |-> a, cell |-> 0, tid |-> 0,
                rc |-> 0, i |-> 0, noexit |-> b]
    BY <1>2 DEF Down
  <2> QED
    BY <2>1 DEF ServerOK
<1>3. ASSUME srv' = Down PROVE ServerOK' /\ srv'.pc = "down"
  BY <1>3 DEF Down, ServerOK
<1> QED
  BY <1>1, <1>2, <1>3

\* Steps with no fifo being added, before or after.
LEMMA Quietly ==
  ASSUME ListInv, UNCHANGED <<list, heap>>, ServerOK', PipeOK', ~Adding, ~Adding'
  PROVE  ListInv'
<1>1. Structures' /\ SameNames
  BY HeapKept DEF ListInv
<1> QED
  BY <1>1, ListKept

\* The process has ended: nothing is left.
LEMMA ExitKeeps == Exit => ListInv'
<1>1. SUFFICES ASSUME Exit PROVE ListInv'
  OBVIOUS
<1>2. list' = <<>> /\ heap' = FreshHeap /\ srv' = Down /\ ctl' = NoPipe
  BY <1>1 DEF Exit
<1>3. heap' = [x \in Cells |-> [st |-> "free", name |-> NoName, tid |-> 0, result |-> 0]]
  BY <1>2 DEF FreshHeap
<1>4. Structures'
  BY <1>3 DEF Structures
<1>5. ServerOK' /\ srv'.pc = "down"
  BY <1>2, NewServer
<1>6. PipeOK'
  BY <1>2, <1>5, NoPipeShape DEF PipeOK
<1>7. list' \in Seq(Cells) /\ DOMAIN list' = {} /\ ToSet(list') = {}
  BY <1>2 DEF ToSet
<1>8. {x \in Cells : heap'[x].st = "used"} = {}
  BY <1>3
<1>9. ListIntact'
  BY <1>5, <1>7, <1>8 DEF ListIntact
<1>10. NewName'
  BY <1>5 DEF NewName, Adding
<1> QED
  BY <1>4, <1>5, <1>6, <1>7, <1>9, <1>10 DEF ListInv

LEMMA StartKeeps == ListInv /\ StartServer => ListInv'
<1>1. SUFFICES ASSUME ListInv, StartServer PROVE ListInv'
  OBVIOUS
<1>2. UNCHANGED <<list, heap>>
  BY <1>1 DEF StartServer
<1>3. CASE ctl.st = "none"
  <2>1. ctl' = [NoPipe EXCEPT !.st = "idle"] /\ srv' = [Down EXCEPT !.pc = "connect"]
    BY <1>1, <1>3 DEF StartServer
  <2>2. ServerOK' /\ srv'.pc = "connect"
    BY <2>1, NewServer
  <2>3. PipeShape' /\ ctl'.st = "idle"
    BY <2>1, NoPipeShape
  <2>4. ~Adding
    BY <1>1, <1>3 DEF ListInv, PipeOK, Adding
  <2>5. ~Adding' /\ PipeOK'
    BY <2>2, <2>3 DEF Adding, PipeOK
  <2> QED
    BY <1>1, <1>2, <2>2, <2>4, <2>5, Quietly
<1>4. CASE ctl.st # "none"
  <2>1. UNCHANGED <<ctl, srv>>
    BY <1>1, <1>4 DEF StartServer
  <2> QED
    BY <1>1, <1>2, <2>1, PipeSame, Elsewhere DEF ListInv
<1> QED
  BY <1>3, <1>4

\* What reads the commands and answers them.
LEMMA TalkKeeps ==
  ASSUME ListInv, Listen \/ ReadCommand \/ ReadRequest \/ Reply \/ ListName \/ Disconnect
  PROVE  ListInv'
<1> USE DEF Adding
<1>1. PipeShape /\ ServerOK /\ (srv.pc # "down" => ctl.st # "none")
  BY DEF ListInv, PipeOK
<1>2. ~Adding /\ srv.pc # "down"
  BY DEF Listen, ReadCommand, ReadRequest, Reply, ListName, Disconnect
<1>3. ASSUME UNCHANGED <<list, heap>>, ServerOK', ~Adding', PipeShape', ctl'.st # "none"
      PROVE  ListInv'
  BY <1>2, <1>3, Quietly DEF PipeOK
<1>4. ASSUME UNCHANGED <<list, heap>>, ServerOK', ~Adding',
             \/ UNCHANGED ctl
             \/ \E a : ctl' = [ctl EXCEPT !.in = a]
             \/ \E a : ctl' = [ctl EXCEPT !.out = a]
             \/ \E a, b : ctl' = [ctl EXCEPT !.in = a, !.out = b]
      PROVE  ListInv'
  <2>1. PipeShape' /\ ctl'.st = ctl.st
    <3>1. CASE UNCHANGED ctl
      BY <1>1, <3>1 DEF PipeShape
    <3> QED
      BY <1>1, <1>4, <3>1, PipeWritten
  <2> QED
    BY <1>1, <1>2, <1>3, <1>4, <2>1
<1>5. CASE Listen
  <2>1. UNCHANGED <<list, heap>> /\ srv' = [srv EXCEPT !.pc = "cmd"]
        /\ ctl' = [ctl EXCEPT !.st = "listen"]
    BY <1>5 DEF Listen, Go
  <2>2. ServerOK' /\ ~Adding'
    BY <1>1, <2>1, ServerGoes
  <2>3. PipeShape' /\ ctl'.st = "listen"
    BY <1>1, <2>1, PipeWritten
  <2> QED
    BY <1>3, <2>1, <2>2, <2>3
<1>6. CASE ReadCommand
  <2>1. CASE Exit
    BY <2>1, ExitKeeps
  <2>2. CASE ~Exit
    <3>1. UNCHANGED <<list, heap>> /\ ctl' = [ctl EXCEPT !.in = Tail(ctl.in)]
      BY <1>6, <2>2 DEF ReadCommand, Consume
    <3>2. PICK p : /\ p \in {"request", "reply"}
                   /\ srv' = [srv EXCEPT !.op = Head(ctl.in), !.rc = Len(list), !.pc = p]
      BY <1>6, <2>2 DEF ReadCommand
    <3>3. ServerOK' /\ srv'.pc = p
      BY <1>1, <3>2, ServerGoes
    <3>4. ServerOK' /\ ~Adding'
      BY <3>2, <3>3
    <3> QED
      BY <1>4, <3>1, <3>4
  <2> QED
    BY <2>1, <2>2
<1>7. CASE ReadRequest
  <2>1. UNCHANGED <<list, heap>> /\ \E a : ctl' = [ctl EXCEPT !.in = a]
    BY <1>7 DEF ReadRequest
  <2>2. \E p \in {"add", "remove", "disconnect"} :
          \/ srv' = [srv EXCEPT !.pc = p]
          \/ \E a : srv' = [srv EXCEPT !.pc = p, !.name = a]
    BY <1>7 DEF ReadRequest, Go
  <2>3. ServerOK' /\ srv'.pc \in {"add", "remove", "disconnect"}
    BY <1>1, <2>2, ServerGoes
  <2>4. ~Adding'
    BY <2>3
  <2> QED
    BY <1>4, <2>1, <2>3, <2>4
<1>8. CASE Reply
  <2>1. UNCHANGED <<list, heap>> /\ (UNCHANGED ctl \/ \E a : ctl' = [ctl EXCEPT !.out = a])
    BY <1>8 DEF Reply, Send
  <2>2. \E p \in {"index", "disconnect"} : srv' = [srv EXCEPT !.i = 0, !.pc = p]
    BY <1>8 DEF Reply
  <2>3. ServerOK' /\ srv'.pc \in {"index", "disconnect"}
    BY <1>1, <2>2, ServerGoes
  <2>4. ~Adding'
    BY <2>3
  <2> QED
    BY <1>4, <2>1, <2>3, <2>4
<1>9. CASE ListName
  <2>1. /\ UNCHANGED <<list, heap>>
        /\ UNCHANGED ctl \/ \E a, b : ctl' = [ctl EXCEPT !.in = a, !.out = b]
    BY <1>9 DEF ListName
  <2>2. \E p \in {"index", "disconnect"} :
          srv' = [srv EXCEPT !.pc = p] \/ \E a : srv' = [srv EXCEPT !.i = a, !.pc = p]
    BY <1>9 DEF ListName, Go
  <2>3. ServerOK' /\ srv'.pc \in {"index", "disconnect"}
    BY <1>1, <2>2, ServerGoes
  <2>4. ~Adding'
    BY <2>3
  <2> QED
    BY <1>4, <2>1, <2>3, <2>4
<1>10. CASE Disconnect
  <2>1. CASE Exit
    BY <2>1, ExitKeeps
  <2>2. CASE ~Exit
    <3>1. UNCHANGED <<list, heap>> /\ ctl' = [NoPipe EXCEPT !.st = "idle"]
      BY <1>10, <2>2 DEF Disconnect
    <3>2. srv' = [Down EXCEPT !.pc = "connect", !.name = srv.name, !.noexit = srv.noexit]
      BY <1>10, <2>2 DEF Disconnect
    <3>3. ServerOK' /\ srv'.pc = "connect"
      BY <3>2, NewServer
    <3>4. PipeShape' /\ ctl'.st = "idle"
      BY <3>1, NoPipeShape
    <3>5. ~Adding' /\ ctl'.st # "none"
      BY <3>3, <3>4
    <3> QED
      BY <1>3, <3>1, <3>3, <3>4, <3>5
  <2> QED
    BY <2>1, <2>2
<1> QED
  BY <1>5, <1>6, <1>7, <1>8, <1>9, <1>10

\* A structure is given to a thread, and the id of the thread is stored.
LEMMA BeginKeeps == ListInv /\ (BeginThread \/ SetTid) => ListInv'
<1>1. SUFFICES ASSUME ListInv, BeginThread \/ SetTid PROVE ListInv'
  OBVIOUS
<1>2. UNCHANGED <<list, ctl>> /\ srv.pc \in {"begin", "settid"}
  BY <1>1 DEF BeginThread, SetTid
<1>3. \E p \in {"settid", "event"} :
        srv' = [srv EXCEPT !.pc = p] \/ \E a : srv' = [srv EXCEPT !.pc = p, !.tid = a]
  BY <1>1 DEF BeginThread, SetTid, Go
<1>4. /\ ServerOK' /\ srv'.pc \in {"settid", "event"}
      /\ srv'.name = srv.name /\ srv'.cell = srv.cell
  BY <1>1, <1>3, ServerGoes DEF ListInv
<1>5. Adding /\ Adding'
  BY <1>2, <1>4 DEF Adding
<1>6. PipeOK'
  BY <1>1, <1>2 DEF ListInv, PipeOK, PipeShape
<1>7. UNCHANGED heap \/ \E x, t : heap' = [heap EXCEPT ![x].tid = t]
  BY <1>1 DEF BeginThread, SetTid
<1>8. Structures' /\ SameNames
  BY <1>1, <1>7, HeapKept, CellTold DEF ListInv
<1> QED
  BY <1>1, <1>2, <1>4, <1>5, <1>6, <1>8, ListKept

\* An answer is given.
LEMMA Answered ==
  ASSUME ListInv, NEW rc, Answer(rc), UNCHANGED ctl, srv.pc # "down"
  PROVE  ServerOK' /\ PipeOK' /\ ~Adding'
<1>1. srv' = [srv EXCEPT !.pc = "reply", !.rc = rc]
  BY DEF Answer
<1>2. ServerOK' /\ srv'.pc = "reply"
  BY <1>1, ServerGoes DEF ListInv
<1> QED
  BY <1>2 DEF ListInv, PipeOK, PipeShape, Adding

LEMMA AddKeeps == ListInv /\ AddNmp => ListInv'
<1>1. SUFFICES ASSUME ListInv, AddNmp PROVE ListInv'
  OBVIOUS
<1>2. UNCHANGED <<list, ctl>> /\ srv.pc = "add"
  BY <1>1 DEF AddNmp
<1>3. ~Adding
  BY <1>2 DEF Adding
<1>4. CASE Answer(-1) /\ UNCHANGED heap
  <2>1. ServerOK' /\ PipeOK' /\ ~Adding'
    BY <1>1, <1>2, <1>4, Answered
  <2> QED
    BY <1>1, <1>2, <1>3, <1>4, <2>1, Quietly
<1>5. ASSUME Found(srv.name) = {}, NEW x \in Cells, heap[x].st = "free",
             heap' = [heap EXCEPT ![x].st = "used", ![x].name = srv.name],
             srv' = [srv EXCEPT !.cell = x, !.pc = "begin"]
      PROVE  ListInv'
  <2>1. /\ ServerOK' /\ srv'.pc = "begin" /\ srv'.name = srv.name /\ srv'.cell = x
    BY <1>1, <1>5, ServerGoes DEF ListInv
  <2>2. PipeOK'
    BY <1>1, <1>2 DEF ListInv, PipeOK, PipeShape
  <2>3. PICK y : y = [heap[x] EXCEPT !.st = "used", !.name = srv.name]
    OBVIOUS
  <2>4. Becomes(x, y)
    <3>1. heap' = [heap EXCEPT ![x] = y]
      BY <1>1, <1>5, <2>3 DEF ListInv, Structures
    <3> QED
      BY <3>1 DEF Becomes
  <2>5. heap[x] = [st |-> heap[x].st, name |-> heap[x].name,
                   tid |-> heap[x].tid, result |-> heap[x].result]
    BY <1>1 DEF ListInv, Structures
  <2>6. IsCell(y) /\ y.st = "used" /\ y.name = srv.name
    BY <2>3, <2>5 DEF IsCell
  <2>7. Structures' /\ \A z \in Cells : heap'[z] = IF z = x THEN y ELSE heap[z]
    BY <1>1, <2>4, <2>6, CellSet DEF ListInv
  <2>8. ToSet(list) \subseteq Cells /\ \A i \in DOMAIN list : list[i] \in ToSet(list)
    BY <1>1, InCells DEF ListInv, ToSet
  <2>9. {z \in Cells : heap[z].st = "used"} = ToSet(list)
    BY <1>1, <1>2 DEF ListInv, ListIntact
  <2>10. x \notin ToSet(list)
    BY <1>5, <2>9
  <2>11. \A z \in ToSet(list) : heap'[z] = heap[z]
    BY <2>7, <2>8, <2>10
  <2>12. ToSet(list') = ToSet(list) /\ DOMAIN list' = DOMAIN list
    BY <1>2
  <2>13. \A i, j \in DOMAIN list' : i # j => heap'[list'[i]].name # heap'[list'[j]].name
    <3>1. \A i, j \in DOMAIN list : i # j => heap[list[i]].name # heap[list[j]].name
      BY <1>1 DEF ListInv, ListIntact
    <3> QED
      BY <1>2, <2>8, <2>11, <3>1
  <2>14. {z \in Cells : heap'[z].st = "used"} = ToSet(list') \cup {x}
    <3>1. \A z \in Cells : heap'[z].st = "used" <=> z \in ToSet(list) \/ z = x
      BY <2>6, <2>7, <2>9
    <3> QED
      BY <2>8, <2>12, <3>1
  <2>15. ListIntact'
    BY <2>1, <2>13, <2>14 DEF ListIntact
  <2>16. \A z \in ToSet(list) : heap[z].name # srv.name
    BY <1>5 DEF Found
  <2>17. Found(srv.name)' = {}
    BY <2>1, <2>11, <2>12, <2>16 DEF Found
  <2>18. heap'[x].name = srv'.name
    BY <2>1, <2>6, <2>7
  <2>19. NewName'
    BY <2>1, <2>10, <2>12, <2>17, <2>18 DEF NewName
  <2>20. list' \in Seq(Cells)
    BY <1>1, <1>2 DEF ListInv
  <2> QED
    BY <2>1, <2>2, <2>7, <2>15, <2>19, <2>20 DEF ListInv
<1>6. ASSUME NEW x \in Cells, heap[x].st = "free", Answer(-1),
             heap' = [heap EXCEPT ![x].st = "lost"]
      PROVE  ListInv'
  <2>1. ServerOK' /\ PipeOK' /\ ~Adding'
    BY <1>1, <1>2, <1>6, Answered
  <2>2. Structures' /\ SameNames
    BY <1>1, <1>6, CellTold DEF ListInv
  <2> QED
    BY <1>1, <1>2, <1>3, <2>1, <2>2, ListKept
<1> QED
  BY <1>1, <1>4, <1>5, <1>6 DEF AddNmp

\* A structure is freed: its contents stay.
LEMMA Freed ==
  ASSUME Structures, NEW x \in Cells,
         \/ heap' = [heap EXCEPT ![x].st = "free"]
         \/ heap' = [heap EXCEPT ![x].tid = -1, ![x].st = "free"]
  PROVE  /\ Structures' /\ \A z \in Cells : heap'[z].name = heap[z].name
         /\ {z \in Cells : heap'[z].st = "used"} = {z \in Cells : heap[z].st = "used"} \ {x}
<1>1. heap[x] = [st |-> heap[x].st, name |-> heap[x].name,
                 tid |-> heap[x].tid, result |-> heap[x].result]
  BY DEF Structures
<1>2. ASSUME NEW y, Becomes(x, y), IsCell(y), y.st = "free", y.name = heap[x].name
      PROVE  /\ Structures' /\ \A z \in Cells : heap'[z].name = heap[z].name
             /\ {z \in Cells : heap'[z].st = "used"} = {z \in Cells : heap[z].st = "used"} \ {x}
  <2>1. Structures' /\ \A z \in Cells : heap'[z] = IF z = x THEN y ELSE heap[z]
    BY <1>2, CellSet
  <2>2. \A z \in Cells : heap'[z].name = heap[z].name
    BY <1>2, <2>1
  <2>3. \A z \in Cells : heap'[z].st = "used" <=> z # x /\ heap[z].st = "used"
    BY <1>2, <2>1
  <2> QED
    BY <2>1, <2>2, <2>3
<1>3. CASE heap' = [heap EXCEPT ![x].st = "free"]
  <2>1. PICK y : y = [heap[x] EXCEPT !.st = "free"]
    OBVIOUS
  <2>2. Becomes(x, y)
    BY <1>3, <2>1 DEF Becomes
  <2>3. IsCell(y) /\ y.st = "free" /\ y.name = heap[x].name
    BY <1>1, <2>1 DEF IsCell
  <2> QED
    BY <1>2, <2>2, <2>3
<1>4. CASE heap' = [heap EXCEPT ![x].tid = -1, ![x].st = "free"]
  <2>1. PICK y : y = [heap[x] EXCEPT !.tid = -1, !.st = "free"]
    OBVIOUS
  <2>2. heap' = [heap EXCEPT ![x] = y]
    BY <1>4, <2>1 DEF Structures
  <2>3. Becomes(x, y)
    BY <2>2 DEF Becomes
  <2>4. IsCell(y) /\ y.st = "free" /\ y.name = heap[x].name
    BY <1>1, <2>1 DEF IsCell
  <2> QED
    BY <1>2, <2>3, <2>4
<1> QED
  BY <1>3, <1>4

LEMMA AddedKeeps == ListInv /\ Added => ListInv'
<1>1. SUFFICES ASSUME ListInv, Added PROVE ListInv'
  OBVIOUS
<1>2. UNCHANGED ctl /\ srv.pc = "event"
  BY <1>1 DEF Added
<1>3. PICK rc : Answer(rc)
  BY <1>1 DEF Added
<1>4. ServerOK' /\ PipeOK' /\ ~Adding'
  BY <1>1, <1>2, <1>3, Answered
<1>5. srv'.pc \notin {"begin", "settid", "event"} /\ NewName'
  BY <1>4 DEF Adding, NewName
<1>6. /\ srv.cell \in Cells \ ToSet(list)
      /\ heap[srv.cell].name = srv.name
      /\ Found(srv.name) = {}
  BY <1>1, <1>2 DEF ListInv, NewName, Adding
<1>7. /\ {z \in Cells : heap[z].st = "used"} = ToSet(list) \cup {srv.cell}
      /\ \A i, j \in DOMAIN list : i # j => heap[list[i]].name # heap[list[j]].name
  BY <1>1, <1>2 DEF ListInv, ListIntact
<1>8. list \in Seq(Cells) /\ DOMAIN list = 1 .. Len(list) /\ Len(list) \in Nat
  BY <1>1 DEF ListInv
<1>9. \A i \in DOMAIN list : list[i] \in Cells /\ list[i] \in ToSet(list)
  BY <1>8 DEF ToSet
<1>10. CASE UNCHANGED list /\ heap' = [heap EXCEPT ![srv.cell].st = "free"]
  <2>1. /\ Structures' /\ \A z \in Cells : heap'[z].name = heap[z].name
        /\ {z \in Cells : heap'[z].st = "used"} = {z \in Cells : heap[z].st = "used"} \ {srv.cell}
    BY <1>1, <1>6, <1>10, Freed DEF ListInv
  <2>2. {z \in Cells : heap'[z].st = "used"} = ToSet(list')
    BY <1>6, <1>7, <1>10, <2>1
  <2>3. \A i, j \in DOMAIN list' : i # j => heap'[list'[i]].name # heap'[list'[j]].name
    BY <1>7, <1>9, <1>10, <2>1
  <2>4. ListIntact'
    BY <1>5, <2>2, <2>3 DEF ListIntact
  <2> QED
    BY <1>4, <1>5, <1>8, <1>10, <2>1, <2>4 DEF ListInv
<1>11. CASE list' = Append(list, srv.cell) /\ UNCHANGED heap
  <2>1. /\ list' \in Seq(Cells) /\ Len(list') = Len(list) + 1
        /\ \A i \in 1 .. Len(list) + 1 :
             list'[i] = IF i <= Len(list) THEN list[i] ELSE srv.cell
    BY <1>6, <1>8, <1>11
  <2>2. DOMAIN list' = 1 .. Len(list) + 1
    BY <2>1
  <2>3. ToSet(list') = ToSet(list) \cup {srv.cell}
    <3>1. ToSet(list') \subseteq ToSet(list) \cup {srv.cell}
      BY <1>8, <2>1, <2>2 DEF ToSet
    <3>2. ToSet(list) \subseteq ToSet(list')
      <4>1. \A i \in 1 .. Len(list) : i \in DOMAIN list' /\ list'[i] = list[i]
        BY <1>8, <2>1, <2>2
      <4> QED
        BY <1>8, <4>1 DEF ToSet
    <3>3. srv.cell \in ToSet(list')
      <4>1. Len(list) + 1 \in DOMAIN list' /\ list'[Len(list) + 1] = srv.cell
        BY <1>8, <2>1, <2>2
      <4> QED
        BY <4>1 DEF ToSet
    <3> QED
      BY <3>1, <3>2, <3>3
  <2>4. {z \in Cells : heap'[z].st = "used"} = ToSet(list')
    BY <1>7, <1>11, <2>3
  <2>5. \A i \in DOMAIN list : heap[list[i]].name # srv.name
    BY <1>6, <1>9 DEF Found
  <2>6. ASSUME NEW i \in DOMAIN list', NEW j \in DOMAIN list', i # j
        PROVE  heap[list'[i]].name # heap[list'[j]].name
    <3>1. CASE i <= Len(list) /\ j <= Len(list)
      <4>1. i \in DOMAIN list /\ j \in DOMAIN list /\ list'[i] = list[i] /\ list'[j] = list[j]
        BY <1>8, <2>1, <2>2, <2>6, <3>1
      <4> QED
        BY <1>7, <2>6, <4>1
    <3>2. CASE i > Len(list) /\ j <= Len(list)
      <4>1. j \in DOMAIN list /\ list'[i] = srv.cell /\ list'[j] = list[j]
        BY <1>8, <2>1, <2>2, <3>2
      <4> QED
        BY <1>6, <2>5, <4>1
    <3>3. CASE i <= Len(list) /\ j > Len(list)
      <4>1. i \in DOMAIN list /\ list'[i] = list[i] /\ list'[j] = srv.cell
        BY <1>8, <2>1, <2>2, <3>3
      <4> QED
        BY <1>6, <2>5, <4>1
    <3> QED
      BY <1>8, <2>2, <2>6, <3>1, <3>2, <3>3
  <2>7. \A i, j \in DOMAIN list' : i # j => heap'[list'[i]].name # heap'[list'[j]].name
    BY <1>11, <2>6
  <2>8. ListIntact'
    BY <1>5, <2>4, <2>7 DEF ListIntact
  <2>9. Structures'
    BY <1>1, <1>11, HeapKept DEF ListInv
  <2> QED
    BY <1>4, <1>5, <2>1, <2>8, <2>9 DEF ListInv
<1> QED
  BY <1>1, <1>10, <1>11 DEF Added

\* A sequence without its element i.
LEMMA Removed ==
  ASSUME NEW S, NEW s \in Seq(S), NEW i \in 1 .. Len(s)
  PROVE  /\ RemoveAt(s, i) \in Seq(S) /\ Len(RemoveAt(s, i)) = Len(s) - 1
         /\ \A j \in 1 .. Len(s) - 1 : RemoveAt(s, i)[j] = s[IF j < i THEN j ELSE j + 1]
<1>1. Len(s) \in Nat /\ i \in Nat
  OBVIOUS
<1>2. PICK p : p = SubSeq(s, 1, i - 1)
  OBVIOUS
<1>3. PICK q : q = SubSeq(s, i + 1, Len(s))
  OBVIOUS
<1>4. p \in Seq(S) /\ Len(p) = i - 1 /\ \A j \in 1 .. i - 1 : p[j] = s[j]
  BY <1>1, <1>2
<1>5. q \in Seq(S) /\ Len(q) = Len(s) - i
  <2>1. \A k \in i + 1 .. Len(s) : s[k] \in S
    BY <1>1
  <2>2. i + 1 \in Int /\ Len(s) \in Int
    BY <1>1
  <2>3. q \in Seq(S) /\ Len(q) = IF i + 1 <= Len(s) THEN Len(s) - (i + 1) + 1 ELSE 0
    BY <1>3, <2>1, <2>2, SubSeqProperties
  <2> QED
    BY <1>1, <2>3
<1>6. ASSUME NEW j \in 1 .. Len(s) - i PROVE q[j] = s[i + j]
  <2>1. \A k \in i + 1 .. Len(s) : s[k] \in S
    BY <1>1
  <2>2. j \in 1 .. Len(s) - (i + 1) + 1 /\ i + 1 \in Int /\ Len(s) \in Int
    BY <1>1, <1>6
  <2>3. q[j] = s[i + 1 + j - 1]
    BY <1>3, <2>1, <2>2, SubSeqProperties
  <2> QED
    BY <1>1, <2>2, <2>3
<1>7. RemoveAt(s, i) = p \o q
  BY <1>2, <1>3 DEF RemoveAt
<1>8. p \o q \in Seq(S) /\ Len(p \o q) = Len(s) - 1
  BY <1>1, <1>4, <1>5
<1>9. ASSUME NEW j \in 1 .. Len(s) - 1 PROVE (p \o q)[j] = s[IF j < i THEN j ELSE j + 1]
  <2>1. CASE j < i
    <3>1. (p \o q)[j] = p[j]
      BY <1>1, <1>4, <1>5, <2>1
    <3> QED
      BY <1>1, <1>4, <2>1, <3>1
  <2>2. CASE j >= i
    <3>1. (p \o q)[j] = q[j - (i - 1)]
      BY <1>1, <1>4, <1>5, <2>2
    <3>2. j - (i - 1) \in 1 .. Len(s) - i /\ i + (j - (i - 1)) = j + 1
      BY <1>1, <2>2
    <3>3. q[j - (i - 1)] = s[j + 1]
      BY <1>6, <3>2
    <3> QED
      BY <1>1, <2>2, <3>1, <3>3
  <2>3. j < i \/ j >= i
    BY <1>1, <1>9
  <2> QED
    BY <2>1, <2>2, <2>3
<1> QED
  BY <1>7, <1>8, <1>9

LEMMA RemoveKeeps == ListInv /\ RemoveNmp => ListInv'
<1>1. SUFFICES ASSUME ListInv, RemoveNmp PROVE ListInv'
  OBVIOUS
<1>2. UNCHANGED ctl /\ srv.pc = "remove"
  BY <1>1 DEF RemoveNmp
<1>3. PICK rc : Answer(rc)
  BY <1>1 DEF RemoveNmp
<1>4. ServerOK' /\ PipeOK' /\ ~Adding'
  BY <1>1, <1>2, <1>3, Answered
<1>5. srv'.pc \notin {"begin", "settid", "event"} /\ NewName' /\ ~Adding
  BY <1>2, <1>4 DEF Adding, NewName
<1>6. CASE UNCHANGED <<list, heap>>
  BY <1>1, <1>4, <1>5, <1>6, Quietly
<1>7. ASSUME NEW i \in DOMAIN list, list' = RemoveAt(list, i),
             heap' = [heap EXCEPT ![list[i]].tid = -1, ![list[i]].st = "free"]
      PROVE  ListInv'
  <2>1. list \in Seq(Cells) /\ DOMAIN list = 1 .. Len(list) /\ Len(list) \in Nat
    BY <1>1 DEF ListInv
  <2>2. \A j \in DOMAIN list : list[j] \in Cells
    BY <2>1
  <2>3. /\ Structures' /\ \A z \in Cells : heap'[z].name = heap[z].name
        /\ {z \in Cells : heap'[z].st = "used"} = {z \in Cells : heap[z].st = "used"} \ {list[i]}
    BY <1>1, <1>7, <2>2, Freed DEF ListInv
  <2>4. /\ {z \in Cells : heap[z].st = "used"} = ToSet(list)
        /\ \A j, k \in DOMAIN list : j # k => heap[list[j]].name # heap[list[k]].name
    BY <1>1, <1>2 DEF ListInv, ListIntact
  <2>5. /\ list' \in Seq(Cells) /\ Len(list') = Len(list) - 1
        /\ \A j \in 1 .. Len(list) - 1 : list'[j] = list[IF j < i THEN j ELSE j + 1]
    BY <1>7, <2>1, Removed
  <2>6. DOMAIN list' = 1 .. Len(list) - 1
    BY <2>1, <2>5
  <2> DEFINE Was(j) == IF j < i THEN j ELSE j + 1
  <2>7. \A j \in DOMAIN list' : Was(j) \in DOMAIN list \ {i} /\ list'[j] = list[Was(j)]
    BY <2>1, <2>5, <2>6
  <2>8. \A j, k \in DOMAIN list' : j # k => Was(j) # Was(k)
    BY <2>1, <2>6
  <2>9. \A j \in DOMAIN list \ {i} : \E k \in DOMAIN list' : Was(k) = j
    <3>1. SUFFICES ASSUME NEW j \in DOMAIN list \ {i} PROVE \E k \in DOMAIN list' : Was(k) = j
      OBVIOUS
    <3>2. CASE j < i
      <4>1. j \in DOMAIN list' /\ Was(j) = j
        BY <2>1, <2>6, <3>2
      <4> QED
        BY <4>1
    <3>3. CASE j > i
      <4>1. j - 1 \in DOMAIN list' /\ Was(j - 1) = j
        BY <2>1, <2>6, <3>3
      <4> QED
        BY <4>1
    <3> QED
      BY <2>1, <3>2, <3>3
  <2> HIDE DEF Was
  <2>10. ToSet(list') = {list[j] : j \in DOMAIN list \ {i}}
    <3>1. \A j \in DOMAIN list \ {i} : \E k \in DOMAIN list' : list'[k] = list[j]
      BY <2>7, <2>9
    <3>2. \A k \in DOMAIN list' : \E j \in DOMAIN list \ {i} : list'[k] = list[j]
      BY <2>7
    <3> QED
      BY <3>1, <3>2 DEF ToSet
  <2>11. \A j \in DOMAIN list \ {i} : list[j] # list[i]
    BY <1>7, <2>4
  <2>12. ToSet(list') = ToSet(list) \ {list[i]}
    BY <1>7, <2>10, <2>11 DEF ToSet
  <2>13. {z \in Cells : heap'[z].st = "used"} = ToSet(list')
    BY <2>3, <2>4, <2>12
  <2>14. \A j, k \in DOMAIN list' : j # k => heap'[list'[j]].name # heap'[list'[k]].name
    <3>1. SUFFICES ASSUME NEW j \in DOMAIN list', NEW k \in DOMAIN list', j # k
                   PROVE  heap'[list'[j]].name # heap'[list'[k]].name
      OBVIOUS
    <3>2. /\ Was(j) \in DOMAIN list /\ Was(k) \in DOMAIN list /\ Was(j) # Was(k)
          /\ list'[j] = list[Was(j)] /\ list'[k] = list[Was(k)]
      BY <2>7, <2>8, <3>1
    <3>3. /\ heap'[list'[j]].name = heap[list[Was(j)]].name
          /\ heap'[list'[k]].name = heap[list[Was(k)]].name
      BY <2>2, <2>3, <3>2
    <3> QED
      BY <2>4, <3>2, <3>3
  <2>15. ListIntact'
    BY <1>5, <2>13, <2>14 DEF ListIntact
  <2> QED
    BY <1>4, <1>5, <2>3, <2>5, <2>15 DEF ListInv
<1> QED
  BY <1>1, <1>6, <1>7 DEF RemoveNmp

-----------------------------------------------------------------------------
(***************************************************************************)
(* The theorem                                                             *)
(***************************************************************************)

LEMMA ListInit == Init => ListInv
<1>1. SUFFICES ASSUME Init PROVE ListInv
  OBVIOUS
<1>2. list = <<>> /\ heap = [x \in Cells |-> [st |-> "free", name |-> NoName, tid |-> 0, result |-> 0]]
  BY <1>1 DEF Init, FreshHeap
<1>3. Structures
  BY <1>2 DEF Structures
<1>4. \/ ctl = NoPipe /\ srv = Down
      \/ ctl = [NoPipe EXCEPT !.st = "idle"] /\ srv = [Down EXCEPT !.pc = "connect", !.noexit = TRUE]
  BY <1>1 DEF Init
<1>5. ServerOK /\ PipeOK /\ srv.pc \in {"down", "connect"}
  <2>1. CASE ctl = NoPipe /\ srv = Down
    <3>1. srv = [pc |-> "down", op |-> "none", name |-> NoName, cell |-> 0, tid |-> 0,
                 rc |-> 0, i |-> 0, noexit |-> FALSE]
      BY <2>1 DEF Down
    <3>2. ctl = [st |-> "none", who |-> "nobody", shut |-> FALSE, in |-> <<>>, out |-> <<>>]
      BY <2>1 DEF NoPipe
    <3>3. ServerOK /\ srv.pc = "down"
      BY <3>1 DEF ServerOK
    <3> QED
      BY <3>2, <3>3 DEF PipeOK, PipeShape
  <2>2. CASE /\ ctl = [NoPipe EXCEPT !.st = "idle"]
             /\ srv = [Down EXCEPT !.pc = "connect", !.noexit = TRUE]
    <3>1. srv = [pc |-> "connect", op |-> "none", name |-> NoName, cell |-> 0, tid |-> 0,
                 rc |-> 0, i |-> 0, noexit |-> TRUE]
      BY <2>2 DEF Down
    <3>2. ctl = [st |-> "idle", who |-> "nobody", shut |-> FALSE, in |-> <<>>, out |-> <<>>]
      BY <2>2 DEF NoPipe
    <3>3. ServerOK /\ srv.pc = "connect"
      BY <3>1 DEF ServerOK
    <3>4. PipeShape /\ ctl.st = "idle"
      BY <3>2 DEF PipeShape
    <3> QED
      BY <3>3, <3>4 DEF PipeOK
  <2> QED
    BY <1>4, <2>1, <2>2
<1>6. list \in Seq(Cells) /\ DOMAIN list = {} /\ ToSet(list) = {}
  BY <1>2 DEF ToSet
<1>7. {x \in Cells : heap[x].st = "used"} = {}
  BY <1>2
<1>8. ListIntact
  BY <1>5, <1>6, <1>7 DEF ListIntact
<1>9. NewName
  BY <1>5 DEF NewName, Adding
<1> QED
  BY <1>3, <1>5, <1>6, <1>8, <1>9 DEF ListInv

LEMMA ListStep == ListInv /\ [Next]_vars => ListInv'
<1>1. SUFFICES ASSUME ListInv, [Next]_vars PROVE ListInv'
  OBVIOUS
<1>2. CASE UNCHANGED vars
  <2>1. UNCHANGED <<srv, list, heap>> /\ UNCHANGED <<ctl, srv>>
    BY <1>2 DEF vars
  <2>2. PipeOK'
    BY <1>1, <2>1, PipeSame DEF ListInv
  <2> QED
    BY <1>1, <2>1, <2>2, Elsewhere
<1>3. ASSUME NEW c \in Clients, Call(c) \/ Client(c) \/ Kill(c) PROVE ListInv'
  BY <1>1, <1>3, ClientKeeps
<1>4. CASE StartServer
  BY <1>1, <1>4, StartKeeps
<1>5. CASE Server
  BY <1>1, <1>5, TalkKeeps, AddKeeps, BeginKeeps, AddedKeeps, RemoveKeeps DEF Server
<1>6. ASSUME NEW t \in Threads, Thread(t) \/ Users(t) PROVE ListInv'
  BY <1>1, <1>6, ThreadKeeps
<1> QED
  BY <1>1, <1>2, <1>3, <1>4, <1>5, <1>6 DEF Next

\* The list of the server holds allocated structures with different names, and no other
\* is in use but the one that is being added: what else is allocated is lost, for want of
\* memory for its name (add_to_nmp_list (), remove_nmp_from_list () and lookup_nmp_list ()
\* of nmpserv.c), whichever threads write to the structures, late or not.
THEOREM ListSound == Spec => []ListIntact
<1>1. ListInv => ListIntact
  BY DEF ListInv
<1> QED
  BY <1>1, ListInit, ListStep, PTL DEF Spec

=============================================================================

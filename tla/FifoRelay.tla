------------------------------ MODULE FifoRelay ------------------------------
(***************************************************************************)
(* The loop of nmp_thread (nmp_thread.c), which moves the data of one fifo *)
(* between two instances of its named pipe: end 1 and end 2.  The programs *)
(* that open, write, read and close the ends, and the named pipes, are     *)
(* external; the thread looks at both ends and acts on what it saw then.   *)
(***************************************************************************)
EXTENDS Integers, Sequences, SequencesExt

CONSTANTS MaxBytes,   \* bound: bytes written at both ends altogether
          MaxOpens,   \* bound: how often the two ends are opened altogether
          Cap         \* what one direction of a pipe holds

ASSUME RelayAssumption == MaxBytes \in Nat /\ MaxOpens \in Nat /\ Cap \in Nat \ {0}

Ends == {1, 2}
Other(e) == 3 - e

VARIABLES
  writers,  \* the ends whose programs write; a fifo is meant to have one
  pipe,     \* per end: its state, bytes from the program (in) and for it (out)
  pc,       \* where the thread is, and for which end
  seen,     \* per end: what DosPeekNPipe has said, [avail, st]
  data,     \* per end: bytes read there that are not in the pipe of the other end (data1, data2)
  back,     \* per end: bytes of the DosWrite in progress that are in that pipe already
  sent,     \* per end: how many bytes have been written there: byte n is the number n
  got,      \* per end: the bytes received there since the end was created
  before,   \* per end: the bytes received there from earlier instances of the end
  opens,    \* how often the ends were opened altogether (bound)
  closed,   \* history, per end: a program has closed it
  failed,   \* history: the ends to which a DosWrite of the thread has failed
  again,    \* history: the ends whose bytes a DosWrite had put out in part when it failed
  cut       \* history: the ends that were found closed, with bytes in them, in a round in
            \*          which the thread was still writing what it had read there earlier

programs == <<writers, sent, opens, closed>>
received == <<got, before>>
history  == <<failed, again, cut>>
vars == <<programs, received, history, pipe, pc, seen, data, back>>

Listening == [st |-> "listen", in |-> <<>>, out |-> <<>>]
Nothing == [e \in Ends |-> <<>>]

\* create_npipe () has been called for both ends.
Init ==
  /\ writers \in {{1}, {2}, {1, 2}}
  /\ pipe = [e \in Ends |-> Listening]
  /\ pc = [at |-> "test", e |-> 1]
  /\ seen = [e \in Ends |-> [avail |-> FALSE, st |-> "listen"]]
  /\ data = Nothing /\ back = Nothing /\ got = Nothing /\ before = Nothing
  /\ sent = [e \in Ends |-> 0] /\ opens = 0
  /\ closed = [e \in Ends |-> FALSE]
  /\ failed = {} /\ again = {} /\ cut = {}

(*********************** the programs at the ends ************************)

Open(e) ==
  /\ pipe[e].st = "listen" /\ pc.at # "dead" /\ opens < MaxOpens
  /\ pipe' = [pipe EXCEPT ![e].st = "connected"]
  /\ opens' = opens + 1
  /\ UNCHANGED <<writers, sent, closed, received, history, pc, seen, data, back>>

Write(e) ==
  /\ e \in writers /\ pipe[e].st = "connected"
  /\ sent[1] + sent[2] < MaxBytes /\ Len(pipe[e].in) < Cap
  /\ pipe' = [pipe EXCEPT ![e].in = Append(@, sent[e] + 1)]
  /\ sent' = [sent EXCEPT ![e] = @ + 1]
  /\ UNCHANGED <<writers, opens, closed, received, history, pc, seen, data, back>>

Read(e) ==
  /\ pipe[e].st = "connected" /\ pipe[e].out # <<>>
  /\ got' = [got EXCEPT ![e] = Append(@, Head(pipe[e].out))]
  /\ pipe' = [pipe EXCEPT ![e].out = Tail(@)]
  /\ UNCHANGED <<programs, before, history, pc, seen, data, back>>

\* What the program has written can still be read from the pipe.
Close(e) ==
  /\ pipe[e].st = "connected"
  /\ pipe' = [pipe EXCEPT ![e].st = "closing", ![e].out = <<>>]
  /\ closed' = [closed EXCEPT ![e] = TRUE]
  /\ UNCHANGED <<writers, sent, opens, received, history, pc, seen, data, back>>

(******************************* the thread *******************************)

Go(at, e) == pc' = [at |-> at, e |-> e]

\* disconnect_npipe () drops what is in the pipe in either direction.
Disconnect(S) ==
  /\ pipe'   = [e \in Ends |-> IF e \in S THEN Listening ELSE pipe[e]]
  /\ before' = [e \in Ends |-> IF e \in S THEN before[e] \o got[e] ELSE before[e]]
  /\ got'    = [e \in Ends |-> IF e \in S THEN <<>> ELSE got[e]]

\* _endthread () after an error or at the end of the loop.
Die == Go("dead", 1) /\ Disconnect(Ends)

\* restart1, restart2: the end is created again, or the thread gives up.
Restart(e) == (Go("test", 1) /\ Disconnect({e})) \/ Die

\* while (nmp->tid != -1)
Test ==
  /\ pc.at = "test"
  /\ (Go("peek", 1) /\ UNCHANGED <<pipe, received>>) \/ Die
  /\ UNCHANGED <<programs, history, seen, data, back>>

Peek(e) ==
  /\ pc = [at |-> "peek", e |-> e]
  /\ seen' = [seen EXCEPT ![e] = [avail |-> pipe[e].in # <<>>, st |-> pipe[e].st]]
  /\ IF e = 1 THEN Go("peek", 2) ELSE Go("read", 1)
  /\ UNCHANGED <<programs, received, history, pipe, data, back>>

\* Not the code: the same with available1 for both ends.
ReadEndOfOne(e) ==
  /\ pc = [at |-> "read", e |-> e]
  /\ IF data[e] = <<>> /\ seen[1].avail
     THEN data' = [data EXCEPT ![e] = pipe[e].in] /\ pipe' = [pipe EXCEPT ![e].in = <<>>] /\ Go("write", e) /\ UNCHANGED cut
     ELSE /\ (IF data[e] # <<>> THEN Go("write", e) ELSE Go("closing", e)) /\ UNCHANGED <<data, pipe>>
          /\ cut' = IF seen[e] = [avail |-> TRUE, st |-> "closing"] THEN cut \cup {e} ELSE cut
  /\ UNCHANGED <<programs, received, failed, again, seen, back>>

\* DosRead, unless what was read before has not been written yet (count1r > count2w).
ReadEnd(e) ==
  /\ pc = [at |-> "read", e |-> e]
  /\ IF data[e] = <<>> /\ seen[e].avail
     THEN /\ data' = [data EXCEPT ![e] = pipe[e].in]
          /\ pipe' = [pipe EXCEPT ![e].in = <<>>]
          /\ Go("write", e) /\ UNCHANGED cut
     ELSE /\ IF data[e] # <<>> THEN Go("write", e) ELSE Go("closing", e)
          /\ cut' = IF seen[e] = [avail |-> TRUE, st |-> "closing"] THEN cut \cup {e} ELSE cut
          /\ UNCHANGED <<data, pipe>>
  /\ UNCHANGED <<programs, received, failed, again, seen, back>>

\* DosWrite to the other end puts in one byte after the other, as long as there is room.
PutByte(e) ==
  /\ pc = [at |-> "write", e |-> e] /\ data[e] # <<>>
  /\ LET o == Other(e)
     IN /\ pipe[o].st = "connected" /\ Len(pipe[o].out) < Cap
        /\ pipe' = [pipe EXCEPT ![o].out = Append(@, Head(data[e]))]
        /\ data' = [data EXCEPT ![e] = Tail(@)]
        /\ back' = [back EXCEPT ![e] = Append(@, Head(data[e]))]
  /\ UNCHANGED <<programs, received, history, pc, seen>>

\* Not the code: count2w is not advanced.
WrittenAgain(e) ==
  /\ pc = [at |-> "write", e |-> e] /\ back[e] # <<>>
  /\ data' = [data EXCEPT ![e] = back[e] \o @]
  /\ back' = [back EXCEPT ![e] = <<>>]
  /\ Go("closing", e)
  /\ UNCHANGED <<programs, received, history, pipe, seen>>

\* DosWrite returns, perhaps with less written than it was told to: nothing if the
\* pipe was full, else a part.  The rest is for a later round (count2w += tmp).
Written(e) ==
  /\ pc = [at |-> "write", e |-> e]
  /\ back[e] # <<>> \/ Len(pipe[Other(e)].out) = Cap
  /\ back' = [back EXCEPT ![e] = <<>>]
  /\ Go("closing", e)
  /\ UNCHANGED <<programs, received, history, pipe, seen, data>>

\* A closed end gives error 109, and all that this DosWrite was to write is kept; an end
\* that nobody has opened yet gives that or another error.
WriteFails(e) ==
  /\ pc = [at |-> "write", e |-> e] /\ data[e] # <<>>
  /\ LET o == Other(e)
     IN /\ pipe[o].st # "connected"
        /\ Restart(o) \/ (pipe[o].st = "listen" /\ Die)
        /\ failed' = failed \cup {o}
  /\ again' = IF back[e] = <<>> THEN again ELSE again \cup {e}
  /\ data' = [data EXCEPT ![e] = back[e] \o @]
  /\ back' = [back EXCEPT ![e] = <<>>]
  /\ UNCHANGED <<programs, cut, seen>>

WriteOther(e) == PutByte(e) \/ Written(e) \/ WriteFails(e)

\* Not the code: the state of the end is looked at anew.
TestClosingNow(e) ==
  /\ pc = [at |-> "closing", e |-> e]
  /\ IF pipe[e].st = "closing" THEN Restart(e)
     ELSE (IF e = 1 THEN Go("read", 2) ELSE Go("test", 1)) /\ UNCHANGED <<pipe, received>>
  /\ UNCHANGED <<programs, history, seen, data, back>>

\* if (state1 == NP_STATE_CLOSING)  goto restart1; and the same for the other end.
TestClosing(e) ==
  /\ pc = [at |-> "closing", e |-> e]
  /\ IF seen[e].st = "closing" THEN Restart(e)
     ELSE /\ IF e = 1 THEN Go("read", 2) ELSE Go("test", 1)
          /\ UNCHANGED <<pipe, received>>
  /\ UNCHANGED <<programs, history, seen, data, back>>

Step(e) == Peek(e) \/ ReadEnd(e) \/ WriteOther(e) \/ TestClosing(e)
Relay == Test \/ \E e \in Ends : Step(e)

Next ==
  \/ \E e \in Ends : Open(e) \/ Write(e) \/ Read(e) \/ Close(e)
  \/ Relay

Spec == Init /\ [][Next]_vars

\* The thread runs, and a program that has an end open reads what comes.  Nobody has
\* to open an end, to write or to close.
FairSpec == Spec /\ WF_vars(Relay) /\ \A e \in Ends : WF_vars(Read(e))

(******************************* properties *******************************)

\* All bytes from end e that are still on their way, the oldest first.
Way(e) == pipe[Other(e)].out \o data[e] \o pipe[e].in

\* And with those that all programs at the other end have received.
Line(e) == (before[Other(e)] \o got[Other(e)]) \o Way(e)

Ascending(s) == \A i, j \in DOMAIN s : i < j => s[i] < s[j]

\* What is received at one end until it is closed is in the order in which it was written
\* at the other, and nothing comes twice.  So it is over all programs that open the end one
\* after the other, unless a DosWrite failed when it had put in a part: all of it
\* is written again, for the next program (count2w, which only a success advances).
InOrder ==
  \A e \in Ends :
    /\ Ascending(got[Other(e)] \o Way(e))
    /\ e \notin again => Ascending(Line(e))

\* What has been written at end e has been received at the other end or is on its way.
Conserved(e) == ToSet(Line(e)) = 1 .. sent[e]

\* As long as the thread lives and the reading end has not been closed, all that was
\* written is there, however often the end where it was written is closed and opened
\* again, and whether the thread's writes are short or fail.  Two cases excepted: a
\* write to that end has failed, which creates it anew (restart1 at nmp_thread.c:151); or
\* it was found closed, with bytes in it, while older ones were held back, by a
\* short or failed write: it is not read in this round and then created anew (line 135).
NothingLost ==
  pc.at # "dead" =>
    \A e \in Ends : (~closed[Other(e)] /\ e \notin failed \cup cut) => Conserved(e)

\* The same of a fifo in use as one, without the second exception (nmp_thread.c:68).
MovesData ==
  \A e \in Ends :
    (pc.at # "dead" /\ writers = {e} /\ ~closed[Other(e)]) => Conserved(e)

\* A byte that was written arrives, also after short writes, unless the thread has ended,
\* the reading end is not open or has been closed, or one of the two exceptions applies.
Arrives ==
  \A e \in Ends : \A n \in 1 .. MaxBytes :
    (sent[e] >= n)
      ~> (\/ n \in ToSet(before[Other(e)] \o got[Other(e)]) \/ pc.at = "dead"
          \/ closed[Other(e)] \/ pipe[Other(e)].st = "listen" \/ e \in failed \cup cut)
=============================================================================

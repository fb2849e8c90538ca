--------------------------- MODULE FifoRelay_proofs ---------------------------
(***************************************************************************)
(* Proofs that a fifo delivers bytes in order (InOrder) and what it takes  *)
(* for one of them to be lost (NothingLost), for pipes of any size, any    *)
(* number of bytes, writes that are short or fail, and ends that are       *)
(* opened, written, read and closed at any time.                           *)
(*                                                                         *)
(* What an end has written is a chain of four pieces: received, in the     *)
(* pipe of the other end, with the thread, in the pipe of the end itself.  *)
(* Every step keeps the chain, puts a byte at its end or drops a piece.    *)
(* The one exception is a write that fails in the middle: what it has put  *)
(* out goes back to the thread.  A second chain, of what may go back, what *)
(* the thread has and what the pipe of the end holds, says that this is    *)
(* in order as well.                                                       *)
(***************************************************************************)
EXTENDS FifoRelay, SequenceTheorems, TLAPS

States == {"listen", "connected", "closing"}
PipeEnd == [st : States, in : Seq(Nat), out : Seq(Nat)]

Types ==
  /\ writers \in SUBSET Ends
  /\ pipe \in [Ends -> PipeEnd]
  /\ pc \in [at : {"test", "peek", "read", "write", "closing", "dead"}, e : Ends]
  /\ seen \in [Ends -> [avail : BOOLEAN, st : States]]
  /\ data \in [Ends -> Seq(Nat)] /\ back \in [Ends -> Seq(Nat)]
  /\ sent \in [Ends -> Nat]
  /\ got \in [Ends -> Seq(Nat)] /\ before \in [Ends -> Seq(Nat)]
  /\ opens \in Nat
  /\ closed \in [Ends -> BOOLEAN]
  /\ failed \in SUBSET Ends /\ again \in SUBSET Ends /\ cut \in SUBSET Ends

Chain(g, o, d, i) == g \o ((o \o d) \o i)

\* From all programs at the other end back to the pipe of this one; the same from the
\* programs that have the other end now; and what would be left if a write failed now.
Cat(s, t) == s \o t
Track(e) == Chain(Cat(before[Other(e)], got[Other(e)]), pipe[Other(e)].out, data[e], pipe[e].in)
Recent(e) == Chain(got[Other(e)], pipe[Other(e)].out, data[e], pipe[e].in)
Kept(e) == Chain(<<>>, back[e], data[e], pipe[e].in)

\* The bytes of an end, in order and none from the future.
Ordered(e) ==
  /\ ToSet(Track(e)) \subseteq 1 .. sent[e]
  /\ ToSet(Kept(e)) \subseteq 1 .. sent[e]
  /\ Ascending(Recent(e))
  /\ Ascending(Kept(e))
  /\ e \notin again => Ascending(Track(e))

\* Only a program closes an end, and there is nothing for an end that is not open.
Shut == \A e \in Ends : /\ pipe[e].st = "closing" => closed[e]
                        /\ pipe[e].st # "connected" => pipe[e].out = <<>>

\* The thread has looked at end e and has not started again.
Known(e) == pc.at \in {"read", "write", "closing"} \/ (e = 1 /\ pc = [at |-> "peek", e |-> 2])

\* What the thread has seen to be closing still is, and its last bytes are not in the
\* pipe any more when the thread comes to the test, unless it was cut off.
Looked ==
  \A e \in Ends :
    Known(e) /\ seen[e].st = "closing" =>
      /\ pipe[e].st = "closing"
      /\ ~seen[e].avail => pipe[e].in = <<>>
      /\ e \notin cut /\ pc.at \in {"write", "closing"} /\ pc.e = e => pipe[e].in = <<>>

Whole ==
  pc.at # "dead" =>
    \A e \in Ends : ~closed[Other(e)] /\ e \notin failed \cup cut => ToSet(Track(e)) = 1 .. sent[e]

IInv == Types /\ (\A e \in Ends : Ordered(e)) /\ Shut /\ Looked /\ Whole

-----------------------------------------------------------------------------
\* Chains of sequences.

Below(s, t) == \A x \in ToSet(s), y \in ToSet(t) : x < y

\* What a concatenation holds and when it is ascending.
LEMMA AscendingConcat ==
  ASSUME NEW s \in Seq(Nat), NEW t \in Seq(Nat)
  PROVE  /\ s \o t \in Seq(Nat)
         /\ ToSet(s \o t) = ToSet(s) \cup ToSet(t)
         /\ Ascending(s \o t) <=> Ascending(s) /\ Ascending(t) /\ Below(s, t)
<1> DEFINE u == s \o t
<1>1. /\ u \in Seq(Nat) /\ Len(u) = Len(s) + Len(t)
      /\ Len(s) \in Nat /\ Len(t) \in Nat
      /\ DOMAIN u = 1 .. Len(s) + Len(t) /\ DOMAIN s = 1 .. Len(s) /\ DOMAIN t = 1 .. Len(t)
  OBVIOUS
<1>0. Len(s) \in Nat /\ Len(t) \in Nat
  OBVIOUS
<1>2. /\ \A k \in 1 .. Len(s) : u[k] = s[k]
      /\ \A k \in 1 .. Len(t) : u[Len(s) + k] = t[k]
  OBVIOUS
<1>3. \A k \in DOMAIN u : \/ k \in DOMAIN s
                          \/ k - Len(s) \in DOMAIN t /\ k = Len(s) + (k - Len(s))
  BY <1>1
<1> HIDE DEF u
<1>4. ToSet(u) = ToSet(s) \cup ToSet(t)
  <2>1. ToSet(u) \subseteq ToSet(s) \cup ToSet(t)
    BY <1>1, <1>2, <1>3 DEF ToSet
  <2>2. ToSet(s) \subseteq ToSet(u)
    BY <1>1, <1>2 DEF ToSet
  <2>3. ToSet(t) \subseteq ToSet(u)
    <3>1. \A k \in DOMAIN t : Len(s) + k \in DOMAIN u /\ u[Len(s) + k] = t[k]
      BY <1>1, <1>2
    <3> QED
      BY <3>1 DEF ToSet
  <2> QED
    BY <2>1, <2>2, <2>3
<1>5. ASSUME Ascending(u) PROVE Ascending(s) /\ Ascending(t) /\ Below(s, t)
  <2>1. \A i, j \in DOMAIN u : i < j => u[i] < u[j]
    BY <1>5 DEF Ascending
  <2>2. Ascending(s)
    BY <1>1, <1>2, <2>1 DEF Ascending
  <2>3. Ascending(t)
    <3>1. SUFFICES ASSUME NEW i \in DOMAIN t, NEW j \in DOMAIN t, i < j PROVE t[i] < t[j]
      BY DEF Ascending
    <3>2. Len(s) + i \in DOMAIN u /\ Len(s) + j \in DOMAIN u /\ Len(s) + i < Len(s) + j
      <4>1. i \in 1 .. Len(t) /\ j \in 1 .. Len(t)
        BY <1>1
      <4>2. Len(s) + i \in 1 .. Len(s) + Len(t) /\ Len(s) + j \in 1 .. Len(s) + Len(t)
        BY <1>0, <4>1
      <4>3. Len(s) + i < Len(s) + j
        BY <1>0, <3>1, <4>1
      <4> QED
        BY <1>1, <4>2, <4>3
    <3>3. u[Len(s) + i] < u[Len(s) + j]
      BY <2>1, <3>2
    <3> QED
      BY <1>1, <1>2, <3>3
  <2>4. Below(s, t)
    <3>1. SUFFICES ASSUME NEW i \in DOMAIN s, NEW j \in DOMAIN t PROVE s[i] < t[j]
      BY DEF Below, ToSet
    <3>2. i \in DOMAIN u /\ Len(s) + j \in DOMAIN u /\ i < Len(s) + j
      <4>1. i \in 1 .. Len(s) /\ j \in 1 .. Len(t)
        BY <1>1
      <4>2. /\ i \in 1 .. Len(s) + Len(t) /\ Len(s) + j \in 1 .. Len(s) + Len(t)
            /\ i < Len(s) + j
        BY <1>0, <4>1
      <4> QED
        BY <1>1, <4>2
    <3>3. u[i] < u[Len(s) + j]
      BY <2>1, <3>2
    <3> QED
      BY <1>1, <1>2, <3>3
  <2> QED
    BY <2>2, <2>3, <2>4
<1>6. ASSUME Ascending(s), Ascending(t), Below(s, t) PROVE Ascending(u)
  <2>1. SUFFICES ASSUME NEW i \in DOMAIN u, NEW j \in DOMAIN u, i < j PROVE u[i] < u[j]
    BY DEF Ascending
  <2>2. CASE j \in DOMAIN s
    <3>1. i \in DOMAIN s
      BY <1>1, <2>1, <2>2
    <3> QED
      BY <1>1, <1>2, <1>6, <2>1, <2>2, <3>1 DEF Ascending
  <2>3. CASE j \notin DOMAIN s /\ i \in DOMAIN s
    <3>1. j - Len(s) \in DOMAIN t /\ u[j] = t[j - Len(s)] /\ u[i] = s[i]
      BY <1>1, <1>2, <1>3, <2>3
    <3> QED
      BY <1>6, <2>3, <3>1 DEF Below, ToSet
  <2>4. CASE j \notin DOMAIN s /\ i \notin DOMAIN s
    <3>1. /\ j - Len(s) \in DOMAIN t /\ u[j] = t[j - Len(s)]
          /\ i - Len(s) \in DOMAIN t /\ u[i] = t[i - Len(s)]
      BY <1>1, <1>2, <1>3, <2>4
    <3>2. i - Len(s) < j - Len(s)
      BY <1>1, <2>1
    <3> QED
      BY <1>6, <3>1, <3>2 DEF Ascending
  <2> QED
    BY <2>2, <2>3, <2>4
<1> QED
  BY <1>1, <1>4, <1>5, <1>6 DEF u

\* The pieces of a chain are in order, each and one after the other.
LEMMA ChainParts ==
  ASSUME NEW g \in Seq(Nat), NEW o \in Seq(Nat), NEW d \in Seq(Nat), NEW i \in Seq(Nat)
  PROVE  /\ Chain(g, o, d, i) \in Seq(Nat)
         /\ ToSet(Chain(g, o, d, i)) = ToSet(g) \cup ToSet(o) \cup ToSet(d) \cup ToSet(i)
         /\ Ascending(Chain(g, o, d, i)) <=>
              /\ Ascending(g) /\ Ascending(o) /\ Ascending(d) /\ Ascending(i)
              /\ Below(g, o) /\ Below(g, d) /\ Below(g, i)
              /\ Below(o, d) /\ Below(o, i) /\ Below(d, i)
<1>1. /\ o \o d \in Seq(Nat) /\ ToSet(o \o d) = ToSet(o) \cup ToSet(d)
      /\ Ascending(o \o d) <=> Ascending(o) /\ Ascending(d) /\ Below(o, d)
  BY AscendingConcat
<1>2. /\ (o \o d) \o i \in Seq(Nat) /\ ToSet((o \o d) \o i) = ToSet(o \o d) \cup ToSet(i)
      /\ Ascending((o \o d) \o i) <=> Ascending(o \o d) /\ Ascending(i) /\ Below(o \o d, i)
  BY <1>1, AscendingConcat
<1>3. /\ Chain(g, o, d, i) \in Seq(Nat)
      /\ ToSet(Chain(g, o, d, i)) = ToSet(g) \cup ToSet((o \o d) \o i)
      /\ Ascending(Chain(g, o, d, i)) <=>
           Ascending(g) /\ Ascending((o \o d) \o i) /\ Below(g, (o \o d) \o i)
  BY <1>2, AscendingConcat DEF Chain
<1>4. Below(o \o d, i) <=> Below(o, i) /\ Below(d, i)
  BY <1>1 DEF Below
<1>5. Below(g, (o \o d) \o i) <=> Below(g, o) /\ Below(g, d) /\ Below(g, i)
  BY <1>1, <1>2 DEF Below
<1> QED
  BY <1>1, <1>2, <1>3, <1>4, <1>5

\* The bytes of a chain are those of its pieces.
LEMMA ChainSet ==
  \A g, o, d, i \in Seq(Nat) :
     ToSet(Chain(g, o, d, i)) = ToSet(g) \cup ToSet(o) \cup ToSet(d) \cup ToSet(i)
BY ChainParts

IsEmpty(s) == s = <<>>
KeptOrDropped(p, o) == p \in {o, <<>>}
Fewer(g, o, d, i, h, p, j) == KeptOrDropped(h, g) /\ KeptOrDropped(p, o) /\ KeptOrDropped(j, i)
Less(g, o, d, i, h, p, j) ==
  /\ Ascending(Chain(g, o, d, i)) => Ascending(Chain(h, p, d, j))
  /\ ToSet(Chain(h, p, d, j)) \subseteq ToSet(Chain(g, o, d, i))

\* A chain without some of its pieces is in order as well.
LEMMA ChainDrops ==
  ASSUME NEW g \in Seq(Nat), NEW o \in Seq(Nat), NEW d \in Seq(Nat), NEW i \in Seq(Nat),
         NEW h \in Seq(Nat), NEW p \in Seq(Nat), NEW j \in Seq(Nat), Fewer(g, o, d, i, h, p, j)
  PROVE  Less(g, o, d, i, h, p, j)
<1>1. <<>> \in Seq(Nat) /\ ToSet(<<>>) = {} /\ Ascending(<<>>)
  BY DEF ToSet, Ascending
<1>2. \A s : Below(s, <<>>) /\ Below(<<>>, s)
  BY <1>1 DEF Below
<1>3. h \in {g, <<>>} /\ p \in {o, <<>>} /\ j \in {i, <<>>}
  BY DEF Fewer, KeptOrDropped
<1>4. /\ ToSet(p) \subseteq ToSet(o) /\ ToSet(j) \subseteq ToSet(i) /\ ToSet(h) \subseteq ToSet(g)
      /\ Ascending(o) => Ascending(p)
      /\ Ascending(i) => Ascending(j)
      /\ Ascending(g) => Ascending(h)
  BY <1>1, <1>3
<1>5. \A s, t, u, v : Below(s, t) /\ ToSet(u) \subseteq ToSet(s) /\ ToSet(v) \subseteq ToSet(t) => Below(u, v)
  BY DEF Below
<1>6. /\ ToSet(Chain(g, o, d, i)) = ToSet(g) \cup ToSet(o) \cup ToSet(d) \cup ToSet(i)
      /\ Ascending(Chain(g, o, d, i)) =>
           /\ Ascending(g) /\ Ascending(o) /\ Ascending(d) /\ Ascending(i)
           /\ Below(g, o) /\ Below(g, d) /\ Below(g, i)
           /\ Below(o, d) /\ Below(o, i) /\ Below(d, i)
  BY ChainParts
<1>7. /\ ToSet(Chain(h, p, d, j)) = ToSet(h) \cup ToSet(p) \cup ToSet(d) \cup ToSet(j)
      /\ (/\ Ascending(h) /\ Ascending(p) /\ Ascending(d) /\ Ascending(j)
          /\ Below(h, p) /\ Below(h, d) /\ Below(h, j)
          /\ Below(p, d) /\ Below(p, j) /\ Below(d, j)) => Ascending(Chain(h, p, d, j))
  <2>1. ToSet(Chain(h, p, d, j)) = ToSet(h) \cup ToSet(p) \cup ToSet(d) \cup ToSet(j)
    BY ChainSet
  <2>2. Ascending(Chain(h, p, d, j)) <=>
              /\ Ascending(h) /\ Ascending(p) /\ Ascending(d) /\ Ascending(j)
              /\ Below(h, p) /\ Below(h, d) /\ Below(h, j)
              /\ Below(p, d) /\ Below(p, j) /\ Below(d, j)
    BY ChainParts, Zenon
  <2> QED
    BY <2>1, <2>2
<1>8. ASSUME Ascending(Chain(g, o, d, i)) PROVE Ascending(Chain(h, p, d, j))
  <2>1. /\ Below(h, p) /\ Below(h, d) /\ Below(h, j)
        /\ Below(p, d) /\ Below(p, j) /\ Below(d, j)
    BY <1>4, <1>5, <1>6, <1>8
  <2> QED
    BY <1>4, <1>6, <1>7, <1>8, <2>1
<1>9. ToSet(Chain(h, p, d, j)) \subseteq ToSet(Chain(g, o, d, i))
  BY <1>4, <1>6, <1>7
<1> QED
  BY <1>8, <1>9 DEF Less

\* Concatenation, as an operator that the provers leave alone.
LEMMA CatAssociative ==
  ASSUME NEW x \in Seq(Nat), NEW y \in Seq(Nat), NEW z \in Seq(Nat)
  PROVE  Cat(x, y) \in Seq(Nat) /\ Cat(Cat(x, y), z) = Cat(x, Cat(y, z))
<1>1. x \o y \in Seq(Nat)
  OBVIOUS
<1>2. (x \o y) \o z = x \o (y \o z)
  OBVIOUS
<1> QED
  BY <1>1, <1>2, Zenon DEF Cat

\* A piece can be counted to the one before it.
LEMMA Regroup ==
  ASSUME NEW g \in Seq(Nat), NEW h \in Seq(Nat), NEW t \in Seq(Nat), NEW d \in Seq(Nat), NEW i \in Seq(Nat)
  PROVE  Chain(Cat(g, h), t, d, i) = Chain(g, Cat(h, t), d, i)
<1>1. Cat(Cat(g, h), Cat(Cat(t, d), i)) = Cat(g, Cat(Cat(Cat(h, t), d), i))
  BY CatAssociative
<1> QED
  BY <1>1, Zenon DEF Cat, Chain

\* Nothing in front of a piece or behind it is the same.
LEMMA ChainShifts ==
  ASSUME NEW g \in Seq(Nat), NEW o \in Seq(Nat), NEW i \in Seq(Nat), NEW z \in Seq(Nat), IsEmpty(z)
  PROVE  Chain(g, o, i, z) = Chain(g, o, z, i)
<1>1. \A s \in Seq(Nat) : s \o <<>> = s
  OBVIOUS
<1>2. o \o i \in Seq(Nat)
  OBVIOUS
<1> QED
  BY <1>1, <1>2 DEF Chain, IsEmpty

\* Bytes that move on to the next piece stay where they are in the chain.
LEMMA ChainMoves ==
  ASSUME NEW g \in Seq(Nat), NEW o \in Seq(Nat), NEW d \in Seq(Nat), NEW i \in Seq(Nat)
  PROVE  /\ Chain(g, o \o d, <<>>, i) = Chain(g, o, d, i)
         /\ o # <<>> => Chain(Append(g, Head(o)), Tail(o), d, i) = Chain(g, o, d, i)
<1>1. \A s \in Seq(Nat) : s \o <<>> = s /\ <<>> \o s = s
  OBVIOUS
<1>2. Chain(g, o \o d, <<>>, i) = Chain(g, o, d, i)
  <2>1. o \o d \in Seq(Nat)
    OBVIOUS
  <2> QED
    BY <1>1, <2>1 DEF Chain
<1>3. ASSUME o # <<>> PROVE Chain(Append(g, Head(o)), Tail(o), d, i) = Chain(g, o, d, i)
  <2>1. Head(o) \in Nat /\ Tail(o) \in Seq(Nat) /\ <<Head(o)>> \in Seq(Nat)
    BY <1>3
  <2>2. o = <<Head(o)>> \o Tail(o)
    BY <1>3
  <2>3. Append(g, Head(o)) = g \o <<Head(o)>>
    BY <2>1
  <2>4. PICK h \in Seq(Nat) : h = <<Head(o)>>
    BY <2>1
  <2>5. PICK t \in Seq(Nat) : t = Tail(o)
    BY <2>1
  <2>6. Chain(Cat(g, h), t, d, i) = Chain(g, Cat(h, t), d, i)
    BY Regroup
  <2> QED
    BY <2>2, <2>3, <2>4, <2>5, <2>6, Zenon DEF Cat
<1> QED
  BY <1>2, <1>3

\* A byte that a write puts out moves to the end of the piece before.
LEMMA ChainPuts ==
  ASSUME NEW g \in Seq(Nat), NEW o \in Seq(Nat), NEW d \in Seq(Nat), NEW i \in Seq(Nat), ~IsEmpty(d)
  PROVE  Chain(g, Append(o, Head(d)), Tail(d), i) = Chain(g, o, d, i)
<1>1. Head(d) \in Nat /\ Tail(d) \in Seq(Nat) /\ <<Head(d)>> \in Seq(Nat)
  BY DEF IsEmpty
<1>2. d = <<Head(d)>> \o Tail(d)
  BY DEF IsEmpty
<1>3. Append(o, Head(d)) = o \o <<Head(d)>>
  BY <1>1
<1>4. PICK h \in Seq(Nat) : h = <<Head(d)>>
  BY <1>1
<1>5. PICK t \in Seq(Nat) : t = Tail(d)
  BY <1>1
<1>6. Cat(Cat(o, h), t) = Cat(o, Cat(h, t))
  BY CatAssociative
<1> QED
  BY <1>2, <1>3, <1>4, <1>5, <1>6, Zenon DEF Cat, Chain

\* What a failed write takes back is in front of what the thread has, in order.
LEMMA ChainResends ==
  ASSUME NEW b \in Seq(Nat), NEW d \in Seq(Nat), NEW i \in Seq(Nat), NEW z \in Seq(Nat), IsEmpty(z)
  PROVE  /\ Cat(b, d) \in Seq(Nat)
         /\ Chain(z, z, Cat(b, d), i) = Chain(z, b, d, i)
<1>1. /\ b \o d \in Seq(Nat)
      /\ \A s \in Seq(Nat) : <<>> \o s = s
  OBVIOUS
<1> QED
  BY <1>1 DEF Chain, IsEmpty, Cat

Upto(n, s) == ToSet(s) \subseteq 1 .. n
OneMore(n, s, t) == ToSet(t) = ToSet(s) \cup {n + 1}
IsNext(n, i, j) == j = Append(i, n + 1)

\* A new byte comes after all others.
LEMMA ChainGrows ==
  ASSUME NEW g \in Seq(Nat), NEW o \in Seq(Nat), NEW d \in Seq(Nat), NEW i \in Seq(Nat),
         NEW n \in Nat, NEW j \in Seq(Nat)
  PROVE  Ascending(Chain(g, o, d, i)) /\ Upto(n, Chain(g, o, d, i)) /\ IsNext(n, i, j) =>
           Ascending(Chain(g, o, d, j)) /\ OneMore(n, Chain(g, o, d, i), Chain(g, o, d, j))
<1> SUFFICES ASSUME Ascending(Chain(g, o, d, i)), ToSet(Chain(g, o, d, i)) \subseteq 1 .. n,
                    j = Append(i, n + 1)
             PROVE  /\ Ascending(Chain(g, o, d, j))
                    /\ ToSet(Chain(g, o, d, j)) = ToSet(Chain(g, o, d, i)) \cup {n + 1}
  BY Zenon DEF Upto, IsNext, OneMore
<1>1. <<n + 1>> \in Seq(Nat) /\ ToSet(<<n + 1>>) = {n + 1} /\ Ascending(<<n + 1>>)
  BY DEF ToSet, Ascending
<1>2. j = i \o <<n + 1>>
  OBVIOUS
<1>3. /\ ToSet(Chain(g, o, d, i)) = ToSet(g) \cup ToSet(o) \cup ToSet(d) \cup ToSet(i)
      /\ Ascending(g) /\ Ascending(o) /\ Ascending(d) /\ Ascending(i)
      /\ Below(g, o) /\ Below(g, d) /\ Below(g, i)
      /\ Below(o, d) /\ Below(o, i) /\ Below(d, i)
  BY ChainParts
<1>4. ASSUME NEW s, ToSet(s) \subseteq 1 .. n PROVE Below(s, <<n + 1>>)
  <2>1. \A x \in 1 .. n : x < n + 1
    OBVIOUS
  <2> QED
    BY <1>1, <1>4, <2>1 DEF Below
<1>5. Below(g, <<n + 1>>) /\ Below(o, <<n + 1>>) /\ Below(d, <<n + 1>>) /\ Below(i, <<n + 1>>)
  <2>1. /\ ToSet(g) \subseteq 1 .. n /\ ToSet(o) \subseteq 1 .. n
        /\ ToSet(d) \subseteq 1 .. n /\ ToSet(i) \subseteq 1 .. n
    BY <1>3
  <2> QED
    BY <1>4, <2>1
<1>6. PICK k \in Seq(Nat) : /\ k = i \o <<n + 1>>
                            /\ ToSet(k) = ToSet(i) \cup {n + 1}
                            /\ Ascending(k)
  <2>1. /\ i \o <<n + 1>> \in Seq(Nat)
        /\ ToSet(i \o <<n + 1>>) = ToSet(i) \cup ToSet(<<n + 1>>)
        /\ Ascending(i \o <<n + 1>>) <=> Ascending(i) /\ Ascending(<<n + 1>>) /\ Below(i, <<n + 1>>)
    BY <1>1, AscendingConcat
  <2> QED
    BY <1>1, <1>3, <1>5, <2>1, Zenon
<1>7. Below(g, k) /\ Below(o, k) /\ Below(d, k)
  BY <1>1, <1>3, <1>5, <1>6 DEF Below
<1>8. /\ Ascending(Chain(g, o, d, k))
      /\ ToSet(Chain(g, o, d, k)) = ToSet(g) \cup ToSet(o) \cup ToSet(d) \cup ToSet(k)
  <2>1. Ascending(Chain(g, o, d, k)) <=>
              /\ Ascending(g) /\ Ascending(o) /\ Ascending(d) /\ Ascending(k)
              /\ Below(g, o) /\ Below(g, d) /\ Below(g, k)
              /\ Below(o, d) /\ Below(o, k) /\ Below(d, k)
    BY ChainParts, Zenon
  <2>2. ToSet(Chain(g, o, d, k)) = ToSet(g) \cup ToSet(o) \cup ToSet(d) \cup ToSet(k)
    BY ChainSet
  <2> QED
    BY <1>3, <1>6, <1>7, <2>1, <2>2
<1> QED
  BY <1>2, <1>3, <1>6, <1>8

-----------------------------------------------------------------------------
\* Every action keeps the invariant.

\* The types of what the chains of an end are made of.
LEMMA Pieces ==
  ASSUME Types, NEW e \in Ends
  PROVE  /\ Other(e) \in Ends /\ Other(e) # e /\ Other(Other(e)) = e
         /\ Ends = {e, Other(e)}
         /\ got[Other(e)] \in Seq(Nat) /\ before[Other(e)] \in Seq(Nat)
         /\ Cat(before[Other(e)], got[Other(e)]) \in Seq(Nat)
         /\ pipe[Other(e)].out \in Seq(Nat) /\ data[e] \in Seq(Nat) /\ back[e] \in Seq(Nat)
         /\ pipe[e].in \in Seq(Nat) /\ sent[e] \in Nat
         /\ pipe[e].st \in States
<1>1. Other(e) \in Ends /\ Other(e) # e /\ Other(Other(e)) = e /\ Ends = {e, Other(e)}
  BY DEF Ends, Other
<1>2. pipe[e] \in PipeEnd /\ pipe[Other(e)] \in PipeEnd
  BY <1>1 DEF Types
<1>3. got[Other(e)] \in Seq(Nat) /\ before[Other(e)] \in Seq(Nat)
  BY <1>1 DEF Types
<1>4. Cat(before[Other(e)], got[Other(e)]) \in Seq(Nat)
  BY <1>3, CatAssociative
<1> QED
  BY <1>1, <1>2, <1>3, <1>4 DEF Types, PipeEnd

\* At first nothing is written and all pieces are empty.
LEMMA InitInv == Init => IInv
<1> SUFFICES ASSUME Init PROVE IInv
  OBVIOUS
<1>1. <<>> \in Seq(Nat) /\ ToSet(<<>>) = {} /\ Ascending(<<>>) /\ <<>> \o <<>> = <<>>
  BY DEF ToSet, Ascending
<1>2. Types
  BY <1>1 DEF Init, Types, Listening, PipeEnd, States, Ends, Nothing
<1>3. ASSUME NEW e \in Ends PROVE Ordered(e) /\ ToSet(Track(e)) = 1 .. sent[e]
  <2>1. /\ got[Other(e)] = <<>> /\ before[Other(e)] = <<>> /\ pipe[Other(e)].out = <<>>
        /\ data[e] = <<>> /\ back[e] = <<>> /\ pipe[e].in = <<>> /\ sent[e] = 0
    BY <1>2, Pieces DEF Init, Listening, Nothing
  <2>2. Track(e) = <<>> /\ Recent(e) = <<>> /\ Kept(e) = <<>>
    BY <1>1, <2>1, Zenon DEF Track, Recent, Kept, Chain, Cat
  <2>3. 1 .. sent[e] = {}
    BY <2>1
  <2> QED
    BY <1>1, <2>2, <2>3 DEF Ordered
<1>4. Whole
  BY <1>3 DEF Whole
<1>5. Shut /\ Looked
  BY <1>2 DEF Init, Shut, Looked, Known, Listening
<1> QED
  BY <1>2, <1>3, <1>4, <1>5 DEF IInv

SameChains(x) == Track(x)' = Track(x) /\ Recent(x)' = Recent(x) /\ Kept(x)' = Kept(x)

\* Nothing happens to the bytes.
LEMMA LinesStay ==
  ASSUME IInv, sent' = sent, closed' = closed, again' = again, failed' = failed,
         cut \subseteq cut', pc.at = "dead" => pc'.at = "dead",
         \A x \in Ends : SameChains(x)
  PROVE  (\A x \in Ends : Ordered(x)') /\ Whole'
<1>1. \A x \in Ends : Ordered(x)'
  BY DEF IInv, Ordered, SameChains
<1>2. Whole'
  BY DEF IInv, Whole, SameChains
<1> QED
  BY <1>1, <1>2

\* The chains are the same when their pieces are.
LEMMA PiecesStay ==
  ASSUME Types, UNCHANGED <<received, data, back>>,
         \A x \in Ends : pipe'[x].in = pipe[x].in /\ pipe'[x].out = pipe[x].out
  PROVE  \A x \in Ends : SameChains(x)
BY Pieces DEF SameChains, Track, Recent, Kept, received

\* A program opens an end.
LEMMA OpenKeeps ==
  ASSUME IInv, NEW e \in Ends, Open(e)
  PROVE  IInv'
<1>0. Types /\ Shut /\ Looked
  BY DEF IInv
<1>1. /\ pipe[e].st = "listen" /\ pipe' = [pipe EXCEPT ![e].st = "connected"]
      /\ opens' = opens + 1
      /\ UNCHANGED <<writers, sent, closed, before, got, failed, again, cut, pc, seen, data, back>>
  BY DEF Open, received, history
<1>2. pipe \in [Ends -> PipeEnd]
  BY <1>0 DEF Types
<1>3. /\ pipe' \in [Ends -> PipeEnd]
      /\ \A x \in Ends : /\ pipe'[x].in = pipe[x].in /\ pipe'[x].out = pipe[x].out
                         /\ pipe'[x].st = IF x = e THEN "connected" ELSE pipe[x].st
  BY <1>1, <1>2 DEF PipeEnd, States
<1>4. Types'
  BY <1>0, <1>1, <1>3 DEF Types
<1>5. \A x \in Ends : SameChains(x)
  BY <1>0, <1>1, <1>3, PiecesStay DEF received
<1>6. (\A x \in Ends : Ordered(x)') /\ Whole'
  BY <1>1, <1>5, LinesStay
<1>7. Shut' /\ Looked'
  BY <1>0, <1>1, <1>3 DEF Shut, Looked, Known
<1> QED
  BY <1>4, <1>6, <1>7 DEF IInv

\* A new byte at the end of one chain.
LEMMA ByteAdded ==
  ASSUME NEW g \in Seq(Nat), NEW o \in Seq(Nat), NEW d \in Seq(Nat), NEW i \in Seq(Nat),
         NEW n \in Nat, NEW j \in Seq(Nat), IsNext(n, i, j), Upto(n, Chain(g, o, d, i))
  PROVE  /\ Ascending(Chain(g, o, d, i)) => Ascending(Chain(g, o, d, j))
         /\ OneMore(n, Chain(g, o, d, i), Chain(g, o, d, j))
<1>1. Ascending(Chain(g, o, d, i)) => Ascending(Chain(g, o, d, j))
  BY ChainGrows, Zenon
<1>2. ToSet(j) = ToSet(i) \cup {n + 1}
  <2>1. j = i \o <<n + 1>> /\ <<n + 1>> \in Seq(Nat)
    BY DEF IsNext
  <2>2. PICK k \in Seq(Nat) : k = <<n + 1>>
    BY <2>1
  <2>3. ToSet(k) = {n + 1}
    BY <2>2 DEF ToSet
  <2>4. ToSet(i \o k) = ToSet(i) \cup ToSet(k)
    BY AscendingConcat
  <2> QED
    BY <2>1, <2>2, <2>3, <2>4, Zenon
<1>3. /\ ToSet(Chain(g, o, d, i)) = ToSet(g) \cup ToSet(o) \cup ToSet(d) \cup ToSet(i)
      /\ ToSet(Chain(g, o, d, j)) = ToSet(g) \cup ToSet(o) \cup ToSet(d) \cup ToSet(j)
  BY ChainSet
<1>4. OneMore(n, Chain(g, o, d, i), Chain(g, o, d, j))
  BY <1>2, <1>3 DEF OneMore
<1> QED
  BY <1>1, <1>4

\* A program writes a byte: it goes to the end of the line.
LEMMA WriteKeeps ==
  ASSUME IInv, NEW e \in Ends, Write(e)
  PROVE  IInv'
<1>0. Types /\ Shut /\ Looked /\ Whole /\ \A x \in Ends : Ordered(x)
  BY DEF IInv
<1>1. /\ pipe[e].st = "connected" /\ pipe' = [pipe EXCEPT ![e].in = Append(@, sent[e] + 1)]
      /\ sent' = [sent EXCEPT ![e] = @ + 1]
      /\ UNCHANGED <<writers, opens, closed, before, got, failed, again, cut, pc, seen, data, back>>
  BY DEF Write, received, history
<1>2. pipe \in [Ends -> PipeEnd] /\ sent \in [Ends -> Nat] /\ pipe[e].in \in Seq(Nat) /\ sent[e] \in Nat
  <2>1. pipe[e].in \in Seq(Nat) /\ sent[e] \in Nat
    BY <1>0, Pieces
  <2> QED
    BY <1>0, <2>1 DEF Types
<1>3. PICK n \in Nat : n = sent[e]
  BY <1>2
<1>4. PICK i \in Seq(Nat) : i = pipe[e].in
  BY <1>2
<1>5. PICK j \in Seq(Nat) : j = Append(pipe[e].in, sent[e] + 1)
  <2>1. Append(i, n + 1) \in Seq(Nat)
    OBVIOUS
  <2> QED
    BY <1>3, <1>4, <2>1
<1>6. IsNext(n, i, j)
  BY <1>3, <1>4, <1>5, Zenon DEF IsNext
<1>7. /\ pipe' \in [Ends -> PipeEnd] /\ sent' \in [Ends -> Nat]
      /\ \A x \in Ends : /\ pipe'[x].out = pipe[x].out /\ pipe'[x].st = pipe[x].st
                         /\ x # e => pipe'[x].in = pipe[x].in /\ sent'[x] = sent[x]
      /\ pipe'[e].in = j /\ sent'[e] = n + 1
  <2>1. pipe' = [pipe EXCEPT ![e].in = j]
    BY <1>1, <1>5
  <2>2. /\ pipe' \in [Ends -> PipeEnd]
        /\ \A x \in Ends : /\ pipe'[x].out = pipe[x].out /\ pipe'[x].st = pipe[x].st
                           /\ x # e => pipe'[x].in = pipe[x].in
        /\ pipe'[e].in = j
    BY <1>2, <2>1 DEF PipeEnd
  <2>3. /\ sent' \in [Ends -> Nat] /\ sent'[e] = n + 1
        /\ \A x \in Ends : x # e => sent'[x] = sent[x]
    BY <1>1, <1>2, <1>3
  <2> QED
    BY <2>2, <2>3
<1>8. Types'
  BY <1>0, <1>1, <1>7 DEF Types
<1>9. PICK r \in Seq(Nat) : r = Cat(before[Other(e)], got[Other(e)])
  BY <1>0, Pieces
<1>10. PICK g \in Seq(Nat) : g = got[Other(e)]
  BY <1>0, Pieces
<1>11. PICK o \in Seq(Nat) : o = pipe[Other(e)].out
  BY <1>0, Pieces
<1>12. PICK d \in Seq(Nat) : d = data[e]
  BY <1>0, Pieces
<1>13. PICK b \in Seq(Nat) : b = back[e]
  BY <1>0, Pieces
<1>14. PICK z \in Seq(Nat) : z = <<>>
  <2>1. <<>> \in Seq(Nat)
    OBVIOUS
  <2> QED
    BY <2>1
<1>15. /\ Track(e) = Chain(r, o, d, i) /\ Track(e)' = Chain(r, o, d, j)
       /\ Recent(e) = Chain(g, o, d, i) /\ Recent(e)' = Chain(g, o, d, j)
       /\ Kept(e) = Chain(z, b, d, i) /\ Kept(e)' = Chain(z, b, d, j)
  BY <1>0, <1>1, <1>4, <1>7, <1>9, <1>10, <1>11, <1>12, <1>13, <1>14, Pieces DEF Track, Recent, Kept
<1>16. Upto(n, Chain(r, o, d, i)) /\ Upto(n, Chain(z, b, d, i)) /\ Upto(n, Chain(g, o, d, i))
  <2>1. Upto(n, Chain(r, o, d, i)) /\ Upto(n, Chain(z, b, d, i))
    BY <1>0, <1>3, <1>15 DEF Ordered, Upto
  <2>2. /\ ToSet(Chain(r, o, d, i)) = ToSet(r) \cup ToSet(o) \cup ToSet(d) \cup ToSet(i)
        /\ ToSet(Chain(g, o, d, i)) = ToSet(g) \cup ToSet(o) \cup ToSet(d) \cup ToSet(i)
    BY ChainSet
  <2>3. ToSet(g) \subseteq ToSet(r)
    <3>1. before[Other(e)] \in Seq(Nat)
      BY <1>0, Pieces
    <3> QED
      BY <1>9, <1>10, <3>1, AscendingConcat DEF Cat
  <2> QED
    BY <2>1, <2>2, <2>3 DEF Upto
<1>17. /\ Ascending(Chain(r, o, d, i)) => Ascending(Chain(r, o, d, j))
       /\ OneMore(n, Chain(r, o, d, i), Chain(r, o, d, j))
  BY <1>6, <1>16, ByteAdded
<1>18. Ascending(Chain(g, o, d, i)) => Ascending(Chain(g, o, d, j))
  BY <1>6, <1>16, ByteAdded
<1>19. /\ Ascending(Chain(z, b, d, i)) => Ascending(Chain(z, b, d, j))
       /\ OneMore(n, Chain(z, b, d, i), Chain(z, b, d, j))
  BY <1>6, <1>16, ByteAdded
<1>20. 1 .. n + 1 = (1 .. n) \cup {n + 1}
  OBVIOUS
<1>21. \A x \in Ends \ {e} : SameChains(x) /\ sent'[x] = sent[x]
  BY <1>0, <1>1, <1>7, Pieces DEF SameChains, Track, Recent, Kept
<1>22. \A x \in Ends : Ordered(x)'
  <2>1. Ordered(e)'
    BY <1>0, <1>1, <1>7, <1>15, <1>16, <1>17, <1>18, <1>19, <1>20 DEF Ordered, Upto, OneMore
  <2>2. ASSUME NEW x \in Ends, x # e PROVE Ordered(x)'
    BY <1>0, <1>1, <1>21, <2>2 DEF Ordered, SameChains
  <2> QED
    BY <2>1, <2>2
<1>23. Whole'
  <2>1. SUFFICES ASSUME pc.at # "dead", NEW x \in Ends, ~closed[Other(x)], x \notin failed \cup cut
                 PROVE  ToSet(Track(x)') = 1 .. sent'[x]
    BY <1>1 DEF Whole
  <2>2. ToSet(Track(x)) = 1 .. sent[x]
    BY <1>0, <2>1 DEF Whole
  <2>3. CASE x = e
    BY <1>3, <1>7, <1>15, <1>17, <1>20, <2>2, <2>3 DEF OneMore
  <2>4. CASE x # e
    BY <1>21, <2>2, <2>4 DEF SameChains
  <2> QED
    BY <2>3, <2>4
<1>24. Shut'
  BY <1>0, <1>1, <1>7 DEF Shut
<1>25. Looked'
  BY <1>0, <1>1, <1>7 DEF Looked, Known
<1> QED
  BY <1>8, <1>22, <1>23, <1>24, <1>25 DEF IInv

\* A program reads a byte: it moves to the first piece.
LEMMA ReadKeeps ==
  ASSUME IInv, NEW e \in Ends, Read(e)
  PROVE  IInv'
<1>0. Types /\ Shut /\ Looked
  BY DEF IInv
<1>1. /\ pipe[e].out # <<>> /\ pipe[e].st = "connected"
      /\ got' = [got EXCEPT ![e] = Append(@, Head(pipe[e].out))]
      /\ pipe' = [pipe EXCEPT ![e].out = Tail(@)]
      /\ UNCHANGED <<writers, sent, opens, closed, before, failed, again, cut, pc, seen, data, back>>
  BY DEF Read, programs, history
<1>2. /\ pipe \in [Ends -> PipeEnd] /\ got \in [Ends -> Seq(Nat)] /\ before \in [Ends -> Seq(Nat)]
      /\ pipe[e].out \in Seq(Nat)
  BY <1>0 DEF Types, PipeEnd
<1>3. Tail(pipe[e].out) \in Seq(Nat) /\ Append(got[e], Head(pipe[e].out)) \in Seq(Nat)
  BY <1>1, <1>2
<1>4. /\ pipe' \in [Ends -> PipeEnd] /\ got' \in [Ends -> Seq(Nat)]
      /\ \A x \in Ends : /\ pipe'[x].in = pipe[x].in /\ pipe'[x].st = pipe[x].st
                         /\ x # e => pipe'[x].out = pipe[x].out /\ got'[x] = got[x]
      /\ pipe'[e].out = Tail(pipe[e].out)
      /\ got'[e] = Append(got[e], Head(pipe[e].out))
  BY <1>1, <1>2, <1>3 DEF PipeEnd
<1>5. Types'
  BY <1>0, <1>1, <1>4 DEF Types
<1>6. \A x \in Ends : SameChains(x)
  <2>1. SUFFICES ASSUME NEW x \in Ends PROVE SameChains(x)
    OBVIOUS
  <2>2. CASE x = e
    BY <1>0, <1>1, <1>4, <2>2, Pieces DEF SameChains, Track, Recent, Kept
  <2>3. CASE x # e
    <3>1. Other(x) = e
      BY <1>0, <2>3, Pieces
    <3>2. PICK g \in Seq(Nat) : g = got[e]
      BY <1>2
    <3>3. PICK o \in Seq(Nat) : o = pipe[e].out
      BY <1>2
    <3>4. PICK b \in Seq(Nat) : b = before[e]
      BY <1>2
    <3>5. PICK d \in Seq(Nat) : d = data[x]
      BY <1>0, Pieces
    <3>6. PICK i \in Seq(Nat) : i = pipe[x].in
      BY <1>0, Pieces
    <3>7. PICK r \in Seq(Nat) : r = b \o g
      <4>1. b \o g \in Seq(Nat)
        OBVIOUS
      <4> QED
        BY <4>1
    <3>8. Cat(b, Append(g, Head(o))) = Append(r, Head(o))
      <4>1. o # <<>>
        BY <1>1, <3>3
      <4>2. Head(o) \in Nat
        BY <4>1
      <4>3. PICK h \in Seq(Nat) : h = <<Head(o)>>
        <5>1. <<Head(o)>> \in Seq(Nat)
          BY <4>2
        <5> QED
          BY <5>1
      <4>4. Append(g, Head(o)) = g \o h /\ Append(r, Head(o)) = r \o h
        <5>1. \A s \in Seq(Nat), c \in Nat : Append(s, c) = s \o <<c>>
          OBVIOUS
        <5> QED
          BY <4>2, <4>3, <5>1, Zenon
      <4>5. Cat(Cat(b, g), h) = Cat(b, Cat(g, h))
        BY CatAssociative
      <4> QED
        BY <3>7, <4>4, <4>5, Zenon DEF Cat
    <3>9. /\ Track(x)' = Chain(Append(r, Head(o)), Tail(o), d, i)
          /\ Recent(x)' = Chain(Append(g, Head(o)), Tail(o), d, i)
      BY <1>1, <1>4, <3>1, <3>2, <3>3, <3>4, <3>5, <3>6, <3>8 DEF Track, Recent
    <3>10. Track(x) = Chain(r, o, d, i) /\ Recent(x) = Chain(g, o, d, i)
      BY <3>1, <3>2, <3>3, <3>4, <3>5, <3>6, <3>7 DEF Track, Recent, Cat
    <3>11. o # <<>>
      BY <1>1, <3>3
    <3>12. /\ Chain(Append(r, Head(o)), Tail(o), d, i) = Chain(r, o, d, i)
           /\ Chain(Append(g, Head(o)), Tail(o), d, i) = Chain(g, o, d, i)
      BY <3>11, ChainMoves
    <3>13. Kept(x)' = Kept(x)
      BY <1>1, <1>4, Pieces DEF Kept
    <3> QED
      BY <3>9, <3>10, <3>12, <3>13 DEF SameChains
  <2> QED
    BY <2>2, <2>3
<1>7. (\A x \in Ends : Ordered(x)') /\ Whole'
  BY <1>1, <1>6, LinesStay
<1>8. Shut' /\ Looked'
  BY <1>0, <1>1, <1>4 DEF Shut, Looked, Known
<1> QED
  BY <1>5, <1>7, <1>8 DEF IInv

\* Nothing is written, and some pieces of the chains of an end are dropped.
LEMMA OrderedDrops ==
  ASSUME Types, NEW x \in Ends, Ordered(x), sent' = sent, again \subseteq again', data'[x] = data[x],
         Cat(before[Other(x)], got[Other(x)])' = Cat(before[Other(x)], got[Other(x)]),
         got'[Other(x)] \in {got[Other(x)], <<>>},
         pipe'[Other(x)].out \in {pipe[Other(x)].out, <<>>},
         pipe'[x].in \in {pipe[x].in, <<>>}, back'[x] \in {back[x], <<>>}
  PROVE  Ordered(x)'
<1>0. PICK z \in Seq(Nat) : z = <<>>
  <2>1. <<>> \in Seq(Nat)
    OBVIOUS
  <2> QED
    BY <2>1
<1>1. PICK g \in Seq(Nat) : g = got[Other(x)]
  BY Pieces
<1>2. PICK r \in Seq(Nat) : r = Cat(before[Other(x)], got[Other(x)])
  BY Pieces
<1>3. PICK o \in Seq(Nat) : o = pipe[Other(x)].out
  BY Pieces
<1>4. PICK d \in Seq(Nat) : d = data[x]
  BY Pieces
<1>5. PICK i \in Seq(Nat) : i = pipe[x].in
  BY Pieces
<1>6. PICK b \in Seq(Nat) : b = back[x]
  BY Pieces
<1>7. PICK h \in Seq(Nat) : h = got'[Other(x)] /\ KeptOrDropped(h, g)
  BY <1>0, <1>1 DEF KeptOrDropped
<1>8. PICK p \in Seq(Nat) : p = pipe'[Other(x)].out /\ KeptOrDropped(p, o)
  BY <1>0, <1>3 DEF KeptOrDropped
<1>9. PICK j \in Seq(Nat) : j = pipe'[x].in /\ KeptOrDropped(j, i)
  BY <1>0, <1>5 DEF KeptOrDropped
<1>10. PICK c \in Seq(Nat) : c = back'[x] /\ KeptOrDropped(c, b)
  BY <1>0, <1>6 DEF KeptOrDropped
<1>11. /\ Fewer(r, o, d, i, r, p, j) /\ Fewer(g, o, d, i, h, p, j)
       /\ Fewer(z, b, d, i, z, c, j)
  BY <1>7, <1>8, <1>9, <1>10 DEF Fewer, KeptOrDropped
<1>12. /\ Track(x) = Chain(r, o, d, i) /\ Track(x)' = Chain(r, p, d, j)
       /\ Recent(x) = Chain(g, o, d, i) /\ Recent(x)' = Chain(h, p, d, j)
       /\ Kept(x) = Chain(z, b, d, i) /\ Kept(x)' = Chain(z, c, d, j)
  BY <1>0, <1>1, <1>2, <1>3, <1>4, <1>5, <1>6, <1>7, <1>8, <1>9, <1>10 DEF Track, Recent, Kept
<1>13. Less(r, o, d, i, r, p, j)
  BY <1>11, ChainDrops
<1>14. Less(g, o, d, i, h, p, j)
  BY <1>11, ChainDrops
<1>15. Less(z, b, d, i, z, c, j)
  BY <1>11, ChainDrops
<1> QED
  BY <1>12, <1>13, <1>14, <1>15 DEF Ordered, Less

\* A program closes an end: what is in the pipe for it is dropped.
LEMMA CloseKeeps ==
  ASSUME IInv, NEW e \in Ends, Close(e)
  PROVE  IInv'
<1>0. Types /\ Shut /\ Looked /\ Whole /\ \A x \in Ends : Ordered(x)
  BY DEF IInv
<1>1. /\ pipe[e].st = "connected"
      /\ pipe' = [pipe EXCEPT ![e].st = "closing", ![e].out = <<>>]
      /\ closed' = [closed EXCEPT ![e] = TRUE]
      /\ UNCHANGED <<writers, sent, opens, before, got, failed, again, cut, pc, seen, data, back>>
  BY DEF Close, received, history
<1>2. pipe \in [Ends -> PipeEnd] /\ closed \in [Ends -> BOOLEAN] /\ <<>> \in Seq(Nat)
  BY <1>0 DEF Types
<1>3. /\ pipe' \in [Ends -> PipeEnd] /\ closed' \in [Ends -> BOOLEAN]
      /\ \A x \in Ends : /\ pipe'[x].in = pipe[x].in
                         /\ x # e => pipe'[x].out = pipe[x].out /\ pipe'[x].st = pipe[x].st
                                     /\ closed'[x] = closed[x]
      /\ pipe'[e].out = <<>> /\ pipe'[e].st = "closing" /\ closed'[e] = TRUE
  BY <1>1, <1>2 DEF PipeEnd, States
<1>4. Types'
  BY <1>0, <1>1, <1>3 DEF Types
<1>5. ASSUME NEW x \in Ends PROVE Ordered(x)'
  <2>1. /\ Other(x) \in Ends
        /\ pipe'[Other(x)].out \in {pipe[Other(x)].out, <<>>}
        /\ pipe'[x].in \in {pipe[x].in, <<>>}
    BY <1>0, <1>3, Pieces
  <2> QED
    BY <1>0, <1>1, <2>1, OrderedDrops
<1>6. Whole'
  <2>1. SUFFICES ASSUME pc.at # "dead", NEW x \in Ends, ~closed'[Other(x)], x \notin failed \cup cut
                 PROVE  ToSet(Track(x)') = 1 .. sent[x]
    BY <1>1 DEF Whole
  <2>2. Other(x) \in Ends /\ Other(x) # e
    BY <1>0, <1>3, <2>1, Pieces
  <2>3. ~closed[Other(x)] /\ Track(x)' = Track(x)
    BY <1>1, <1>3, <2>1, <2>2 DEF Track
  <2> QED
    BY <1>0, <2>1, <2>3 DEF Whole
<1>7. Shut' /\ Looked'
  BY <1>0, <1>1, <1>3 DEF Shut, Looked, Known
<1> QED
  BY <1>4, <1>5, <1>6, <1>7 DEF IInv

\* What disconnecting some ends does to their pipes and to what was received there.
LEMMA Disconnected ==
  ASSUME Types, NEW S \in SUBSET Ends, Disconnect(S)
  PROVE  /\ pipe' \in [Ends -> PipeEnd] /\ got' \in [Ends -> Seq(Nat)] /\ before' \in [Ends -> Seq(Nat)]
         /\ \A x \in Ends :
              /\ Cat(before[x], got[x])' = Cat(before[x], got[x])
              /\ got'[x] \in {got[x], <<>>}
              /\ x \in S => pipe'[x].in = <<>> /\ pipe'[x].out = <<>> /\ pipe'[x].st = "listen"
                            /\ got'[x] = <<>>
              /\ x \notin S => pipe'[x] = pipe[x]
<1>1. /\ pipe \in [Ends -> PipeEnd] /\ got \in [Ends -> Seq(Nat)] /\ before \in [Ends -> Seq(Nat)]
      /\ <<>> \in Seq(Nat)
  BY DEF Types
<1>2. Listening \in PipeEnd /\ Listening.in = <<>> /\ Listening.out = <<>> /\ Listening.st = "listen"
  BY <1>1 DEF Listening, PipeEnd, States
<1>3. /\ pipe' \in [Ends -> PipeEnd]
      /\ \A x \in Ends : pipe'[x] = IF x \in S THEN Listening ELSE pipe[x]
  BY <1>1, <1>2, Zenon DEF Disconnect
<1>4. /\ got' \in [Ends -> Seq(Nat)]
      /\ \A x \in Ends : got'[x] = IF x \in S THEN <<>> ELSE got[x]
  BY <1>1, Zenon DEF Disconnect
<1>5. \A s, t \in Seq(Nat) : s \o t \in Seq(Nat) /\ (s \o t) \o <<>> = s \o t
  OBVIOUS
<1>6. /\ before' \in [Ends -> Seq(Nat)]
      /\ \A x \in Ends : before'[x] = IF x \in S THEN before[x] \o got[x] ELSE before[x]
  BY <1>1, <1>5 DEF Disconnect
<1>7. \A x \in Ends : Cat(before[x], got[x])' = Cat(before[x], got[x])
  <2>1. SUFFICES ASSUME NEW x \in Ends PROVE before'[x] \o got'[x] = before[x] \o got[x]
    BY DEF Cat
  <2>2. before[x] \in Seq(Nat) /\ got[x] \in Seq(Nat)
    BY <1>1
  <2>3. CASE x \in S
    BY <1>4, <1>5, <1>6, <2>2, <2>3
  <2>4. CASE x \notin S
    BY <1>4, <1>6, <2>4
  <2> QED
    BY <2>3, <2>4
<1> QED
  BY <1>2, <1>3, <1>4, <1>6, <1>7

\* A disconnection leaves in order what is left.
LEMMA DisconnectOrdered ==
  ASSUME Types, NEW x \in Ends, Ordered(x), NEW S \in SUBSET Ends, Disconnect(S),
         UNCHANGED <<sent, again, data, back>>
  PROVE  Ordered(x)'
<1>1. Other(x) \in Ends
  BY Pieces
<1>2. \A y \in Ends :
        /\ Cat(before[y], got[y])' = Cat(before[y], got[y])
        /\ got'[y] \in {got[y], <<>>}
        /\ y \in S => pipe'[y].in = <<>> /\ pipe'[y].out = <<>>
        /\ y \notin S => pipe'[y] = pipe[y]
  BY Disconnected
<1>3. /\ pipe'[Other(x)].out \in {pipe[Other(x)].out, <<>>}
      /\ pipe'[x].in \in {pipe[x].in, <<>>}
  BY <1>1, <1>2
<1> QED
  BY <1>1, <1>2, <1>3, OrderedDrops

\* A write fails: what it has put out goes back in front of what the thread has, and the
\* end to which it wrote, and perhaps the other, is disconnected.
LEMMA TakenBack ==
  ASSUME Types, NEW e \in Ends, Ordered(e), NEW S \in SUBSET Ends, Other(e) \in S, Disconnect(S),
         sent' = sent, data'[e] = Cat(back[e], data[e]), back'[e] = <<>>,
         again \subseteq again', back[e] # <<>> => e \in again'
  PROVE  /\ Ordered(e)'
         /\ pipe[Other(e)].out = <<>> /\ e \notin S /\ ToSet(Track(e)) = 1 .. sent[e]
              => ToSet(Track(e)') = 1 .. sent[e]
<1>0. PICK z \in Seq(Nat) : z = <<>>
  <2>1. <<>> \in Seq(Nat)
    OBVIOUS
  <2> QED
    BY <2>1
<1>1. PICK r \in Seq(Nat) : r = Cat(before[Other(e)], got[Other(e)])
  BY Pieces
<1>2. PICK o \in Seq(Nat) : o = pipe[Other(e)].out
  BY Pieces
<1>3. PICK d \in Seq(Nat) : d = data[e]
  BY Pieces
<1>4. PICK i \in Seq(Nat) : i = pipe[e].in
  BY Pieces
<1>5. PICK b \in Seq(Nat) : b = back[e]
  BY Pieces
<1>6. Other(e) \in Ends /\ IsEmpty(z)
  BY <1>0, Pieces DEF IsEmpty
<1>7. PICK k \in Seq(Nat) : k = Cat(b, d)
  BY <1>6, ChainResends
<1>8. PICK j \in Seq(Nat) : j = pipe'[e].in /\ KeptOrDropped(j, i) /\ (e \notin S => j = i)
  <2>1. pipe'[e].in \in {pipe[e].in, <<>>} /\ (e \notin S => pipe'[e].in = pipe[e].in)
    BY Disconnected
  <2> QED
    BY <1>0, <1>4, <2>1 DEF KeptOrDropped
<1>9. /\ Cat(before[Other(e)], got[Other(e)])' = r
      /\ got'[Other(e)] = z /\ pipe'[Other(e)].out = z
  BY <1>0, <1>1, <1>6, Disconnected
<1>10. /\ Track(e) = Chain(r, o, d, i) /\ Track(e)' = Chain(r, z, k, j)
       /\ Recent(e)' = Chain(z, z, k, j)
       /\ Kept(e) = Chain(z, b, d, i) /\ Kept(e)' = Chain(z, z, k, j)
  BY <1>0, <1>1, <1>2, <1>3, <1>4, <1>5, <1>7, <1>8, <1>9 DEF Track, Recent, Kept
<1>11. Chain(z, z, k, j) = Chain(z, b, d, j)
  BY <1>6, <1>7, ChainResends
<1>12. /\ Ascending(Chain(z, b, d, i)) => Ascending(Chain(z, b, d, j))
       /\ ToSet(Chain(z, b, d, j)) \subseteq ToSet(Chain(z, b, d, i))
  <2>1. Fewer(z, b, d, i, z, b, j)
    BY <1>8 DEF Fewer, KeptOrDropped
  <2>2. Less(z, b, d, i, z, b, j)
    BY <2>1, ChainDrops
  <2> QED
    BY <2>2 DEF Less
<1>13. /\ Ascending(Chain(z, b, d, i)) /\ ToSet(Chain(z, b, d, i)) \subseteq 1 .. sent[e]
       /\ ToSet(Chain(r, o, d, i)) \subseteq 1 .. sent[e]
       /\ e \notin again => Ascending(Chain(r, o, d, i))
  BY <1>10 DEF Ordered
<1>14. /\ ToSet(Chain(r, z, k, j)) = ToSet(r) \cup ToSet(z) \cup ToSet(k) \cup ToSet(j)
       /\ ToSet(Chain(z, z, k, j)) = ToSet(z) \cup ToSet(z) \cup ToSet(k) \cup ToSet(j)
       /\ ToSet(Chain(r, o, d, i)) = ToSet(r) \cup ToSet(o) \cup ToSet(d) \cup ToSet(i)
       /\ ToSet(z) = {}
       /\ ToSet(k) = ToSet(b) \cup ToSet(d)
  <2>1. ToSet(Chain(r, z, k, j)) = ToSet(r) \cup ToSet(z) \cup ToSet(k) \cup ToSet(j)
    BY ChainSet
  <2>2. ToSet(Chain(z, z, k, j)) = ToSet(z) \cup ToSet(z) \cup ToSet(k) \cup ToSet(j)
    BY ChainSet
  <2>3. ToSet(Chain(r, o, d, i)) = ToSet(r) \cup ToSet(o) \cup ToSet(d) \cup ToSet(i)
    BY ChainSet
  <2>4. ToSet(z) = {}
    BY <1>0 DEF ToSet
  <2>5. ToSet(k) = ToSet(b) \cup ToSet(d)
    BY <1>7, AscendingConcat DEF Cat
  <2> QED
    BY <2>1, <2>2, <2>3, <2>4, <2>5
<1>15. ToSet(Chain(z, z, k, j)) \subseteq 1 .. sent[e]
  BY <1>11, <1>12, <1>13
<1>16. ToSet(Chain(r, z, k, j)) \subseteq 1 .. sent[e]
  BY <1>13, <1>14, <1>15
<1>17. ASSUME e \notin again' PROVE Ascending(Chain(r, z, k, j))
  <2>1. e \notin again /\ b = <<>>
    BY <1>5, <1>17
  <2>2. k = d
    BY <1>7, <2>1 DEF Cat
  <2>3. Fewer(r, o, d, i, r, z, j)
    BY <1>0, <1>8 DEF Fewer, KeptOrDropped
  <2>4. Less(r, o, d, i, r, z, j)
    BY <2>3, ChainDrops
  <2> QED
    BY <1>13, <2>1, <2>2, <2>4 DEF Less
<1>18. Ordered(e)'
  BY <1>10, <1>11, <1>12, <1>13, <1>15, <1>16, <1>17 DEF Ordered
<1>19. ASSUME pipe[Other(e)].out = <<>>, e \notin S, ToSet(Track(e)) = 1 .. sent[e]
       PROVE  ToSet(Track(e)') = 1 .. sent[e]
  <2>1. o = z /\ j = i
    BY <1>0, <1>2, <1>8, <1>19
  <2>2. ToSet(Chain(r, o, d, i)) = 1 .. sent[e]
    BY <1>10, <1>19
  <2>3. ToSet(Chain(r, o, d, i)) \subseteq ToSet(Chain(r, z, k, j))
    BY <1>14, <2>1
  <2> QED
    BY <1>10, <1>16, <2>2, <2>3
<1> QED
  BY <1>18, <1>19

\* Both ends are disconnected and the thread ends.
LEMMA DieKeeps ==
  ASSUME IInv, Die, UNCHANGED <<programs, history, seen, data, back>>
  PROVE  IInv'
<1>0. Types /\ \A x \in Ends : Ordered(x)
  BY DEF IInv
<1>1. /\ pc' = [at |-> "dead", e |-> 1] /\ Disconnect(Ends)
      /\ UNCHANGED <<writers, sent, opens, closed, failed, again, cut, seen, data, back>>
  BY DEF Die, Go, programs, history
<1>2. /\ pipe' \in [Ends -> PipeEnd] /\ got' \in [Ends -> Seq(Nat)] /\ before' \in [Ends -> Seq(Nat)]
      /\ \A x \in Ends : pipe'[x].st = "listen" /\ pipe'[x].out = <<>>
  BY <1>0, <1>1, Disconnected
<1>3. Types'
  BY <1>0, <1>1, <1>2 DEF Types, Ends
<1>4. \A x \in Ends : Ordered(x)'
  BY <1>0, <1>1, DisconnectOrdered
<1>5. Whole' /\ Shut' /\ Looked'
  BY <1>1, <1>2 DEF Whole, Shut, Looked, Known
<1> QED
  BY <1>3, <1>4, <1>5 DEF IInv

\* The thread goes on or ends.
LEMMA TestKeeps ==
  ASSUME IInv, Test
  PROVE  IInv'
<1>0. Types /\ Shut /\ Looked
  BY DEF IInv
<1>1. pc.at = "test" /\ UNCHANGED <<programs, history, seen, data, back>>
  BY DEF Test
<1>2. CASE Go("peek", 1) /\ UNCHANGED <<pipe, received>>
  <2>1. /\ pc' = [at |-> "peek", e |-> 1]
        /\ UNCHANGED <<writers, sent, opens, closed, before, got, failed, again, cut, pipe, seen, data, back>>
    BY <1>1, <1>2 DEF Go, programs, received, history
  <2>2. Types'
    BY <1>0, <2>1 DEF Types, Ends
  <2>3. (\A x \in Ends : Ordered(x)') /\ Whole'
    <3>1. \A x \in Ends : SameChains(x)
      BY <1>0, <2>1, PiecesStay DEF received
    <3> QED
      BY <1>1, <2>1, <3>1, LinesStay
  <2>4. Shut' /\ Looked'
    BY <1>0, <1>1, <2>1 DEF Shut, Looked, Known
  <2> QED
    BY <2>2, <2>3, <2>4 DEF IInv
<1>3. CASE Die
  BY <1>1, <1>3, DieKeeps
<1> QED
  BY <1>2, <1>3 DEF Test

\* The thread looks at an end.
LEMMA PeekKeeps ==
  ASSUME IInv, NEW e \in Ends, Peek(e)
  PROVE  IInv'
<1>0. Types /\ Shut /\ Looked
  BY DEF IInv
<1>1. /\ pc = [at |-> "peek", e |-> e]
      /\ seen' = [seen EXCEPT ![e] = [avail |-> pipe[e].in # <<>>, st |-> pipe[e].st]]
      /\ pc' = IF e = 1 THEN [at |-> "peek", e |-> 2] ELSE [at |-> "read", e |-> 1]
      /\ UNCHANGED <<writers, sent, opens, closed, before, got, failed, again, cut, pipe, data, back>>
  BY DEF Peek, Go, programs, received, history
<1>2. pipe[e].st \in States /\ seen \in [Ends -> [avail : BOOLEAN, st : States]]
  BY <1>0, Pieces DEF Types
<1>3. /\ seen' \in [Ends -> [avail : BOOLEAN, st : States]]
      /\ seen'[e].st = pipe[e].st /\ (seen'[e].avail <=> pipe[e].in # <<>>)
      /\ \A x \in Ends : x # e => seen'[x] = seen[x]
  BY <1>1, <1>2
<1>4. Types'
  BY <1>0, <1>1, <1>3 DEF Types, Ends
<1>5. (\A x \in Ends : Ordered(x)') /\ Whole'
  <2>1. \A x \in Ends : SameChains(x)
    BY <1>0, <1>1, PiecesStay DEF received
  <2> QED
    BY <1>1, <2>1, LinesStay
<1>6. Shut'
  BY <1>0, <1>1 DEF Shut
<1>7. Looked'
  BY <1>0, <1>1, <1>3 DEF Looked, Known, Ends
<1> QED
  BY <1>4, <1>5, <1>6, <1>7 DEF IInv

\* What is in the pipe moves to the thread, if the thread has nothing.
LEMMA ReadEndKeeps ==
  ASSUME IInv, NEW e \in Ends, ReadEnd(e)
  PROVE  IInv'
<1>0. Types /\ Shut /\ Looked
  BY DEF IInv
<1>1. /\ pc = [at |-> "read", e |-> e]
      /\ UNCHANGED <<writers, sent, opens, closed, before, got, failed, again, seen, back>>
  BY DEF ReadEnd, programs, received
<1>2. CASE data[e] = <<>> /\ seen[e].avail
  <2>1. /\ data' = [data EXCEPT ![e] = pipe[e].in]
        /\ pipe' = [pipe EXCEPT ![e].in = <<>>]
        /\ pc' = [at |-> "write", e |-> e] /\ cut' = cut
    BY <1>2 DEF ReadEnd, Go
  <2>2. /\ pipe \in [Ends -> PipeEnd] /\ data \in [Ends -> Seq(Nat)]
        /\ pipe[e].in \in Seq(Nat) /\ <<>> \in Seq(Nat)
    <3>1. pipe \in [Ends -> PipeEnd] /\ data \in [Ends -> Seq(Nat)]
      BY <1>0 DEF Types
    <3>2. pipe[e].in \in Seq(Nat)
      BY <1>0, Pieces
    <3>3. <<>> \in Seq(Nat)
      OBVIOUS
    <3> QED
      BY <3>1, <3>2, <3>3
  <2>3. /\ pipe' \in [Ends -> PipeEnd] /\ data' \in [Ends -> Seq(Nat)]
        /\ \A x \in Ends : /\ pipe'[x].out = pipe[x].out /\ pipe'[x].st = pipe[x].st
                           /\ x # e => pipe'[x].in = pipe[x].in /\ data'[x] = data[x]
        /\ pipe'[e].in = <<>> /\ data'[e] = pipe[e].in
    BY <2>1, <2>2 DEF PipeEnd
  <2>4. Types'
    BY <1>0, <1>1, <2>1, <2>3 DEF Types
  <2>5. \A x \in Ends : SameChains(x)
    <3>1. SUFFICES ASSUME NEW x \in Ends PROVE SameChains(x)
      OBVIOUS
    <3>2. CASE x # e
      BY <1>0, <1>1, <2>3, <3>2, Pieces DEF SameChains, Track, Recent, Kept
    <3>3. CASE x = e
      <4>1. PICK d \in Seq(Nat) : d = <<>>
        BY <2>2
      <4>2. PICK i \in Seq(Nat) : i = pipe[x].in
        BY <1>0, Pieces
      <4>3. PICK g \in Seq(Nat) : g = got[Other(x)]
        BY <1>0, Pieces
      <4>4. PICK r \in Seq(Nat) : r = Cat(before[Other(x)], got[Other(x)])
        BY <1>0, Pieces
      <4>5. PICK o \in Seq(Nat) : o = pipe[Other(x)].out
        BY <1>0, Pieces
      <4>6. PICK b \in Seq(Nat) : b = back[x]
        BY <1>0, Pieces
      <4>7. /\ Track(x) = Chain(r, o, d, i) /\ Recent(x) = Chain(g, o, d, i)
            /\ Kept(x) = Chain(d, b, d, i)
        BY <1>2, <3>3, <4>1, <4>2, <4>3, <4>4, <4>5, <4>6 DEF Track, Recent, Kept
      <4>8. /\ Track(x)' = Chain(r, o, i, d) /\ Recent(x)' = Chain(g, o, i, d)
            /\ Kept(x)' = Chain(d, b, i, d)
        <5>1. Other(x) \in Ends
          BY <1>0, Pieces
        <5> QED
          BY <1>1, <2>3, <3>3, <4>1, <4>2, <4>3, <4>4, <4>5, <4>6, <5>1 DEF Track, Recent, Kept
      <4>9. IsEmpty(d)
        BY <4>1 DEF IsEmpty
      <4>10. /\ Chain(r, o, i, d) = Chain(r, o, d, i) /\ Chain(g, o, i, d) = Chain(g, o, d, i)
             /\ Chain(d, b, i, d) = Chain(d, b, d, i)
        BY <4>9, ChainShifts
      <4> QED
        BY <4>7, <4>8, <4>10, Zenon DEF SameChains
    <3> QED
      BY <3>2, <3>3
  <2>6. (\A x \in Ends : Ordered(x)') /\ Whole'
    BY <1>1, <2>1, <2>5, LinesStay
  <2>7. Shut' /\ Looked'
    BY <1>0, <1>1, <2>1, <2>3 DEF Shut, Looked, Known
  <2> QED
    BY <2>4, <2>6, <2>7 DEF IInv
<1>3. CASE ~(data[e] = <<>> /\ seen[e].avail)
  <2>1. /\ pc' = IF data[e] # <<>> THEN [at |-> "write", e |-> e] ELSE [at |-> "closing", e |-> e]
        /\ cut' = IF seen[e] = [avail |-> TRUE, st |-> "closing"] THEN cut \cup {e} ELSE cut
        /\ UNCHANGED <<data, pipe>>
    BY <1>3 DEF ReadEnd, Go
  <2>2. Types' /\ cut \subseteq cut'
    BY <1>0, <1>1, <2>1 DEF Types
  <2>3. (\A x \in Ends : Ordered(x)') /\ Whole'
    <3>1. \A x \in Ends : SameChains(x)
      BY <1>0, <1>1, <2>1, PiecesStay DEF received
    <3> QED
      BY <1>1, <2>1, <2>2, <3>1, LinesStay
  <2>4. Shut'
    BY <1>0, <1>1, <2>1 DEF Shut
  <2>5. Looked'
    <3>1. seen \in [Ends -> [avail : BOOLEAN, st : States]]
      BY <1>0 DEF Types
    <3>2. seen[e].avail /\ seen[e].st = "closing" => e \in cut'
      BY <2>1, <3>1
    <3> QED
      BY <1>0, <1>1, <2>1, <2>2, <3>2 DEF Looked, Known
  <2> QED
    BY <2>2, <2>3, <2>4, <2>5 DEF IInv
<1> QED
  BY <1>2, <1>3

\* A byte moves from the thread to the pipe of the other end.
LEMMA PutByteKeeps ==
  ASSUME IInv, NEW e \in Ends, PutByte(e)
  PROVE  IInv'
<1>0. Types /\ Shut /\ Looked
  BY DEF IInv
<1> DEFINE o == Other(e)
<1>1. /\ pc = [at |-> "write", e |-> e] /\ data[e] # <<>> /\ pipe[o].st = "connected"
      /\ pipe' = [pipe EXCEPT ![o].out = Append(@, Head(data[e]))]
      /\ data' = [data EXCEPT ![e] = Tail(@)]
      /\ back' = [back EXCEPT ![e] = Append(@, Head(data[e]))]
      /\ UNCHANGED <<writers, sent, opens, closed, before, got, failed, again, cut, pc, seen>>
  BY DEF PutByte, programs, received, history
<1>2. /\ o = Other(e) /\ o \in Ends /\ o # e /\ Other(o) = e /\ Ends = {e, o}
      /\ pipe[o].out \in Seq(Nat) /\ data[e] \in Seq(Nat) /\ back[e] \in Seq(Nat)
  BY <1>0, Pieces
<1> HIDE DEF o
<1>3. PICK w \in Seq(Nat) : w = pipe[o].out
  BY <1>2
<1>4. PICK d \in Seq(Nat) : d = data[e]
  BY <1>2
<1>5. PICK b \in Seq(Nat) : b = back[e]
  BY <1>2
<1>6. /\ d # <<>> /\ Head(d) \in Nat /\ Tail(d) \in Seq(Nat)
      /\ Append(w, Head(d)) \in Seq(Nat) /\ Append(b, Head(d)) \in Seq(Nat)
  <2>1. d # <<>>
    BY <1>1, <1>4
  <2>2. Head(d) \in Nat /\ Tail(d) \in Seq(Nat)
    BY <2>1
  <2>3. Append(w, Head(d)) \in Seq(Nat) /\ Append(b, Head(d)) \in Seq(Nat)
    BY <2>2
  <2> QED
    BY <2>1, <2>2, <2>3
<1>7. PICK v \in Seq(Nat) : v = Append(w, Head(d))
  BY <1>6
<1>8. PICK c \in Seq(Nat) : c = Append(b, Head(d))
  BY <1>6
<1>9. PICK t \in Seq(Nat) : t = Tail(d)
  BY <1>6
<1>10. /\ pipe' \in [Ends -> PipeEnd]
       /\ \A x \in Ends : pipe'[x].in = pipe[x].in /\ pipe'[x].st = pipe[x].st
       /\ pipe'[o].out = v /\ pipe'[e].out = pipe[e].out
  <2>1. pipe' = [pipe EXCEPT ![o].out = v] /\ pipe \in [Ends -> PipeEnd]
    BY <1>0, <1>1, <1>3, <1>4, <1>7 DEF Types
  <2> QED
    BY <1>2, <2>1 DEF PipeEnd
<1>11. /\ data' \in [Ends -> Seq(Nat)] /\ data'[e] = t /\ data'[o] = data[o]
       /\ back' \in [Ends -> Seq(Nat)] /\ back'[e] = c /\ back'[o] = back[o]
  <2>1. /\ data' = [data EXCEPT ![e] = t] /\ back' = [back EXCEPT ![e] = c]
        /\ data \in [Ends -> Seq(Nat)] /\ back \in [Ends -> Seq(Nat)]
    BY <1>0, <1>1, <1>4, <1>5, <1>8, <1>9 DEF Types
  <2> QED
    BY <1>2, <2>1
<1>12. Types'
  BY <1>0, <1>1, <1>10, <1>11 DEF Types
<1>13. SameChains(e)
  <2>1. PICK r \in Seq(Nat) : r = Cat(before[o], got[o])
    BY <1>0, <1>2, Pieces
  <2>2. PICK g \in Seq(Nat) : g = got[o]
    BY <1>0, <1>2, Pieces
  <2>3. PICK i \in Seq(Nat) : i = pipe[e].in
    BY <1>0, Pieces
  <2>4. PICK z \in Seq(Nat) : z = <<>>
    <3>1. <<>> \in Seq(Nat)
      OBVIOUS
    <3> QED
      BY <3>1
  <2>5. Track(e) = Chain(r, w, d, i) /\ Recent(e) = Chain(g, w, d, i) /\ Kept(e) = Chain(z, b, d, i)
    BY <1>2, <1>3, <1>4, <1>5, <2>1, <2>2, <2>3, <2>4 DEF Track, Recent, Kept
  <2>6. Track(e)' = Chain(r, v, t, i) /\ Recent(e)' = Chain(g, v, t, i) /\ Kept(e)' = Chain(z, c, t, i)
    BY <1>1, <1>2, <1>10, <1>11, <2>1, <2>2, <2>3, <2>4 DEF Track, Recent, Kept
  <2>7. ~IsEmpty(d)
    BY <1>6 DEF IsEmpty
  <2>8. Chain(r, v, t, i) = Chain(r, w, d, i)
    BY <1>7, <1>9, <2>7, ChainPuts
  <2>9. Chain(g, v, t, i) = Chain(g, w, d, i)
    BY <1>7, <1>9, <2>7, ChainPuts
  <2>10. Chain(z, c, t, i) = Chain(z, b, d, i)
    BY <1>8, <1>9, <2>7, ChainPuts
  <2> QED
    BY <2>5, <2>6, <2>8, <2>9, <2>10 DEF SameChains
<1>14. SameChains(o)
  <2>1. got[e] = got'[e] /\ before[e] = before'[e]
    BY <1>1
  <2> QED
    BY <1>1, <1>2, <1>10, <1>11 DEF SameChains, Track, Recent, Kept
<1>15. (\A x \in Ends : Ordered(x)') /\ Whole'
  <2>1. \A x \in Ends : SameChains(x)
    BY <1>2, <1>13, <1>14
  <2> QED
    BY <1>1, <2>1, LinesStay
<1>16. Shut'
  <2>1. ASSUME NEW x \in Ends PROVE (pipe[x].st = "closing" => closed[x])'
    BY <1>0, <1>1, <1>10 DEF Shut
  <2>2. ASSUME NEW x \in Ends PROVE (pipe[x].st # "connected" => pipe[x].out = <<>>)'
    BY <1>0, <1>1, <1>2, <1>10 DEF Shut
  <2> QED
    BY <2>1, <2>2 DEF Shut
<1>17. Looked'
  BY <1>0, <1>1, <1>10 DEF Looked, Known
<1> QED
  BY <1>12, <1>15, <1>16, <1>17 DEF IInv

\* The write returns: what it has put out cannot come back any more.
LEMMA WrittenKeeps ==
  ASSUME IInv, NEW e \in Ends, Written(e)
  PROVE  IInv'
<1>0. Types /\ Shut /\ Looked /\ Whole /\ \A x \in Ends : Ordered(x)
  BY DEF IInv
<1>1. /\ pc = [at |-> "write", e |-> e] /\ pc' = [at |-> "closing", e |-> e]
      /\ back' = [back EXCEPT ![e] = <<>>]
      /\ UNCHANGED <<writers, sent, opens, closed, before, got, failed, again, cut, pipe, seen, data>>
  BY DEF Written, Go, programs, received, history
<1>2. back \in [Ends -> Seq(Nat)] /\ <<>> \in Seq(Nat)
  BY <1>0 DEF Types
<1>3. back' \in [Ends -> Seq(Nat)] /\ \A x \in Ends : back'[x] \in {back[x], <<>>}
  BY <1>1, <1>2
<1>4. Types'
  BY <1>0, <1>1, <1>3 DEF Types
<1>5. ASSUME NEW x \in Ends PROVE Ordered(x)'
  <2>1. Cat(before[Other(x)], got[Other(x)])' = Cat(before[Other(x)], got[Other(x)])
    BY <1>1
  <2> QED
    BY <1>0, <1>1, <1>3, <2>1, OrderedDrops
<1>6. Whole'
  BY <1>0, <1>1 DEF Whole, Track
<1>7. Shut' /\ Looked'
  BY <1>0, <1>1 DEF Shut, Looked, Known
<1> QED
  BY <1>4, <1>5, <1>6, <1>7 DEF IInv

\* The write fails: the other end, or both, are disconnected.
LEMMA WriteFailsKeeps ==
  ASSUME IInv, NEW e \in Ends, WriteFails(e)
  PROVE  IInv'
<1>0. Types /\ Shut /\ Looked /\ Whole /\ \A x \in Ends : Ordered(x)
  BY DEF IInv
<1> DEFINE o == Other(e)
<1>1. /\ pc = [at |-> "write", e |-> e] /\ pipe[o].st # "connected"
      /\ Restart(o) \/ Die
      /\ failed' = failed \cup {o}
      /\ again' = IF back[e] = <<>> THEN again ELSE again \cup {e}
      /\ data' = [data EXCEPT ![e] = back[e] \o @]
      /\ back' = [back EXCEPT ![e] = <<>>]
      /\ UNCHANGED <<writers, sent, opens, closed, cut, seen>>
  BY DEF WriteFails, programs
<1>2. /\ o = Other(e) /\ o \in Ends /\ o # e /\ Other(o) = e /\ Ends = {e, o}
      /\ data[e] \in Seq(Nat) /\ back[e] \in Seq(Nat)
  BY <1>0, Pieces
<1> HIDE DEF o
<1>3. PICK S \in SUBSET Ends :
        /\ Disconnect(S) /\ o \in S
        /\ \/ S = {o} /\ pc' = [at |-> "test", e |-> 1]
           \/ pc' = [at |-> "dead", e |-> 1]
  <2>1. CASE Go("test", 1) /\ Disconnect({o})
    BY <1>2, <2>1 DEF Go
  <2>2. CASE Die
    BY <1>2, <2>2 DEF Die, Go
  <2> QED
    BY <1>1, <2>1, <2>2 DEF Restart
<1>4. /\ pipe' \in [Ends -> PipeEnd] /\ got' \in [Ends -> Seq(Nat)] /\ before' \in [Ends -> Seq(Nat)]
      /\ \A x \in Ends :
           /\ Cat(before[x], got[x])' = Cat(before[x], got[x])
           /\ got'[x] \in {got[x], <<>>}
           /\ x \in S => pipe'[x].in = <<>> /\ pipe'[x].out = <<>> /\ pipe'[x].st = "listen"
           /\ x \notin S => pipe'[x] = pipe[x]
  BY <1>0, <1>3, Disconnected
<1>5. PICK k \in Seq(Nat) : k = Cat(back[e], data[e])
  BY <1>2, CatAssociative
<1>6. /\ data' \in [Ends -> Seq(Nat)] /\ data'[e] = k /\ data'[o] = data[o]
      /\ back' \in [Ends -> Seq(Nat)] /\ back'[e] = <<>> /\ back'[o] = back[o]
  <2>1. data' = [data EXCEPT ![e] = k] /\ data \in [Ends -> Seq(Nat)] /\ back \in [Ends -> Seq(Nat)]
    BY <1>0, <1>1, <1>5 DEF Types, Cat
  <2>2. <<>> \in Seq(Nat)
    OBVIOUS
  <2> QED
    BY <1>1, <1>2, <2>1, <2>2
<1>7. failed' \in SUBSET Ends /\ again' \in SUBSET Ends /\ again \subseteq again'
  BY <1>0, <1>1, <1>2 DEF Types
<1>8. pc' \in [at : {"test", "peek", "read", "write", "closing", "dead"}, e : Ends]
  BY <1>3 DEF Ends
<1>9. Types'
  BY <1>0, <1>1, <1>4, <1>6, <1>7, <1>8 DEF Types
<1>10. /\ Ordered(e)'
       /\ pipe[o].out = <<>> /\ e \notin S /\ ToSet(Track(e)) = 1 .. sent[e]
            => ToSet(Track(e)') = 1 .. sent[e]
  <2>1. Ordered(e) /\ Other(e) \in S /\ Disconnect(S) /\ sent' = sent
    BY <1>0, <1>1, <1>2, <1>3
  <2>2. /\ data'[e] = Cat(back[e], data[e]) /\ back'[e] = <<>>
        /\ again \subseteq again' /\ (back[e] # <<>> => e \in again')
    BY <1>1, <1>5, <1>6, <1>7
  <2> QED
    BY <1>0, <1>2, <2>1, <2>2, TakenBack
<1>11. Ordered(o)'
  <2>1. PICK g \in Seq(Nat) : g = got[e]
    BY <1>0, <1>2, Pieces
  <2>2. /\ pipe'[e].out \in {pipe[e].out, <<>>} /\ pipe'[o].in \in {pipe[o].in, <<>>}
        /\ got'[e] \in {got[e], <<>>}
        /\ Cat(before[e], got[e])' = Cat(before[e], got[e])
    BY <1>2, <1>4
  <2>3. Ordered(o) /\ sent' = sent
    BY <1>0, <1>1, <1>2
  <2> QED
    BY <1>0, <1>2, <1>6, <1>7, <2>2, <2>3, OrderedDrops
<1>12. Whole'
  <2>1. SUFFICES ASSUME pc'.at # "dead", NEW x \in Ends, ~closed[Other(x)], x \notin failed' \cup cut
                 PROVE  ToSet(Track(x)') = 1 .. sent[x]
    BY <1>1 DEF Whole
  <2>2. x = e /\ e \notin failed \cup cut /\ S = {o}
    BY <1>1, <1>2, <1>3, <2>1
  <2>3. pipe[o].out = <<>> /\ e \notin S
    BY <1>0, <1>1, <1>2, <2>2 DEF Shut
  <2>4. ToSet(Track(e)) = 1 .. sent[e]
    BY <1>0, <1>1, <2>1, <2>2 DEF Whole
  <2> QED
    BY <1>10, <2>2, <2>3, <2>4
<1>13. Shut'
  BY <1>0, <1>1, <1>4 DEF Shut
<1>14. Looked'
  BY <1>3 DEF Looked, Known
<1> QED
  BY <1>2, <1>9, <1>10, <1>11, <1>12, <1>13, <1>14 DEF IInv

\* A program's end that the thread has seen to be closing is restarted; it is empty then.
LEMMA TestClosingKeeps ==
  ASSUME IInv, NEW e \in Ends, TestClosing(e)
  PROVE  IInv'
<1>0. Types /\ Shut /\ Looked /\ Whole /\ \A x \in Ends : Ordered(x)
  BY DEF IInv
<1>1. /\ pc = [at |-> "closing", e |-> e]
      /\ UNCHANGED <<programs, history, seen, data, back>>
  BY DEF TestClosing
<1>2. CASE seen[e].st = "closing" /\ ~Die
  <2>1. Go("test", 1) /\ Disconnect({e})
    BY <1>2 DEF TestClosing, Restart
  <2>2. /\ pc' = [at |-> "test", e |-> 1]
        /\ UNCHANGED <<writers, sent, opens, closed, failed, again, cut, seen, data, back>>
    BY <1>1, <2>1 DEF Go, programs, history
  <2>3. /\ pipe' \in [Ends -> PipeEnd] /\ got' \in [Ends -> Seq(Nat)] /\ before' \in [Ends -> Seq(Nat)]
        /\ \A x \in Ends :
             /\ Cat(before[x], got[x])' = Cat(before[x], got[x])
             /\ x = e => pipe'[x].in = <<>> /\ pipe'[x].out = <<>> /\ pipe'[x].st = "listen"
             /\ x # e => pipe'[x] = pipe[x]
    BY <1>0, <2>1, Disconnected
  <2>4. Types'
    BY <1>0, <2>2, <2>3 DEF Types, Ends
  <2>5. \A x \in Ends : Ordered(x)'
    BY <1>0, <2>1, <2>2, DisconnectOrdered
  <2>6. Whole'
    <3>1. SUFFICES ASSUME NEW x \in Ends, ~closed[Other(x)], x \notin failed \cup cut
                   PROVE  ToSet(Track(x)') = 1 .. sent[x]
      BY <2>2 DEF Whole
    <3>2. pipe[e].st = "closing" /\ (e \notin cut => pipe[e].in = <<>>)
      BY <1>0, <1>1, <1>2 DEF Looked, Known
    <3>3. closed[e]
      BY <1>0, <3>2 DEF Shut
    <3>4. Other(e) \in Ends /\ Other(e) # e /\ x = e
      BY <1>0, <3>1, <3>3, Pieces
    <3>5. Track(x)' = Track(x)
      BY <2>2, <2>3, <3>1, <3>2, <3>4 DEF Track
    <3> QED
      BY <1>0, <1>1, <3>1, <3>5 DEF Whole
  <2>7. Shut' /\ Looked'
    BY <1>0, <2>2, <2>3 DEF Shut, Looked, Known
  <2> QED
    BY <2>4, <2>5, <2>6, <2>7 DEF IInv
<1>3. CASE Die
  BY <1>1, <1>3, DieKeeps
<1>4. CASE seen[e].st # "closing"
  <2>1. /\ pc' = IF e = 1 THEN [at |-> "read", e |-> 2] ELSE [at |-> "test", e |-> 1]
        /\ UNCHANGED <<writers, sent, opens, closed, before, got, failed, again, cut, seen, data, back, pipe>>
    BY <1>1, <1>4 DEF TestClosing, Go, programs, received, history
  <2>2. Types'
    BY <1>0, <2>1 DEF Types, Ends
  <2>3. (\A x \in Ends : Ordered(x)') /\ Whole'
    <3>1. \A x \in Ends : SameChains(x)
      BY <1>0, <2>1, PiecesStay DEF received
    <3> QED
      BY <1>1, <2>1, <3>1, LinesStay
  <2>4. Shut' /\ Looked'
    BY <1>0, <1>1, <2>1 DEF Shut, Looked, Known
  <2> QED
    BY <2>2, <2>3, <2>4 DEF IInv
<1> QED
  BY <1>2, <1>3, <1>4

\* Every step keeps the invariant.
LEMMA StepInv == IInv /\ [Next]_vars => IInv'
<1> SUFFICES ASSUME IInv, [Next]_vars PROVE IInv'
  OBVIOUS
<1>1. CASE UNCHANGED vars
  <2>1. UNCHANGED <<writers, sent, opens, closed, before, got, failed, again, cut, pipe, pc, seen, data, back>>
    BY <1>1 DEF vars, programs, received, history
  <2>2. Types'
    BY <2>1 DEF IInv, Types
  <2>3. (\A x \in Ends : Ordered(x)') /\ Whole'
    <3>1. \A x \in Ends : SameChains(x)
      BY <2>1, PiecesStay DEF IInv, received
    <3> QED
      BY <2>1, <3>1, LinesStay
  <2>4. Shut' /\ Looked'
    BY <2>1 DEF IInv, Shut, Looked, Known
  <2> QED
    BY <2>2, <2>3, <2>4 DEF IInv
<1>2. ASSUME NEW e \in Ends, Open(e) PROVE IInv'
  BY <1>2, OpenKeeps
<1>3. ASSUME NEW e \in Ends, Write(e) PROVE IInv'
  BY <1>3, WriteKeeps
<1>4. ASSUME NEW e \in Ends, Read(e) PROVE IInv'
  BY <1>4, ReadKeeps
<1>5. ASSUME NEW e \in Ends, Close(e) PROVE IInv'
  BY <1>5, CloseKeeps
<1>6. CASE Test
  BY <1>6, TestKeeps
<1>7. ASSUME NEW e \in Ends, Peek(e) PROVE IInv'
  BY <1>7, PeekKeeps
<1>8. ASSUME NEW e \in Ends, ReadEnd(e) PROVE IInv'
  BY <1>8, ReadEndKeeps
<1>9. ASSUME NEW e \in Ends, WriteOther(e) PROVE IInv'
  BY <1>9, PutByteKeeps, WrittenKeeps, WriteFailsKeeps DEF WriteOther
<1>10. ASSUME NEW e \in Ends, TestClosing(e) PROVE IInv'
  BY <1>10, TestClosingKeeps
<1> QED
  BY <1>1, <1>2, <1>3, <1>4, <1>5, <1>6, <1>7, <1>8, <1>9, <1>10 DEF Next, Relay, Step

\* The invariant holds in every reachable state.
LEMMA Invariant == Spec => []IInv
<1> QED
  BY InitInv, StepInv, PTL DEF Spec

-----------------------------------------------------------------------------
\* The chains are what InOrder and NothingLost speak of.
LEMMA LineIsTrack ==
  ASSUME NEW e \in Ends
  PROVE  Line(e) = Track(e) /\ got[Other(e)] \o Way(e) = Recent(e)
BY DEF Line, Track, Recent, Chain, Cat, Way

\* What is received at one end until it is closed is in the order in which it was written
\* at the other and nothing comes twice; and so it is over all who open the end, unless a
\* write failed when it had put in a part (nmp_thread.c:128, 149).
THEOREM Delivery == Spec => []InOrder
<1>1. IInv => InOrder
  BY LineIsTrack DEF IInv, Ordered, InOrder
<1> QED
  BY <1>1, Invariant, PTL

\* While the thread lives, every byte written at an end has been received at the other or
\* is on its way, unless that other end was closed, a write to this one failed, or this
\* one was found closed, with bytes in it, while older ones were held back.
THEOREM Lossless == Spec => []NothingLost
<1>1. IInv => NothingLost
  BY LineIsTrack DEF IInv, Whole, NothingLost, Conserved
<1> QED
  BY <1>1, Invariant, PTL
=============================================================================

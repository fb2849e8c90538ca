------------------------ MODULE FunctionFiles_proofs ------------------------
(***************************************************************************)
(* Proofs that a call never runs a function whose file has changed since   *)
(* before the prompt (Fresh), and that what replaces a definition is       *)
(* another version of it (ReplacedByAnother), for any path, any number of  *)
(* callers, and any edits.                                                 *)
(*                                                                         *)
(* The invariant relates the stamps of a definition to those of the file   *)
(* that it came from: a definition that is older than its file has not     *)
(* been checked since the prompt (Watched), and one that is being replaced *)
(* is not the version that has been read for it (Replacing).               *)
(***************************************************************************)
EXTENDS FunctionFiles, FiniteSetTheorems, FunctionTheorems,
        WellFoundedInduction, TLAPS

Version == [kind : Kinds, dir : Dirs, mtime : Nat]
Definition == [version : Nat, file : Dirs \cup {NoFile},
               parsed : Nat, checked : Nat]

Types ==
    /\ clock \in Nat /\ prompt \in 0 .. clock
    /\ versions \in Seq(Version) /\ seen \in 0 .. Len(versions)
    /\ file \in [Dirs -> 0 .. Len(versions)]
    /\ def \in [Defs -> Definition]
    /\ link \in [Tables -> {0} \cup Defs] /\ global \in {0} \cup Defs
    /\ load \in [at : {"idle", "find", "parse"}, by : Tables, version : Nat]

\* No stamp is in the future, and the distribution's files are older than all.
Past ==
    /\ \A v \in DOMAIN versions : Mtime(v) <= Second(clock)
    /\ \A i \in Defs : def[i].checked <= clock

\* A directory holds versions written there, and the distribution's are old.
Placed ==
    /\ \A d \in Dirs : file[d] # 0 => versions[file[d]].dir = d
    /\ \A d \in System : file[d] # 0 => Mtime(file[d]) = 0

\* A definition with a file was read from a version not younger than its
\* stamp.
Stamped ==
    \A i \in Defs :
        /\ def[i].version <= Len(versions)
        /\ def[i].file # NoFile => def[i].version # 0
        /\ def[i].version # 0 => Mtime(def[i].version) <= def[i].parsed

\* The file of definition i was changed, before the prompt, after its reading.
Stale(i) ==
    /\ def[i].file # NoFile
    /\ file[def[i].file] \in 1 .. seen
    /\ Mtime(file[def[i].file]) > def[i].parsed

\* A stale definition that somebody may call has not been checked since.
Watched ==
    \A i \in InUse(link, global) \ spent : Stale(i) => def[i].checked <= prompt

\* What is read for a caller that has a definition is another version of it.
Replacing ==
    /\ load.at = "parse" => load.version \in 1 .. Len(versions)
    /\ load.at # "idle" /\ link[load.by] # 0 =>
         LET old == def[link[load.by]]
         IN  /\ old.file # NoFile
             /\ versions[old.version].dir = old.file
                => /\ file[old.file] # old.version
                   /\ load.at = "parse" => load.version # old.version

IInv == Types /\ Past /\ Placed /\ Stamped /\ Watched /\ Replacing

-----------------------------------------------------------------------------
\* The operators of the module.

LEMMA MinIn ==
  ASSUME NEW S \in SUBSET Nat, S # {}
  PROVE  Min(S) \in S
<1> DEFINE R == OpToRel(<, Nat)
<1>1. IsWellFoundedOn(R, Nat)
  BY NatLessThanWellFounded
<1>2. \A x, y \in Nat : <<x, y>> \in R <=> x < y
  BY DEF OpToRel
<1> HIDE DEF R
<1>3. PICK x \in S : \A y \in S : ~ (<<y, x>> \in R)
  BY <1>1, WFMin
<1>4. \A y \in S : ~ (y < x)
  BY <1>2, <1>3, Zenon
<1>5. \A y \in S : x <= y
  BY <1>4
<1> QED
  BY <1>5 DEF Min

LEMMA SecondGrows ==
  ASSUME NEW t \in Nat
  PROVE  /\ Second(t) \in Nat /\ Second(t) <= t
         /\ Second(t) <= Second(t + 1)
  BY TicksAssumption DEF Second

\* fcn_file_in_path names a directory that holds a file, unless none does.
LEMMA FoundHolds ==
  ASSUME Types
  PROVE  \/ Found = NoFile /\ \A d \in Dirs : file[d] = 0
         \/ Found \in Dirs /\ file[Found] # 0
<1> DEFINE holding == {n \in DOMAIN Path : file[Path[n]] # 0}
<1>1. DOMAIN Path \in SUBSET Nat
  BY PathAssumption
<1>2. CASE holding = {}
  <2>1. \A d \in Dirs : file[d] = 0
    BY <1>2 DEF Dirs
  <2> QED
    BY <1>2, <2>1 DEF Found
<1>3. CASE holding # {}
  <2>1. Min(holding) \in holding
    BY <1>1, <1>3, MinIn
  <2>2. Found = Path[Min(holding)]
    BY <1>3 DEF Found
  <2> QED
    BY <2>1, <2>2 DEF Dirs
<1> QED
  BY <1>2, <1>3

\* The global record and one for each table leave one symbol_def free.
LEMMA NewDef ==
  ASSUME Types
  PROVE  Min(Defs \ InUse(link, global)) \in Defs \ InUse(link, global)
<1> DEFINE linked == {link[t] : t \in Tables}
<1>1. link \in Surjection(Tables, linked)
  BY DEF Types, Surjection
<1>2. IsFiniteSet(linked) /\ Cardinality(linked) <= Cardinality(Tables)
  BY <1>1, TablesAssumption, FS_Surjection
<1> HIDE DEF linked
<1>3. /\ IsFiniteSet(linked \cup {global})
      /\ Cardinality(linked \cup {global}) <= Cardinality(Tables) + 1
  <2>1. Cardinality(linked) \in Nat /\ Cardinality(Tables) \in Nat
    BY <1>2, TablesAssumption, FS_CardinalityType
  <2>2. /\ IsFiniteSet(linked \cup {global})
        /\ Cardinality(linked \cup {global}) =
             IF global \in linked THEN Cardinality(linked) ELSE Cardinality(linked) + 1
    BY <1>2, FS_AddElement
  <2> QED
    BY <1>2, <2>1, <2>2
<1>4. /\ IsFiniteSet(InUse(link, global))
      /\ Cardinality(InUse(link, global)) <= Cardinality(linked \cup {global})
  <2>1. InUse(link, global) \in SUBSET (linked \cup {global})
    BY DEF InUse, linked
  <2> QED
    BY <1>3, <2>1, FS_Subset
<1>5. Cardinality(Tables) \in Nat
  BY TablesAssumption, FS_CardinalityType
<1>6. IsFiniteSet(Defs) /\ Cardinality(Defs) = Cardinality(Tables) + 2
  BY <1>5, FS_Interval DEF Defs
<1>7. Cardinality(InUse(link, global)) \in Nat
  BY <1>4, FS_CardinalityType
<1>8. Cardinality(linked \cup {global}) \in Nat
  BY <1>3, FS_CardinalityType
<1>9. Cardinality(InUse(link, global)) < Cardinality(Defs)
  BY <1>3, <1>4, <1>5, <1>6, <1>7, <1>8
<1>10. ~ (Defs \subseteq InUse(link, global))
  <2>1. SUFFICES ASSUME Defs \subseteq InUse(link, global) PROVE FALSE
    OBVIOUS
  <2>2. Cardinality(Defs) <= Cardinality(InUse(link, global))
    BY <1>4, <2>1, FS_Subset
  <2> QED
    BY <1>5, <1>6, <1>7, <1>9, <2>2
<1>11. Defs \ InUse(link, global) \in SUBSET Nat
  BY <1>5 DEF Defs
<1> QED
  BY <1>10, <1>11, MinIn

-----------------------------------------------------------------------------
\* Every action keeps the invariant.

LEMMA InitInv == Init => IInv /\ Fresh
<1> SUFFICES ASSUME Init PROVE IInv /\ Fresh
  OBVIOUS
<1>0. PICK n \in 0 .. Len(Path) : \E order \in [1 .. n -> System] :
        /\ versions = [k \in 1 .. n |->
               [kind |-> "function", dir |-> order[k], mtime |-> 0]]
        /\ file = [d \in Dirs |->
               IF \E k \in 1 .. n : order[k] = d
               THEN CHOOSE k \in 1 .. n : order[k] = d ELSE 0]
  BY DEF Init
<1>1. PICK order \in [1 .. n -> System] :
        /\ versions = [k \in 1 .. n |->
               [kind |-> "function", dir |-> order[k], mtime |-> 0]]
        /\ file = [d \in Dirs |->
               IF \E k \in 1 .. n : order[k] = d
               THEN CHOOSE k \in 1 .. n : order[k] = d ELSE 0]
  BY <1>0
<1>2. Len(Path) \in Nat
  BY PathAssumption
<1>3. n \in Nat
  BY <1>2
<1>4. versions \in Seq(Version) /\ Len(versions) = n
  <2>1. \A k \in 1 .. n : versions[k] \in Version
    BY <1>1, PathAssumption DEF Version, Kinds
  <2> QED
    BY <1>1, <1>3, <2>1
<1>5. \A d \in Dirs : \/ file[d] = 0
                      \/ file[d] \in 1 .. n /\ order[file[d]] = d
  BY <1>1
<1>6. Types
  <2>1. file \in [Dirs -> 0 .. Len(versions)]
    <3>1. file = [d \in Dirs |-> file[d]]
      BY <1>1
    <3>2. \A d \in Dirs : file[d] \in 0 .. Len(versions)
      BY <1>3, <1>4, <1>5
    <3> QED
      BY <3>1, <3>2
  <2>2. Top \in Tables
    BY TablesAssumption
  <2>3. NoDef \in Definition /\ Idle \in [at : {"idle", "find", "parse"}, by : Tables, version : Nat]
    BY <2>2 DEF NoDef, Definition, Idle
  <2>4. def \in [Defs -> Definition] /\ link \in [Tables -> {0} \cup Defs]
    BY <2>3 DEF Init
  <2>5. /\ clock \in Nat /\ prompt \in 0 .. clock
        /\ seen \in 0 .. Len(versions) /\ global \in {0} \cup Defs
    BY <1>3, <1>4 DEF Init
  <2>6. load \in [at : {"idle", "find", "parse"}, by : Tables, version : Nat]
    BY <2>3 DEF Init
  <2> QED
    BY <1>4, <2>1, <2>4, <2>5, <2>6, Zenon DEF Types
<1>7. \A v \in 1 .. n : Mtime(v) = 0 /\ versions[v].dir = order[v]
  BY <1>1 DEF Mtime
<1>8. Past
  <2>1. Second(0) = 0
    BY TicksAssumption DEF Second
  <2> QED
    BY <1>4, <1>7, <2>1 DEF Init, Past, NoDef
<1>9. Placed
  BY <1>5, <1>7, PathAssumption DEF Placed
<1>10. Stamped
  BY <1>3, <1>4 DEF Init, Stamped, NoDef
<1>11. Watched /\ Replacing
  BY DEF Init, Watched, Replacing, InUse, Idle
<1>12. Fresh
  BY DEF Init, Fresh, NoRun
<1> QED
  BY <1>6, <1>8, <1>9, <1>10, <1>11, <1>12 DEF IInv

LEMMA VersionTypes ==
  ASSUME Types, NEW v \in 1 .. Len(versions)
  PROVE  /\ v \in DOMAIN versions /\ versions[v] \in Version
         /\ Mtime(v) \in Nat /\ versions[v].dir \in Dirs
<1>1. versions \in Seq(Version)
  BY DEF Types
<1>2. v \in DOMAIN versions /\ versions[v] \in Version
  BY <1>1
<1> QED
  BY <1>2 DEF Mtime, Version

LEMMA TickKeeps ==
  ASSUME IInv, Tick
  PROVE  IInv' /\ Fresh'
<1>0. Types /\ Past /\ clock \in Nat /\ clock + 1 \in Nat
  BY DEF IInv, Types
<1>1. Second(clock) <= Second(clock + 1) /\ Second(clock) \in Nat
      /\ Second(clock + 1) \in Nat
  BY <1>0, SecondGrows
<1>2. Types'
  BY <1>0 DEF Types, Tick
<1>3. Past'
  <2>1. DOMAIN versions = 1 .. Len(versions)
    BY <1>0 DEF Types
  <2>2. \A v \in DOMAIN versions : Mtime(v) <= Second(clock + 1)
    BY <1>0, <1>1, <2>1, VersionTypes DEF Past
  <2>3. \A i \in Defs : def[i].checked <= clock + 1
    BY <1>0 DEF Past, Types, Definition
  <2> QED
    BY <2>2, <2>3 DEF Tick, Past, Mtime
<1>4. Placed' /\ Stamped' /\ Watched' /\ Replacing'
  BY DEF IInv, Tick, Placed, Stamped, Watched, Replacing, Stale, Mtime
<1>5. Fresh'
  BY DEF Tick, Fresh, NoRun
<1> QED
  BY <1>2, <1>3, <1>4, <1>5 DEF IInv

\* What is written is the youngest version, and all others stay what they are.
LEMMA WriteAppends ==
  ASSUME Types, NEW d \in Dirs, NEW kind \in Kinds, Write(d, kind)
  PROVE  /\ Len(versions)' = Len(versions) + 1 /\ Len(versions) \in Nat
         /\ versions' \in Seq(Version)
         /\ \A v \in 1 .. Len(versions) : versions'[v] = versions[v]
         /\ versions'[Len(versions) + 1] =
              [kind |-> kind, dir |-> d, mtime |-> Second(clock)]
         /\ file' \in [Dirs -> 0 .. Len(versions) + 1]
         /\ file'[d] = Len(versions) + 1
         /\ \A e \in Dirs \ {d} : file'[e] = file[e]
<1>1. versions \in Seq(Version) /\ clock \in Nat /\ Second(clock) \in Nat
  BY SecondGrows DEF Types
<1>2. [kind |-> kind, dir |-> d, mtime |-> Second(clock)] \in Version
  BY <1>1 DEF Version
<1>3. file \in [Dirs -> 0 .. Len(versions)]
  BY DEF Types
<1>4. /\ versions' = Append(versions, [kind |-> kind, dir |-> d, mtime |-> Second(clock)])
      /\ file' = [file EXCEPT ![d] = Len(versions) + 1]
  BY DEF Write
<1>5. Len(versions) \in Nat
  BY <1>1
<1>6. file' \in [Dirs -> 0 .. Len(versions) + 1]
  BY <1>3, <1>4, <1>5
<1> QED
  BY <1>1, <1>2, <1>3, <1>4, <1>5, <1>6

LEMMA WriteKeeps ==
  ASSUME IInv, NEW d \in Dirs \ System, NEW kind \in Kinds, Write(d, kind)
  PROVE  IInv' /\ Fresh'
<1> DEFINE n == Len(versions)
<1>0. /\ Types /\ Past /\ Placed /\ Stamped /\ Watched /\ Replacing
      /\ d \in Dirs /\ System \subseteq Dirs
  BY PathAssumption DEF IInv
<1>1. /\ Len(versions)' = n + 1 /\ n \in Nat
      /\ versions' \in Seq(Version) /\ DOMAIN versions' = 1 .. n + 1
      /\ \A v \in 1 .. n : versions'[v] = versions[v]
      /\ versions'[n + 1] = [kind |-> kind, dir |-> d, mtime |-> Second(clock)]
      /\ file' \in [Dirs -> 0 .. n + 1]
      /\ file'[d] = n + 1
      /\ \A e \in Dirs \ {d} : file'[e] = file[e]
  BY <1>0, WriteAppends
<1>2. /\ clock' = clock /\ prompt' = prompt /\ seen' = seen /\ def' = def
      /\ link' = link /\ global' = global /\ load' = load /\ spent' = spent
      /\ ran' = NoRun
  BY DEF Write
<1>3. /\ clock \in Nat /\ seen \in 0 .. n
      /\ file \in [Dirs -> 0 .. n] /\ def \in [Defs -> Definition]
      /\ DOMAIN versions = 1 .. n
  BY <1>0 DEF Types
<1>4. \A v \in 1 .. n : versions'[v].mtime = versions[v].mtime
  BY <1>1
<1>5. Types'
  BY <1>0, <1>1, <1>2, <1>3 DEF Types
<1>6. Past'
  <2>1. versions'[n + 1].mtime = Second(clock) /\ Second(clock) \in Nat
    BY <1>1, <1>3, SecondGrows
  <2>2. \A v \in 1 .. n : versions'[v].mtime <= Second(clock)
    BY <1>0, <1>3, <1>4 DEF Past, Mtime
  <2>3. \A v \in 1 .. n + 1 : versions'[v].mtime <= Second(clock)
    BY <1>1, <2>1, <2>2
  <2> QED
    BY <1>0, <1>1, <1>2, <2>3 DEF Past, Mtime, Second
<1>7. Placed'
  <2>1. \A e \in Dirs : file'[e] # 0 => versions'[file'[e]].dir = e
    BY <1>0, <1>1, <1>3 DEF Placed
  <2>2. \A e \in System : file'[e] # 0 => versions'[file'[e]].mtime = 0
    BY <1>0, <1>1, <1>3, <1>4 DEF Placed, Mtime
  <2> QED
    BY <2>1, <2>2 DEF Placed, Mtime
<1>8. Stamped'
  BY <1>0, <1>1, <1>2, <1>3, <1>4 DEF Stamped, Mtime, Definition
<1>9. Watched'
  <2>1. ASSUME NEW i \in Defs, Stale(i)' PROVE Stale(i)
    <3>1. /\ def[i].file \in Dirs
          /\ file'[def[i].file] \in 1 .. seen
          /\ versions'[file'[def[i].file]].mtime > def[i].parsed
      BY <1>2, <1>3, <2>1 DEF Stale, Mtime, Definition
    <3>2. file'[def[i].file] = file[def[i].file]
      BY <1>1, <1>3, <3>1
    <3> QED
      BY <1>3, <1>4, <2>1, <3>1, <3>2, <1>2 DEF Stale, Mtime
  <2>2. InUse(link, global) \subseteq Defs /\ InUse(link, global)' = InUse(link, global)
    BY <1>0, <1>2 DEF Types, InUse
  <2> QED
    BY <1>0, <1>2, <2>1, <2>2 DEF Watched
<1>10. Replacing'
  <2>1. SUFFICES ASSUME load.at # "idle", link[load.by] # 0
                 PROVE  LET old == def[link[load.by]]
                        IN  /\ old.file # NoFile
                            /\ versions'[old.version].dir = old.file
                               => /\ file'[old.file] # old.version
                                  /\ load.at = "parse" => load.version # old.version
    BY <1>0, <1>1, <1>2 DEF Replacing
  <2> DEFINE old == def[link[load.by]]
  <2>2. link[load.by] \in Defs
    BY <1>0, <2>1 DEF Types
  <2>3. old.file \in Dirs /\ old.version \in 1 .. n
    BY <1>0, <1>3, <2>1, <2>2 DEF Replacing, Stamped, Definition
  <2>4. versions'[old.version] = versions[old.version]
    BY <1>1, <2>3
  <2>5. file'[old.file] \in {file[old.file], n + 1} /\ n + 1 # old.version
    BY <1>1, <2>3
  <2> QED
    BY <1>0, <2>1, <2>4, <2>5 DEF Replacing
<1>11. Fresh'
  BY <1>2 DEF Fresh, NoRun
<1> QED
  BY <1>5, <1>6, <1>7, <1>8, <1>9, <1>10, <1>11 DEF IInv

LEMMA UnlinkKeeps ==
  ASSUME IInv, NEW d \in Dirs \ System, Unlink(d)
  PROVE  IInv' /\ Fresh'
<1>0. Types /\ Past /\ Placed /\ Stamped /\ Watched /\ Replacing
  BY DEF IInv
<1>1. /\ clock' = clock /\ prompt' = prompt /\ seen' = seen /\ def' = def
      /\ link' = link /\ global' = global /\ load' = load /\ spent' = spent
      /\ versions' = versions /\ ran' = NoRun
      /\ file' = [file EXCEPT ![d] = 0]
  BY DEF Unlink
<1>2. file \in [Dirs -> 0 .. Len(versions)] /\ Len(versions) \in Nat
  BY <1>0 DEF Types
<1>3. /\ file' \in [Dirs -> 0 .. Len(versions)]
      /\ \A e \in Dirs : file'[e] = file[e] \/ file'[e] = 0
  BY <1>1, <1>2
<1>4. Types' /\ Past'
  BY <1>0, <1>1, <1>3 DEF Types, Past, Mtime
<1>5. Placed'
  BY <1>0, <1>1, <1>3, PathAssumption DEF Placed, Mtime
<1>6. Stamped'
  BY <1>0, <1>1 DEF Stamped, Mtime
<1>7. Watched'
  <2>1. \A i \in Defs : def[i].file \in Dirs \cup {NoFile}
    BY <1>0 DEF Types, Definition
  <2>2. \A i \in Defs : Stale(i)' => Stale(i)
    BY <1>1, <1>3, <2>1 DEF Stale, Mtime
  <2>3. InUse(link, global) \subseteq Defs /\ InUse(link, global)' = InUse(link, global)
    BY <1>0, <1>1 DEF Types, InUse
  <2> QED
    BY <1>0, <1>1, <2>2, <2>3 DEF Watched
<1>8. Replacing'
  <2>1. link[load.by] # 0 => link[load.by] \in Defs
    BY <1>0 DEF Types
  <2>2. \A i \in Defs : def[i].file # NoFile =>
          def[i].file \in Dirs /\ def[i].version # 0
    BY <1>0 DEF Types, Definition, Stamped
  <2> QED
    BY <1>0, <1>1, <1>3, <2>1, <2>2 DEF Replacing
<1>9. Fresh'
  BY <1>1 DEF Fresh, NoRun
<1> QED
  BY <1>4, <1>5, <1>6, <1>7, <1>8, <1>9 DEF IInv

LEMMA PromptKeeps ==
  ASSUME IInv, Prompt
  PROVE  IInv' /\ Fresh'
<1>0. Types /\ Past /\ Placed /\ Stamped /\ Watched /\ Replacing
  BY DEF IInv
<1>1. /\ clock' = clock /\ prompt' = clock /\ seen' = Len(versions) /\ def' = def
      /\ link' = link /\ global' = global /\ load' = load
      /\ versions' = versions /\ file' = file /\ ran' = NoRun
  BY DEF Prompt
<1>2. Types'
  BY <1>0, <1>1 DEF Types
<1>3. Past' /\ Placed' /\ Stamped' /\ Replacing'
  BY <1>0, <1>1 DEF Past, Placed, Stamped, Replacing, Mtime
<1>4. Watched'
  <2>1. InUse(link, global) \subseteq Defs
    BY <1>0 DEF Types, InUse
  <2> QED
    BY <1>0, <1>1, <2>1 DEF Watched, Past, InUse
<1>5. Fresh'
  BY <1>1 DEF Fresh, NoRun
<1> QED
  BY <1>2, <1>3, <1>4, <1>5 DEF IInv

LEMMA ReadKeeps ==
  ASSUME IInv, Read
  PROVE  IInv' /\ Fresh'
<1>0. Types /\ Past /\ Placed /\ Stamped /\ Watched /\ Replacing
  BY DEF IInv
<1>1. /\ clock' = clock /\ prompt' = prompt /\ seen' = seen /\ def' = def
      /\ link' = link /\ global' = global /\ spent' = spent
      /\ versions' = versions /\ file' = file /\ ran' = NoRun
      /\ load' = [load EXCEPT !.at = "parse", !.version = file[Found]]
      /\ load.at = "find" /\ Found # NoFile
  BY DEF Read
<1>2. Found \in Dirs /\ file[Found] # 0
  BY <1>0, <1>1, FoundHolds
<1>3. /\ file[Found] \in 1 .. Len(versions)
      /\ versions[file[Found]].dir = Found
  BY <1>0, <1>2 DEF Types, Placed
<1>4. /\ load'.by = load.by /\ load'.at = "parse" /\ load'.version = file[Found]
      /\ load' \in [at : {"idle", "find", "parse"}, by : Tables, version : Nat]
  <2>1. load \in [at : {"idle", "find", "parse"}, by : Tables, version : Nat]
    BY <1>0 DEF Types
  <2>2. file[Found] \in Nat
    BY <1>0, <1>3 DEF Types
  <2>3. load' = [load EXCEPT !.at = "parse", !.version = file[Found]]
    BY <1>1
  <2> QED
    BY <2>1, <2>2, <2>3
<1>5. Types'
  BY <1>0, <1>1, <1>4 DEF Types
<1>6. Past' /\ Placed' /\ Stamped' /\ Watched'
  BY <1>0, <1>1 DEF Past, Placed, Stamped, Watched, Stale, Mtime
<1>7. Replacing'
  BY <1>0, <1>1, <1>2, <1>3, <1>4 DEF Replacing
<1>8. Fresh'
  BY <1>1 DEF Fresh, NoRun
<1> QED
  BY <1>5, <1>6, <1>7, <1>8 DEF IInv

LEMMA CheckedTypes ==
  ASSUME NEW defs \in [Defs -> Definition], NEW i \in Defs, NEW c \in Nat
  PROVE  /\ [defs EXCEPT ![i].checked = c] \in [Defs -> Definition]
         /\ \A j \in Defs :
              LET d == [defs EXCEPT ![i].checked = c][j]
              IN  /\ d.version = defs[j].version
                  /\ d.file = defs[j].file
                  /\ d.parsed = defs[j].parsed
                  /\ d.checked = defs[j].checked \/ (j = i /\ d.checked = c)
<1>1. [defs[i] EXCEPT !.checked = c] \in Definition
  BY DEF Definition
<1>2. \A d \in Definition :
        /\ [d EXCEPT !.checked = c].version = d.version
        /\ [d EXCEPT !.checked = c].file = d.file
        /\ [d EXCEPT !.checked = c].parsed = d.parsed
        /\ [d EXCEPT !.checked = c].checked = c
  BY DEF Definition
<1>3. PICK e \in [Defs -> Definition] : e = [defs EXCEPT ![i].checked = c]
  BY <1>1
<1>4. e[i] = [defs[i] EXCEPT !.checked = c] /\ \A j \in Defs \ {i} : e[j] = defs[j]
  BY <1>3
<1>5. \A j \in Defs :
         /\ e[j].version = defs[j].version
         /\ e[j].file = defs[j].file
         /\ e[j].parsed = defs[j].parsed
         /\ e[j].checked = defs[j].checked \/ (j = i /\ e[j].checked = c)
  <2>1. defs[i] \in Definition
    OBVIOUS
  <2>2. /\ e[i].version = defs[i].version /\ e[i].file = defs[i].file
        /\ e[i].parsed = defs[i].parsed /\ e[i].checked = c
    BY <1>2, <1>4, <2>1, Zenon
  <2> QED
    BY <1>4, <2>2, Zenon
<1> QED
  BY <1>3, <1>5, Zenon

LEMMA CallReadsKeeps ==
  ASSUME IInv, NEW t \in Tables, CallReads(t)
  PROVE  IInv' /\ Fresh'
<1> DEFINE i == Visible(t)
<1>0. Types /\ Past /\ Placed /\ Stamped /\ Watched /\ Replacing
  BY DEF IInv
<1>1. /\ clock' = clock /\ prompt' = prompt /\ seen' = seen
      /\ global' = global /\ versions' = versions /\ file' = file /\ ran' = NoRun
      /\ link' = [link EXCEPT ![t] = i]
      /\ def' = IF i = 0 THEN def ELSE [def EXCEPT ![i].checked = clock]
      /\ load' = [at |-> "find", by |-> t, version |-> 0]
      /\ spent' = spent \cup ({i} \ {0})
      /\ i # 0 => Checks(def[i]) /\ Newer(def[i])
  BY DEF CallReads
<1>2. i \in {0} \cup Defs /\ i \in InUse(link, global) \cup {0}
  BY <1>0 DEF Visible, InUse, Types
<1> HIDE DEF i
<1>3. /\ clock \in Nat /\ def \in [Defs -> Definition]
      /\ link \in [Tables -> {0} \cup Defs]
  BY <1>0 DEF Types
<1>4. /\ def' \in [Defs -> Definition]
      /\ \A j \in Defs : /\ def'[j].version = def[j].version
                         /\ def'[j].file = def[j].file
                         /\ def'[j].parsed = def[j].parsed
                         /\ def'[j].checked = def[j].checked
                            \/ (j = i /\ def'[j].checked = clock)
  <2>1. CASE i = 0
    <3>1. def' = def
      BY <1>1, <2>1
    <3> QED
      BY <1>3, <3>1
  <2>2. CASE i # 0
    <3>1. i \in Defs /\ def' = [def EXCEPT ![i].checked = clock]
      BY <1>1, <1>2, <2>2
    <3> QED
      BY <1>3, <3>1, CheckedTypes
  <2> QED
    BY <2>1, <2>2
<1>5. link' \in [Tables -> {0} \cup Defs] /\ link'[t] = i
  BY <1>1, <1>2, <1>3
<1>6. Types'
  BY <1>0, <1>1, <1>4, <1>5 DEF Types
<1>7. Past' /\ Placed' /\ Stamped'
  BY <1>0, <1>1, <1>3, <1>4 DEF Past, Placed, Stamped, Mtime
<1>8. Watched'
  <2>1. InUse(link, global)' \subseteq InUse(link, global)
    BY <1>1, <1>2, <1>3, <1>5 DEF InUse
  <2>2. InUse(link, global) \subseteq Defs
    BY <1>0 DEF Types, InUse
  <2>3. \A j \in Defs : Stale(j)' => Stale(j)
    BY <1>1, <1>4 DEF Stale, Mtime
  <2>4. ASSUME NEW j \in InUse(link, global)' \ spent', Stale(j)'
        PROVE  def'[j].checked <= prompt'
    <3>1. j \in InUse(link, global) \ spent /\ j \in Defs /\ j # i
      <4>1. j \in Defs /\ j \in InUse(link, global) /\ j # 0
        BY <2>1, <2>2, <2>4 DEF Defs, InUse
      <4> QED
        BY <1>1, <2>4, <4>1
    <3> QED
      BY <1>0, <1>1, <1>4, <2>3, <2>4, <3>1 DEF Watched
  <2> QED
    BY <2>4 DEF Watched
<1>9. Replacing'
  <2>1. load'.at = "find" /\ load'.by = t
    BY <1>1
  <2>2. ASSUME i # 0
        PROVE  /\ def[i].file # NoFile
               /\ file[def[i].file] # def[i].version
    <3>1. i \in Defs
      BY <1>2, <2>2
    <3>2. /\ def[i].file # NoFile
          /\ file[def[i].file] # 0
          /\ Mtime(file[def[i].file]) > def[i].parsed
      BY <1>1, <2>2 DEF Checks, Newer
    <3>3. def[i].file \in Dirs /\ file[def[i].file] \in 1 .. Len(versions)
      BY <1>0, <1>3, <3>1, <3>2 DEF Types, Definition
    <3>4. /\ def[i].version # 0
          /\ Mtime(def[i].version) <= def[i].parsed
          /\ def[i].version \in 1 .. Len(versions)
      BY <1>0, <1>3, <3>1, <3>2 DEF Stamped, Definition
    <3>5. /\ Mtime(def[i].version) \in Nat /\ Mtime(file[def[i].file]) \in Nat
          /\ def[i].parsed \in Nat
      BY <1>0, <1>3, <3>1, <3>3, <3>4, VersionTypes DEF Definition
    <3> QED
      BY <3>2, <3>4, <3>5
  <2> QED
    BY <1>1, <1>2, <1>4, <1>5, <2>1, <2>2 DEF Replacing
<1>10. Fresh'
  BY <1>1 DEF Fresh, NoRun
<1> QED
  BY <1>6, <1>7, <1>8, <1>9, <1>10 DEF IInv


LEMMA CallRunsKeeps ==
  ASSUME IInv, NEW t \in Tables, CallRuns(t)
  PROVE  IInv' /\ Fresh'
<1> DEFINE i == Visible(t)
<1>0. Types /\ Past /\ Placed /\ Stamped /\ Watched /\ Replacing
  BY DEF IInv
<1>1. /\ clock' = clock /\ prompt' = prompt /\ seen' = seen
      /\ global' = global /\ versions' = versions /\ file' = file
      /\ load' = load /\ load = Idle /\ spent' = spent /\ i # 0
      /\ link' = [link EXCEPT ![t] = i]
      /\ def' = IF Checks(def[i]) THEN [def EXCEPT ![i].checked = clock] ELSE def
      /\ Checks(def[i]) => ~ Newer(def[i])
  BY DEF CallRuns
<1>2. /\ ran'.spent = (i \in spent)
      /\ ran'.def = def'[i]
      /\ ran'.there = IF def'[i].file = NoFile THEN 0 ELSE file'[def'[i].file]
  <2>1. ran' = [def |-> def'[i], spent |-> i \in spent,
                there |-> IF def'[i].file = NoFile THEN 0 ELSE file'[def'[i].file]]
    BY <1>1 DEF CallRuns, Running
  <2> QED
    BY <2>1
<1>3. i \in Defs /\ i \in InUse(link, global)
  BY <1>0, <1>1 DEF Visible, InUse, Types
<1> HIDE DEF i
<1>4. /\ clock \in Nat /\ def \in [Defs -> Definition]
      /\ link \in [Tables -> {0} \cup Defs]
  BY <1>0 DEF Types
<1>5. /\ def' \in [Defs -> Definition]
      /\ \A j \in Defs : /\ def'[j].version = def[j].version
                         /\ def'[j].file = def[j].file
                         /\ def'[j].parsed = def[j].parsed
                         /\ \/ def'[j].checked = def[j].checked
                            \/ j = i /\ def'[j].checked = clock /\ Checks(def[i])
  <2>1. CASE ~ Checks(def[i])
    <3>1. def' = def
      BY <1>1, <2>1
    <3> QED
      BY <1>4, <3>1
  <2>2. CASE Checks(def[i])
    <3>1. def' = [def EXCEPT ![i].checked = clock]
      BY <1>1, <2>2
    <3> QED
      BY <1>3, <1>4, <2>2, <3>1, CheckedTypes
  <2> QED
    BY <2>1, <2>2
<1>6. link' \in [Tables -> {0} \cup Defs]
  BY <1>1, <1>3, <1>4
<1>7. Types'
  BY <1>0, <1>1, <1>5, <1>6 DEF Types
<1>8. Past' /\ Placed' /\ Stamped'
  BY <1>0, <1>1, <1>4, <1>5 DEF Past, Placed, Stamped, Mtime
<1>9. \A j \in Defs : Stale(j)' <=> Stale(j)
  BY <1>1, <1>5 DEF Stale, Mtime
<1>10. Checks(def[i]) => ~ Stale(i)
  <2>1. SUFFICES ASSUME Checks(def[i]), Stale(i) PROVE FALSE
    OBVIOUS
  <2>2. /\ file[def[i].file] \in 1 .. seen
        /\ Mtime(file[def[i].file]) > def[i].parsed
    BY <2>1 DEF Stale
  <2>3. file[def[i].file] # 0
    BY <1>0, <2>2 DEF Types
  <2> QED
    BY <1>1, <2>1, <2>2, <2>3 DEF Newer
<1>11. Watched'
  <2>1. InUse(link, global)' \subseteq InUse(link, global)
    BY <1>1, <1>3, <1>4 DEF InUse
  <2>2. InUse(link, global) \subseteq Defs
    BY <1>0 DEF Types, InUse
  <2>3. ASSUME NEW j \in InUse(link, global)' \ spent', Stale(j)'
        PROVE  def'[j].checked <= prompt'
    <3>1. j \in InUse(link, global) \ spent /\ j \in Defs /\ Stale(j)
      BY <1>1, <1>9, <2>1, <2>2, <2>3
    <3>2. def'[j].checked = def[j].checked
      BY <1>5, <1>10, <3>1
    <3> QED
      BY <1>0, <1>1, <3>1, <3>2 DEF Watched
  <2> QED
    BY <2>3 DEF Watched
<1>12. Replacing'
  BY <1>1 DEF Replacing, Idle
<1>13. Fresh'
  <2>1. SUFFICES ASSUME ran'.there \in 1 .. seen, i \notin spent
                 PROVE  versions[ran'.there].mtime <= def[i].parsed
    BY <1>1, <1>2, <1>3, <1>5 DEF Fresh, Mtime
  <2>2. seen \in Nat /\ seen <= Len(versions) /\ Len(versions) \in Nat
        /\ prompt \in Nat
    BY <1>0 DEF Types
  <2>3. def[i].file # NoFile /\ ran'.there = file[def[i].file]
    BY <1>1, <1>2, <1>3, <1>5, <2>1, <2>2
  <2>4. /\ def[i].file \in Dirs /\ def[i].parsed \in Nat /\ def[i].checked \in Nat
        /\ Mtime(file[def[i].file]) \in Nat
    BY <1>0, <1>3, <1>4, <2>1, <2>2, <2>3, VersionTypes DEF Definition
  <2>5. CASE Stale(i)
    <3>1. def[i].checked <= prompt /\ ~ Checks(def[i])
      BY <1>0, <1>3, <1>10, <2>1, <2>5 DEF Watched
    <3>2. def[i].file \in System
      BY <2>2, <2>3, <2>4, <3>1 DEF Checks
    <3>3. Mtime(file[def[i].file]) = 0
      BY <1>0, <2>1, <2>2, <2>3, <3>2 DEF Placed
    <3> QED
      BY <2>3, <2>4, <3>3 DEF Mtime
  <2>6. CASE ~ Stale(i)
    BY <2>1, <2>3, <2>4, <2>6 DEF Stale, Mtime
  <2> QED
    BY <2>5, <2>6
<1> QED
  BY <1>7, <1>8, <1>11, <1>12, <1>13 DEF IInv

\* maybe_delete
LEMMA KeptTypes ==
  ASSUME NEW defs \in [Defs -> Definition], NEW links, NEW glob
  PROVE  /\ Kept(defs, links, glob) \in [Defs -> Definition]
         /\ \A i \in Defs : Kept(defs, links, glob)[i] =
              IF i \in InUse(links, glob) THEN defs[i] ELSE NoDef
<1>1. NoDef \in Definition
  BY DEF NoDef, Definition
<1>2. Kept(defs, links, glob) =
        [i \in Defs |-> IF i \in InUse(links, glob) THEN defs[i] ELSE NoDef]
  BY DEF Kept
<1> QED
  BY <1>1, <1>2

\* What only lets go of definitions keeps the invariant.
LEMMA LettingGoKeeps ==
  ASSUME IInv,
         clock' = clock, prompt' = prompt, seen' = seen,
         versions' = versions, file' = file, load' = Idle,
         link' \in [Tables -> {0} \cup Defs], global' \in {0} \cup Defs,
         InUse(link', global') \subseteq InUse(link, global),
         def' = Kept(def, link', global'),
         spent' = spent \cap InUse(link', global')
  PROVE  IInv'
<1>0. Types /\ Past /\ Placed /\ Stamped /\ Watched /\ Replacing
  BY DEF IInv
<1>1. /\ clock \in Nat /\ def \in [Defs -> Definition]
      /\ InUse(link, global) \subseteq Defs
  BY <1>0 DEF Types, InUse
<1>2. /\ def' \in [Defs -> Definition]
      /\ \A i \in Defs : \/ def'[i] = NoDef
                         \/ def'[i] = def[i]
      /\ \A i \in InUse(link', global') : def'[i] = def[i]
  <2>1. /\ Kept(def, link', global') \in [Defs -> Definition]
        /\ \A i \in Defs : Kept(def, link', global')[i] =
              IF i \in InUse(link', global') THEN def[i] ELSE NoDef
    BY <1>1, KeptTypes
  <2> QED
    BY <1>1, <2>1
<1>3. Idle \in [at : {"idle", "find", "parse"}, by : Tables, version : Nat]
  BY TablesAssumption DEF Idle
<1>4. Types'
  BY <1>0, <1>2, <1>3 DEF Types
<1>5. NoDef.version = 0 /\ NoDef.file = NoFile /\ NoDef.checked = 0
  BY DEF NoDef
<1>6. Past'
  BY <1>0, <1>1, <1>2, <1>5 DEF Past, Mtime
<1>7. Placed'
  BY <1>0 DEF Placed, Mtime
<1>8. Stamped'
  <2>1. Len(versions) \in Nat
    BY <1>0 DEF Types
  <2> QED
    BY <1>0, <1>2, <1>5, <2>1 DEF Stamped, Mtime
<1>9. Watched'
  <2>1. ASSUME NEW i \in InUse(link', global') \ spent', Stale(i)'
        PROVE  def'[i].checked <= prompt'
    <3>1. i \in InUse(link, global) \ spent /\ def'[i] = def[i]
      BY <1>2, <2>1
    <3>2. Stale(i)
      BY <2>1, <3>1 DEF Stale, Mtime
    <3> QED
      BY <1>0, <3>1, <3>2 DEF Watched
  <2> QED
    BY <2>1 DEF Watched, InUse
<1>10. Replacing'
  BY DEF Replacing, Idle
<1> QED
  BY <1>4, <1>6, <1>7, <1>8, <1>9, <1>10 DEF IInv

LEMMA FindNothingKeeps ==
  ASSUME IInv, FindNothing
  PROVE  IInv' /\ Fresh'
<1>0. Types
  BY DEF IInv
<1>1. /\ clock' = clock /\ prompt' = prompt /\ seen' = seen /\ global' = global
      /\ versions' = versions /\ file' = file /\ load' = Idle /\ Found = NoFile
      /\ link' = IF global = 0 THEN link ELSE [link EXCEPT ![load.by] = global]
      /\ def' = Kept(def, link', global)
      /\ spent' = spent \cap InUse(link', global)
  BY DEF FindNothing
<1>2. /\ load.by \in Tables /\ link \in [Tables -> {0} \cup Defs]
      /\ global \in {0} \cup Defs /\ def \in [Defs -> Definition]
      /\ \A d \in Dirs : file[d] = 0
  BY <1>0, <1>1, FoundHolds, PathAssumption DEF Types
<1>3. /\ link' \in [Tables -> {0} \cup Defs]
      /\ InUse(link', global) \subseteq InUse(link, global)
  BY <1>1, <1>2 DEF InUse
<1>4. IInv'
  BY <1>1, <1>2, <1>3, LettingGoKeeps
<1>5. Fresh'
  <2>1. CASE link'[load.by] = 0
    <3>1. ran' = NoRun
      BY <2>1 DEF FindNothing
    <3> QED
      BY <3>1 DEF Fresh, NoRun
  <2>2. CASE link'[load.by] # 0
    <3>1. ran' = Running(def[link'[load.by]], link'[load.by] \in spent)
      BY <2>2 DEF FindNothing
    <3>2. def[link'[load.by]].file \in Dirs \cup {NoFile}
      BY <1>2, <1>3, <2>2 DEF Definition
    <3>3. ran'.there = 0
      BY <1>2, <3>1, <3>2 DEF Running
    <3> QED
      BY <3>3 DEF Fresh
  <2> QED
    BY <2>1, <2>2
<1> QED
  BY <1>4, <1>5

LEMMA ParseErrorKeeps ==
  ASSUME IInv, ParseError
  PROVE  IInv' /\ Fresh'
<1>1. /\ clock' = clock /\ prompt' = prompt /\ seen' = seen /\ global' = 0
      /\ versions' = versions /\ file' = file /\ load' = Idle /\ link' = link
      /\ def' = Kept(def, link, 0) /\ spent' = spent \cap InUse(link, 0)
      /\ ran' = NoRun
  BY DEF ParseError
<1>2. link \in [Tables -> {0} \cup Defs]
  BY DEF IInv, Types
<1>3. InUse(link, 0) \subseteq InUse(link, global)
  BY DEF InUse
<1>4. IInv'
  BY <1>1, <1>2, <1>3, LettingGoKeeps
<1> QED
  BY <1>1, <1>4 DEF Fresh, NoRun

LEMMA ClearKeeps ==
  ASSUME IInv, Clear
  PROVE  IInv' /\ Fresh'
<1>1. /\ clock' = clock /\ prompt' = prompt /\ seen' = seen /\ global' = 0
      /\ versions' = versions /\ file' = file /\ load' = Idle
      /\ link' = [link EXCEPT ![Top] = 0]
      /\ def' = Kept(def, link', 0) /\ spent' = spent \cap InUse(link', 0)
      /\ ran' = NoRun
  BY DEF Clear
<1>2. link \in [Tables -> {0} \cup Defs] /\ Top \in Tables
  BY TablesAssumption DEF IInv, Types
<1>3. /\ link' \in [Tables -> {0} \cup Defs]
      /\ InUse(link', 0) \subseteq InUse(link, global)
  BY <1>1, <1>2 DEF InUse
<1>4. IInv'
  BY <1>1, <1>3, LettingGoKeeps
<1> QED
  BY <1>1, <1>4 DEF Fresh, NoRun

LEMMA ExecuteScriptKeeps ==
  ASSUME IInv, ExecuteScript
  PROVE  IInv' /\ Fresh'
<1>1. /\ clock' = clock /\ prompt' = prompt /\ seen' = seen /\ global' = global
      /\ versions' = versions /\ file' = file /\ load' = Idle /\ link' = link
      /\ def' = def /\ spent' = spent /\ ran' = NoRun
  BY DEF ExecuteScript
<1>2. Idle \in [at : {"idle", "find", "parse"}, by : Tables, version : Nat]
  BY TablesAssumption DEF Idle
<1>3. Types' /\ Past' /\ Placed' /\ Stamped' /\ Watched'
  BY <1>1, <1>2
     DEF IInv, Types, Past, Placed, Stamped, Watched, Stale, Mtime
<1>4. Replacing'
  BY <1>1 DEF Replacing, Idle
<1> QED
  BY <1>1, <1>3, <1>4 DEF IInv, Fresh, NoRun

\* A new definition that is not older than what its file holds.
LEMMA DefinedKeeps ==
  ASSUME IInv, NEW new \in Definition, NEW links \in SUBSET Tables,
         Defined(new, links),
         clock' = clock, prompt' = prompt, seen' = seen,
         versions' = versions, file' = file, load' = Idle,
         new.checked <= clock,
         new.version <= Len(versions),
         new.file # NoFile => new.version # 0,
         new.version # 0 => Mtime(new.version) <= new.parsed,
         new.file # NoFile => new.parsed = Second(clock)
  PROVE  /\ IInv'
         /\ \A t \in links : def'[link'[t]] = new
<1> DEFINE i == Min(Defs \ InUse(link, global))
<1>0. Types /\ Past /\ Placed /\ Stamped /\ Watched /\ Replacing
  BY DEF IInv
<1>1. i \in Defs /\ i \notin InUse(link, global)
  BY <1>0, NewDef
<1>2. /\ global' = i
      /\ link' = [t \in Tables |-> CASE t \in links -> i
                                     [] t = Top /\ t \notin links -> 0
                                     [] OTHER -> link[t]]
      /\ def' = Kept([def EXCEPT ![i] = new], link', i)
      /\ spent' = spent \cap (InUse(link', i) \ {i})
  BY DEF Defined
<1> HIDE DEF i
<1>3. /\ clock \in Nat /\ def \in [Defs -> Definition]
      /\ link \in [Tables -> {0} \cup Defs]
  BY <1>0 DEF Types
<1>4. /\ link' \in [Tables -> {0} \cup Defs]
      /\ \A t \in Tables : \/ link'[t] = i
                           \/ link'[t] = 0
                           \/ link'[t] = link[t]
      /\ \A t \in links : link'[t] = i
  BY <1>1, <1>2, <1>3
<1>5. i \in InUse(link', i) /\ i # 0
  BY <1>1 DEF InUse, Defs
<1>6. InUse(link', i) \ {i} \subseteq InUse(link, global)
  BY <1>4 DEF InUse
<1>7. InUse(link, global) \subseteq Defs
  BY <1>0 DEF InUse, Types
<1>8. /\ def' \in [Defs -> Definition]
      /\ \A j \in Defs : \/ def'[j] = NoDef
                         \/ j # i /\ def'[j] = def[j]
                         \/ j = i /\ def'[j] = new
      /\ \A j \in InUse(link', i) : j # i => def'[j] = def[j]
      /\ def'[i] = new
  <2>1. PICK d \in [Defs -> Definition] : d = [def EXCEPT ![i] = new]
    BY <1>1, <1>3
  <2>2. d[i] = new /\ \A j \in Defs \ {i} : d[j] = def[j]
    BY <1>1, <1>3, <2>1
  <2>3. /\ Kept(d, link', i) \in [Defs -> Definition]
        /\ \A j \in Defs : Kept(d, link', i)[j] =
              IF j \in InUse(link', i) THEN d[j] ELSE NoDef
    <3>1. NoDef \in Definition
      BY DEF NoDef, Definition
    <3> QED
      BY <2>1, <3>1 DEF Kept
  <2> QED
    BY <1>1, <1>2, <1>5, <1>6, <1>7, <2>1, <2>2, <2>3
<1>9. Idle \in [at : {"idle", "find", "parse"}, by : Tables, version : Nat]
  BY TablesAssumption DEF Idle
<1>10. Types'
  BY <1>0, <1>1, <1>2, <1>4, <1>8, <1>9 DEF Types
<1>11. NoDef.version = 0 /\ NoDef.file = NoFile /\ NoDef.checked = 0
  BY DEF NoDef
<1>12. Past'
  BY <1>0, <1>3, <1>8, <1>11 DEF Past, Mtime
<1>13. Placed'
  BY <1>0 DEF Placed, Mtime
<1>14. Stamped'
  <2>1. Len(versions) \in Nat
    BY <1>0 DEF Types
  <2> QED
    BY <1>0, <1>8, <1>11, <2>1 DEF Stamped, Mtime
<1>15. Watched'
  <2>1. ASSUME NEW j \in InUse(link', global') \ spent', Stale(j)'
        PROVE  def'[j].checked <= prompt'
    <3>1. CASE j = i
      <4>1. /\ new.file # NoFile
            /\ file[new.file] \in 1 .. seen
            /\ Mtime(file[new.file]) > Second(clock)
        BY <1>8, <2>1, <3>1 DEF Stale, Mtime
      <4>2. file[new.file] \in 1 .. Len(versions)
        BY <1>0, <4>1 DEF Types
      <4>3. /\ Mtime(file[new.file]) <= Second(clock)
            /\ Mtime(file[new.file]) \in Nat /\ Second(clock) \in Nat
        BY <1>0, <1>3, <4>2, VersionTypes, SecondGrows DEF Past
      <4> QED
        BY <4>1, <4>3
    <3>2. CASE j # i
      <4>1. j \in InUse(link, global) \ spent /\ def'[j] = def[j]
        BY <1>2, <1>6, <1>8, <2>1, <3>2
      <4>2. Stale(j)
        BY <2>1, <4>1 DEF Stale, Mtime
      <4> QED
        BY <1>0, <4>1, <4>2 DEF Watched
    <3> QED
      BY <3>1, <3>2
  <2> QED
    BY <2>1 DEF Watched, InUse
<1>16. Replacing'
  BY DEF Replacing, Idle
<1>17. \A t \in links : def'[link'[t]] = new
  BY <1>4, <1>8
<1> QED
  BY <1>10, <1>12, <1>13, <1>14, <1>15, <1>16, <1>17 DEF IInv

LEMMA ParseFunctionKeeps ==
  ASSUME IInv, ParseFunction
  PROVE  /\ IInv' /\ Fresh'
         /\ def'[link'[load.by]].version = load.version
<1> DEFINE new == Stamp(load.version)
<1>0. Types /\ Past /\ Replacing /\ load.by \in Tables /\ clock \in Nat
  BY DEF IInv, Types
<1>1. /\ clock' = clock /\ prompt' = prompt /\ seen' = seen
      /\ versions' = versions /\ file' = file /\ load' = Idle
      /\ load.at = "parse" /\ Defined(new, {load.by})
      /\ ran' = Running(new, FALSE)
  BY DEF ParseFunction
<1>2. load.version \in 1 .. Len(versions) /\ Len(versions) \in Nat
  BY <1>0, <1>1 DEF Replacing, Types
<1>3. Second(clock) \in Nat /\ Second(clock) <= clock
  BY <1>0, SecondGrows
<1>4. /\ new.version = load.version /\ new.file = Found
      /\ new.parsed = Second(clock) /\ new.checked = Second(clock)
  BY DEF Stamp
<1>5. Found \in Dirs \cup {NoFile}
  BY <1>0, FoundHolds
<1>6. new \in Definition
  BY <1>2, <1>3, <1>5 DEF Stamp, Definition
<1>7. \A v \in 1 .. Len(versions) : Mtime(v) <= Second(clock)
  BY <1>0, VersionTypes DEF Past
<1> HIDE DEF new
<1>8. IInv' /\ \A t \in {load.by} : def'[link'[t]] = new
  <2>1. /\ new.checked <= clock /\ new.version <= Len(versions)
        /\ new.file # NoFile => new.version # 0
        /\ new.version # 0 => Mtime(new.version) <= new.parsed
        /\ new.file # NoFile => new.parsed = Second(clock)
    BY <1>0, <1>2, <1>3, <1>4, <1>7
  <2>2. {load.by} \in SUBSET Tables
    BY <1>0
  <2> QED
    BY <1>1, <1>6, <2>1, <2>2, DefinedKeeps
<1>9. Fresh'
  <2>1. /\ ran'.def = new /\ ran'.there = IF new.file = NoFile THEN 0 ELSE file[new.file]
    BY <1>1 DEF Running
  <2>2. SUFFICES ASSUME ran'.there \in 1 .. seen
                 PROVE  versions[ran'.there].mtime <= new.parsed
    BY <1>1, <2>1 DEF Fresh, Mtime
  <2>3. ran'.there \in 1 .. Len(versions)
    BY <1>0, <2>2 DEF Types
  <2> QED
    BY <1>4, <1>7, <2>3 DEF Mtime
<1> QED
  BY <1>4, <1>8, <1>9

LEMMA TypeInKeeps ==
  ASSUME IInv, TypeIn
  PROVE  IInv' /\ Fresh'
<1>1. /\ clock' = clock /\ prompt' = prompt /\ seen' = seen
      /\ versions' = versions /\ file' = file /\ load' = Idle
      /\ Defined(NoDef, {}) /\ ran' = NoRun
  BY DEF TypeIn
<1>2. clock \in Nat /\ Len(versions) \in Nat
  BY DEF IInv, Types
<1>3. /\ NoDef \in Definition /\ NoDef.checked = 0 /\ NoDef.version = 0
      /\ NoDef.file = NoFile
  BY DEF NoDef, Definition
<1>4. {} \in SUBSET Tables
  OBVIOUS
<1>5. IInv'
  <2>1. NoDef.checked <= clock /\ NoDef.version <= Len(versions)
    BY <1>2, <1>3
  <2> QED
    BY <1>1, <1>3, <1>4, <2>1, DefinedKeeps
<1> QED
  BY <1>1, <1>5 DEF Fresh, NoRun

-----------------------------------------------------------------------------
\* What the actions keep, every step keeps.

LEMMA Step == IInv /\ Fresh /\ [Next]_vars => IInv' /\ Fresh'
<1> SUFFICES ASSUME IInv, Fresh, [Next]_vars PROVE IInv' /\ Fresh'
  OBVIOUS
<1>1. CASE UNCHANGED vars
  BY <1>1 DEF vars, IInv, Types, Past, Placed, Stamped, Watched, Replacing,
     Stale, Fresh, Mtime, InUse
<1>2. CASE Tick
  BY <1>2, TickKeeps
<1>3. CASE Prompt
  BY <1>3, PromptKeeps
<1>4. CASE \E d \in Dirs \ System, kind \in Kinds : Write(d, kind)
  BY <1>4, WriteKeeps
<1>5. CASE \E d \in Dirs \ System : Unlink(d)
  BY <1>5, UnlinkKeeps
<1>6. CASE \E t \in Tables : CallReads(t)
  BY <1>6, CallReadsKeeps
<1>7. CASE \E t \in Tables : CallRuns(t)
  BY <1>7, CallRunsKeeps
<1>8. CASE Read
  BY <1>8, ReadKeeps
<1>9. CASE FindNothing
  BY <1>9, FindNothingKeeps
<1>10. CASE ParseFunction
  BY <1>10, ParseFunctionKeeps
<1>11. CASE ParseError
  BY <1>11, ParseErrorKeeps
<1>12. CASE ExecuteScript
  BY <1>12, ExecuteScriptKeeps
<1>13. CASE TypeIn
  BY <1>13, TypeInKeeps
<1>14. CASE Clear
  BY <1>14, ClearKeeps
<1> QED
  BY <1>1, <1>2, <1>3, <1>4, <1>5, <1>6, <1>7, <1>8, <1>9, <1>10, <1>11,
     <1>12, <1>13, <1>14 DEF Next

\* A function whose file was changed before the last prompt is not run, unless
\* this command had found its definition out of date before: the check of the
\* file in CallRuns (symbol_out_of_date) suffices for every path, every number
\* of callers and every order of edits and calls.
THEOREM Freshness == Spec => []Fresh
<1>1. Init => IInv /\ Fresh
  BY InitInv
<1>2. IInv /\ Fresh /\ [Next]_vars => IInv' /\ Fresh'
  BY Step
<1> QED
  BY <1>1, <1>2, PTL DEF Spec

\* The definition of a caller that is replaced after its file was read again
\* (load_fcn_from_file, frob_function_def) is replaced by another version of
\* that file, so that the static variables of a function whose file is what it
\* was are never lost.
THEOREM Replacement == Spec => ReplacedByAnother
<1> DEFINE A == \A t \in Tables :
        LET old == def[link[t]]
            new == def'[link'[t]]
        IN  (/\ load.at = "parse" /\ load.by = t
             /\ link[t] # 0 /\ link'[t] # link[t]
             /\ new.file = old.file /\ versions[old.version].dir = old.file)
            => new.version # old.version
<1>1. IInv /\ [Next]_vars => A
  <2> SUFFICES ASSUME IInv, [Next]_vars,
                      load.at = "parse",
                      link[load.by] # 0, link'[load.by] # link[load.by],
                      versions[def[link[load.by]].version].dir
                        = def[link[load.by]].file
               PROVE  def'[link'[load.by]].version # def[link[load.by]].version
    OBVIOUS
  <2>1. load.version # def[link[load.by]].version
    BY DEF IInv, Replacing
  <2>2. load # Idle /\ load.at # "find"
    BY DEF Idle
  <2>3. ParseFunction
    BY <2>2 DEF Next, vars, Tick, Prompt, Write, Unlink, CallReads, CallRuns,
       Read, FindNothing, ParseError, ExecuteScript, TypeIn, Clear
  <2> QED
    BY <2>1, <2>3, ParseFunctionKeeps
<1>2. Init => IInv /\ Fresh
  BY InitInv
<1>3. IInv /\ Fresh /\ [Next]_vars => IInv' /\ Fresh'
  BY Step
<1>4. [][Next]_vars /\ []IInv => [][A]_vars
  BY <1>1, PTL
<1> QED
  BY <1>2, <1>3, <1>4, PTL DEF Spec, ReplacedByAnother
=============================================================================

--------------------------- MODULE FunctionFiles ---------------------------
(***************************************************************************)
(* One function `f' that is defined by files f.m on the LOADPATH, and the  *)
(* symbol records through which it is called: a record of the global table *)
(* and one record in each table whose code calls f.  A call looks the      *)
(* record up (variables.cc lookup), checks the file of its definition at   *)
(* most once a prompt (symbol_out_of_date) and reads the first f.m of the  *)
(* path anew when the file is newer than the reading                       *)
(* (load_fcn_from_file).  Editors write and remove the files at any time,  *)
(* between any two of these steps.                                         *)
(*                                                                         *)
(* Time is counted in ticks, Ticks of them to a second: gettimeofday gives *)
(* the prompt and the checks a tick, while the time of a reading (time (0))*)
(* and of a file (st_mtime) are whole seconds.                             *)
(***************************************************************************)
EXTENDS Integers, Sequences, FiniteSetsExt, SequencesExt

CONSTANTS
    Path,         \* the directories of LOADPATH, in order
    System,       \* those under Vfcn_file_dir, whose files do not change
    Tables,       \* the symbol tables that call f
    Top,          \* top_level_sym_tab
    Ticks,        \* ticks in a second
    MaxTick,      \* bound on the clock
    MaxVersions   \* bound on the versions of f.m ever written

Dirs == {Path[n] : n \in DOMAIN Path}
NoFile == "no file"

ASSUME PathAssumption == /\ Path \in Seq(Dirs) /\ Len(Path) > 0
                         /\ System \subseteq Dirs /\ NoFile \notin Dirs
ASSUME TablesAssumption == Top \in Tables /\ IsFiniteSet(Tables)
ASSUME TicksAssumption == Ticks \in Nat \ {0}

VARIABLES
    clock,      \* the time
    prompt,     \* Vlast_prompt_time
    seen,       \* history: how many versions had been written by then
    versions,   \* every f.m written: what it holds, where, and when
    file,       \* the version of f.m in each directory, 0 for none
    def,        \* the symbol_defs of f: the tree_function each holds
    link,       \* the symbol_def of each table's record of f, 0 for none
    global,     \* the symbol_def of the global record
    load,       \* the call of load_fcn_from_file that is under way
    spent,      \* history: the symbol_defs this command has found out of date
    ran         \* history: the function that this step runs

vars == <<clock, prompt, seen, versions, file, def, link, global, load,
          spent, ran>>

Kinds == {"function", "script", "bad"}   \* "bad" does not parse

\* One symbol_def for each record, and the one that is being made.
Defs == 1 .. Cardinality(Tables) + 2
NoDef == [version |-> 0, file |-> NoFile, parsed |-> 0, checked |-> 0]

Second(t) == t - (t % Ticks)
Mtime(v) == versions[v].mtime

\* Vload_path_dir_path.find: the first directory on the path with an f.m.
Found ==
    LET holding == {n \in DOMAIN Path : file[Path[n]] # 0}
    IN  IF holding = {} THEN NoFile ELSE Path[Min(holding)]

InUse(links, glob) == ({links[t] : t \in Tables} \cup {glob}) \ {0}

\* maybe_delete: a symbol_def no record refers to is gone.
Kept(defs, links, glob) ==
    [i \in Defs |-> IF i \in InUse(links, glob) THEN defs[i] ELSE NoDef]

\* The function that runs, whether this command had found it out of date, and
\* the version of its file that is there.
Running(d, old) == [def |-> d, spent |-> old,
                    there |-> IF d.file = NoFile THEN 0 ELSE file[d.file]]
NoRun == [def |-> NoDef, spent |-> FALSE, there |-> 0]

Idle == [at |-> "idle", by |-> Top, version |-> 0]

TypeOK ==
    /\ clock \in 0 .. MaxTick /\ prompt \in 0 .. clock
    /\ seen \in 0 .. Len(versions) /\ Len(versions) <= MaxVersions
    /\ \A v \in DOMAIN versions :
          versions[v] \in [kind : Kinds, dir : Dirs, mtime : 0 .. clock]
    /\ \A d \in Dirs : file[d] # 0 => versions[file[d]].dir = d
    /\ \A i \in Defs : /\ def[i].version \in 0 .. Len(versions)
                       /\ def[i].file \in Dirs \cup {NoFile}
                       /\ def[i].parsed <= clock /\ def[i].checked <= clock
    /\ link \in [Tables -> {0} \cup Defs] /\ global \in {0} \cup Defs
    /\ load.at \in {"idle", "find", "parse"} /\ load.by \in Tables
    /\ load.version \in 0 .. Len(versions)
    /\ spent \subseteq InUse(link, global)

-----------------------------------------------------------------------------
\* The distribution's f.m may be there from the start; nothing is defined.
Init ==
    /\ clock = 0 /\ prompt = 0
    /\ \E n \in 0 .. Len(Path) : \E order \in [1 .. n -> System] :
          /\ IsInjective(order)
          /\ versions = [k \in 1 .. n |->
                 [kind |-> "function", dir |-> order[k], mtime |-> 0]]
          /\ file = [d \in Dirs |->
                 IF \E k \in 1 .. n : order[k] = d
                 THEN CHOOSE k \in 1 .. n : order[k] = d ELSE 0]
    /\ seen = Len(versions)
    /\ def = [i \in Defs |-> NoDef]
    /\ link = [t \in Tables |-> 0] /\ global = 0
    /\ load = Idle /\ spent = {} /\ ran = NoRun

-----------------------------------------------------------------------------
\* The world: time passes, files are written and removed.
Tick ==
    /\ clock < MaxTick
    /\ clock' = clock + 1
    /\ ran' = NoRun
    /\ UNCHANGED <<prompt, seen, versions, file, def, link, global, load,
                   spent>>

Write(d, kind) ==
    /\ Len(versions) < MaxVersions
    /\ versions' = Append(versions, [kind |-> kind, dir |-> d,
                                      mtime |-> Second(clock)])
    /\ file' = [file EXCEPT ![d] = Len(versions) + 1]
    /\ ran' = NoRun
    /\ UNCHANGED <<clock, prompt, seen, def, link, global, load, spent>>

Unlink(d) ==
    /\ file[d] # 0
    /\ file' = [file EXCEPT ![d] = 0]
    /\ ran' = NoRun
    /\ UNCHANGED <<clock, prompt, seen, versions, def, link, global, load,
                   spent>>

\* octave_gets
Prompt ==
    /\ load = Idle
    /\ prompt' = clock
    /\ seen' = Len(versions)
    /\ spent' = {}
    /\ ran' = NoRun
    /\ UNCHANGED <<clock, versions, file, def, link, global, load>>

-----------------------------------------------------------------------------
\* symbol_out_of_date: the file is looked at once a prompt, and not at all
\* for a function that was typed in or is part of the distribution.
ChecksNextTick(d) ==
    /\ d.file # NoFile
    /\ d.file \notin System
    /\ prompt > d.checked

Checks(d) ==
    /\ d.file # NoFile
    /\ d.file \notin System
    /\ prompt >= d.checked

\* file_stat and is_newer
NewerOrSame(d) == file[d.file] # 0 /\ Mtime(file[d.file]) >= d.parsed
Newer(d) == file[d.file] # 0 /\ Mtime(file[d.file]) > d.parsed

\* The definition a call from table t comes upon: the record's own, or the
\* global one the record is linked to (link_to_builtin_or_function).
Visible(t) == IF link[t] # 0 THEN link[t] ELSE global

\* lookup: nothing is defined, or the definition's file has changed: it is
\* marked as checked and read again.
CallReads(t) ==
    LET i == Visible(t)
    IN  /\ load = Idle
        /\ i # 0 => Checks(def[i]) /\ Newer(def[i])
        /\ link' = [link EXCEPT ![t] = i]
        /\ def' = IF i = 0 THEN def ELSE [def EXCEPT ![i].checked = clock]
        /\ load' = [at |-> "find", by |-> t, version |-> 0]
        /\ spent' = spent \cup ({i} \ {0})
        /\ ran' = NoRun
        /\ UNCHANGED <<clock, prompt, seen, versions, file, global>>

\* lookup: the definition is up to date, or need not be checked.
CallRuns(t) ==
    LET i == Visible(t)
    IN  /\ load = Idle
        /\ i # 0
        /\ Checks(def[i]) => ~ Newer(def[i])
        /\ link' = [link EXCEPT ![t] = i]
        /\ def' = IF Checks(def[i]) THEN [def EXCEPT ![i].checked = clock]
                  ELSE def
        /\ ran' = Running(def'[i], i \in spent)
        /\ UNCHANGED <<clock, prompt, seen, versions, file, global, load,
                       spent>>

\* load_fcn_from_file: fcn_file_in_path names the file, which is opened and
\* read.
Read ==
    /\ load.at = "find"
    /\ Found # NoFile
    /\ load' = [load EXCEPT !.at = "parse", !.version = file[Found]]
    /\ ran' = NoRun
    /\ UNCHANGED <<clock, prompt, seen, versions, file, def, link, global,
                   spent>>

\* There is no f.m any more: force_link_to_function takes what is global,
\* and without that the record keeps what it had.
FindNothing ==
    /\ load.at = "find"
    /\ Found = NoFile
    /\ link' = IF global = 0 THEN link ELSE [link EXCEPT ![load.by] = global]
    /\ def' = Kept(def, link', global)
    /\ ran' = IF link'[load.by] = 0 THEN NoRun
              ELSE Running(def[link'[load.by]], link'[load.by] \in spent)
    /\ load' = Idle
    /\ spent' = spent \cap InUse(link', global)
    /\ UNCHANGED <<clock, prompt, seen, versions, file, global>>

\* A new tree_function is the definition of the global record: the one of
\* the top level is cleared, the others keep what they have.
Defined(new, links) ==
    LET i == Min(Defs \ InUse(link, global))
    IN  /\ global' = i
        /\ link' = [t \in Tables |-> CASE t \in links -> i
                                       [] t = Top /\ t \notin links -> 0
                                       [] OTHER -> link[t]]
        /\ def' = Kept([def EXCEPT ![i] = new], link', i)
        /\ spent' = spent \cap (InUse(link', i) \ {i})

\* frob_function_def of a file: the time is that of the end of the parse,
\* and the name of the file is looked up once more.
Stamp(v) ==
    [version |-> v, file |-> Found,
     parsed |-> Second(clock), checked |-> Second(clock)]

\* The file holds a function, and the caller's record is linked to it.
ParseFunction ==
    /\ load.at = "parse" /\ versions[load.version].kind = "function"
    /\ Defined(Stamp(load.version), {load.by})
    /\ ran' = Running(Stamp(load.version), FALSE)
    /\ load' = Idle
    /\ UNCHANGED <<clock, prompt, seen, versions, file>>

\* parse_fcn_file: a parse error clears the global record and no other.
ParseError ==
    /\ load.at = "parse" /\ versions[load.version].kind = "bad"
    /\ global' = 0
    /\ def' = Kept(def, link, 0)
    /\ ran' = NoRun
    /\ load' = Idle
    /\ spent' = spent \cap InUse(link, 0)
    /\ UNCHANGED <<clock, prompt, seen, versions, file, link>>

\* The file has become a script: it is executed, and no record changes.
ExecuteScript ==
    /\ load.at = "parse" /\ versions[load.version].kind = "script"
    /\ ran' = NoRun
    /\ load' = Idle
    /\ UNCHANGED <<clock, prompt, seen, versions, file, def, link, global,
                   spent>>

\* A function typed at the prompt has no file.
TypeIn ==
    /\ load = Idle
    /\ Defined(NoDef, {})
    /\ ran' = NoRun
    /\ UNCHANGED <<clock, prompt, seen, versions, file, load>>

\* clear f, at the top level
Clear ==
    /\ load = Idle
    /\ link' = [link EXCEPT ![Top] = 0]
    /\ global' = 0
    /\ def' = Kept(def, link', 0)
    /\ spent' = spent \cap InUse(link', 0)
    /\ ran' = NoRun
    /\ UNCHANGED <<clock, prompt, seen, versions, file, load>>

Next ==
    \/ Tick \/ Prompt
    \/ \E d \in Dirs \ System, kind \in Kinds : Write(d, kind)
    \/ \E d \in Dirs \ System : Unlink(d)
    \/ \E t \in Tables : CallReads(t) \/ CallRuns(t)
    \/ Read \/ FindNothing
    \/ ParseFunction \/ ParseError \/ ExecuteScript
    \/ TypeIn \/ Clear

Spec == Init /\ [][Next]_vars

-----------------------------------------------------------------------------
\* Whichever tables share a definition or have read the file on their own: if
\* what its file holds has been there since before the last prompt, the
\* function that runs was not read in an earlier second than that was
\* written, unless a caller of the same command has found this definition out
\* of date before (symbol_out_of_date, load_fcn_from_file).
Fresh ==
    ran.there \in 1 .. seen /\ ~ ran.spent
    => Mtime(ran.there) <= ran.def.parsed

\* func.tex:603-607: Octave checks the time stamp on the file every time it
\* needs the function, and if that indicates that the file has changed since
\* it was last read, reads it again.
Reread ==
    ran.there \in 1 .. seen /\ versions[ran.there].kind = "function"
    => Mtime(ran.there) <= ran.def.parsed

\* A caller's function, and with it the values of its static variables, is
\* only replaced by one that is read from the same file if the file holds
\* something else by then (symbol_out_of_date, frob_function_def).
ReplacedByAnother ==
    [][\A t \in Tables :
        LET old == def[link[t]]
            new == def'[link'[t]]
        IN  (/\ load.at = "parse" /\ load.by = t
             /\ link[t] # 0 /\ link'[t] # link[t]
             /\ new.file = old.file /\ versions[old.version].dir = old.file)
            => new.version # old.version]_vars
=============================================================================

---------------------------- MODULE SymbolTable ----------------------------
(***************************************************************************)
(* What one name, x, means in every symbol table of Octave 2.0.17 at once: *)
(* the records of symtab.cc and the symbol_defs that they share by a       *)
(* reference count, the links of variables.cc to globals, builtins and     *)
(* functions, assignment (pt-fvc.cc), the global statement (pt-misc.cc),   *)
(* the definition of a function (parse.y), the contexts of recursive calls *)
(* (pt-fcn.cc) and clear.                                                  *)
(*                                                                         *)
(* Names do not interact, so one is enough.  It may be a variable, a       *)
(* global, a builtin and a user function, all at the same time in          *)
(* different tables.  The program is not fixed: any statement may come     *)
(* next in the running function, or at top level when none runs.           *)
(***************************************************************************)
EXTENDS Integers, Sequences, FiniteSets

CONSTANTS
  Caller,    \* user functions with names of their own
  Self,      \* the tree_function objects that a function called x may be
  Formal,    \* the functions of which x is a parameter
  Values,    \* what is assigned to x
  Builtins,  \* what x may be at the start, of "bvar", "bfn" and "none"
  Nested,    \* clear, and definitions by eval, in the body of a function
  Mixing,    \* x may be a global variable and a function at the same time
  Cells,     \* bound: symbol_defs at the same time
  MaxCount,  \* bound: reference counts
  MaxDepth   \* bound: activations

ASSUME ScopeAssumption ==
  /\ Caller \cap Self = {} /\ Formal \subseteq Caller
  /\ {"Global", "Top"} \cap (Caller \cup Self) = {}
  /\ {"novalue", "global"} \cap Values = {} /\ "nofn" \notin Self
ASSUME BoundAssumption ==
  /\ Cells \in Nat \ {0} /\ MaxCount \in Nat /\ MaxDepth \in Nat
ASSUME SwitchAssumption ==
  Nested \in BOOLEAN /\ Mixing \in BOOLEAN /\ Builtins \subseteq {"bvar", "bfn", "none"}

VARIABLES
  heap,  \* the symbol_defs
  rec,   \* per symbol table, its symbol_record for x
  act    \* the activations: tables of the running functions, Top first

vars == <<heap, rec, act>>

(***************************************************************************)
(* Data                                                                    *)
(***************************************************************************)

Fn == Caller \cup Self
Table == {"Global", "Top"} \cup Fn
Nil == 0
Cell == 1 .. Cells
NoValue == "novalue"
NoFn == "nofn"

\* A symbol_def.  "free" is memory not in use, "deleted" memory that somebody
\* may still point to, "unknown" the type of a symbol_def () without a
\* definition.  val is the value of a variable, NoValue without one; fn the
\* tree_function of a user function.
Types == {"free", "deleted", "unknown", "uvar", "bvar", "ufn", "bfn"}
Def == [type : Types, val : Values \cup {NoValue}, fn : Self \cup {NoFn},
        count : 0 .. MaxCount + 1, next : Cell \cup {Nil}]

\* A symbol_record: whether the table has one yet, its definition and
\* linked_to_global, and the two stacks of push_context.
Link == [def : Cell \cup {Nil}, linked : BOOLEAN]
Record == [here : BOOLEAN, def : Cell \cup {Nil}, linked : BOOLEAN,
           ctx : Seq(Link)]

\* An activation, with a member that the code does not have, for the
\* properties: the value that this activation has last given to x while x was
\* its own, "global" once it has declared x global, NoValue otherwise.
Activation == [t : Table, own : Values \cup {"global", NoValue}]

TypeOK ==
  /\ heap \in [Cell -> Def]
  /\ rec \in [Table -> Record]
  /\ act \in Seq(Activation) /\ act # <<>> /\ act[1].t = "Top"

Unused == [type |-> "free", val |-> NoValue, fn |-> NoFn, count |-> 0,
           next |-> Nil]
NoRecord == [here |-> FALSE, def |-> Nil, linked |-> FALSE, ctx |-> <<>>]

-----------------------------------------------------------------------------
(***************************************************************************)
(* A store S is a heap and the records; what the member functions do to it *)
(***************************************************************************)

Store == [heap |-> heap, rec |-> rec]

DefOf(S, t) == S.rec[t].def
TypeOf(S, t) == IF DefOf(S, t) = Nil THEN "none" ELSE S.heap[DefOf(S, t)].type
IsVariable(S, t) == TypeOf(S, t) \in {"uvar", "bvar"}
IsFunction(S, t) == TypeOf(S, t) \in {"ufn", "bfn"}
Linked(S, t) == S.rec[t].linked

\* symbol_record::is_defined: there is a definition and it is not null.
IsDefined(S, t) ==
  IsFunction(S, t) \/ (IsVariable(S, t) /\ S.heap[DefOf(S, t)].val # NoValue)

Points(S, t, d) == [S EXCEPT !.rec[t].def = d]

\* Not the code: the memory is given back whatever the count says.
MaybeDeleteAtOnce(S, d) ==
  IF d = Nil THEN S ELSE [S EXCEPT !.heap[d] = [Unused EXCEPT !.type = "deleted"]]

\* maybe_delete.
MaybeDelete(S, d) ==
  IF d = Nil \/ S.heap[d].count = 0 THEN S
  ELSE IF S.heap[d].count = 1
       THEN [S EXCEPT !.heap[d] = [Unused EXCEPT !.type = "deleted"]]
       ELSE [S EXCEPT !.heap[d].count = @ - 1]

\* pop_def, and maybe_delete of what it returns.
PopDef(S, t) ==
  LET d == DefOf(S, t)
  IN IF d = Nil THEN S ELSE MaybeDelete(Points(S, t, S.heap[d].next), d)

\* push_def of a new symbol_def, with count = 1.
Fresh(S) == CHOOSE c \in Cell : /\ S.heap[c].type = "free"
                                /\ \A b \in Cell : S.heap[b].type = "free" => c <= b
PushDef(S, t, def) ==
  LET c == Fresh(S)
  IN Points([S EXCEPT !.heap[c] = [def EXCEPT !.count = 1, !.next = DefOf(S, t)]],
            t, c)

VarDef(v) == [Unused EXCEPT !.type = "uvar", !.val = v]
FnDef(f) == [Unused EXCEPT !.type = "ufn", !.fn = f]

\* define (tree_constant *): a new definition on top of none or of a function,
\* a new value for all that share the one of a variable.
Define(S, t, v) ==
  IF DefOf(S, t) = Nil \/ IsFunction(S, t) THEN PushDef(S, t, VarDef(v))
  ELSE LET d == DefOf(S, t)
       IN [S EXCEPT !.heap[d].val = v,
                    !.heap[d].type = IF @ = "bvar" THEN @ ELSE "uvar"]

\* define (tree_function *): a variable is removed, then a function; builtin
\* functions are read-only.
DefineFunction(S, t, f) ==
  LET S1 == IF IsVariable(S, t) THEN PopDef(S, t) ELSE S
      S2 == IF IsFunction(S1, t) THEN PopDef(S1, t) ELSE S1
  IN IF TypeOf(S, t) = "bfn" THEN S ELSE PushDef(S2, t, FnDef(f))

\* symbol_record::clear.
ClearRecord(S, t) ==
  IF Linked(S, t)
  THEN [Points(MaybeDelete(S, DefOf(S, t)), t, Nil) EXCEPT !.rec[t].linked = FALSE]
  ELSE PopDef(S, t)

\* symbol_table::clear, of all names or of x: user variables only, and user
\* functions if they are to go, too.
ClearTable(S, t, functions) ==
  IF TypeOf(S, t) = "uvar" \/ (functions /\ TypeOf(S, t) = "ufn")
  THEN ClearRecord(S, t) ELSE S

\* Not the code: alias without count++.
AliasUncounted(S, t, s) == IF DefOf(S, s) = Nil THEN S ELSE Points(S, t, DefOf(S, s))

\* alias: what t had before is not released.
Alias(S, t, s) ==
  LET d == DefOf(S, s)
  IN IF d = Nil THEN S ELSE Points([S EXCEPT !.heap[d].count = @ + 1], t, d)

\* alias with force: a definition without type or value is made if s has none.
ForceAlias(S, t, s) ==
  IF DefOf(S, s) # Nil THEN Alias(S, t, s)
  ELSE Alias(PushDef(S, s, [Unused EXCEPT !.type = "unknown"]), t, s)

LinkToBuiltinVariable(S, t) ==
  IF TypeOf(S, "Global") = "bvar" THEN Alias(S, t, "Global") ELSE S

LinkToBuiltinOrFunction(S, t) ==
  IF TypeOf(S, "Global") = "bvar" \/ IsFunction(S, "Global")
  THEN Alias(S, t, "Global") ELSE S

\* link_to_global_variable; an error for a parameter.
LinkToGlobal(S, t) ==
  IF Linked(S, t) \/ t \in Formal THEN S
  ELSE LET S1 == IF IsVariable(S, t)
                 THEN Define(S, "Global", S.heap[DefOf(S, t)].val)
                 ELSE ClearRecord(S, t)
           S2 == IF IsFunction(S1, "Global") THEN Define(S1, "Global", NoValue)
                 ELSE S1
       IN [ForceAlias(S2, t, "Global") EXCEPT !.rec[t].linked = TRUE]

\* tree_identifier::assign.
Assign(S, t, v) ==
  LET S1 == IF ~ IsDefined(S, t)
            THEN IF t \in Formal \/ Linked(S, t) THEN S
                 ELSE LinkToBuiltinVariable(S, t)
            ELSE IF IsFunction(S, t) THEN ClearRecord(S, t) ELSE S
  IN Define(S1, t, v)

\* lookup, when there is no function file called x.
Lookup(S, t) ==
  IF Linked(S, t) \/ IsDefined(S, t) \/ t \in Formal THEN S
  ELSE LinkToBuiltinOrFunction(S, t)

\* Not the code: push_context without definition = 0, and pop_context without
\* global_link_context.
PushContextKeeps(S, t) ==
  IF ~ S.rec[t].here THEN S
  ELSE [S EXCEPT !.rec[t] =
          [here |-> TRUE, def |-> @.def, linked |-> FALSE,
           ctx |-> Append(@.ctx, [def |-> @.def, linked |-> @.linked])]]
\* Not the code: a mutant of PopContext.
PopContextUnlinked(S, t) ==
  LET n == Len(S.rec[t].ctx)
      S1 == IF TypeOf(S, t) \in {"uvar", "bvar", "ufn", "bfn"} THEN PopDef(S, t) ELSE S
  IN IF n = 0 THEN S
     ELSE [S1 EXCEPT !.rec[t] = [@ EXCEPT !.def = S.rec[t].ctx[n].def,
                                          !.ctx = SubSeq(@, 1, n - 1)]]

\* push_context and pop_context of a function's table.  A record that has come
\* into being since the push has nothing to pop.
PushContext(S, t) ==
  IF ~ S.rec[t].here THEN S
  ELSE [S EXCEPT !.rec[t] =
          [here |-> TRUE, def |-> Nil, linked |-> FALSE,
           ctx |-> Append(@.ctx, [def |-> @.def, linked |-> @.linked])]]

PopContext(S, t) ==
  LET n == Len(S.rec[t].ctx)
      S1 == IF IsVariable(S, t) THEN PopDef(S, t) ELSE S
      S2 == IF IsFunction(S1, t) THEN PopDef(S1, t) ELSE S1
  IN IF n = 0 THEN S
     ELSE [S2 EXCEPT !.rec[t] = [@ EXCEPT !.def = S.rec[t].ctx[n].def,
                                          !.linked = S.rec[t].ctx[n].linked,
                                          !.ctx = SubSeq(S.rec[t].ctx, 1, n - 1)]]

-----------------------------------------------------------------------------
(***************************************************************************)
(* Statements                                                              *)
(***************************************************************************)

Depth == Len(act)
Here == act[Depth].t
Running(t) == \E i \in 1 .. Depth : act[i].t = t

\* The definitions of D and all that they hide.
Reached(S, D) ==
  LET reach[n \in 0 .. Cells] ==
        IF n = 0 THEN D \ {Nil}
        ELSE LET R == reach[n - 1]
             IN R \cup ({S.heap[d].next : d \in R} \ {Nil})
  IN reach[Cells]

\* A step leaves store S behind.  Memory that nobody points to any more is
\* free again, and so is the table of a function that cannot be called.
Roots(S, t) == {S.rec[t].def} \cup {S.rec[t].ctx[i].def : i \in 1 .. Len(S.rec[t].ctx)}
Exists(S, f) == \E c \in Cell : S.heap[c].fn = f
Becomes(S) ==
  LET lives == {t \in Table : t \in Self => Exists(S, t) \/ Running(t)}
      used == Reached(S, UNION {Roots(S, t) : t \in lives})
  IN /\ heap' = [c \in Cell |-> IF c \in used THEN S.heap[c] ELSE Unused]
     /\ rec' = [t \in Table |-> IF t \in lives THEN S.rec[t] ELSE NoRecord]

\* A statement that mentions x has put it into the table.
Mentioned(S) == [S EXCEPT !.rec[Here].here = TRUE]
Keeps(own) == act' = [act EXCEPT ![Depth].own = own]
Forgotten(i) ==
  act' = [j \in 1 .. Depth |-> IF j = i \/ act[j].own = "global"
                               THEN [act[j] EXCEPT !.own = NoValue] ELSE act[j]]

\* install_builtin_variable and install_builtin_function; v is the default.
Installed(b, v) ==
  IF b = "none" THEN [heap |-> [c \in Cell |-> Unused], rec |-> [t \in Table |-> NoRecord]]
  ELSE LET S == PushDef([heap |-> [c \in Cell |-> Unused],
                         rec |-> [t \in Table |-> NoRecord]], "Global",
                        [Unused EXCEPT !.type = b,
                                       !.val = IF b = "bvar" THEN v ELSE NoValue])
       IN [S EXCEPT !.rec["Global"].here = TRUE]

Init ==
  /\ \E b \in Builtins, v \in Values :
       heap = Installed(b, v).heap /\ rec = Installed(b, v).rec
  /\ act = <<[t |-> "Top", own |-> NoValue]>>

Own(t) == /\ ~ rec'[t].linked /\ rec'[t].def # Nil
          /\ heap'[rec'[t].def].type = "uvar"

\* The bounds: counts, and memory for what one statement makes.
Countable == /\ \A c \in Cell : heap[c].count <= MaxCount
             /\ Cardinality({c \in Cell : heap[c].type = "free"}) >= 2
MayBeGlobal == Mixing \/ \A c \in Cell : heap[c].type \notin {"ufn", "bfn"}
MayBeFunction ==
  Mixing \/ ~ ((\E t \in Table : rec[t].linked)
              \/ TypeOf(Store, "Global") \in {"uvar", "unknown"})

\* x = v.
Assignment ==
  /\ Countable
  /\ \E v \in Values :
       /\ Becomes(Assign(Mentioned(Store), Here, v))
       /\ Keeps(IF Own(Here) THEN v ELSE act[Depth].own)

\* A link to no definition that the global table has any more: clear x at the
\* top level takes it out there and leaves the link of a function as it is, and
\* the declaration in a later call returns early for a record that is linked.
StaleLink ==
  Linked(Store, Here) /\ DefOf(Store, Here) \notin {DefOf(Store, "Global")} \cap Cell

\* The activation that has declared x: an error for a parameter, nothing for a
\* stale link.
Declared == IF Here \in Formal \/ StaleLink THEN act[Depth].own ELSE "global"

\* global x.
GlobalStatement ==
  /\ Countable /\ MayBeGlobal
  /\ Becomes(LinkToGlobal(Mentioned(Store), Here))
  /\ Keeps(Declared)

\* global x = v: assigns only if the global has no value.
GlobalInitialized ==
  /\ Here \notin Formal /\ Countable /\ MayBeGlobal
  /\ \E v \in Values :
       LET S == LinkToGlobal(Mentioned(Store), Here)
       IN Becomes(IF IsDefined(S, Here) THEN S ELSE Assign(S, Here, v))
  /\ Keeps(Declared)

\* Begin an activation of function f in store S.
Begin(S, f, v) ==
  LET S1 == IF Running(f) THEN PushContext(S, f) ELSE S
      S2 == IF f \in Formal THEN Define([S1 EXCEPT !.rec[f].here = TRUE], f, v) ELSE S1
  IN /\ Becomes(S2)
     /\ act' = Append(act, [t |-> f, own |-> IF f \in Formal THEN v ELSE NoValue])

\* A call of another function.
Call ==
  /\ Depth <= MaxDepth /\ Countable
  /\ \E f \in Caller : \E v \in Values : Begin(Store, f, v)

\* x is used: looked up, and called if it is a user function.
Use ==
  /\ Countable
  /\ LET S == Lookup(Mentioned(Store), Here)
     IN IF TypeOf(S, Here) = "ufn"
        THEN /\ Depth <= MaxDepth
             /\ Begin(S, S.heap[DefOf(S, Here)].fn, NoValue)
        ELSE Becomes(S) /\ UNCHANGED act

\* The cleanup of a call: clear_symbol_table, then pop_symbol_table_context if
\* it was a recursive one.
End ==
  /\ Depth > 1
  /\ LET f == Here
         S == ClearTable(Store, f, TRUE)
         again == \E i \in 1 .. Depth - 1 : act[i].t = f
     IN /\ act' = SubSeq(act, 1, Depth - 1)
        /\ Becomes(IF again THEN PopContext(S, f) ELSE S)

\* Not the code: clear at any depth clears the functions.
ClearAllFunctions ==
  /\ Nested \/ Depth = 1
  /\ Becomes(ClearTable(ClearTable(Store, Here, TRUE), "Global", TRUE))
  /\ Forgotten(Depth)

\* clear without arguments.
ClearAll ==
  /\ Nested \/ Depth = 1
  /\ Becomes(ClearTable(ClearTable(Store, Here, TRUE), "Global", Depth = 1))
  /\ Forgotten(Depth)

\* clear x: the names that are local variables, globals and functions are
\* listed first, and each list is gone through.
ClearName ==
  /\ Nested \/ Depth = 1
  /\ LET isLocal == IsVariable(Store, Here) /\ ~ Linked(Store, Here)
         isGlobal == IsVariable(Store, Here) /\ Linked(Store, Here)
         S1 == IF isLocal \/ isGlobal THEN ClearTable(Store, Here, TRUE) ELSE Store
         S2 == IF isGlobal /\ TypeOf(Store, Here) = "uvar"
               THEN ClearTable(S1, "Global", Depth = 1) ELSE S1
     IN Becomes(IF IsFunction(Store, "Global")
                THEN ClearTable(ClearTable(S2, Here, TRUE), "Global", Depth = 1)
                ELSE S2)
  /\ Forgotten(Depth)

\* function x ... endfunction, whose body may mention x.
DefineX ==
  /\ Nested \/ Depth = 1
  /\ MayBeFunction /\ Countable
  /\ \E f \in Self, b \in BOOLEAN :
       /\ ~ Exists(Store, f) /\ ~ Running(f)
       /\ Becomes([DefineFunction(ClearTable(Store, "Top", TRUE), "Global", f)
                     EXCEPT !.rec[f] = [NoRecord EXCEPT !.here = b]])
  /\ Forgotten(1)

Next == \/ Assignment \/ GlobalStatement \/ GlobalInitialized \/ Call \/ Use
        \/ End \/ ClearAll \/ ClearName \/ DefineX

Spec == Init /\ [][Next]_vars

-----------------------------------------------------------------------------
(***************************************************************************)
(* Properties                                                              *)
(***************************************************************************)

\* The records and the saved contexts that refer to d; 0 stands for the record.
Refs(d) ==
  {p \in Table \X (0 .. MaxDepth) :
     IF p[2] = 0 THEN rec[p[1]].def = d
     ELSE p[2] <= Len(rec[p[1]].ctx) /\ rec[p[1]].ctx[p[2]].def = d}

\* No record, saved context or hidden definition is left with memory that
\* maybe_delete has given back.
RefsLive ==
  \A c \in Reached(Store, UNION {Roots(Store, t) : t \in Table}) :
    heap[c].type # "deleted"

\* A symbol_def is counted at least as often as it is referred to.
CountCovers == \A c \in Cell : heap[c].type \notin {"free", "deleted"} =>
                  Cardinality(Refs(c)) <= heap[c].count

\* x has the value that the running activation has last given to it, whatever
\* other activations, also of the same function, have assigned, declared,
\* cleared or called meanwhile.
OwnValueKept ==
  act[Depth].own \in Values =>
    IsVariable(Store, Here) /\ heap[rec[Here].def].val = act[Depth].own

\* An activation that has declared x global has the definition of the global
\* symbol table, until somebody clears x or defines a function x: also when the
\* record was linked already by an earlier call or declaration.  Only who has
\* met a StaleLink does not count; see DeclaresGlobal.
DeclaredShared ==
  act[Depth].own = "global" =>
    rec[Here].linked /\ rec[Here].def = rec["Global"].def

\* The comment in Fclear: currently compiled functions are not cleared unless
\* we are at the top level.  A running function is deleted only by a new
\* definition of it.
RunningKept ==
  [][\A f \in Self :
       Running(f) /\ Exists(Store, f) /\ ~ Exists(Store', f) /\ Running(f)'
         => \E g \in Self \ {f} : Exists(Store', g)]_vars

\* var.tex: in order to change the value of the global variable, declare it to be
\* global within the function body.  No declaration meets a StaleLink: whoever
\* may declare x gets the definition of the global table by it.
DeclaresGlobal ==
  Here \notin Formal /\ Countable /\ MayBeGlobal =>
    LET S == LinkToGlobal(Mentioned(Store), Here)
    IN DefOf(S, Here) = DefOf(S, "Global")
=============================================================================

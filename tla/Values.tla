------------------------------- MODULE Values -------------------------------
(***************************************************************************)
(* What the user of the language sees of values: whoever has a value, be   *)
(* it a variable, a constant in the text of a program or a temporary of an *)
(* expression that is being evaluated, has it alone.  A statement changes  *)
(* the value of the variable that it names and nothing else.  CopyOnWrite  *)
(* implements this with shared, counted storage.  A value is a row vector. *)
(***************************************************************************)
EXTENDS Integers, Sequences

CONSTANTS Vars,      \* variables
          Lits,      \* constants of the program text
          Temps,     \* arguments, operands and right hand sides
          None,      \* no value
          Radix,     \* bound: elements are numbers modulo Radix
          Positions  \* bound: elements that assignments name

Users   == Vars \cup Lits \cup Temps
Elem    == 0 .. Radix - 1
Vectors == Seq(Elem)

VARIABLE value    \* per holder: its value

\* x (p) = r is an error.  x (0) is not if x has one element: the zero is a mask then, and
\* names nothing.
Wrong(x, p, r) == Len(r) > 1 \/ (p = 0 /\ Len(x) # 1)

\* x after x (p) = r: element p replaced, x grown with zeros to have one; if r is empty,
\* element p removed, if x has one; a single element goes whatever p names but nothing.
Put(x, p, r) ==
  IF p = 0 THEN x
  ELSE IF r # <<>> THEN [k \in 1 .. IF p > Len(x) THEN p ELSE Len(x) |->
                      IF k = p THEN r[1] ELSE IF k <= Len(x) THEN x[k] ELSE 0]
  ELSE IF Len(x) = 1 THEN <<>>
  ELSE IF p > Len(x) THEN x
  ELSE [k \in 1 .. Len(x) - 1 |-> IF k < p THEN x[k] ELSE x[k + 1]]

\* x after x++
Incremented(x) == [k \in 1 .. Len(x) |-> (x[k] + 1) % Radix]

Init == value = [h \in Users |-> None]

Set(h, x) == value' = [value EXCEPT ![h] = x]

\* The parser reads a constant; a function computes a value.
Appear(h) == value[h] = None /\ value'[h] \in Vectors /\ Set(h, value'[h])

Read      == \E l \in Lits : Appear(l)
Compute   == \E t \in Temps : Appear(t)
Copy      == \E t \in Temps, h \in Users : value[t] = None /\ Set(t, value[h])
Drop      == \E t \in Temps : Set(t, None)
Define    == \E v \in Vars, t \in Temps : value[t] # None /\ Set(v, value[t])
Clear     == \E v \in Vars : Set(v, None)
Increment == \E v \in Vars : value[v] # None /\ Set(v, Incremented(value[v]))
Assign    == \E v \in Vars, t \in Temps, p \in Positions :
               /\ value[v] # None /\ value[t] # None /\ ~Wrong(value[v], p, value[t])
               /\ Set(v, Put(value[v], p, value[t]))
\* The user interrupts: what was being evaluated is forgotten.
Interrupt == value' = [h \in Users |-> IF h \in Temps THEN None ELSE value[h]]

Next == \/ Read \/ Compute \/ Copy \/ Drop
        \/ Define \/ Clear \/ Increment \/ Assign \/ Interrupt

Spec == Init /\ [][Next]_value
=============================================================================

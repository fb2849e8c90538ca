---------------------------- MODULE MCEvaluator ----------------------------
(***************************************************************************)
(* The statement sets of the instances of Evaluator that TLC checks: each  *)
(* brings together the statements whose interplay a run is about.          *)
(***************************************************************************)
EXTENDS Evaluator

Protecting == {"simple", "error", "brk", "ret", "while", "if", "try", "unwind"}
Jumps      == {"error", "brk", "for", "try", "eval2", "script", "unwind"}
Calling    == {"error", "warning", "call", "for", "unwind", "trynocatch", "eval1"}
Continuing == {"simple", "cont", "while", "unwind"}
TryOnly    == {"simple", "error", "try"}
Recursing  == {"simple", "call"}
=============================================================================

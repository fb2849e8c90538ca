-------------------------- MODULE MCFunctionFiles --------------------------
(***************************************************************************)
(* The user's directory before one of the distribution, and as callers the *)
(* top level and one function.                                             *)
(***************************************************************************)
EXTENDS FunctionFiles

McPath == <<"mine", "sys">>
McTables == {"top", "caller"}
=============================================================================

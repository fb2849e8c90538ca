----------------------------- MODULE MCChildren -----------------------------
(***************************************************************************)
(* The sets of commands of the instances of Children that TLC checks.      *)
(***************************************************************************)
EXTENDS Children

Paging  == {"output", "error", "plot", "closeplot"}
Mixed   == {"plot", "system", "async", "waitpid"}
Shell   == {"system"}
Purging == {"async"}
=============================================================================

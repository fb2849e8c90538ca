----------------------------- MODULE MCFifoServer -----------------------------
(* The calls that clients of the fifo server make in the instances checked.   *)
EXTENDS FifoServer

AllOps == Requests
AddRemove == {"create", "remove"}
=============================================================================

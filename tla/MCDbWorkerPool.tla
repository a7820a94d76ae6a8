--------------------------- MODULE MCDbWorkerPool ---------------------------
(* DbWorkerPool with few operations, for TLC. *)
EXTENDS DbWorkerPool, TLC

CONSTANTS o1, o2, o3

MCOp == {o1, o2, o3}
MCAsks == {o1, o2}
=============================================================================

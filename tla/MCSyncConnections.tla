-------------------------- MODULE MCSyncConnections --------------------------
(* SyncConnections with two connections and two callers, for TLC. *)
EXTENDS SyncConnections, TLC

CONSTANTS t1, t2

MCCaller == {t1, t2}
=============================================================================

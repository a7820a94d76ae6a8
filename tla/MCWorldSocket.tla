--------------------------- MODULE MCWorldSocket ----------------------------
(* The network thread, the io thread and perhaps another sender; the sets are
   in the cfg. *)
EXTENDS WorldSocket
=============================================================================

--------------------------- MODULE MCDbTransaction ---------------------------
(* DbTransaction with two workers and two direct committers, for TLC.       *)
EXTENDS DbTransaction, TLC

CONSTANTS a1, a2, d1, d2

MCConn == {a1, a2, d1, d2}
MCAsync == {a1, a2}
\* Two statements for one worker, so that a fault can hit the first and the last;
\* one for the other worker and for a direct committer, and a direct committer
\* that hands over an empty transaction.
MCSize == a1 :> 2 @@ a2 :> 1 @@ d1 :> 1 @@ d2 :> 0
=============================================================================

----------------------------- MODULE MCEventLoop -----------------------------
(* EventLoopThread with two clients, one of them the owner, and three        *)
(* functors, for TLC.                                                        *)
EXTENDS EventLoopThread, TLC

CONSTANTS c1, c2, f1, f2, f3

MCClient == {c1, c2}
MCFunctor == {f1, f2, f3}
MCOwner == c1
=============================================================================

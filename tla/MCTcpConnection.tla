--------------------------- MODULE MCTcpConnection ---------------------------
EXTENDS TcpConnection, TLC
CONSTANTS c1, c2, m1, m2
MCCallers == {c1, c2}
MCCaller == {c1}
MCMsgs == {m1, m2}
MCSymmetry == Permutations(MCCallers) \cup Permutations(MCMsgs)
MCMsgSymmetry == Permutations(MCMsgs)
=============================================================================

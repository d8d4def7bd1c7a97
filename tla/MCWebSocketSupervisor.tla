----------------------- MODULE MCWebSocketSupervisor -----------------------
EXTENDS WebSocketSupervisor, TLC

\* The threads are alike.
Sym == Permutations(Thread)
=============================================================================

----------------------------- MODULE MCTcpServer -----------------------------
(***************************************************************************)
(* TcpServer for TLC: sockets are interchangeable, since nothing orders    *)
(* them but the accepts.                                                   *)
(***************************************************************************)
EXTENDS TcpServer, TLC

Symmetry == Permutations(Sockets)

=============================================================================

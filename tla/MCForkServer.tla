---------------------------- MODULE MCForkServer ----------------------------
(* The instance of ForkServer for TLC: all three programs. *)
EXTENDS ForkServerProps

MCPrograms == {TcpServer, TcpServerIo, TcpReadvServer}
=============================================================================

---------------------------- MODULE MCTcpServer ----------------------------
(* Two connections: at once on the base loop, and one after the other on the base
   loop, on one I/O loop, and on two I/O loops, where a descriptor that is used again
   moves between pollers.  Where another thread takes part it holds c1. *)
EXTENDS TcpServer

CONSTANTS c1, c2

MCConns == {c1, c2}
MCConfigs == {<<0, 1, {c1}>>, <<0, 2, {}>>, <<1, 1, {c1}>>, <<2, 1, {}>>}
=============================================================================

---------------------------- MODULE MCTcConsole -----------------------------
(* Two clients, lines of one byte and of two chunks, a log that fills up.  *)
EXTENDS TcConsole

CONSTANTS c1, c2

MCClients == {c1, c2}
MCLineLens == {1, 3}
=============================================================================

---------------------------- MODULE MCReconnect ----------------------------
(***************************************************************************)
(* The reconnect loop with the program's own figures, in ticks of 500 ms.  *)
(* Eleven seconds of a session are enough to tell short from healthy.      *)
(***************************************************************************)
EXTENDS Reconnect

MCFirst    == 1
MCMax      == 60
MCHealthy  == 20
MCMaxTicks == 22
============================================================================

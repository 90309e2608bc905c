----------------------------- MODULE MCShutdown -----------------------------
(* Shutdown for TLC: both sources and both guis, with a window that opens  *)
(* pop-ups, and two signals.                                               *)
EXTENDS Shutdown

TheWindows == <<"TCP">>
TheOpeners == {"TCP"}

=============================================================================

--------------------------- MODULE MCHardWatchdog ---------------------------
(* HardWatchdog with wall-clock steps in both directions (a negative       *)
(* number cannot be written in a configuration file).                      *)
EXTENDS HardWatchdog

Steps == {-3, 2}

\* One larger correction backwards, as NTP makes after a long drift.
BackStep == {-12}
=============================================================================

--------------------------- MODULE DeadMansSwitch ---------------------------
(***************************************************************************)
(* What the hard watchdog promises about its estop latch, with no clock,   *)
(* bus or zero vector in sight: it trips only on a control loop that went  *)
(* silent, says so on the estop topic, and takes it back only after the    *)
(* loop was heard again or on its own way out.  HardWatchdog implements    *)
(* this specification.                                                     *)
(***************************************************************************)
CONSTANTS ClockGoesBack,  \* whether the wall clock may be set back
          MayShutDown     \* whether anybody calls HardWatchdog::shutdown

VARIABLES silent,   \* something holds the control loop up: no beat need come in time
          heard,    \* the last beat is within the timeout
          phase,    \* the watchdog's thread: "watch", or the put on the estop topic
                    \* it owes ("engage", "release", "last_release"), or "stopped"
          tripped,  \* HardWatchdog::tripped
          stop,     \* HardWatchdog::stop
          word      \* what the watchdog last said on the estop topic

loop_vars == <<silent, heard>>
switch_vars == <<phase, tripped, word>>
svars == <<loop_vars, switch_vars, stop>>

Init == /\ silent = FALSE /\ heard = TRUE
        /\ phase = "watch" /\ tripped = FALSE /\ stop = FALSE
        /\ word = FALSE

-----------------------------------------------------------------------------
(* The control loop and the clock its beats are dated with.                *)

\* A beat; or the loop goes on before its last beat has grown old.
Beat == heard' = TRUE /\ silent' = FALSE

\* The loop is held up; its last beat may look old at once (the clock is set
\* forward).
FallSilent == ~silent /\ silent' = TRUE /\ heard' \in {heard, FALSE}

\* Only the beat of a silent loop grows old.
Expire == silent /\ heard' = FALSE /\ UNCHANGED silent

\* The old beat of a silent loop looks fresh again.
LookFresh == ClockGoesBack /\ heard' = TRUE /\ UNCHANGED silent

Loop == /\ Beat \/ FallSilent \/ Expire \/ LookFresh
        /\ UNCHANGED <<switch_vars, stop>>

-----------------------------------------------------------------------------
(* The watchdog.                                                           *)

Trip == /\ phase = "watch" /\ ~stop
        /\ ~heard
        /\ ~tripped
        /\ tripped' = TRUE
        /\ phase' = "engage"
        /\ UNCHANGED <<loop_vars, stop, word>>

Engage == /\ phase = "engage"
          /\ word' = TRUE
          /\ phase' = "watch"
          /\ UNCHANGED <<loop_vars, tripped, stop>>

Restore == /\ phase = "watch" /\ ~stop
           /\ heard
           /\ tripped
           /\ tripped' = FALSE
           /\ phase' = "release"
           /\ UNCHANGED <<loop_vars, stop, word>>

Release == /\ phase = "release"
           /\ word' = FALSE
           /\ phase' = "watch"
           /\ UNCHANGED <<loop_vars, tripped, stop>>

ShutDown == /\ MayShutDown
            /\ ~stop
            /\ stop' = TRUE
            /\ UNCHANGED <<loop_vars, switch_vars>>

\* The thread leaves its loop, after letting go of what it holds.
Leave == /\ phase = "watch" /\ stop
         /\ tripped' = FALSE
         /\ phase' = IF tripped THEN "last_release" ELSE "stopped"
         /\ UNCHANGED <<loop_vars, stop, word>>

LastRelease == /\ phase = "last_release"
               /\ word' = FALSE
               /\ phase' = "stopped"
               /\ UNCHANGED <<loop_vars, tripped, stop>>

Watchdog == Trip \/ Engage \/ Restore \/ Release \/ Leave \/ LastRelease

Next == Loop \/ ShutDown \/ Watchdog

Spec == Init /\ [][Next]_svars
=============================================================================

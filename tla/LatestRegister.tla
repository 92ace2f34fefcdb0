--------------------------- MODULE LatestRegister ---------------------------
(***************************************************************************)
(* What the capacity-1 command buffer between the skill sandboxes (Core 2) *)
(* and the control loop (Core 1) promises, with no pointer, heap or thread *)
(* in sight: a command handed over is eventually published, the newest     *)
(* publication wins, and a frame that finds nothing fresh keeps the vector *)
(* it already had.  LatestCommand implements this specification.           *)
(***************************************************************************)
EXTENDS Naturals

CONSTANTS MaxInject,  \* bound on the skill packages injected
          Empty       \* no command is waiting; not a number

VARIABLES injected,   \* skill packages accepted so far; package n asks for vector n
          pending,    \* vectors handed to a sandbox and not yet published
          fresh,      \* the published vector no frame has used yet, or Empty
          current     \* the vector in force, 0 standing for the zero vector

rvars == <<injected, pending, fresh, current>>

Init == /\ injected = 0
        /\ pending = {}
        /\ fresh = Empty
        /\ current = 0

\* A package arrives: its vector will be published.
Accept == /\ injected < MaxInject
          /\ injected' = injected + 1
          /\ pending' = pending \cup {injected'}
          /\ UNCHANGED <<fresh, current>>

\* The vector of one package becomes the newest one, whatever was fresh before.
Publish(c) == /\ c \in pending
              /\ pending' = pending \ {c}
              /\ fresh' = c
              /\ UNCHANGED <<injected, current>>

\* A frame takes what is fresh, or goes on with what it has.
Frame == /\ fresh # Empty
         /\ fresh' = Empty
         /\ current' = fresh
         /\ UNCHANGED <<injected, pending>>

Next == \/ Accept
        \/ \E c \in 1..MaxInject : Publish(c)
        \/ Frame

Spec == /\ Init
        /\ [][Next]_rvars
        /\ \A c \in 1..MaxInject : WF_rvars(Publish(c))
        /\ WF_rvars(Frame)
=============================================================================

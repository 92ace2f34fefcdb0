---------------------------- MODULE LatestCommand ----------------------------
(***************************************************************************)
(* The lock-free single-slot register of diagnostics/frequency_enforcer.rs *)
(* (LatestCommand), its producers (one OS thread per injected skill,       *)
(* registry/wasm_runner.rs) and its consumer (the control loop).  The slot *)
(* holds a raw pointer, so the memory safety of the three unsafe blocks    *)
(* rests on who owns which heap cell: the heap is modelled cell by cell,   *)
(* addresses are reused after a drop, and every atomic swap, allocation    *)
(* and drop is a step of its own.                                          *)
(***************************************************************************)
EXTENDS Naturals

CONSTANTS Skills,     \* sandbox threads that may be alive at the same time
          RT,         \* the control-loop thread
          Ptr,        \* heap addresses
          Null,       \* ptr::null_mut()
          Freed,      \* content of a cell nobody has allocated
          MaxInject   \* bound on the skill packages injected

ASSUME LatestCommandAssumption ==
    /\ RT \notin Skills
    /\ Null \notin Ptr \cup Nat
    /\ Freed \notin Nat
    /\ MaxInject \in Nat

Thread == Skills \cup {RT}

VARIABLES slot,        \* LatestCommand::slot
          heap,        \* address -> the CommandVector in the box, or Freed
          pc,          \* where each thread is
          reg,         \* the raw pointer each thread holds in a local
          vec,         \* the vector each sandbox computed from its package
          injected,    \* packages received by listen_for_skills
          last_valid   \* the vector the control loop falls back to

vars == <<slot, heap, pc, reg, vec, injected, last_valid>>

Init == /\ slot = Null
        /\ heap = [a \in Ptr |-> Freed]
        /\ pc = [t \in Thread |-> IF t = RT THEN "tick" ELSE "exited"]
        /\ reg = [t \in Thread |-> Null]
        /\ vec = [s \in Skills |-> 0]
        /\ injected = 0
        /\ last_valid = 0

-----------------------------------------------------------------------------
(* The sandbox threads.                                                    *)

\* listen_for_skills receives a package and spawns its thread at once, never
\* waiting for the threads spawned before.  (A spawn the system refuses ends
\* the listener, and the package with it: no thread, no box.)
SpawnSkill(s) == /\ pc[s] = "exited"
                 /\ injected < MaxInject
                 /\ injected' = injected + 1
                 /\ vec' = [vec EXCEPT ![s] = injected']
                 /\ pc' = [pc EXCEPT ![s] = "run"]
                 /\ UNCHANGED <<slot, heap, reg, last_valid>>

\* publish: Box::into_raw(Box::new(cmd)) at any free address.
BoxCommand(s) == /\ pc[s] = "run"
                 /\ \E a \in Ptr :
                       /\ heap[a] = Freed
                       /\ heap' = [heap EXCEPT ![a] = vec[s]]
                       /\ reg' = [reg EXCEPT ![s] = a]
                 /\ pc' = [pc EXCEPT ![s] = "swap"]
                 /\ UNCHANGED <<slot, vec, injected, last_valid>>

\* Mutant: a compare_exchange from null that gives up when the slot is taken.
SwapInIfEmpty(s) == /\ pc[s] = "swap"
                    /\ slot' = IF slot = Null THEN reg[s] ELSE slot
                    /\ reg' = [reg EXCEPT ![s] = IF slot = Null THEN Null ELSE @]
                    /\ pc' = [pc EXCEPT ![s] = "drop"]
                    /\ UNCHANGED <<heap, vec, injected, last_valid>>

\* publish: slot.swap(new, AcqRel); the thread now holds the old pointer.
SwapIn(s) == /\ pc[s] = "swap"
             /\ slot' = reg[s]
             /\ reg' = [reg EXCEPT ![s] = slot]
             /\ pc' = [pc EXCEPT ![s] = "drop"]
             /\ UNCHANGED <<heap, vec, injected, last_valid>>

\* publish: drop(Box::from_raw(old)) unless null; then the thread ends.
DropOld(s) == /\ pc[s] = "drop"
              /\ heap' = [a \in Ptr |-> IF a = reg[s] THEN Freed ELSE heap[a]]
              /\ reg' = [reg EXCEPT ![s] = Null]
              /\ pc' = [pc EXCEPT ![s] = "exited"]
              /\ UNCHANGED <<slot, vec, injected, last_valid>>

SkillStep(s) == SpawnSkill(s) \/ BoxCommand(s) \/ SwapIn(s) \/ DropOld(s)

-----------------------------------------------------------------------------
(* The control loop.                                                       *)

\* Mutant: the slot is loaded and not emptied.
LoadSlot == /\ pc[RT] = "tick"
            /\ reg' = [reg EXCEPT ![RT] = slot]
            /\ pc' = [pc EXCEPT ![RT] = "own"]
            /\ UNCHANGED <<slot, heap, vec, injected, last_valid>>

\* take_or (and take): slot.swap(null, AcqRel).
TakeSlot == /\ pc[RT] = "tick"
            /\ reg' = [reg EXCEPT ![RT] = slot]
            /\ slot' = Null
            /\ pc' = [pc EXCEPT ![RT] = "own"]
            /\ UNCHANGED <<heap, vec, injected, last_valid>>

\* take_or: an empty slot returns the fallback, which is last_valid itself.
Fallback == /\ pc[RT] = "own"
            /\ reg[RT] = Null
            /\ pc' = [pc EXCEPT ![RT] = "tick"]
            /\ UNCHANGED <<slot, heap, reg, vec, injected, last_valid>>

\* Mutant: the box is dropped before the vector is moved out of it.
ConsumeAfterDrop == /\ pc[RT] = "own"
                    /\ reg[RT] # Null
                    /\ heap' = [heap EXCEPT ![reg[RT]] = Freed]
                    /\ last_valid' = heap'[reg[RT]]
                    /\ reg' = [reg EXCEPT ![RT] = Null]
                    /\ pc' = [pc EXCEPT ![RT] = "tick"]
                    /\ UNCHANGED <<slot, vec, injected>>

\* take_or: *Box::from_raw(ptr) moves the vector out and frees the box; the
\* loop keeps it as last_valid.
Consume == /\ pc[RT] = "own"
           /\ reg[RT] # Null
           /\ last_valid' = heap[reg[RT]]
           /\ heap' = [heap EXCEPT ![reg[RT]] = Freed]
           /\ reg' = [reg EXCEPT ![RT] = Null]
           /\ pc' = [pc EXCEPT ![RT] = "tick"]
           /\ UNCHANGED <<slot, vec, injected>>

LoopStep == TakeSlot \/ Fallback \/ Consume

-----------------------------------------------------------------------------
Next == LoopStep \/ \E s \in Skills : SkillStep(s)

(***************************************************************************)
(* Both kinds of thread are OS threads the kernel keeps scheduling and no  *)
(* step waits for another thread, so each thread that can step does.       *)
(* Packages need not arrive: SpawnSkill is not fair.                       *)
(***************************************************************************)
Fairness == /\ WF_vars(LoopStep)
            /\ \A s \in Skills :
                  WF_vars(BoxCommand(s) \/ SwapIn(s) \/ DropOld(s))

Spec == Init /\ [][Next]_vars /\ Fairness

-----------------------------------------------------------------------------
(* Every variable holds a value of its type; in particular the control     *)
(* loop never adopts the content of a freed box.                           *)
TypeOK == /\ slot \in Ptr \cup {Null}
          /\ heap \in [Ptr -> Nat \cup {Freed}]
          /\ pc \in [Thread -> {"exited", "run", "swap", "drop", "tick", "own"}]
          /\ reg \in [Thread -> Ptr \cup {Null}]
          /\ vec \in [Skills -> Nat]
          /\ injected \in Nat
          /\ last_valid \in Nat

(***************************************************************************)
(* "Each pointer lives in exactly one of the two sides"                    *)
(* (frequency_enforcer.rs:150): a box is reachable from the slot or from   *)
(* one thread, never from two places (no double free, no use after free),  *)
(* and a box nobody reaches has been freed (no leak).                      *)
(***************************************************************************)
OneOwner(a) ==
    /\ slot = a => \A t \in Thread : reg[t] # a
    /\ \A t, u \in Thread : reg[t] = a /\ reg[u] = a => t = u

Reachable(a) == slot = a \/ \E t \in Thread : reg[t] = a

ExclusiveOwnership ==
    \A a \in Ptr : OneOwner(a) /\ (heap[a] # Freed <=> Reachable(a))

(***************************************************************************)
(* The register the pointers implement: a vector is pending until its swap,*)
(* fresh while it sits in the slot, and in force from the loop's own swap  *)
(* (the value it is about to move out of the box).                         *)
(***************************************************************************)
InForce == IF pc[RT] = "own" /\ reg[RT] # Null THEN heap[reg[RT]] ELSE last_valid

Register == INSTANCE LatestRegister WITH
    Empty   <- Null,
    pending <- {vec[s] : s \in {r \in Skills : pc[r] \in {"run", "swap"}}},
    fresh   <- IF slot = Null THEN Null ELSE heap[slot],
    current <- InForce

\* The slot implements the register, fairness included: no publication is
\* lost or applied twice, the newest wins, an empty slot changes nothing, and
\* a skill's vector reaches the motors unless a newer one replaces it.
ImplementsRegister == Register!Spec
=============================================================================

------------------------- MODULE LatestCommandProofs -------------------------
(***************************************************************************)
(* For any number of sandbox threads, addresses and packages: the slot's   *)
(* pointers have exactly one owner, and LatestCommand takes only steps     *)
(* LatestRegister allows.                                                  *)
(***************************************************************************)
EXTENDS LatestCommand, TLAPS

(* What a thread holds at each point of its code, and what it knows of it. *)
LocalInv ==
    /\ pc[RT] \in {"tick", "own"}
    /\ pc[RT] = "tick" => reg[RT] = Null
    /\ \A s \in Skills :
          /\ pc[s] \in {"exited", "run", "swap", "drop"}
          /\ pc[s] \in {"exited", "run"} => reg[s] = Null
          /\ pc[s] = "swap" => reg[s] # Null /\ heap[reg[s]] = vec[s]

(* The packages being processed are different ones, all of them received.  *)
PackageInv ==
    /\ injected <= MaxInject
    /\ \A s \in Skills : pc[s] \in {"run", "swap"} =>
          /\ vec[s] \in 1..injected
          /\ \A u \in Skills :
                pc[u] \in {"run", "swap"} /\ vec[u] = vec[s] => u = s

IInv == TypeOK /\ ExclusiveOwnership /\ LocalInv /\ PackageInv

-----------------------------------------------------------------------------
LEMMA InitInv == Init => IInv
BY LatestCommandAssumption
   DEF Init, IInv, TypeOK, ExclusiveOwnership, OneOwner, Reachable, LocalInv,
       PackageInv, Thread

LEMMA SpawnSkillInv ==
    ASSUME IInv, NEW s \in Skills, SpawnSkill(s)
    PROVE  IInv'
BY LatestCommandAssumption
   DEF SpawnSkill, IInv, TypeOK, ExclusiveOwnership, OneOwner, Reachable,
       LocalInv, PackageInv, Thread

LEMMA BoxCommandInv ==
    ASSUME IInv, NEW s \in Skills, BoxCommand(s)
    PROVE  IInv'
<1> USE LatestCommandAssumption DEF BoxCommand, IInv, Thread
<1>1. PICK a \in Ptr : /\ heap[a] = Freed
                       /\ heap' = [heap EXCEPT ![a] = vec[s]]
                       /\ reg' = [reg EXCEPT ![s] = a]
  OBVIOUS
<1>2. TypeOK'
  BY <1>1 DEF TypeOK
<1>3. vec[s] # Freed /\ ~Reachable(a) /\ reg[s] = Null
  BY <1>1 DEF TypeOK, ExclusiveOwnership, LocalInv
<1>4. ExclusiveOwnership'
  BY <1>1, <1>3 DEF TypeOK, ExclusiveOwnership, OneOwner, Reachable
<1>5. LocalInv'
  <2>1. \A u \in Skills : u # s /\ pc[u] = "swap" => reg[u] # a
    BY <1>3 DEF Reachable
  <2> QED BY <1>1, <2>1 DEF TypeOK, LocalInv
<1>6. PackageInv'
  BY DEF TypeOK, PackageInv
<1> QED BY <1>2, <1>4, <1>5, <1>6

LEMMA SwapInInv ==
    ASSUME IInv, NEW s \in Skills, SwapIn(s)
    PROVE  IInv'
<1> USE LatestCommandAssumption DEF SwapIn, IInv, Thread
<1>1. TypeOK'
  BY DEF TypeOK
<1>2. ExclusiveOwnership'
  BY DEF TypeOK, ExclusiveOwnership, OneOwner, Reachable, LocalInv
<1>3. LocalInv'
  BY DEF TypeOK, LocalInv
<1>4. PackageInv'
  BY DEF TypeOK, PackageInv
<1> QED BY <1>1, <1>2, <1>3, <1>4

LEMMA DropOldInv ==
    ASSUME IInv, NEW s \in Skills, DropOld(s)
    PROVE  IInv'
<1> USE LatestCommandAssumption DEF DropOld, IInv, Thread
<1>1. TypeOK'
  BY DEF TypeOK
<1>2. ExclusiveOwnership'
  BY DEF TypeOK, ExclusiveOwnership, OneOwner, Reachable, LocalInv
<1>3. LocalInv'
  BY DEF TypeOK, LocalInv, ExclusiveOwnership, OneOwner
<1>4. PackageInv'
  BY DEF TypeOK, PackageInv
<1> QED BY <1>1, <1>2, <1>3, <1>4

LEMMA LoopStepInv ==
    ASSUME IInv, LoopStep
    PROVE  IInv'
<1> USE LatestCommandAssumption DEF IInv, Thread
<1>1. CASE TakeSlot
  BY <1>1 DEF TakeSlot, TypeOK, ExclusiveOwnership, OneOwner, Reachable,
              LocalInv, PackageInv
<1>2. CASE Fallback
  BY <1>2 DEF Fallback, TypeOK, ExclusiveOwnership, OneOwner, Reachable,
              LocalInv, PackageInv
<1>3. CASE Consume
  <2> USE <1>3 DEF Consume
  <2>1. reg[RT] \in Ptr /\ heap[reg[RT]] \in Nat
    BY DEF TypeOK, ExclusiveOwnership, Reachable
  <2>2. TypeOK'
    BY <2>1 DEF TypeOK
  <2>3. ExclusiveOwnership'
    BY <2>1 DEF TypeOK, ExclusiveOwnership, OneOwner, Reachable
  <2>4. LocalInv'
    BY <2>1 DEF TypeOK, LocalInv, ExclusiveOwnership, OneOwner
  <2>5. PackageInv'
    BY DEF TypeOK, PackageInv
  <2> QED BY <2>2, <2>3, <2>4, <2>5
<1> QED BY <1>1, <1>2, <1>3 DEF LoopStep

LEMMA NextInv == IInv /\ [Next]_vars => IInv'
<1> SUFFICES ASSUME IInv, [Next]_vars PROVE IInv'
  OBVIOUS
<1>1. CASE LoopStep
  BY <1>1, LoopStepInv
<1>2. CASE \E s \in Skills : SkillStep(s)
  BY <1>2, SpawnSkillInv, BoxCommandInv, SwapInInv, DropOldInv DEF SkillStep
<1>3. CASE UNCHANGED vars
  BY <1>3 DEF vars, IInv, TypeOK, ExclusiveOwnership, OneOwner, Reachable,
              LocalInv, PackageInv
<1> QED BY <1>1, <1>2, <1>3 DEF Next

(* Type correctness: the loop only ever adopts a vector some sandbox       *)
(* computed, never the content of a freed box.                             *)
THEOREM TypeCorrect == Spec => []TypeOK
<1>1. IInv => TypeOK
  BY DEF IInv
<1> QED BY <1>1, InitInv, NextInv, PTL DEF Spec

(* LatestCommand's comment "each pointer lives in exactly one of the two   *)
(* sides": no double free, no use after free and no leak, whatever the     *)
(* number of racing sandboxes and however addresses are reused.            *)
THEOREM Ownership == Spec => []ExclusiveOwnership
<1>1. IInv => ExclusiveOwnership
  BY DEF IInv
<1> QED BY <1>1, InitInv, NextInv, PTL DEF Spec

-----------------------------------------------------------------------------
(* Refinement: what each step of the pointers is to the register.          *)

LEMMA InitRefines == Init => Register!Init
BY LatestCommandAssumption DEF Init, Register!Init, InForce, Thread

LEMMA SpawnSkillRefines ==
    ASSUME IInv, NEW s \in Skills, SpawnSkill(s)
    PROVE  Register!Accept
<1> USE LatestCommandAssumption DEF SpawnSkill, IInv, TypeOK, Thread
<1>1. {vec'[u] : u \in {r \in Skills : pc'[r] \in {"run", "swap"}}}
        = {vec[u] : u \in {r \in Skills : pc[r] \in {"run", "swap"}}}
            \cup {injected'}
  OBVIOUS
<1>2. UNCHANGED InForce
  BY DEF InForce
<1> QED BY <1>1, <1>2 DEF Register!Accept

LEMMA BoxCommandRefines ==
    ASSUME IInv, NEW s \in Skills, BoxCommand(s)
    PROVE  UNCHANGED Register!rvars
<1> USE LatestCommandAssumption DEF BoxCommand, IInv, Thread
<1>1. PICK a \in Ptr : /\ heap[a] = Freed
                       /\ heap' = [heap EXCEPT ![a] = vec[s]]
                       /\ reg' = [reg EXCEPT ![s] = a]
  OBVIOUS
<1>2. slot # a /\ reg[RT] # a
  BY <1>1 DEF ExclusiveOwnership, Reachable
<1>3. UNCHANGED InForce
  BY <1>1, <1>2 DEF InForce, TypeOK
<1>4. slot # Null => heap'[slot] = heap[slot]
  BY <1>1, <1>2 DEF TypeOK
<1>5. {vec'[u] : u \in {r \in Skills : pc'[r] \in {"run", "swap"}}}
        = {vec[u] : u \in {r \in Skills : pc[r] \in {"run", "swap"}}}
  BY DEF TypeOK
<1> QED BY <1>3, <1>4, <1>5 DEF Register!rvars

LEMMA SwapInRefines ==
    ASSUME IInv, NEW s \in Skills, SwapIn(s)
    PROVE  \E c \in 1..MaxInject : Register!Publish(c)
<1> USE LatestCommandAssumption DEF SwapIn, IInv, TypeOK, Thread
<1>1. vec[s] \in 1..MaxInject
  BY DEF PackageInv
<1>2. {vec'[u] : u \in {r \in Skills : pc'[r] \in {"run", "swap"}}}
        = {vec[u] : u \in {r \in Skills : pc[r] \in {"run", "swap"}}} \ {vec[s]}
  BY DEF PackageInv
<1>3. UNCHANGED InForce
  BY DEF InForce
<1>4. slot' # Null /\ heap'[slot'] = vec[s]
  BY DEF LocalInv
<1> QED BY <1>1, <1>2, <1>3, <1>4 DEF Register!Publish

LEMMA DropOldRefines ==
    ASSUME IInv, NEW s \in Skills, DropOld(s)
    PROVE  UNCHANGED Register!rvars
<1> USE LatestCommandAssumption DEF DropOld, IInv, TypeOK, Thread
<1>1. reg[s] # Null => slot # reg[s] /\ reg[RT] # reg[s]
  BY DEF ExclusiveOwnership, OneOwner
<1>2. UNCHANGED InForce
  BY <1>1 DEF InForce
<1>3. slot # Null => heap'[slot] = heap[slot]
  BY <1>1
<1>4. {vec'[u] : u \in {r \in Skills : pc'[r] \in {"run", "swap"}}}
        = {vec[u] : u \in {r \in Skills : pc[r] \in {"run", "swap"}}}
  OBVIOUS
<1> QED BY <1>2, <1>3, <1>4 DEF Register!rvars

LEMMA LoopStepRefines ==
    ASSUME IInv, LoopStep
    PROVE  Register!Frame \/ UNCHANGED Register!rvars
<1> USE LatestCommandAssumption DEF IInv, TypeOK, Thread
<1>1. CASE TakeSlot
  <2> USE <1>1 DEF TakeSlot
  <2>1. {vec'[u] : u \in {r \in Skills : pc'[r] \in {"run", "swap"}}}
          = {vec[u] : u \in {r \in Skills : pc[r] \in {"run", "swap"}}}
    OBVIOUS
  <2>2. InForce = last_valid /\ slot' = Null
    BY DEF InForce, LocalInv
  <2>3. CASE slot = Null
    BY <2>1, <2>2, <2>3 DEF InForce, Register!rvars
  <2>4. CASE slot # Null
    <3>1. heap[slot] # Null
      BY <2>4 DEF ExclusiveOwnership, Reachable
    <3> QED BY <2>1, <2>2, <2>4, <3>1 DEF InForce, Register!Frame
  <2> QED BY <2>3, <2>4
<1>2. CASE Fallback
  BY <1>2 DEF Fallback, InForce, Register!rvars
<1>3. CASE Consume
  <2> USE <1>3 DEF Consume
  <2>1. {vec'[u] : u \in {r \in Skills : pc'[r] \in {"run", "swap"}}}
          = {vec[u] : u \in {r \in Skills : pc[r] \in {"run", "swap"}}}
    OBVIOUS
  <2>2. UNCHANGED InForce
    BY DEF InForce
  <2>3. slot # Null => heap'[slot] = heap[slot]
    BY DEF ExclusiveOwnership, OneOwner
  <2> QED BY <2>1, <2>2, <2>3 DEF Register!rvars
<1> QED BY <1>1, <1>2, <1>3 DEF LoopStep

(* The safety half of ImplementsRegister: the racing pointer swaps take    *)
(* only steps of the register, so the newest publication wins, nothing is  *)
(* applied twice and an empty slot leaves the vector in force alone.       *)
THEOREM RefinesRegister == Spec => Register!Init /\ [][Register!Next]_(Register!rvars)
<1>1. IInv /\ [Next]_vars => [Register!Next]_(Register!rvars)
  <2> SUFFICES ASSUME IInv, [Next]_vars PROVE [Register!Next]_(Register!rvars)
    OBVIOUS
  <2>1. CASE LoopStep
    BY <2>1, LoopStepRefines DEF Register!Next
  <2>2. CASE \E s \in Skills : SkillStep(s)
    BY <2>2, SpawnSkillRefines, BoxCommandRefines, SwapInRefines, DropOldRefines
       DEF SkillStep, Register!Next
  <2>3. CASE UNCHANGED vars
    BY <2>3 DEF vars, InForce, Register!rvars
  <2> QED BY <2>1, <2>2, <2>3 DEF Next
<1> QED BY <1>1, InitRefines, InitInv, NextInv, PTL DEF Spec
=============================================================================

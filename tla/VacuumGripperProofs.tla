------------------------ MODULE VacuumGripperProofs ------------------------
(***************************************************************************)
(* Proofs about the vacuum cup, for any products, payloads and delays: its *)
(* types, that every seal was earned, and that it implements Suction.      *)
(***************************************************************************)
EXTENDS VacuumGripper, TLAPS

(* The seal timer runs only while the cup is covered, and no longer.        *)
TimerCovered == sealAge # Unset => coveredFor > sealAge

(* A product that is pending still waits for some of its weld steps.        *)
WeldAhead == pending # NoProduct => pendingSteps < WeldSteps

IInv == TypeOK /\ SealEarned /\ TimerCovered /\ WeldAhead

USE DEF Unset

(* A cup just loaded satisfies the invariant.                               *)
LEMMA InitIInv == Init => IInv
<1> SUFFICES ASSUME Init PROVE IInv
  OBVIOUS
<1>1. /\ 0 \in 0 .. WeldSteps /\ 0 \in 0 .. PublishEvery - 1
      /\ 0 \in 0 .. SealDelay + 1 /\ 0 \in 0 .. ReleaseDelay + 1
      /\ Unset \in Unset .. SealDelay /\ Unset \in Unset .. ReleaseDelay
  BY DelaysAssumption
<1>2. TypeOK
  BY <1>1 DEF Init, TypeOK
<1>3. SealEarned /\ TimerCovered /\ WeldAhead
  BY ProductsAssumption DEF Init, SealEarned, TimerCovered, WeldAhead, Sealed
<1> QED
  BY <1>2, <1>3 DEF IInv

(* Commands, motion of the cup and removals keep it.                        *)
LEMMA WorldKeepsIInv ==
  ASSUME IInv,
         CupMoves \/ (\E p \in Products : Despawn(p))
         \/ (\E on \in BOOLEAN, p \in Products \cup {NoProduct} : OnCmd(on, p))
  PROVE  IInv'
<1> USE DEF IInv
<1>1. TypeOK'
  BY DEF TypeOK, CupMoves, Despawn, OnCmd, grip, world, history, command
<1>2. SealEarned' /\ TimerCovered' /\ WeldAhead'
  BY DEF CupMoves, Despawn, OnCmd, grip, world, history, command, SealEarned,
         TimerCovered, WeldAhead, Sealed
<1> QED
  BY <1>1, <1>2

(* The timers stay within their limits, and never run backwards.            *)
LEMMA AgedType ==
  ASSUME NEW limit \in Nat, NEW age \in Unset .. limit
  PROVE  /\ Aged(age, limit) \in Unset .. limit
         /\ Started(age, limit) \in 0 .. limit
         /\ age = Unset => Started(age, limit) = 0 /\ Aged(age, limit) = Unset
         /\ age # Unset => /\ Started(age, limit) = Aged(age, limit)
                           /\ Aged(age, limit) # Unset
                           /\ Aged(age, limit) <= age + 1
BY DEF Aged, Started

(* What a step publishes and remembers is well typed.                       *)
LEMMA PublishType ==
  ASSUME TypeOK, Publish, Observe, joint' \in Products \cup {NoProduct}
  PROVE  /\ sincePub' \in 0 .. PublishEvery - 1
         /\ state' \in [commanded : BOOLEAN, model : Products \cup {NoProduct}]
         /\ coveredFor' \in 0 .. SealDelay + 1
         /\ offFor' \in 0 .. ReleaseDelay + 1
<1>1. sincePub' \in 0 .. PublishEvery - 1
  BY DelaysAssumption DEF TypeOK, Publish
<1>2. state' \in [commanded : BOOLEAN, model : Products \cup {NoProduct}]
  BY DEF TypeOK, Publish
<1>3. coveredFor' \in 0 .. SealDelay + 1 /\ offFor' \in 0 .. ReleaseDelay + 1
  BY DelaysAssumption DEF TypeOK, Observe
<1> QED
  BY <1>1, <1>2, <1>3

(* How the history of a covered cup grows.                                  *)
LEMMA CoveredGrows ==
  ASSUME TypeOK, Observe, cmdOn, Sealed \/ pending # NoProduct \/ Found # {}
  PROVE  /\ coveredFor' >= coveredFor /\ coveredFor' >= 1
         /\ coveredFor' <= SealDelay => coveredFor' = coveredFor + 1
BY DelaysAssumption DEF TypeOK, Observe

(* The two ways in which a covered cup moves the seal timer.                *)
LEMMA TimerKept ==
  ASSUME IInv, Observe, cmdOn, Sealed \/ pending # NoProduct \/ Found # {},
         \/ sealAge' = Aged(sealAge, SealDelay)
         \/ sealAge' = Started(sealAge, SealDelay)
  PROVE  TimerCovered' /\ sealAge' \in Unset .. SealDelay
<1>1. /\ SealDelay \in Nat /\ sealAge \in Unset .. SealDelay
      /\ coveredFor \in 0 .. SealDelay + 1
      /\ sealAge # Unset => coveredFor > sealAge
  BY DelaysAssumption DEF IInv, TypeOK, TimerCovered
<1>2. /\ coveredFor' \in 0 .. SealDelay + 1
      /\ coveredFor' >= coveredFor /\ coveredFor' >= 1
      /\ coveredFor' <= SealDelay => coveredFor' = coveredFor + 1
  BY <1>1, CoveredGrows DEF IInv, Observe
<1>3. \/ sealAge' = Unset
      \/ sealAge = Unset /\ sealAge' = 0
      \/ sealAge # Unset /\ sealAge' \in 0 .. SealDelay
         /\ sealAge' <= sealAge + 1
  BY <1>1 DEF Aged, Started
<1> QED
  BY <1>1, <1>2, <1>3 DEF TimerCovered

(* The types of what a physics step decides.                                *)
LEMMA StepType ==
  ASSUME IInv, Hold \/ Weld \/ LoseContact \/ Lift \/ Release
  PROVE  /\ joint' \in Products \cup {NoProduct}
         /\ pending' \in Products \cup {NoProduct}
         /\ pendingSteps' \in 0 .. WeldSteps
         /\ sealAge' \in Unset .. SealDelay
         /\ releaseAge' \in Unset .. ReleaseDelay
<1> USE DEF IInv
<1>1. /\ Aged(sealAge, SealDelay) \in Unset .. SealDelay
      /\ Started(sealAge, SealDelay) \in Unset .. SealDelay
      /\ Aged(releaseAge, ReleaseDelay) \in Unset .. ReleaseDelay
      /\ Started(releaseAge, ReleaseDelay) \in Unset .. ReleaseDelay
      /\ Unset \in Unset .. SealDelay /\ Unset \in Unset .. ReleaseDelay
  <2>1. /\ SealDelay \in Nat /\ sealAge \in Unset .. SealDelay
        /\ ReleaseDelay \in Nat /\ releaseAge \in Unset .. ReleaseDelay
    BY DelaysAssumption DEF TypeOK
  <2>2. \A limit \in Nat : 0 .. limit \subseteq Unset .. limit
                          /\ Unset \in Unset .. limit
    OBVIOUS
  <2> QED
    BY <2>1, <2>2, AgedType
<1>2. CASE Hold
  BY <1>1, <1>2 DEF Hold, TypeOK
<1>3. CASE Weld
  BY <1>1, <1>3, DelaysAssumption, ProductsAssumption DEF Weld, TypeOK, WeldAhead
<1>4. CASE LoseContact
  BY <1>1, <1>4 DEF LoseContact, TypeOK
<1>5. CASE Lift
  BY <1>1, <1>5, DelaysAssumption DEF Lift, TypeOK, Found
<1>6. CASE Release
  BY <1>1, <1>6 DEF Release, TypeOK
<1> QED
  BY <1>2, <1>3, <1>4, <1>5, <1>6

(* A physics step keeps the invariant, whichever of its five forms it has.  *)
LEMMA PreUpdateKeepsIInv == IInv /\ PreUpdate => IInv'
<1> SUFFICES ASSUME IInv, PreUpdate PROVE IInv'
  OBVIOUS
<1> USE DEF IInv
<1>1. TypeOK'
  BY StepType, PublishType DEF PreUpdate, TypeOK, command, world
<1>2. CASE Hold
  <2>1. /\ TimerCovered'
        /\ pending' = pending /\ pendingSteps' = pendingSteps
        /\ joint' \in {joint, NoProduct}
    BY <1>2, TimerKept DEF PreUpdate, Hold
  <2>2. pending = NoProduct
    BY <1>2 DEF Hold, SealEarned
  <2> QED
    BY <1>1, <2>1, <2>2, ProductsAssumption DEF SealEarned, WeldAhead, Sealed
<1>3. CASE Weld
  <2>1. pending # NoProduct
    BY <1>3, ProductsAssumption DEF Weld, TypeOK
  <2>2. TimerCovered' /\ coveredFor' > SealDelay
    <3>1. TimerCovered'
      BY <1>3, <2>1, TimerKept DEF PreUpdate, Weld
    <3>2. coveredFor > SealDelay /\ coveredFor' >= coveredFor
      BY <1>3, <2>1, CoveredGrows DEF PreUpdate, Weld, SealEarned
    <3> QED
      BY <1>1, <3>1, <3>2, DelaysAssumption DEF TypeOK
  <2>3. SealEarned' /\ WeldAhead'
    BY <1>3, <2>1, <2>2, DelaysAssumption, ProductsAssumption
       DEF Weld, SealEarned, WeldAhead, Sealed, TypeOK
  <2> QED
    BY <1>1, <2>2, <2>3
<1>4. CASE LoseContact
  BY <1>1, <1>4 DEF LoseContact, SealEarned, TimerCovered, WeldAhead, Sealed
<1>5. CASE Lift
  <2>1. PICK p \in Found :
          IF Started(sealAge, SealDelay) >= SealDelay /\ p \notin Heavy
          THEN pending' = p /\ pendingSteps' = 0
          ELSE pending' = NoProduct /\ UNCHANGED pendingSteps
    BY <1>5 DEF Lift
  <2>2. TimerCovered'
    BY <1>5, <2>1, TimerKept DEF PreUpdate, Lift
  <2>3. pending' # NoProduct
          => pending' \notin Heavy /\ coveredFor' > SealDelay
             /\ pendingSteps' = 0
    <3>1. SUFFICES ASSUME pending' # NoProduct
                   PROVE  coveredFor' > SealDelay
      BY <2>1
    <3>2. sealAge' >= SealDelay /\ sealAge' # Unset
      BY <1>5, <2>1, <3>1, DelaysAssumption DEF Lift
    <3> QED
      BY <1>1, <2>2, <3>2, DelaysAssumption DEF TimerCovered, TypeOK
  <2> QED
    BY <1>1, <1>5, <2>2, <2>3, DelaysAssumption
       DEF Lift, SealEarned, WeldAhead, Sealed
<1>6. CASE Release
  BY <1>1, <1>6, ProductsAssumption
     DEF Release, SealEarned, TimerCovered, WeldAhead, Sealed
<1> QED
  BY <1>2, <1>3, <1>4, <1>5, <1>6 DEF PreUpdate

(* The invariant is inductive.                                              *)
LEMMA NextKeepsIInv == IInv /\ [Next]_vars => IInv'
<1> SUFFICES ASSUME IInv, [Next]_vars PROVE IInv'
  OBVIOUS
<1>1. CASE Next
  BY <1>1, WorldKeepsIInv, PreUpdateKeepsIInv DEF Next
<1>2. CASE UNCHANGED vars
  BY <1>2 DEF vars, command, grip, world, history, IInv, TypeOK, SealEarned,
              TimerCovered, WeldAhead, Sealed
<1> QED
  BY <1>1, <1>2

(* The inductive invariant holds in every reachable state.                  *)
THEOREM GripInvariance == Spec => []IInv
<1> QED
  BY InitIInv, NextKeepsIInv, PTL DEF Spec

(* Every member of the plugin keeps its type.                               *)
THEOREM GripTypeCorrect == Spec => []TypeOK
<1>1. IInv => TypeOK
  BY DEF IInv
<1> QED
  BY <1>1, GripInvariance, PTL

(* PreUpdate lifts and welds only a light product, only after the delay.    *)
THEOREM SealIsEarned == Spec => []SealEarned
<1>1. IInv => SealEarned
  BY DEF IInv
<1> QED
  BY <1>1, GripInvariance, PTL

-----------------------------------------------------------------------------
(* A physics step grabs, lets go, or changes nothing that others see.       *)
LEMMA PreUpdateRefines ==
  ASSUME IInv, PreUpdate
  PROVE  Contract!Next \/ UNCHANGED Contract!vars
<1> USE DEF IInv, Sealed
<1>1. cmdOn' = cmdOn /\ exists' = exists
  BY DEF PreUpdate, command, world
<1>2. CASE Hold
  BY <1>1, <1>2 DEF Hold, Contract!Next, Contract!LetGo, Contract!vars
<1>3. CASE Weld
  BY <1>1, <1>3, ProductsAssumption
     DEF Weld, TypeOK, SealEarned, Contract!Next, Contract!Grab, Contract!vars
<1>4. CASE LoseContact \/ Lift
  BY <1>1, <1>4 DEF LoseContact, Lift, Contract!vars
<1>5. CASE Release
  BY <1>1, <1>5 DEF Release, Contract!Next, Contract!LetGo, Contract!vars
<1> QED
  BY <1>2, <1>3, <1>4, <1>5 DEF PreUpdate

(* The plugin implements Suction, for any products and delays.              *)
THEOREM CupRefinement == Spec => ImplementsSuction
<1>1. Init => Contract!Init
  BY DEF Init, Contract!Init
<1>2. IInv /\ [Next]_vars => [Contract!Next]_(Contract!vars)
  <2> SUFFICES ASSUME IInv, [Next]_vars
               PROVE  Contract!Next \/ UNCHANGED Contract!vars
    BY DEF Contract!vars
  <2>1. CASE PreUpdate
    BY <2>1, PreUpdateRefines
  <2>2. CASE CupMoves
    BY <2>2 DEF CupMoves, command, grip, Contract!vars
  <2>3. CASE \E on \in BOOLEAN, p \in Products \cup {NoProduct} : OnCmd(on, p)
    BY <2>3 DEF OnCmd, grip, world, Contract!Next, Contract!Command
  <2>4. CASE \E p \in Products : Despawn(p)
    BY <2>4 DEF Despawn, command, grip, Contract!Next, Contract!Remove
  <2>5. CASE UNCHANGED vars
    BY <2>5 DEF vars, command, grip, world, Contract!vars
  <2> QED
    BY <2>1, <2>2, <2>3, <2>4, <2>5 DEF Next
<1> QED
  BY <1>1, <1>2, GripInvariance, PTL DEF Spec, ImplementsSuction, Contract!Spec
=============================================================================

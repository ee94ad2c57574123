-------------------------- MODULE CycleTaskProofs --------------------------
(***************************************************************************)
(* Proofs about one run of run_cycle, for any number of attempts: its      *)
(* types, what it takes for a transfer to begin blind, and that the        *)
(* product is let go in contact alone.  The heart is what a pick finds     *)
(* when its first motion is over: no command and no feedback of an earlier *)
(* attempt is left under way, the states that are left are known as old,   *)
(* and nothing of what can come from there to the end of the place turns   *)
(* the vacuum off but the place itself.                                    *)
(***************************************************************************)
EXTENDS CycleTask, TLAPS

Pcs == {"start", "schedule", "moveAsk", "moveWait", "pickAsk", "pickWait",
        "retreat", "choose", "placeAsk", "placeWait", "letGo", "placed"}
InAttempt == {"pickAsk", "pickWait", "retreat", "choose", "placeAsk", "placeWait",
              "letGo", "placed"}
Picking == {"pickAsk", "pickWait", "choose"}

(* An attempt that is counted was begun for a cycle still asked for.        *)
CountOK == pc \in InAttempt => done < k /\ done < Cycles

(* Nothing under way is of an attempt to come; and while a pick is present, *)
(* no other pick of the attempt is.                                         *)
Known(g) == g.k <= k /\ (pc \in Picking /\ g \in Picks /\ g.k = k => g = cur)
Pending ==
  /\ \A i \in 1 .. Len(requests) : Known(requests[i])
  /\ \A g \in feedback : Known(g)
  /\ running # NoGoal => Known(running)

(* The pick has moved, or is known to have.                                 *)
Moved == (running = cur /\ half > 0) \/ cur \in feedback \/ vacOn

(* Until it is answered, the present pick is the last request.              *)
QueueOK ==
  requests # <<>> => /\ \A i \in 1 .. Len(requests) : requests[i] = cur <=> i = Len(requests)
                     /\ running # cur /\ ~Moved

(* The states under way, but for the old ones, tell of a product held now.  *)
Told == \A s \in states : s.sealed /\ ~s.old => Holding

(* From its first motion on, nothing but the pick itself acts on the cup.   *)
Clear ==
  Moved =>
    /\ requests = <<>> /\ running \in {cur, NoGoal} /\ feedback \subseteq {cur}
    /\ \A i \in 1 .. Len(cmds) : cmds[i] = TRUE
    /\ Holding => on
    /\ Told
    /\ running = cur /\ (cur \in feedback \/ vacOn) => half >= Hover(cur)
    /\ vacOn => /\ cur \notin feedback
                /\ Holding => heldSince
                /\ vacFresh /\ vacSealed => heldSince \/ stale

PickOK ==
  pc \in Picking => /\ cur \in Picks /\ cur.k = k
                    /\ QueueOK /\ Clear
                    /\ pc = "choose" => vacOn

IInv == TypeOK /\ CountOK /\ Pending /\ PickOK

(* An off is commanded, on its way or called for, against the product.      *)
OffComes ==
  \/ \E i \in 1 .. Len(cmds) : cmds[i] = FALSE
  \/ cur \in feedback
  \/ Holding /\ ~on

(* Until a place is over, the pick before it, if it still runs, is past its *)
(* hover, and an off comes only of the place, in contact, where the arm     *)
(* stays until another goal is asked for.                                   *)
PlaceOK ==
  pc \in {"placeAsk", "placeWait"} =>
    /\ cur \in Places /\ feedback \subseteq {cur}
    /\ requests = <<>> \/ (requests = <<cur>> /\ running # cur)
    /\ running \notin {cur, NoGoal} => running \in Picks /\ half >= Hover(running)
    /\ OffComes => /\ down /\ requests = <<>> /\ running \in {cur, NoGoal}
                   /\ running = cur => half >= Contact(cur)

-----------------------------------------------------------------------------
(* Goals.                                                                   *)

LEMMA GoalFacts ==
  ASSUME NEW g \in Goals
  PROVE  /\ g.k \in 0 .. MaxAttempts /\ g # NoGoal
         /\ Hover(g) \in Nat /\ Contact(g) \in Nat /\ Full(g) \in Nat
         /\ Plan[g] # <<>>
         /\ \A h \in Motion!Contacts(g) \cup Motion!Ends(g) : h \in 1 .. Full(g)
         /\ g \in Picks => Hover(g) > 0
<1>1. g # NoGoal
  BY NoGoalAssumption
<1>2. g.k \in 0 .. MaxAttempts /\ (g \in Picks => g.what \in {"pick", "liftpick"})
  BY BoundsAssumption DEF Goals, Picks, Places, Moves, Attempts
<1>3. \/ Plan[g] = <<Leg(0), Leg(0), Leg(1)>>
      \/ Plan[g] = <<Leg(0), Leg(0), Leg(0), Leg(1)>>
      \/ Plan[g] = <<Leg(0)>> /\ g.what \notin {"pick", "liftpick"}
  BY DEF Plan
<1>4. /\ Len(Plan[g]) \in {1, 3, 4} /\ Plan[g] # <<>>
      /\ g \in Picks => Len(Plan[g]) \in {3, 4}
  <2>1. \A a, b, c, d : /\ Len(<<a>>) = 1 /\ <<a>> # <<>>
                        /\ Len(<<a, b, c>>) = 3 /\ <<a, b, c>> # <<>>
                        /\ Len(<<a, b, c, d>>) = 4 /\ <<a, b, c, d>> # <<>>
    OBVIOUS
  <2>2. CASE Plan[g] = <<Leg(0), Leg(0), Leg(1)>>
    BY <2>1, <2>2, Zenon
  <2>3. CASE Plan[g] = <<Leg(0), Leg(0), Leg(0), Leg(1)>>
    BY <2>1, <2>3, Zenon
  <2>4. CASE Plan[g] = <<Leg(0)>> /\ g.what \notin {"pick", "liftpick"}
    BY <1>2, <2>1, <2>4, Zenon
  <2> QED
    BY <1>3, <2>2, <2>3, <2>4
<1>5. Hover(g) \in Nat /\ Contact(g) \in Nat /\ Full(g) \in Nat /\ (g \in Picks => Hover(g) > 0)
  <2>1. PICK n \in {1, 3, 4} : n = Len(Plan[g]) /\ (g \in Picks => n \in {3, 4})
    BY <1>4, Zenon
  <2>2. Hover(g) = 2 * (n - 1) /\ Contact(g) = 2 * n - 1 /\ Full(g) = 2 * n
    BY <2>1, Zenon DEF Hover, Contact, Full
  <2>3. n \in Nat /\ n > 0 /\ (g \in Picks => n > 1)
    BY <2>1
  <2> QED
    BY <2>2, <2>3
<1>6. \A h \in Motion!Contacts(g) \cup Motion!Ends(g) : h \in 1 .. Full(g)
  BY <1>4 DEF Motion!Contacts, Motion!Ends, Full
<1> QED
  BY <1>1, <1>2, <1>4, <1>5, <1>6

LEMMA Kinds == Picks \cap Places = {} /\ Picks \cup Places \subseteq Goals /\ Moves \subseteq Goals
BY DEF Goals, Picks, Places, Moves

(* What appending to a sequence, or taking its head, leaves of it.          *)
LEMMA AppendFacts ==
  ASSUME NEW S, NEW q \in Seq(S), NEW e \in S
  PROVE  /\ Append(q, e) \in Seq(S)
         /\ Len(q) \in Nat /\ Len(Append(q, e)) = Len(q) + 1
         /\ \A i \in 1 .. Len(q) : Append(q, e)[i] = q[i]
         /\ Append(q, e)[Len(q) + 1] = e
         /\ Append(q, e) # <<>>
OBVIOUS

LEMMA TailFacts ==
  ASSUME NEW S, NEW q \in Seq(S), q # <<>>
  PROVE  /\ Tail(q) \in Seq(S) /\ Head(q) \in S /\ Head(q) = q[1]
         /\ Len(q) \in Nat /\ Len(q) >= 1 /\ Len(Tail(q)) = Len(q) - 1
         /\ \A i \in 1 .. Len(Tail(q)) : Tail(q)[i] = q[i + 1]
         /\ Len(q) = 1 => Tail(q) = <<>>
<1>1. /\ Tail(q) \in Seq(S) /\ Head(q) \in S /\ Head(q) = q[1]
      /\ Len(q) \in Nat /\ Len(q) >= 1 /\ Len(Tail(q)) = Len(q) - 1
      /\ \A i \in 1 .. Len(Tail(q)) : Tail(q)[i] = q[i + 1]
  OBVIOUS
<1>2. \A r \in Seq(S) : Len(r) = 0 => r = <<>>
  OBVIOUS
<1> QED
  BY <1>1, <1>2

LEMMA InitIInv == Init => IInv
<1> SUFFICES ASSUME Init PROVE IInv
  OBVIOUS
<1>1. TypeOK
  <2>1. \A S : <<>> \in Seq(S)
    OBVIOUS
  <2>2. running = NoGoal /\ half = 0 /\ on = FALSE /\ held = "none"
    BY DEF Init, Motion!Init, Cup!Init
  <2>3. 0 \in 0 .. MaxAttempts /\ 0 <= Cycles /\ 0 \in 0 .. 0
    BY BoundsAssumption
  <2>4. {ok, parked, inPocket, vacOn, rel, vacSealed, vacFresh} \subseteq BOOLEAN
    BY Zenon DEF Init
  <2>5. {on, down, heldSince, stale} \subseteq BOOLEAN
    BY <2>2, Zenon DEF Init
  <2>6. {cur, running} \subseteq Goals \cup {NoGoal}
    BY <2>2, Zenon DEF Init
  <2> QED
    BY <2>1, <2>2, <2>3, <2>4, <2>5, <2>6 DEF Init, TypeOK
<1>2. CountOK /\ PickOK
  BY DEF Init, CountOK, PickOK, InAttempt, Picking
<1>3. Pending
  BY DEF Init, Pending, Motion!Init
<1> QED
  BY <1>1, <1>2, <1>3 DEF IInv
-----------------------------------------------------------------------------
(* Types, part by part.                                                     *)

MainType ==
  /\ pc \in Pcs /\ k \in 0 .. MaxAttempts /\ done \in 0 .. k /\ done <= Cycles
  /\ cur \in Goals \cup {NoGoal} /\ outcome \in {"none", "SUCCESS", "PREEMPTED", "other"}
FlagType ==
  /\ ok \in BOOLEAN /\ parked \in BOOLEAN /\ inPocket \in BOOLEAN /\ vacOn \in BOOLEAN
  /\ rel \in BOOLEAN /\ vacSealed \in BOOLEAN /\ vacFresh \in BOOLEAN
  /\ on \in BOOLEAN /\ down \in BOOLEAN /\ heldSince \in BOOLEAN
  /\ stale \in BOOLEAN
  /\ held \in {"none", "product"}
WireType ==
  /\ requests \in Seq(Goals) /\ feedback \subseteq Picks \cup Places
  /\ cmds \in Seq(BOOLEAN) /\ states \subseteq States
SlotType ==
  /\ running \in Goals \cup {NoGoal} /\ half \in Nat
  /\ half > 0 => running # NoGoal /\ half <= Full(running)

LEMMA TypeParts == TypeOK <=> MainType /\ FlagType /\ WireType /\ SlotType
BY Zenon DEF TypeOK, MainType, FlagType, WireType, SlotType, Pcs

LEMMA TypePartsNext ==
  ASSUME MainType', FlagType', WireType', SlotType'
  PROVE  TypeOK'
BY Zenon DEF TypeOK, MainType, FlagType, WireType, SlotType, Pcs

-----------------------------------------------------------------------------
(* The main thread.                                                         *)

(* A goal the main thread sends is one, and is not of an attempt to come.   *)
LEMMA SentGoals ==
  ASSUME IInv
  PROVE  /\ ParkGoal \in Goals /\ ParkGoal.k = k
         /\ k < MaxAttempts => PickGoal(k + 1) \in Picks /\ PickGoal(k + 1).k = k + 1
         /\ pc \in InAttempt => /\ [k |-> k, what |-> "retreat"] \in Goals
                                /\ [k |-> k, what |-> "place"] \in Goals
<1>1. k \in 0 .. MaxAttempts /\ (pc \in InAttempt => k > 0)
  BY BoundsAssumption DEF IInv, TypeOK, CountOK
<1> QED
  BY <1>1, BoundsAssumption DEF ParkGoal, PickGoal, Goals, Picks, Places, Moves, Attempts

(* When the main thread is not picking, only what is pending counts.        *)
LEMMA OutOfPicking ==
  ASSUME IInv, pc' \notin Picking, k' = k, UNCHANGED <<running, feedback>>,
         \/ requests' = requests
         \/ \E g \in Goals : g.k = k /\ requests' = Append(requests, g)
  PROVE  Pending' /\ PickOK'
<1>1. k \in Nat /\ requests \in Seq(Goals)
  BY BoundsAssumption DEF IInv, TypeOK
<1>2. \A i \in 1 .. Len(requests') : requests'[i].k <= k
  <2>1. CASE requests' = requests
    BY <2>1 DEF IInv, Pending, Known
  <2>2. ASSUME NEW g \in Goals, g.k = k, requests' = Append(requests, g)
        PROVE  \A i \in 1 .. Len(requests') : requests'[i].k <= k
    <3>1. /\ Len(requests) \in Nat /\ Len(requests') = Len(requests) + 1
          /\ \A i \in 1 .. Len(requests) : requests'[i] = requests[i]
          /\ requests'[Len(requests) + 1] = g
      BY <1>1, <2>2, AppendFacts
    <3> QED
      BY <1>1, <2>2, <3>1 DEF IInv, Pending, Known
  <2> QED
    BY <2>1, <2>2
<1>3. Pending'
  BY <1>2 DEF IInv, Pending, Known
<1> QED
  BY <1>3 DEF PickOK, Picking

(* Sending a goal.                                                          *)
LEMMA SendType ==
  ASSUME IInv, NEW g \in Goals, Send(g)
  PROVE  /\ requests' \in Seq(Goals) /\ cur' = g /\ outcome' = "none"
         /\ requests' = Append(requests, g)
<1>1. requests \in Seq(Goals)
  BY DEF IInv, TypeOK
<1> QED
  BY <1>1, AppendFacts DEF Send

(* Commanding the vacuum.                                                   *)
LEMMA CmdType ==
  ASSUME WireType, NEW b \in BOOLEAN, VacuumCmd(b)
  PROVE  /\ cmds' \in Seq(BOOLEAN) /\ Len(cmds) \in Nat /\ Len(cmds') = Len(cmds) + 1
         /\ \A i \in 1 .. Len(cmds) : cmds'[i] = cmds[i]
         /\ cmds'[Len(cmds) + 1] = b
BY AppendFacts DEF WireType, VacuumCmd

(* The steps of the main thread that send a goal which is not a pick.       *)
LEMMA SendsKeep ==
  ASSUME IInv, GoPark \/ Retreat \/ PlaceSend
  PROVE  IInv'
<1> DEFINE g == IF GoPark THEN ParkGoal
                ELSE IF Retreat THEN [k |-> k, what |-> "retreat"]
                ELSE [k |-> k, what |-> "place"]
<1>1. /\ Send(g) /\ g \in Goals /\ g.k = k
      /\ pc' \in {"moveAsk", "placeAsk"}
      /\ pc' = "placeAsk" => pc = "choose"
      /\ UNCHANGED <<k, done, running, half, feedback, cmds, states, vacOn, vacSealed,
                     vacFresh, parked, inPocket, on, held, down, heldSince,
                     stale>>
      /\ (rel' = rel \/ rel' = FALSE) /\ (ok' = ok \/ ok' = FALSE)
  BY SentGoals, Zenon DEF GoPark, Retreat, PlaceSend, InAttempt, flags, cup, history
<1> HIDE DEF g
<1>2. MainType /\ FlagType /\ WireType /\ SlotType
  BY TypeParts DEF IInv
<1>3. MainType'
  BY <1>1, <1>2, SendType DEF MainType, Pcs
<1>4. FlagType'
  BY <1>1, <1>2, Zenon DEF FlagType
<1>5. WireType' /\ SlotType'
  BY <1>1, <1>2, SendType DEF WireType, SlotType, Full
<1>6. CountOK'
  BY <1>1 DEF IInv, CountOK, InAttempt
<1>7. Pending' /\ PickOK'
  BY <1>1, SendType, OutOfPicking DEF Picking
<1> QED
  BY <1>3, <1>4, <1>5, <1>6, <1>7, TypePartsNext DEF IInv

(* The steps that only wait, decide or count, and leave the pick.           *)
LEMMA WaitsKeep ==
  ASSUME IInv,
         \/ MoveAnswered \/ MoveEnds \/ PickFails \/ PlaceAnswered \/ PlaceEnds
         \/ LetGo \/ Placed \/ (PickAnswered /\ pc' = "schedule")
  PROVE  IInv'
<1>1. /\ pc' \in Pcs \ Picking
      /\ pc' \in InAttempt => pc \in InAttempt /\ done' = done
      /\ done' = done \/ (pc \in InAttempt /\ pc' \notin InAttempt /\ done' = done + 1)
      /\ UNCHANGED <<k, cur, outcome, running, half, requests, feedback, states, vacOn,
                     vacSealed, vacFresh, rel, on, held, down, heldSince, stale>>
      /\ cmds' = cmds \/ VacuumCmd(FALSE)
  BY DEF MoveAnswered, MoveEnds, PickFails, PlaceAnswered, PlaceEnds, LetGo, Placed,
         PickAnswered, AskEnds, InAttempt, Picking, Pcs, flags, wires, cup, server, history
<1>2. MainType /\ FlagType /\ WireType /\ SlotType
  BY TypeParts DEF IInv
<1>3. ok' \in BOOLEAN /\ parked' \in BOOLEAN /\ inPocket' \in BOOLEAN
  <2>1. ok \in BOOLEAN /\ parked \in BOOLEAN /\ inPocket \in BOOLEAN /\ rel \in BOOLEAN
    BY <1>2 DEF FlagType
  <2>2. /\ ok' = ok \/ ok' = (outcome \in {"SUCCESS", "PREEMPTED"})
        /\ \/ parked' = parked \/ parked' = (cur = [k |-> 0, what |-> "park"])
           \/ parked' = (parked \/ (cur = ParkGoal /\ outcome = "SUCCESS"))
        /\ inPocket' = inPocket \/ inPocket' = rel
    BY Zenon DEF MoveAnswered, MoveEnds, PickFails, PlaceAnswered, PlaceEnds, LetGo, Placed,
                 PickAnswered
  <2>3. /\ (outcome \in {"SUCCESS", "PREEMPTED"}) \in BOOLEAN
        /\ (cur = [k |-> 0, what |-> "park"]) \in BOOLEAN
        /\ (parked \/ (cur = ParkGoal /\ outcome = "SUCCESS")) \in BOOLEAN
    OBVIOUS
  <2> QED
    BY <2>1, <2>2, <2>3, Zenon
<1>4. MainType' /\ CountOK'
  BY <1>1, <1>2, BoundsAssumption DEF IInv, CountOK, MainType
<1>5. FlagType' /\ SlotType'
  BY <1>1, <1>2, <1>3, Zenon DEF FlagType, SlotType, Full
<1>6. WireType'
  BY <1>1, <1>2, CmdType DEF WireType
<1>7. Pending' /\ PickOK'
  BY <1>1, OutOfPicking
<1> QED
  BY <1>4, <1>5, <1>6, <1>7, TypePartsNext DEF IInv

(* A new attempt: nothing under way is of it but the pick, which is the     *)
(* last request.                                                            *)
LEMMA PickSendKeeps ==
  ASSUME IInv, PickSend
  PROVE  IInv'
<1> DEFINE g == PickGoal(k + 1)
<1>1. MainType /\ FlagType /\ WireType /\ SlotType
  BY TypeParts DEF IInv
<1>2. /\ Send(g) /\ g \in Picks /\ g \in Goals /\ g.k = k + 1 /\ k < MaxAttempts
      /\ k \in Nat /\ done < Cycles /\ done \in 0 .. k
      /\ k' = k + 1 /\ pc' = "pickAsk" /\ ~vacOn' /\ vacOn' = FALSE /\ vacFresh' = FALSE
      /\ parked' = FALSE /\ inPocket' = FALSE /\ heldSince' = FALSE /\ stale' = FALSE
      /\ UNCHANGED <<ok, done, rel, vacSealed, feedback, cmds, states, on, held, running,
                     half, down>>
  BY <1>1, SentGoals, Kinds, BoundsAssumption DEF PickSend, MainType, cup
<1> HIDE DEF g
<1>3. /\ requests \in Seq(Goals) /\ requests' \in Seq(Goals) /\ cur' = g /\ outcome' = "none"
      /\ Len(requests) \in Nat /\ Len(requests') = Len(requests) + 1
      /\ \A i \in 1 .. Len(requests) : requests'[i] = requests[i]
      /\ requests'[Len(requests) + 1] = g
  BY <1>1, <1>2, SendType, AppendFacts DEF WireType
<1>4. /\ \A i \in 1 .. Len(requests) : requests[i].k <= k /\ requests[i] # g
      /\ \A f \in feedback : f.k <= k /\ f # g
      /\ running # NoGoal => running.k <= k
      /\ running # g
  <2>1. \A x : Known(x) => x.k <= k /\ x # g
    BY <1>2 DEF Known
  <2>2. g # NoGoal
    BY <1>2, GoalFacts
  <2> QED
    BY <2>1, <2>2 DEF IInv, Pending
<1>5. MainType' /\ FlagType' /\ WireType' /\ SlotType'
  <2>1. MainType'
    BY <1>1, <1>2, <1>3, BoundsAssumption DEF MainType, Pcs
  <2>2. FlagType'
    BY <1>1, <1>2, Zenon DEF FlagType
  <2>3. WireType' /\ SlotType'
    BY <1>1, <1>2, <1>3 DEF WireType, SlotType, Full
  <2> QED
    BY <2>1, <2>2, <2>3
<1>6. CountOK'
  BY <1>2 DEF CountOK
<1>7. Pending'
  <2>1. \A x \in Goals : x.k <= k => x.k <= k' /\ x.k # k'
    BY <1>2, GoalFacts
  <2>2. \A i \in 1 .. Len(requests') : requests'[i] = g \/ (i \in 1 .. Len(requests) /\ requests'[i] = requests[i])
    BY <1>3
  <2>3. \A i \in 1 .. Len(requests) : requests[i] \in Goals
    BY <1>3
  <2>4. feedback \subseteq Goals /\ (running # NoGoal => running \in Goals)
    BY <1>1, Kinds DEF WireType, SlotType
  <2>5. \A x : x = g \/ (x \in Goals /\ x.k <= k) => Known(x)'
    BY <1>2, <1>3, <2>1 DEF Known
  <2> QED
    BY <1>2, <1>4, <2>2, <2>3, <2>4, <2>5 DEF Pending
<1>8. ~Moved'
  BY <1>2, <1>3, <1>4 DEF Moved
<1>9. QueueOK'
  BY <1>2, <1>3, <1>4, <1>8 DEF QueueOK
<1>10. PickOK'
  BY <1>2, <1>3, <1>8, <1>9 DEF PickOK, Clear
<1> QED
  BY <1>5, <1>6, <1>7, <1>10, TypePartsNext DEF IInv

(* Waiting for the seal, and seeing it.                                     *)
LEMMA PickWaitsKeep ==
  ASSUME IInv, PickSealed \/ (PickAnswered /\ pc' = "pickWait")
  PROVE  IInv'
<1>1. /\ pc \in Picking /\ pc' \in Picking /\ pc' \in Pcs /\ pc \in InAttempt
      /\ pc' = "choose" => vacOn /\ vacSealed /\ vacFresh
      /\ UNCHANGED <<k, cur, ok, done, parked, inPocket, flags, wires, cup, server, history>>
  BY DEF PickSealed, PickAnswered, Picking, Pcs, InAttempt
<1>2. MainType /\ FlagType /\ WireType /\ SlotType
  BY TypeParts DEF IInv
<1>3. MainType' /\ FlagType' /\ WireType' /\ SlotType'
  <2>1. MainType'
    BY <1>1, <1>2, Zenon DEF MainType, server
  <2>2. FlagType'
    BY <1>1, <1>2, Zenon DEF FlagType, flags, cup, history
  <2>3. WireType' /\ SlotType'
    BY <1>1, <1>2, Zenon DEF WireType, SlotType, Full, wires, server
  <2> QED
    BY <2>1, <2>2, <2>3
<1>4. CountOK'
  BY <1>1 DEF IInv, CountOK
<1>5. Pending'
  BY <1>1, Zenon DEF IInv, Pending, Known, wires, server
<1>6. QueueOK' /\ Clear'
  BY <1>1, Zenon DEF IInv, PickOK, QueueOK, Clear, Told, Moved, Holding, Hover, flags, wires, cup,
     server, history
<1>7. pc' = "choose" => vacOn'
  BY <1>1 DEF flags
<1> QED
  BY <1>1, <1>3, <1>4, <1>5, <1>6, <1>7, TypePartsNext DEF IInv, PickOK

-----------------------------------------------------------------------------
(* The callbacks, the motion server and the cup.                            *)

(* What a step that leaves the main thread alone has to show.               *)
PickKept ==
  pc \in Picking => /\ QueueOK' /\ Clear'
                    /\ pc = "choose" => vacOn'

LEMMA OthersKeep ==
  ASSUME IInv, UNCHANGED <<pc, k, done, cur>>, TypeOK', Pending', PickKept
  PROVE  IInv'
<1>1. CountOK'
  BY DEF IInv, CountOK
<1>2. PickOK'
  BY DEF IInv, PickOK, PickKept, Picking
<1> QED
  BY <1>1, <1>2 DEF IInv

(* on_fb_pick: of the present pick, it begins the wait for the seal.        *)
LEMMA OnFbPickKeeps ==
  ASSUME IInv, NEW g \in Goals, OnFbPick(g)
  PROVE  IInv'
<1>1. MainType /\ FlagType /\ WireType /\ SlotType
  BY TypeParts DEF IInv
<1>2. /\ g \in feedback /\ g \in Picks /\ feedback' = feedback \ {g} /\ VacuumCmd(TRUE)
      /\ \/ g.k = k /\ vacOn' = TRUE /\ vacFresh' = FALSE /\ heldSince' = Holding
         \/ g.k # k /\ UNCHANGED <<vacOn, vacFresh, heldSince>>
      /\ UNCHANGED <<pc, k, cur, ok, done, parked, inPocket, rel, vacSealed, requests, states,
                     on, held, running, half, outcome, down, stale>>
  BY Zenon DEF OnFbPick, main, cup, server
<1>3. TypeOK'
  <2>1. MainType'
    BY <1>1, <1>2, Zenon DEF MainType
  <2>2. FlagType'
    <3>1. vacOn' \in BOOLEAN /\ vacFresh' \in BOOLEAN /\ heldSince' \in BOOLEAN
      <4>1. Holding \in BOOLEAN
        BY DEF Holding
      <4> QED
        BY <1>1, <1>2, <4>1, Zenon DEF FlagType
    <3> QED
      BY <1>1, <1>2, <3>1, Zenon DEF FlagType
  <2>3. WireType' /\ SlotType'
    <3>1. cmds' \in Seq(BOOLEAN)
      BY <1>1, <1>2, CmdType
    <3> QED
      BY <1>1, <1>2, <3>1 DEF WireType, SlotType, Full
  <2> QED
    BY <2>1, <2>2, <2>3, TypePartsNext
<1>4. Pending'
  BY <1>2 DEF IInv, Pending, Known
<1>5. PickKept
  <2> SUFFICES ASSUME pc \in Picking
               PROVE  QueueOK' /\ Clear' /\ (pc = "choose" => vacOn')
    BY DEF PickKept
  <2>1. /\ cur \in Picks /\ cur.k = k /\ QueueOK /\ Clear /\ (pc = "choose" => vacOn)
    BY DEF IInv, PickOK
  <2>2. g.k = k <=> g = cur
    BY <1>2, <2>1 DEF IInv, Pending, Known
  <2>3. CASE g = cur
    <3>1. /\ Moved /\ ~vacOn /\ vacOn' = TRUE /\ vacFresh' = FALSE /\ heldSince' = Holding
          /\ feedback' = {} /\ pc # "choose"
      BY <1>2, <2>1, <2>2, <2>3 DEF Moved, Clear
    <3>2. \A i \in 1 .. Len(cmds') : cmds'[i] = TRUE
      <4>1. /\ Len(cmds) \in Nat /\ Len(cmds') = Len(cmds) + 1
            /\ \A i \in 1 .. Len(cmds) : cmds'[i] = cmds[i]
            /\ cmds'[Len(cmds) + 1] = TRUE
        BY <1>1, <1>2, CmdType
      <4>2. \A i \in 1 .. Len(cmds) : cmds[i] = TRUE
        BY <2>1, <3>1 DEF Clear
      <4>3. \A i \in 1 .. Len(cmds') : i \in 1 .. Len(cmds) \/ i = Len(cmds) + 1
        BY <4>1
      <4> QED
        BY <4>1, <4>2, <4>3
    <3>3. QueueOK'
      BY <1>2, <2>1, <3>1 DEF Clear, QueueOK
    <3>4. Clear'
      BY <1>2, <2>1, <2>3, <3>1, <3>2 DEF Clear, Told, Holding, Hover
    <3> QED
      BY <3>1, <3>3, <3>4
  <2>4. CASE g # cur
    <3>1. ~Moved /\ UNCHANGED <<vacOn, vacFresh, heldSince>>
      BY <1>2, <2>1, <2>2, <2>4 DEF Clear
    <3>2. ~Moved'
      BY <1>2, <3>1 DEF Moved
    <3>3. QueueOK' /\ Clear'
      BY <1>2, <2>1, <3>2 DEF QueueOK, Clear
    <3> QED
      BY <2>1, <3>1, <3>3 DEF Moved
  <2> QED
    BY <2>3, <2>4
<1> QED
  BY <1>2, <1>3, <1>4, <1>5, OthersKeep

(* on_fb_place: while a pick is under way, of an earlier attempt.           *)
LEMMA OnFbPlaceKeeps ==
  ASSUME IInv, NEW g \in Goals, OnFbPlace(g)
  PROVE  IInv'
<1>1. MainType /\ FlagType /\ WireType /\ SlotType
  BY TypeParts DEF IInv
<1>2. /\ g \in feedback /\ g \in Places /\ feedback' = feedback \ {g} /\ VacuumCmd(FALSE)
      /\ rel' = (rel \/ g.k = k)
      /\ UNCHANGED <<pc, k, cur, ok, done, parked, inPocket, vacOn, vacSealed, vacFresh,
                     requests, states, on, held, running, half, outcome, down, heldSince,
                     stale>>
  BY Zenon DEF OnFbPlace, main, cup, server, history
<1>3. TypeOK'
  <2>1. MainType'
    BY <1>1, <1>2, Zenon DEF MainType
  <2>2. FlagType'
    <3>1. (rel \/ g.k = k) \in BOOLEAN
      OBVIOUS
    <3> QED
      BY <1>1, <1>2, <3>1, Zenon DEF FlagType
  <2>3. WireType' /\ SlotType'
    <3>1. cmds' \in Seq(BOOLEAN)
      BY <1>1, <1>2, CmdType
    <3> QED
      BY <1>1, <1>2, <3>1 DEF WireType, SlotType, Full
  <2> QED
    BY <2>1, <2>2, <2>3, TypePartsNext
<1>4. Pending'
  BY <1>2 DEF IInv, Pending, Known
<1>5. PickKept
  <2> SUFFICES ASSUME pc \in Picking
               PROVE  QueueOK' /\ Clear' /\ (pc = "choose" => vacOn')
    BY DEF PickKept
  <2>1. cur \in Picks /\ QueueOK /\ Clear /\ (pc = "choose" => vacOn)
    BY DEF IInv, PickOK
  <2>2. ~Moved
    BY <1>2, <2>1, Kinds DEF Clear
  <2>3. ~Moved'
    BY <1>2, <2>2 DEF Moved
  <2> QED
    BY <1>2, <2>1, <2>2, <2>3 DEF QueueOK, Clear, Moved
<1> QED
  BY <1>2, <1>3, <1>4, <1>5, OthersKeep

(* A state tells of a product held since the vacuum came on.                *)
LEMMA OnVacuumStateKeeps ==
  ASSUME IInv, NEW b \in States, OnVacuumState(b)
  PROVE  IInv'
<1>1. MainType /\ FlagType /\ WireType /\ SlotType
  BY TypeParts DEF IInv
<1>2. /\ b \in states /\ states' = states \ {b} /\ vacSealed' = b.sealed /\ vacFresh' = vacOn
      /\ stale' = (vacOn /\ b.old)
      /\ UNCHANGED <<pc, k, cur, ok, done, parked, inPocket, vacOn, rel, requests, feedback,
                     cmds, on, held, running, half, outcome, down, heldSince>>
  BY Zenon DEF OnVacuumState, main, cup, server
<1>3. TypeOK'
  <2>1. MainType'
    BY <1>1, <1>2, Zenon DEF MainType
  <2>2. FlagType'
    <3>1. b.sealed \in BOOLEAN /\ (vacOn /\ b.old) \in BOOLEAN
      BY DEF States
    <3> QED
      BY <1>1, <1>2, <3>1, Zenon DEF FlagType
  <2>3. WireType' /\ SlotType'
    BY <1>1, <1>2, Zenon DEF WireType, SlotType, Full
  <2> QED
    BY <2>1, <2>2, <2>3, TypePartsNext
<1>4. Pending'
  BY <1>2 DEF IInv, Pending, Known
<1>5. PickKept
  <2> SUFFICES ASSUME pc \in Picking
               PROVE  QueueOK' /\ Clear' /\ (pc = "choose" => vacOn')
    BY DEF PickKept
  <2>1. QueueOK /\ Clear /\ (pc = "choose" => vacOn)
    BY DEF IInv, PickOK
  <2>2. Moved' <=> Moved
    BY <1>2 DEF Moved
  <2>3. QueueOK'
    BY <1>2, <2>1, <2>2 DEF QueueOK
  <2>4. Moved /\ vacOn /\ b.sealed => heldSince \/ stale'
    BY <1>2, <2>1 DEF Clear, Told
  <2>5. Told => Told'
    BY <1>2 DEF Told, Holding
  <2>6. Clear'
    BY <1>2, <2>1, <2>2, <2>4, <2>5 DEF Clear, Told, Holding, Hover
  <2> QED
    BY <1>2, <2>1, <2>3, <2>6
<1> QED
  BY <1>2, <1>3, <1>4, <1>5, OthersKeep

(* The server answers a goal: an older one comes before the pick.           *)
LEMMA AnswerGoalKeeps ==
  ASSUME IInv, AnswerGoal
  PROVE  IInv'
<1>1. MainType /\ FlagType /\ WireType /\ SlotType
  BY TypeParts DEF IInv
<1> DEFINE g == Head(requests)
<1>2. /\ requests # <<>> /\ requests' = Tail(requests)
      /\ \/ running' = g /\ half' = 0 /\ down' = FALSE
         \/ UNCHANGED <<running, half, down>>
      /\ UNCHANGED <<pc, k, cur, ok, done, parked, inPocket, vacOn, rel, vacSealed, vacFresh,
                     feedback, cmds, states, on, held, outcome, heldSince, stale>>
  BY Zenon DEF AnswerGoal, Motion!Take, main, flags, cup
<1>3. /\ Tail(requests) \in Seq(Goals) /\ g \in Goals /\ g = requests[1]
      /\ Len(requests) \in Nat /\ Len(requests) >= 1
      /\ Len(Tail(requests)) = Len(requests) - 1
      /\ \A i \in 1 .. Len(Tail(requests)) : Tail(requests)[i] = requests[i + 1]
      /\ Len(requests) = 1 => Tail(requests) = <<>>
  BY <1>1, <1>2, TailFacts DEF WireType
<1> HIDE DEF g
<1>4. TypeOK'
  <2>1. MainType'
    BY <1>1, <1>2, Zenon DEF MainType
  <2>2. FlagType'
    BY <1>1, <1>2, Zenon DEF FlagType
  <2>3. WireType'
    BY <1>1, <1>2, <1>3, Zenon DEF WireType
  <2>4. SlotType'
    BY <1>1, <1>2, <1>3 DEF SlotType, Full
  <2> QED
    BY <2>1, <2>2, <2>3, <2>4, TypePartsNext
<1>5. Pending'
  <2>1. Known(g) /\ \A i \in 1 .. Len(requests') : Known(requests'[i])
    BY <1>2, <1>3 DEF IInv, Pending
  <2>2. \A x : Known(x) => Known(x)'
    BY <1>2 DEF Known
  <2> QED
    BY <1>2, <2>1, <2>2 DEF IInv, Pending
<1>6. PickKept
  <2> SUFFICES ASSUME pc \in Picking
               PROVE  QueueOK' /\ Clear' /\ (pc = "choose" => vacOn')
    BY DEF PickKept
  <2>1. /\ QueueOK /\ (pc = "choose" => vacOn) /\ cur \notin feedback /\ ~vacOn
        /\ \A i \in 1 .. Len(requests) : requests[i] = cur <=> i = Len(requests)
        /\ running # cur
    BY <1>2 DEF IInv, PickOK, QueueOK, Moved
  <2>2. ~Moved'
    BY <1>2, <2>1 DEF Moved
  <2>3. QueueOK'
    <3> SUFFICES ASSUME requests' # <<>>
                 PROVE  /\ \A i \in 1 .. Len(requests') : requests'[i] = cur <=> i = Len(requests')
                        /\ running' # cur
      BY <1>2, <2>2 DEF QueueOK
    <3>1. Len(requests) > 1
      BY <1>2, <1>3
    <3>2. g # cur
      <4>1. 1 \in 1 .. Len(requests) /\ 1 # Len(requests)
        BY <1>3, <3>1
      <4> QED
        BY <1>3, <2>1, <4>1, Zenon
    <3>3. running' # cur
      BY <1>2, <2>1, <3>2
    <3>4. ASSUME NEW i \in 1 .. Len(requests')
          PROVE  requests'[i] = cur <=> i = Len(requests')
      <4>1. i + 1 \in 1 .. Len(requests) /\ (i + 1 = Len(requests) <=> i = Len(requests'))
        BY <1>2, <1>3
      <4>2. requests'[i] = requests[i + 1]
        BY <1>2, <1>3
      <4>3. requests[i + 1] = cur <=> i + 1 = Len(requests)
        BY <2>1, <4>1, Zenon
      <4> QED
        BY <4>1, <4>2, <4>3, Zenon
    <3> QED
      BY <3>3, <3>4
  <2> QED
    BY <2>1, <2>2, <2>3 DEF Clear
<1> QED
  BY <1>2, <1>4, <1>5, <1>6, OthersKeep

(* Progress: with the pick's first motion over, what was under way when it  *)
(* began has arrived; and it is decisive once.                              *)
LEMMA ReportKeeps ==
  ASSUME IInv, Report
  PROVE  IInv'
<1>1. MainType /\ FlagType /\ WireType /\ SlotType
  BY TypeParts DEF IInv
<1>2. /\ running # NoGoal /\ running \in Goals /\ running' = running
      /\ half' \in 1 .. Full(running) /\ half < half' /\ Full(running) \in Nat
      /\ half = 0 => Prompt
      /\ feedback' = IF Decisive THEN feedback \cup {running} ELSE feedback
      /\ down' = (running \in Places /\ half' >= Contact(running))
      /\ UNCHANGED <<pc, k, cur, ok, done, parked, inPocket, vacOn, rel, vacSealed, vacFresh,
                     requests, cmds, on, held, outcome, heldSince, stale>>
      /\ states' = Aged
  <2>1. running # NoGoal /\ running \in Goals
    BY <1>1 DEF Report, Motion!Report, SlotType
  <2> QED
    BY <2>1, GoalFacts DEF Report, Motion!Report, main, flags, cup
<1>3. Decisive => running \in Picks \cup Places
  BY DEF Decisive
<1>4. TypeOK'
  <2>1. MainType'
    BY <1>1, <1>2, Zenon DEF MainType
  <2>2. FlagType'
    <3>1. (running \in Places /\ half' >= Contact(running)) \in BOOLEAN
      OBVIOUS
    <3> QED
      BY <1>1, <1>2, <3>1, Zenon DEF FlagType
  <2>3. WireType'
    <3>1. states' \subseteq States
      BY <1>1, <1>2 DEF WireType, Aged, States
    <3> QED
      BY <1>1, <1>2, <1>3, <3>1 DEF WireType
  <2>4. SlotType'
    BY <1>1, <1>2 DEF SlotType, Full
  <2> QED
    BY <2>1, <2>2, <2>3, <2>4, TypePartsNext
<1>5. Pending'
  <2>1. Known(running) /\ \A x : Known(x) => Known(x)'
    BY <1>2 DEF IInv, Pending, Known
  <2> QED
    BY <1>2, <2>1 DEF IInv, Pending
<1>6. PickKept
  <2> SUFFICES ASSUME pc \in Picking
               PROVE  QueueOK' /\ Clear' /\ (pc = "choose" => vacOn')
    BY DEF PickKept
  <2>1. /\ cur \in Picks /\ QueueOK /\ Clear /\ (pc = "choose" => vacOn)
        /\ Hover(cur) \in Nat /\ Hover(cur) > 0 /\ half \in Nat
    BY <1>1, GoalFacts, Kinds DEF IInv, PickOK, SlotType
  <2>9. Told => Told'
    BY <1>1, <1>2 DEF Told, Aged, WireType, States, Holding
  <2>2. CASE running # cur
    <3>1. (cur \in feedback' <=> cur \in feedback) /\ (Moved' <=> Moved)
      BY <1>2, <2>2 DEF Moved
    <3>2. ~Moved
      BY <1>2, <2>1, <2>2 DEF Clear
    <3> QED
      BY <1>2, <2>1, <2>2, <3>1, <3>2 DEF QueueOK, Clear
  <2>3. CASE running = cur
    <3>1. Moved' /\ requests = <<>> /\ (Decisive <=> half' = Hover(cur))
      BY <1>2, <2>1, <2>3, Kinds DEF Moved, QueueOK, Decisive
    <3>2. Moved => half >= Hover(cur) \/ (cur \notin feedback /\ ~vacOn)
      BY <2>1, <2>3 DEF Clear
    <3>3. CASE Moved
      <4>1. /\ feedback' \subseteq {cur}
            /\ (cur \in feedback' \/ vacOn) => half' >= Hover(cur)
            /\ vacOn => cur \notin feedback'
        BY <1>2, <2>1, <2>3, <3>1, <3>2, <3>3 DEF Clear
      <4> QED
        <5>1. QueueOK'
          BY <1>2, <3>1 DEF QueueOK
        <5>2. Clear'
          BY <1>2, <2>1, <2>3, <2>9, <3>1, <3>3, <4>1 DEF Clear, Holding, Hover
        <5>3. pc = "choose" => vacOn'
          BY <1>2, <2>1
        <5> QED
          BY <5>1, <5>2, <5>3
    <3>4. CASE ~Moved
      <4>1. /\ half = 0 /\ ~vacOn /\ feedback = {} /\ cmds = <<>>
            /\ (Holding => on) /\ pc # "choose"
        BY <1>2, <2>1, <2>3, <3>4 DEF Moved, Prompt
      <4>2. /\ feedback' \subseteq {cur}
            /\ (cur \in feedback' \/ vacOn') => half' >= Hover(cur)
        BY <1>2, <2>1, <2>3, <3>1, <4>1
      <4>3. Len(cmds') = 0
        BY <1>2, <4>1
      <4>4. QueueOK' /\ Clear'
        <5>1. QueueOK'
          BY <1>2, <3>1 DEF QueueOK
        <5>2. \A i \in 1 .. Len(cmds') : cmds'[i] = TRUE
          BY <4>3
        <5>3. (Holding' => on') /\ Told' /\ ~vacOn'
          <6>1. states' = {[t EXCEPT !.old = t.sealed] : t \in states}
            BY <1>2, <2>1, <2>3, <4>1 DEF Aged, PickOK, IInv
          <6>2. \A t \in states : [t EXCEPT !.old = t.sealed].sealed = t.sealed
                                  /\ [t EXCEPT !.old = t.sealed].old = t.sealed
            BY <1>1 DEF WireType, States
          <6>3. Told'
            BY <6>1, <6>2 DEF Told
          <6> QED
            BY <1>2, <4>1, <6>3 DEF Holding
        <5> QED
          BY <1>2, <2>1, <2>3, <3>1, <4>2, <5>1, <5>2, <5>3 DEF Clear, Hover
      <4> QED
        BY <4>1, <4>4
    <3> QED
      BY <3>3, <3>4
  <2> QED
    BY <2>2, <2>3
<1> QED
  BY <1>2, <1>4, <1>5, <1>6, OthersKeep

(* The slot is free again.                                                  *)
LEMMA GoalEndsKeeps ==
  ASSUME IInv, GoalEnds
  PROVE  IInv'
<1>1. MainType /\ FlagType /\ WireType /\ SlotType
  BY TypeParts DEF IInv
<1>2. /\ running # NoGoal /\ running' = NoGoal /\ half' = 0
      /\ outcome' \in {outcome, "SUCCESS", "PREEMPTED", "other"}
      /\ UNCHANGED <<pc, k, cur, ok, done, parked, inPocket, vacOn, rel, vacSealed, vacFresh,
                     requests, feedback, cmds, states, on, held, down, heldSince, stale>>
  BY DEF GoalEnds, Motion!Over, main, flags, wires, cup, history
<1>3. TypeOK'
  <2>1. MainType'
    BY <1>1, <1>2 DEF MainType
  <2>2. FlagType'
    BY <1>1, <1>2, Zenon DEF FlagType
  <2>3. WireType' /\ SlotType'
    BY <1>1, <1>2 DEF WireType, SlotType
  <2> QED
    BY <2>1, <2>2, <2>3, TypePartsNext
<1>4. Pending'
  BY <1>2 DEF IInv, Pending, Known
<1>5. PickKept
  <2> SUFFICES ASSUME pc \in Picking
               PROVE  QueueOK' /\ Clear' /\ (pc = "choose" => vacOn')
    BY DEF PickKept
  <2>1. /\ cur # NoGoal /\ QueueOK /\ Clear /\ (pc = "choose" => vacOn)
    BY GoalFacts, Kinds DEF IInv, PickOK
  <2>2. Moved' => Moved
    BY <1>2, <2>1 DEF Moved
  <2>3. QueueOK'
    BY <1>2, <2>1, <2>2 DEF QueueOK
  <2>4. Clear'
    BY <1>2, <2>1, <2>2 DEF Clear, Told, Holding, Hover
  <2> QED
    BY <1>2, <2>1, <2>3, <2>4
<1> QED
  BY <1>2, <1>3, <1>4, <1>5, OthersKeep

(* A command arrives: once the pick has moved, it is an on.                 *)
LEMMA OnCmdKeeps ==
  ASSUME IInv, OnCmd
  PROVE  IInv'
<1>1. MainType /\ FlagType /\ WireType /\ SlotType
  BY TypeParts DEF IInv
<1>2. /\ cmds # <<>> /\ cmds' = Tail(cmds) /\ on' = Head(cmds)
      /\ UNCHANGED <<pc, k, cur, ok, done, parked, inPocket, vacOn, rel, vacSealed, vacFresh,
                     requests, feedback, states, held, running, half, outcome, down, heldSince,
                     stale>>
  BY Zenon DEF OnCmd, Cup!Command, main, flags, server, history
<1>3. /\ Tail(cmds) \in Seq(BOOLEAN) /\ Head(cmds) \in BOOLEAN /\ Head(cmds) = cmds[1]
      /\ Len(cmds) \in Nat /\ Len(cmds) >= 1 /\ Len(Tail(cmds)) = Len(cmds) - 1
      /\ \A i \in 1 .. Len(Tail(cmds)) : Tail(cmds)[i] = cmds[i + 1]
  BY <1>1, <1>2, TailFacts DEF WireType
<1>4. TypeOK'
  <2>1. MainType'
    BY <1>1, <1>2, Zenon DEF MainType
  <2>2. FlagType'
    BY <1>1, <1>2, <1>3, Zenon DEF FlagType
  <2>3. WireType' /\ SlotType'
    BY <1>1, <1>2, <1>3, Zenon DEF WireType, SlotType, Full
  <2> QED
    BY <2>1, <2>2, <2>3, TypePartsNext
<1>5. Pending'
  BY <1>2 DEF IInv, Pending, Known
<1>6. PickKept
  <2> SUFFICES ASSUME pc \in Picking
               PROVE  QueueOK' /\ Clear' /\ (pc = "choose" => vacOn')
    BY DEF PickKept
  <2>1. QueueOK /\ Clear /\ (pc = "choose" => vacOn)
    BY DEF IInv, PickOK
  <2>2. Moved' <=> Moved
    BY <1>2 DEF Moved
  <2>3. QueueOK'
    BY <1>2, <2>1, <2>2 DEF QueueOK
  <2>4. CASE ~Moved
    BY <1>2, <2>1, <2>2, <2>3, <2>4 DEF Clear
  <2>5. CASE Moved
    <3>1. \A i \in 1 .. Len(cmds) : cmds[i] = TRUE
      BY <2>1, <2>5 DEF Clear
    <3>2. on' = TRUE /\ \A i \in 1 .. Len(cmds') : cmds'[i] = TRUE
      BY <1>2, <1>3, <3>1
    <3>3. Clear'
      BY <1>2, <2>1, <2>5, <3>2 DEF Clear, Told, Holding, Hover
    <3> QED
      BY <1>2, <2>1, <2>3, <3>3
  <2> QED
    BY <2>4, <2>5
<1> QED
  BY <1>2, <1>4, <1>5, <1>6, OthersKeep

(* The cup takes hold, lets go, and tells.                                  *)
LEMMA CupKeeps ==
  ASSUME IInv, CupGrabs \/ CupLetsGo \/ PublishState
  PROVE  IInv'
<1>1. MainType /\ FlagType /\ WireType /\ SlotType
  BY TypeParts DEF IInv
<1>2. /\ \/ on /\ held = "none" /\ held' = "product" /\ heldSince' = vacOn /\ states' = states
         \/ Holding /\ ~on /\ held' = "none" /\ heldSince' = heldSince /\ states' = states
         \/ held' = held /\ heldSince' = heldSince
            /\ states' = states \cup {[sealed |-> Holding, old |-> FALSE]}
      /\ UNCHANGED <<pc, k, cur, ok, done, parked, inPocket, vacOn, rel, vacSealed, vacFresh,
                     requests, feedback, cmds, on, running, half, outcome, down, stale>>
  <2>1. held \in {"none", "product"}
    BY <1>1 DEF FlagType
  <2>2. CASE CupGrabs
    BY <2>2 DEF CupGrabs, Cup!Grab, main, flags, wires, server
  <2>3. CASE CupLetsGo
    BY <2>1, <2>3 DEF CupLetsGo, Cup!LetGo, Holding, main, flags, wires, server, history
  <2>4. CASE PublishState
    BY <2>4 DEF PublishState, main, flags, cup, server, history
  <2> QED
    BY <2>2, <2>3, <2>4
<1>3. TypeOK'
  <2>1. MainType'
    BY <1>1, <1>2, Zenon DEF MainType
  <2>2. held' \in {"none", "product"} /\ heldSince' \in BOOLEAN
    BY <1>1, <1>2 DEF FlagType
  <2>3. FlagType'
    BY <1>1, <1>2, <2>2, Zenon DEF FlagType
  <2>4. states' \subseteq States
    <3>1. [sealed |-> Holding, old |-> FALSE] \in States
      BY DEF Holding, States
    <3> QED
      BY <1>1, <1>2, <3>1 DEF WireType
  <2>5. WireType' /\ SlotType'
    BY <1>1, <1>2, <2>4, Zenon DEF WireType, SlotType, Full
  <2> QED
    BY <2>1, <2>3, <2>5, TypePartsNext
<1>4. Pending'
  BY <1>2 DEF IInv, Pending, Known
<1>5. PickKept
  <2> SUFFICES ASSUME pc \in Picking
               PROVE  QueueOK' /\ Clear' /\ (pc = "choose" => vacOn')
    BY DEF PickKept
  <2>1. QueueOK /\ Clear /\ (pc = "choose" => vacOn)
    BY DEF IInv, PickOK
  <2>2. (Moved' <=> Moved) /\ (vacOn /\ heldSince => heldSince')
    BY <1>2 DEF Moved
  <2>3. QueueOK'
    BY <1>2, <2>1, <2>2 DEF QueueOK
  <2>4. CASE ~Moved
    BY <1>2, <2>1, <2>2, <2>3, <2>4 DEF Clear
  <2>5. CASE Moved
    <3>1. (Holding => on) /\ Told
      BY <2>1, <2>5 DEF Clear
    <3>2. /\ Holding' => on' /\ (vacOn => (Holding /\ Holding' = Holding) \/ heldSince' \/ ~Holding')
      BY <1>2, <3>1 DEF Holding
    <3>3. vacOn => (Holding' => heldSince') /\ (vacFresh /\ vacSealed => heldSince' \/ stale')
      BY <1>2, <2>1, <2>2, <2>5, <3>1 DEF Clear, Holding
    <3>4. Told'
      <4>1. CASE states' = states
        <5>1. Holding => Holding'
          BY <1>2, <3>1 DEF Holding
        <5> QED
          BY <3>1, <4>1, <5>1 DEF Told
      <4>2. CASE held' = held /\ states' = states \cup {[sealed |-> Holding, old |-> FALSE]}
        <5>1. Holding' = Holding /\ Holding \in BOOLEAN
          BY <4>2 DEF Holding
        <5>2. [sealed |-> Holding, old |-> FALSE].sealed = Holding
          OBVIOUS
        <5>3. \A t \in states' : t \in states \/ t = [sealed |-> Holding, old |-> FALSE]
          BY <4>2
        <5> QED
          BY <3>1, <5>1, <5>2, <5>3, Zenon DEF Told
      <4> QED
        BY <1>2, <4>1, <4>2
    <3>5. Clear'
      BY <1>2, <2>1, <2>5, <3>2, <3>3, <3>4 DEF Clear, Hover
    <3> QED
      BY <1>2, <2>1, <2>2, <2>3, <3>5
  <2> QED
    BY <2>4, <2>5
<1> QED
  BY <1>2, <1>3, <1>4, <1>5, OthersKeep

-----------------------------------------------------------------------------
(* The invariant, and what it gives.                                        *)

LEMMA NextIInv == IInv /\ [Next]_vars => IInv'
<1> SUFFICES ASSUME IInv, [Next]_vars PROVE IInv'
  OBVIOUS
<1>1. CASE Main
  <2>1. PickAnswered => pc' \in {"pickWait", "schedule"}
    BY DEF PickAnswered, AskEnds
  <2> QED
    BY <1>1, <2>1, SendsKeep, WaitsKeep, PickSendKeeps, PickWaitsKeep DEF Main
<1>2. ASSUME NEW g \in Goals, OnFbPick(g) \/ OnFbPlace(g) PROVE IInv'
  BY <1>2, OnFbPickKeeps, OnFbPlaceKeeps
<1>3. ASSUME NEW s \in States, OnVacuumState(s) PROVE IInv'
  BY <1>3, OnVacuumStateKeeps
<1>4. CASE AnswerGoal \/ Report \/ GoalEnds \/ OnCmd
  BY <1>4, AnswerGoalKeeps, ReportKeeps, GoalEndsKeeps, OnCmdKeeps
<1>5. CASE CupGrabs \/ CupLetsGo \/ PublishState
  BY <1>5, CupKeeps
<1>6. CASE UNCHANGED vars
  <2>1. UNCHANGED <<pc, k, cur, ok, done, parked, inPocket, vacOn, rel, vacSealed, vacFresh,
                    requests, feedback, cmds, states, on, held, running, half, outcome, down,
                    heldSince, stale>>
    BY <1>6 DEF vars, main, flags, wires, cup, server, history
  <2>2. TypeOK'
    BY <2>1, Zenon DEF IInv, TypeOK, Full
  <2>3. Pending'
    BY <2>1, Zenon DEF IInv, Pending, Known
  <2>4. PickKept
    BY <2>1, Zenon DEF IInv, PickKept, PickOK, NoBlindCarry, QueueOK, Clear, Told, Moved, Holding, Hover
  <2> QED
    BY <2>1, <2>2, <2>3, <2>4, OthersKeep
<1> QED
  BY <1>1, <1>2, <1>3, <1>4, <1>5, <1>6 DEF Next

(* The variables of the task, the wires, the server's slot and the cup keep *)
(* their types, whatever order goals, feedback, states and commands come in.*)
THEOREM TypeCorrect == Spec => []TypeOK
<1>1. IInv => TypeOK
  BY DEF IInv
<1> QED
  BY <1>1, InitIInv, NextIInv, PTL DEF Spec

(* A transfer to a pocket begins only with a product that was held at the   *)
(* vac_on of this pick or since, or on the word of a state that was under   *)
(* way already when the first motion of the pick was over (pick,            *)
(* on_vacuum_state, run_cycle); for any number of attempts and any order of *)
(* states.                                                                  *)
THEOREM NoBlindCarries == Spec => NoBlindCarry
<1>1. ASSUME IInv, [Next]_vars, pc # "choose", pc' = "choose"
      PROVE  heldSince \/ stale
  <2>1. PickSealed
    BY <1>1 DEF Next, Main, vars, main, GoPark, MoveAnswered, MoveEnds, PickSend, PickAnswered,
                PickFails, Retreat, PlaceSend, PlaceAnswered, PlaceEnds, LetGo, Placed, AskEnds,
                OnFbPick, OnFbPlace, OnVacuumState, AnswerGoal, Report, GoalEnds, OnCmd,
                CupGrabs, CupLetsGo, PublishState
  <2>2. pc \in Picking /\ vacOn /\ vacSealed /\ vacFresh
    BY <2>1 DEF PickSealed, Picking
  <2> QED
    BY <1>1, <2>2 DEF IInv, PickOK, Clear, Moved
<1>2. IInv /\ [Next]_vars => (pc # "choose" /\ pc' = "choose" => heldSince \/ stale)
  BY <1>1
<1> QED
  BY <1>2, InitIInv, NextIInv, PTL DEF Spec, NoBlindCarry

-----------------------------------------------------------------------------
(* Letting go: from the seal to the end of the place.                       *)

Placing == {"placeAsk", "placeWait"}

(* A step that changes nothing of the goals and the arm and calls for no    *)
(* off that was not coming.                                                 *)
LEMMA OffKept ==
  ASSUME PlaceOK, pc' \in Placing => pc \in Placing,
         UNCHANGED <<cur, requests, running, half, down>>, feedback' \subseteq feedback,
         OffComes' => OffComes
  PROVE  PlaceOK'
BY Zenon DEF PlaceOK, Placing, Hover, Contact

(* The place begins with the pick over or past its hover, and no off under  *)
(* way: the seal was seen with the product held on the vacuum of this pick. *)
LEMMA PlaceSendOK ==
  ASSUME IInv, PlaceSend
  PROVE  PlaceOK'
<1> DEFINE g == [k |-> k, what |-> "place"]
<1>1. /\ pc = "choose" /\ Send(g) /\ g \in Goals /\ g \in Places
      /\ UNCHANGED <<running, half, feedback, cmds, on, held>>
  <2>1. pc = "choose" /\ Send(g) /\ UNCHANGED <<running, half, feedback, cmds, on, held>>
    BY Zenon DEF PlaceSend, cup
  <2>2. k \in 1 .. MaxAttempts
    BY <2>1, BoundsAssumption DEF IInv, TypeOK, CountOK, InAttempt
  <2>3. g \in Places
    BY <2>2 DEF Places, Attempts
  <2> QED
    BY <2>1, <2>3, Kinds
<1> HIDE DEF g
<1>2. /\ cur \in Picks /\ vacOn /\ requests = <<>> /\ running \in {cur, NoGoal}
      /\ feedback = {} /\ \A i \in 1 .. Len(cmds) : cmds[i] = TRUE
      /\ Holding => on
      /\ running = cur => half >= Hover(cur)
  BY <1>1 DEF IInv, PickOK, Picking, Clear, Moved
<1>3. cur' = g /\ requests' = <<cur'>>
  <2>1. Append(<<>>, g) = <<g>>
    OBVIOUS
  <2> QED
    BY <1>1, <1>2, <2>1, Zenon DEF Send
<1>4. running' # cur' /\ (running' # NoGoal => running' \in Picks /\ half' >= Hover(running'))
  <2>1. g # cur /\ g # NoGoal
    BY <1>1, <1>2, Kinds, GoalFacts
  <2> QED
    BY <1>1, <1>2, <1>3, <2>1, Zenon
<1>5. ~OffComes'
  BY <1>1, <1>2, <1>3 DEF OffComes, Holding
<1> QED
  BY <1>1, <1>2, <1>3, <1>4, <1>5 DEF PlaceOK, Hover, Contact

(* The other steps of the main thread begin no place.                       *)
LEMMA MainOK ==
  ASSUME IInv, PlaceOK, Main
  PROVE  PlaceOK'
<1>1. CASE PlaceSend
  BY <1>1, PlaceSendOK
<1>2. CASE PlaceAnswered
  <2>1. /\ pc = "placeAsk"
        /\ UNCHANGED <<cur, requests, running, half, down, feedback, cmds, on, held>>
    BY <1>2, Zenon DEF PlaceAnswered, wires, server, history, cup
  <2>2. OffComes' => OffComes
    BY <2>1, Zenon DEF OffComes, Holding
  <2> QED
    BY <2>1, <2>2, OffKept DEF Placing
<1>3. CASE ~PlaceSend /\ ~PlaceAnswered
  <2>1. pc' \notin Placing
    BY <1>3 DEF Main, GoPark, MoveAnswered, MoveEnds, PickSend, PickAnswered, PickSealed,
                PickFails, Retreat, PlaceEnds, LetGo, Placed, AskEnds, Placing
  <2> QED
    BY <2>1 DEF PlaceOK, Placing
<1> QED
  BY <1>1, <1>2, <1>3

(* The callbacks: while a place is on, no pick's hover is left to be told,  *)
(* and the contact that calls for the off was made.                         *)
LEMMA CallbacksOK ==
  ASSUME IInv, PlaceOK,
         \/ \E g \in Goals : OnFbPick(g) \/ OnFbPlace(g)
         \/ \E s \in States : OnVacuumState(s)
  PROVE  PlaceOK'
<1>1. pc' = pc /\ UNCHANGED <<cur, requests, running, half, down, on, held>>
  BY Zenon DEF OnFbPick, OnFbPlace, OnVacuumState, main, wires, cup, server, history
<1>2. CASE pc \notin Placing
  BY <1>1, <1>2 DEF PlaceOK, Placing
<1>3. CASE pc \in Placing
  <2>1. cur \in Places /\ feedback \subseteq {cur}
    BY <1>3 DEF PlaceOK, Placing
  <2>2. ASSUME NEW g \in Goals, OnFbPick(g) PROVE FALSE
    BY <2>1, <2>2, Kinds DEF OnFbPick
  <2>3. ASSUME NEW g \in Goals, OnFbPlace(g) PROVE PlaceOK'
    <3>1. OffComes /\ feedback' \subseteq feedback
      BY <2>1, <2>3 DEF OnFbPlace, OffComes
    <3> QED
      BY <1>1, <3>1, OffKept
  <2>4. ASSUME NEW s \in States, OnVacuumState(s) PROVE PlaceOK'
    <3>1. UNCHANGED <<feedback, cmds>>
      BY <2>4, Zenon DEF OnVacuumState
    <3>2. OffComes' => OffComes
      BY <1>1, <3>1, Zenon DEF OffComes, Holding
    <3> QED
      BY <1>1, <3>1, <3>2, OffKept
  <2> QED
    BY <2>2, <2>3, <2>4
<1> QED
  BY <1>2, <1>3

(* The server takes the place, while no off is under way yet.               *)
LEMMA AnswerGoalOK ==
  ASSUME IInv, PlaceOK, AnswerGoal
  PROVE  PlaceOK'
<1>1. /\ requests # <<>> /\ requests' = Tail(requests) /\ pc' = pc /\ cur' = cur
      /\ running' = Head(requests) \/ (running' = running /\ half' = half)
      /\ UNCHANGED <<feedback, cmds, on, held>>
  BY Zenon DEF AnswerGoal, Motion!Take, main, cup
<1>2. CASE pc \notin Placing
  BY <1>1, <1>2 DEF PlaceOK, Placing
<1>3. CASE pc \in Placing
  <2>1. /\ cur \in Places /\ feedback \subseteq {cur} /\ requests = <<cur>> /\ running # cur /\ ~OffComes
        /\ running \notin {cur, NoGoal} => running \in Picks /\ half >= Hover(running)
    BY <1>1, <1>3, Zenon DEF PlaceOK, Placing
  <2>2. Tail(<<cur>>) = <<>> /\ Head(<<cur>>) = cur
    OBVIOUS
  <2>3. ~OffComes'
    BY <1>1, <2>1, Zenon DEF OffComes, Holding
  <2>4. requests' = <<>> /\ (running' = cur \/ (running' = running /\ half' = half))
    BY <1>1, <2>1, <2>2, Zenon
  <2> QED
    BY <1>1, <2>1, <2>3, <2>4, Zenon DEF PlaceOK, Hover
<1> QED
  BY <1>2, <1>3

(* What is told as decisive is the contact of the present place, or nothing.*)
LEMMA ReportOK ==
  ASSUME IInv, PlaceOK, Report
  PROVE  PlaceOK'
<1>1. /\ running # NoGoal /\ running \in Goals /\ running' = running /\ half' > half
      /\ half \in Nat /\ half' \in Nat
      /\ feedback' = IF Decisive THEN feedback \cup {running} ELSE feedback
      /\ down' = (running \in Places /\ half' >= Contact(running))
      /\ UNCHANGED <<pc, cur, requests, cmds, on, held>>
  <2>1. running # NoGoal /\ running \in Goals /\ half \in Nat
    BY DEF IInv, TypeOK, Report, Motion!Report
  <2> QED
    BY <2>1, GoalFacts DEF Report, Motion!Report, main, cup
<1>2. CASE pc \notin Placing
  BY <1>1, <1>2 DEF PlaceOK, Placing
<1>3. CASE pc \in Placing
  <2>1. /\ cur \in Places /\ feedback \subseteq {cur}
        /\ requests = <<>> \/ (requests = <<cur>> /\ running # cur)
        /\ running # cur => running \in Picks /\ half >= Hover(running)
        /\ OffComes => running = cur /\ half >= Contact(cur)
    BY <1>1, <1>3, Zenon DEF PlaceOK, Placing
  <2>2. CASE running # cur
    <3>1. running \in Picks /\ half' > Hover(running) /\ ~Decisive
      <4>1. running \in Picks /\ Hover(running) \in Nat /\ running \notin Places
        BY <1>1, <2>1, <2>2, GoalFacts, Kinds
      <4>2. half' > Hover(running) /\ half' # Hover(running)
        BY <1>1, <2>1, <2>2, <4>1
      <4> QED
        BY <4>1, <4>2, Zenon DEF Decisive
    <3>2. ~OffComes' /\ feedback' = feedback
      BY <1>1, <2>1, <2>2, <3>1, Zenon DEF OffComes, Holding
    <3>3. half' >= Hover(running)
      BY <1>1, <3>1, GoalFacts
    <3> QED
      BY <1>1, <2>1, <2>2, <3>1, <3>2, <3>3, Zenon DEF PlaceOK, Hover
  <2>3. CASE running = cur
    <3>1. Contact(cur) \in Nat /\ cur \notin Picks
      BY <1>1, <2>1, <2>3, GoalFacts, Kinds
    <3>2. Decisive => half' = Contact(cur)
      BY <2>1, <2>3, <3>1, Zenon DEF Decisive
    <3>3. OffComes' => OffComes \/ Decisive
      BY <1>1, Zenon DEF OffComes, Holding
    <3>4. OffComes' => half' >= Contact(cur)
      <4>1. OffComes => half' >= Contact(cur)
        BY <1>1, <2>1, <3>1
      <4>2. Decisive => half' >= Contact(cur)
        BY <1>1, <3>1, <3>2
      <4> QED
        BY <3>3, <4>1, <4>2
    <3>5. OffComes' => down'
      BY <1>1, <2>1, <2>3, <3>4, Zenon
    <3>6. feedback' \subseteq {cur}
      BY <1>1, <2>1, <2>3
    <3>7. requests' = <<>> /\ running' = cur' /\ cur' = cur /\ requests = <<>>
      BY <1>1, <2>1, <2>3
    <3> QED
      BY <2>1, <3>4, <3>5, <3>6, <3>7, Zenon DEF PlaceOK, Contact
  <2> QED
    BY <2>2, <2>3
<1> QED
  BY <1>2, <1>3

LEMMA GoalEndsOK ==
  ASSUME IInv, PlaceOK, GoalEnds
  PROVE  PlaceOK'
<1>1. running' = NoGoal /\ UNCHANGED <<pc, cur, requests, feedback, cmds, on, held, down>>
  BY Zenon DEF GoalEnds, Motion!Over, main, wires, cup, history
<1>2. OffComes' => OffComes
  BY <1>1, Zenon DEF OffComes, Holding
<1>3. Places \subseteq Goals /\ \A g \in Goals : g # NoGoal
  BY Kinds, GoalFacts
<1> QED
  BY <1>1, <1>2, <1>3, Zenon DEF PlaceOK

(* A command that is an off when it arrives was one on its way.             *)
LEMMA CupOK ==
  ASSUME IInv, PlaceOK, OnCmd \/ CupGrabs \/ CupLetsGo \/ PublishState
  PROVE  PlaceOK'
<1>1. UNCHANGED <<pc, cur, requests, feedback, running, half, down>>
  BY Zenon DEF OnCmd, CupGrabs, CupLetsGo, PublishState, main, wires, server, history
<1>2. OffComes' => OffComes
  <2>1. CASE OnCmd
    <3>1. /\ cmds \in Seq(BOOLEAN) /\ cmds # <<>> /\ cmds' = Tail(cmds) /\ on' = Head(cmds)
          /\ held' = held
      BY <2>1, Zenon DEF IInv, TypeOK, OnCmd, Cup!Command
    <3>2. /\ Head(cmds) = cmds[1] /\ Head(cmds) \in BOOLEAN /\ 1 \in 1 .. Len(cmds)
          /\ \A i \in 1 .. Len(cmds') : cmds'[i] = cmds[i + 1] /\ i + 1 \in 1 .. Len(cmds)
      BY <3>1, TailFacts
    <3>3. ~on' => cmds[1] = FALSE
      BY <3>1, <3>2
    <3>4. (\E i \in 1 .. Len(cmds') : cmds'[i] = FALSE) => \E i \in 1 .. Len(cmds) : cmds[i] = FALSE
      BY <3>2
    <3> QED
      BY <1>1, <3>1, <3>2, <3>3, <3>4, Zenon DEF OffComes, Holding
  <2>2. CASE CupGrabs
    BY <1>1, <2>2, Zenon DEF CupGrabs, Cup!Grab, wires, OffComes
  <2>3. CASE CupLetsGo
    BY <1>1, <2>3, Zenon DEF CupLetsGo, Cup!LetGo, wires, OffComes, Holding
  <2>4. CASE PublishState
    BY <1>1, <2>4, Zenon DEF PublishState, cup, OffComes, Holding
  <2> QED
    BY <2>1, <2>2, <2>3, <2>4
<1> QED
  BY <1>1, <1>2, OffKept

LEMMA NextPlaceOK == IInv /\ PlaceOK /\ [Next]_vars => PlaceOK'
<1> SUFFICES ASSUME IInv, PlaceOK, [Next]_vars PROVE PlaceOK'
  OBVIOUS
<1>1. CASE UNCHANGED vars
  <2>1. UNCHANGED <<pc, cur, requests, feedback, cmds, running, half, down, on, held>>
    BY <1>1, Zenon DEF vars, main, wires, cup, server, history
  <2>2. OffComes' => OffComes
    BY <2>1, Zenon DEF OffComes, Holding
  <2> QED
    BY <2>1, <2>2, OffKept
<1> QED
  BY <1>1, MainOK, CallbacksOK, AnswerGoalOK, ReportOK, GoalEndsOK, CupOK DEF Next

(* A step after which the product is no longer held.                        *)
LEMMA LetsGoInContact ==
  ASSUME IInv, PlaceOK, [Next]_vars, Holding, ~Holding',
         pc \in {"choose", "placeAsk", "placeWait"}
  PROVE  down /\ cur \in Places
<1>1. CupLetsGo
  <2>1. held' = held => FALSE
    BY DEF Holding
  <2>2. (UNCHANGED vars \/ Main \/ OnCmd \/ CupGrabs \/ PublishState) => held' = held \/ Holding'
    BY DEF vars, cup, OnCmd, Cup!Command, CupGrabs, Cup!Grab, Holding, PublishState, Main, GoPark,
           MoveAnswered, MoveEnds, PickSend, PickAnswered, PickSealed, PickFails, Retreat,
           PlaceSend, PlaceAnswered, PlaceEnds, LetGo, Placed
  <2>3. (AnswerGoal \/ Report \/ GoalEnds) => held' = held
    BY Zenon DEF AnswerGoal, Report, GoalEnds, cup
  <2>4. \A g : OnFbPick(g) \/ OnFbPlace(g) => held' = held
    BY Zenon DEF OnFbPick, OnFbPlace, cup
  <2>5. \A s : OnVacuumState(s) => held' = held
    BY Zenon DEF OnVacuumState, cup
  <2> QED
    BY <2>1, <2>2, <2>3, <2>4, <2>5, Zenon DEF Next
<1>2. ~on
  BY <1>1 DEF IInv, TypeOK, CupLetsGo, Cup!LetGo
<1>3. pc # "choose"
  BY <1>2 DEF IInv, PickOK, Picking, Clear, Moved
<1>4. OffComes
  BY <1>2 DEF OffComes
<1>5. pc \in {"placeAsk", "placeWait"}
  BY <1>3
<1> QED
  BY <1>4, <1>5, Zenon DEF PlaceOK

(* From the seal to the end of the place (pick, place, on_fb_place), the    *)
(* product is let go only with the cup in contact in the pocket of this     *)
(* place: no off of an earlier attempt, however late it arrives, drops it   *)
(* on the way; for any number of attempts.                                  *)
THEOREM ReleasesAtContact == Spec => ReleaseAtContact
<1>1. Init => PlaceOK
  BY DEF Init, PlaceOK
<1>2. IInv /\ PlaceOK /\ [Next]_vars
        => (Holding /\ ~Holding' /\ pc \in {"choose", "placeAsk", "placeWait"}
              => down /\ cur \in Places)
  BY LetsGoInContact
<1> QED
  BY <1>1, <1>2, InitIInv, NextIInv, NextPlaceOK, PTL DEF Spec, ReleaseAtContact
=============================================================================

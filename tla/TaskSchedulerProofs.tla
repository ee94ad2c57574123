------------------------ MODULE TaskSchedulerProofs ------------------------
(***************************************************************************)
(* Proofs about Scheduler and TaskScheduler, for every belt, tray, product *)
(* and look-ahead.                                                         *)
(***************************************************************************)
EXTENDS TaskScheduler, WellFoundedInduction, TLAPS

-----------------------------------------------------------------------------
(* Headings.                                                                *)

(* The cup is never asked to turn by more than a quarter turn, and the      *)
(* heading it is given is one of the product's: a half turn is no matter.   *)
THEOREM QuarterTurn ==
  ASSUME NEW yaw \in Int, NEW ref \in Int
  PROVE  /\ NearestBranch(yaw, ref) \in Int
         /\ NearestBranch(yaw, ref) - ref \in -90 .. 90
         /\ \E h \in Int : NearestBranch(yaw, ref) = yaw + 180 * h
<1> DEFINE q == (ref - yaw) \div 180
           r == (ref - yaw) % 180
<1>1. q \in Int /\ r \in 0 .. 179 /\ ref - yaw = 180 * q + r
  OBVIOUS
<1>2. Round(ref - yaw, 180) \in {q, q + 1}
  BY DEF Round
<1>3. CASE 2 * r < 180 \/ (2 * r = 180 /\ q % 2 = 0)
  <2>1. Round(ref - yaw, 180) = q
    BY <1>3 DEF Round
  <2> QED
    BY <1>1, <1>3, <2>1 DEF NearestBranch
<1>4. CASE ~(2 * r < 180 \/ (2 * r = 180 /\ q % 2 = 0))
  <2>1. Round(ref - yaw, 180) = q + 1
    BY <1>4 DEF Round
  <2>2. 2 * r >= 180
    BY <1>1, <1>4
  <2> QED
    BY <1>1, <2>1, <2>2 DEF NearestBranch
<1> QED
  BY <1>3, <1>4

-----------------------------------------------------------------------------
(* The pockets of a tray.                                                   *)

(* The whole part of a division is the only one that leaves a remainder.    *)
LEMMA DivUnique ==
  ASSUME NEW b \in Nat, NEW q \in Int, NEW r \in Int, 0 <= r, r < b
  PROVE  (q * b + r) \div b = q
<1>1. (q * b + r) = b * q + r
  BY SMT
<1> QED
  BY <1>1, SMT

(* The middle of the k-th of n stretches of length p each, even if it is    *)
(* rounded down, lies in the k-th.                                          *)
LEMMA MiddleFound ==
  ASSUME NEW n \in Nat, NEW p \in Nat \ {0}, NEW k \in Int
  PROVE  LET x == ((2 * k + 1 - n) * p) \div 2
         IN (2 * x + n * p) \div (2 * p) = k
<1> DEFINE w == (2 * k + 1 - n) * p
           x == w \div 2
           e == w % 2
<1>1. w \in Int /\ x \in Int /\ e \in {0, 1} /\ w = 2 * x + e
  BY SMT
<1>2. w + n * p = k * (2 * p) + p
  BY SMT
<1>3. 2 * x + n * p = k * (2 * p) + (p - e)
  BY <1>1, <1>2, SMT
<1>4. p - e \in Int /\ 0 <= p - e /\ p - e < 2 * p
  BY <1>1
<1>5. (k * (2 * p) + (p - e)) \div (2 * p) = k
  BY <1>4, DivUnique
<1> QED
  BY <1>3, <1>5

(* Where a pocket is and which pocket is there agree: the pocket found for  *)
(* the centre of a pocket, as the diagnostics look for it, is that pocket.  *)
THEOREM PocketFound ==
  ASSUME NEW s, s.rows \in Nat \ {0}, s.cols \in Nat \ {0},
         s.pitchX \in Nat \ {0}, s.pitchY \in Nat \ {0}, NEW i \in Pockets(s)
  PROVE  PocketOfPoint(s, OffsetX(s, i), OffsetY(s, i)) = i
<1> DEFINE n == s.cols
           c == i % n
           r == i \div n
<1>1. i \in Nat /\ i < s.rows * n
  BY SMT DEF Pockets
<1>2. c \in 0 .. n - 1 /\ r \in Nat /\ i = r * n + c
  BY <1>1, SMT
<1>3. r < s.rows
  <2>1. SUFFICES ASSUME s.rows <= r PROVE FALSE
    BY <1>2
  <2>2. \A a, b, m \in Nat : a <= b => a * m <= b * m
    BY SMT
  <2>3. s.rows * n <= r * n
    BY <1>2, <2>1, <2>2
  <2>4. r * n \in Int /\ s.rows * n \in Int /\ c >= 0
    BY <1>2
  <2> QED
    BY <1>1, <1>2, <2>3, <2>4
<1>4. (2 * OffsetX(s, i) + n * s.pitchX) \div (2 * s.pitchX) = c
  <2>1. c \in Int /\ n \in Nat
    BY <1>2
  <2>2. OffsetX(s, i) = ((2 * c + 1 - n) * s.pitchX) \div 2
    BY Zenon DEF OffsetX
  <2> HIDE DEF c, n
  <2>3. LET x == ((2 * c + 1 - n) * s.pitchX) \div 2
        IN (2 * x + n * s.pitchX) \div (2 * s.pitchX) = c
    BY <2>1, MiddleFound
  <2> QED
    BY <2>2, <2>3, Zenon
<1>5. (2 * OffsetY(s, i) + s.rows * s.pitchY) \div (2 * s.pitchY) = r
  <2>1. r \in Int /\ s.rows \in Nat
    BY <1>2
  <2>2. OffsetY(s, i) = ((2 * r + 1 - s.rows) * s.pitchY) \div 2
    BY Zenon DEF OffsetY
  <2> HIDE DEF r, n
  <2>3. LET x == ((2 * r + 1 - s.rows) * s.pitchY) \div 2
        IN (2 * x + s.rows * s.pitchY) \div (2 * s.pitchY) = r
    BY <2>1, MiddleFound
  <2> QED
    BY <2>2, <2>3, Zenon
<1> QED
  BY <1>2, <1>3, <1>4, <1>5 DEF PocketOfPoint

-----------------------------------------------------------------------------
(* Reach.                                                                   *)

LEMMA SquareGrows ==
  ASSUME NEW a \in Int, NEW b \in Int, 0 <= a, a <= b
  PROVE  Sq(a) <= Sq(b)
BY SMT DEF Sq

LEMMA SquareOfNegative ==
  ASSUME NEW a \in Int
  PROVE  Sq(-a) = Sq(a) /\ Sq(a) \in Int /\ Sq(a) >= 0
BY SMT DEF Sq

(* Of an interval, the ends are furthest from 0.                            *)
LEMMA SquareBetween ==
  ASSUME NEW a \in Int, NEW x \in Int, NEW b \in Int, a <= x, x <= b
  PROVE  Sq(x) <= Sq(a) \/ Sq(x) <= Sq(b)
<1>1. CASE x >= 0
  BY <1>1, SquareGrows
<1>2. CASE x < 0
  <2>1. Sq(-x) <= Sq(-a)
    BY <1>2, SquareGrows
  <2> QED
    BY <2>1, SquareOfNegative
<1> QED
  BY <1>1, <1>2

(* Beside the base the reach has no hole.                                   *)
LEMMA ReachBetween ==
  ASSUME NEW a \in Int, NEW x \in Int, NEW b \in Int, a <= x, x <= b,
         NEW y \in Int, y > ReachMin, Reachable(a, y), Reachable(b, y)
  PROVE  Reachable(x, y)
<1>1. Sq(ReachMin) < Sq(y)
  BY SMT DEF Sq, ReachMin
<1>2. Sq(x) >= 0 /\ Sq(x) \in Int /\ Sq(a) \in Int /\ Sq(b) \in Int /\ Sq(y) \in Int
      /\ Sq(ReachMin) \in Int /\ Sq(ReachMax) \in Int
  BY SquareOfNegative DEF ReachMin, ReachMax
<1>3. Sq(x) <= Sq(a) \/ Sq(x) <= Sq(b)
  BY SquareBetween
<1> HIDE DEF Sq
<1> QED
  BY <1>1, <1>2, <1>3 DEF Reachable, Beyond, Within

(* A pocket served with a margin stays in reach for as long.                *)
LEMMA ServedThroughout ==
  ASSUME NEW px \in Int, NEW py \in Int, py > ReachMin, NEW vx \in Nat,
         NEW lead \in Nat, NEW m \in Nat, NEW u \in 0 .. m,
         Servable(px, py, vx, lead, m)
  PROVE  Reachable(px + vx * (lead + u), py)
<1> DEFINE a == px + vx * lead
           x == px + vx * (lead + u)
           b == px + vx * (lead + m)
<1>1. Reachable(a, py) /\ Reachable(b, py)
  BY DEF Servable
<1>2. vx * lead \in Int /\ vx * (lead + u) \in Int /\ vx * (lead + m) \in Int
  BY SMT
<1>3. vx * lead <= vx * (lead + u)
  BY SMT
<1>4. vx * (lead + u) <= vx * (lead + m)
  BY SMT
<1>5. a \in Int /\ x \in Int /\ b \in Int /\ a <= x /\ x <= b
  BY <1>2, <1>3, <1>4
<1> HIDE DEF a, x, b
<1>6. Reachable(x, py)
  BY <1>1, <1>5, ReachBetween
<1> QED
  BY <1>6 DEF x

(* A product that may be picked stays in reach until the cup has sealed.    *)
LEMMA PickedInReach ==
  ASSUME NEW c, c.x \in Int, c.y \in Int, c.vx \in Nat, NEW lead \in Nat,
         NEW fits, NEW listed, Pickable(c, lead, fits, listed), NEW u \in 0 .. Settle
  PROVE  Reachable(c.x + c.vx * (lead + u), c.y)
<1> DEFINE a == c.x + c.vx * lead
           x == c.x + c.vx * (lead + u)
           b == a + c.vx * Settle
<1>1. Reachable(b, c.y) /\ Beyond(a, c.y, ArriveRadius) /\ PickMin < a
  BY DEF Pickable
<1>2. c.vx * lead \in Int /\ c.vx * (lead + u) \in Int /\ c.vx * Settle \in Int
  BY SMT DEF Settle
<1>3. c.vx * lead <= c.vx * (lead + u)
  BY SMT DEF Settle
<1>4. c.vx * (lead + u) <= c.vx * lead + c.vx * Settle
  BY SMT DEF Settle
<1>5. a \in Int /\ x \in Int /\ b \in Int /\ a <= x /\ x <= b
  BY <1>2, <1>3, <1>4
<1> HIDE DEF a, x, b
<1>6. 0 <= a /\ 0 <= x
  BY <1>1, <1>5 DEF PickMin
<1>7. Sq(a) <= Sq(x) /\ Sq(x) <= Sq(b)
  BY <1>5, <1>6, SquareGrows
<1>8. Sq(a) \in Int /\ Sq(x) \in Int /\ Sq(b) \in Int /\ Sq(c.y) \in Int
  BY <1>5, SquareOfNegative
<1>9. Sq(ReachMin) <= Sq(ArriveRadius) /\ Sq(ReachMin) \in Int /\ Sq(ArriveRadius) \in Int
      /\ Sq(ReachMax) \in Int
  BY DEF Sq, ReachMin, ArriveRadius, ReachMax
<1> HIDE DEF Sq
<1>10. Reachable(x, c.y)
  BY <1>1, <1>7, <1>8, <1>9 DEF Reachable, Beyond, Within
<1> QED
  BY <1>10 DEF x

-----------------------------------------------------------------------------
(* What the task is shown.                                                  *)

LEMMA SlotsAreTheirs ==
  /\ \A tray \in Trays : \A i \in PocketsOf(tray) : <<tray, i>> \in Slots
  /\ \A s \in Slots : s[1] \in Trays /\ s[2] \in PocketsOf(s[1]) /\ s = <<s[1], s[2]>>
BY DEF Slots

(* A pocket that is free is seen empty, is not latched and can be served.   *)
LEMMA FreeSlotFacts ==
  ASSUME NEW v \in Views, NEW lead, NEW m, NEW s \in FreeSlots(v, lead, m)
  PROVE  /\ s \in Slots /\ s \notin v.occupied /\ ~(latched[s] > 0)
         /\ Servable(TrayX(s[1]) + OffsetX(SpecOf[s[1]], s[2]),
                     TrayY + OffsetY(SpecOf[s[1]], s[2]), VOut, lead, m)
<1>1. v.trays \subseteq Trays
  BY DEF Views
<1>2. PICK tray \in v.trays :
        s \in {<<tray, i>> : i \in FreePocket(SpecOf[tray], TrayX(tray), TrayY, VOut, lead, m,
                                            Taken(v, tray))}
  BY DEF FreeSlots
<1>3. PICK i \in FreePocket(SpecOf[tray], TrayX(tray), TrayY, VOut, lead, m, Taken(v, tray)) :
        s = <<tray, i>>
  BY <1>2
<1>4. /\ i \in Pockets(SpecOf[tray]) \ Taken(v, tray)
      /\ Servable(TrayX(tray) + OffsetX(SpecOf[tray], i),
                  TrayY + OffsetY(SpecOf[tray], i), VOut, lead, m)
  BY DEF FreePocket
<1>5. i \in PocketsOf(tray) /\ <<tray, i>> \notin v.occupied /\ ~(latched[<<tray, i>>] > 0)
  BY <1>4 DEF Taken, PocketsOf
<1>6. <<tray, i>> \in Slots
  BY <1>1, <1>5, SlotsAreTheirs
<1> QED
  BY <1>3, <1>4, <1>5, <1>6

(* What is not seen of the pockets was filled since the tray was observed.  *)
LEMMA ViewFacts ==
  ASSUME TypeOK, NEW v \in Views, NEW s \in Filled, s \notin v.occupied
  PROVE  v.age[s[1]] \in 0 .. ViewLag /\ fillAge[s] < v.age[s[1]]
<1>1. PICK a \in [Trays -> ViewAges] :
        v.age = a /\ v.occupied = {r \in Filled : fillAge[r] >= a[r[1]]}
  BY DEF Views
<1>2. s \in Slots /\ s[1] \in Trays
  BY SlotsAreTheirs DEF Filled
<1>3. a[s[1]] \in 0 .. ViewLag
  BY <1>2, TimesAssumption
<1>4. fillAge[s] \in -1 .. ViewLag + 1 /\ ViewLag \in Nat
  BY <1>2, TimesAssumption DEF TypeOK
<1> QED
  BY <1>1, <1>3, <1>4

-----------------------------------------------------------------------------
(* Types.                                                                   *)

LEMMA Times ==
  /\ PickLead \in Nat /\ PlaceLead \in Nat /\ Margin \in Nat /\ WaitMargin \in Nat
  /\ LatchTime \in Nat /\ BlackTime \in Nat /\ HoldTime \in Nat /\ PickTime \in Nat
  /\ ViewLag \in Nat /\ Fresh \in Nat /\ Far \in Nat /\ Step \in Nat
BY TimesAssumption

LEMMA InitType == Init => TypeOK
<1> SUFFICES ASSUME Init
             PROVE  TypeOK
  OBVIOUS
<1>1. travel \in 0 .. Far /\ fillAge \in [Slots -> -1 .. ViewLag + 1]
      /\ latched \in [Slots -> 0 .. LatchTime]
  BY Times DEF Init, Never
<1>2. gone \in [Products -> -1 .. Fresh + 1]
  <2>1. {OnBelt, Fresh + 1} \subseteq -1 .. Fresh + 1
    BY Times DEF OnBelt
  <2> QED
    BY <2>1 DEF Init
<1>3. black \in [Products -> -1 .. BlackTime]
  BY Times DEF Init
<1> QED
  BY <1>1, <1>2, <1>3 DEF Init, TypeOK

LEMMA ListedType ==
  ASSUME TypeOK, Listed
  PROVE  black' \in [Products -> -1 .. BlackTime]
<1>1. BlackTime \in -1 .. BlackTime
  BY Times
<1>2. black \in [Products -> -1 .. BlackTime]
  BY DEF TypeOK
<1> QED
  BY <1>1, <1>2 DEF Listed

LEMMA TickType == TypeOK /\ Tick => TypeOK'
<1> SUFFICES ASSUME TypeOK, Tick
             PROVE  TypeOK'
  OBVIOUS
<1>1. travel' \in 0 .. Far
  <2>1. VOut * Step \in Nat
    BY CellAssumption, Times, SMT
  <2> QED
    BY <2>1, Times DEF TypeOK, Tick, Capped
<1>2. fillAge' \in [Slots -> -1 .. ViewLag + 1]
  BY Times DEF TypeOK, Tick, Older, Capped
<1>3. gone' \in [Products -> -1 .. Fresh + 1]
  BY Times DEF TypeOK, Tick, Older, Capped
<1>4. latched' \in [Slots -> 0 .. LatchTime]
  BY Times DEF TypeOK, Tick, Down
<1>5. black' \in [Products -> -1 .. BlackTime]
  BY Times DEF TypeOK, Tick, Down
<1>6. t' \in Nat
  BY Times DEF TypeOK, Tick
<1> QED
  BY <1>1, <1>2, <1>3, <1>4, <1>5, <1>6 DEF TypeOK, Tick, history

LEMMA ContactType == TypeOK /\ Contact => TypeOK'
<1> SUFFICES ASSUME TypeOK, Contact
             PROVE  TypeOK'
  OBVIOUS
<1>1. contact' \in Nat \cup {NoContact}
  BY DEF Contact, TypeOK
<1> QED
  BY <1>1 DEF Contact, TypeOK, world, memory, history

LEMMA PollType == TypeOK /\ Poll => TypeOK'
<1> SUFFICES ASSUME TypeOK, Poll
             PROVE  TypeOK'
  OBVIOUS
<1>1. /\ phase' \in {"place", "now", "hold"} /\ t' \in Nat
      /\ polled' \in BOOLEAN /\ old' \in BOOLEAN /\ promised' \subseteq promised
  <2>1. ASSUME NEW v \in Views, NEW m, Take(v, m)
        PROVE  phase' = "place" /\ t' = 0 /\ polled' = FALSE /\ promised' = promised
               /\ old' \in BOOLEAN
    BY <2>1 DEF Take, Goto
  <2>2. ASSUME NEW v \in Views, NEW m, NEW next, Pass(v, m, next)
        PROVE  phase' = next /\ t' = t /\ polled' = TRUE /\ promised' \subseteq promised
               /\ old' = old
    BY <2>2 DEF Pass
  <2>3. phase' \in {"place", "now", "hold"} /\ t' \in {0, t}
    BY <2>1, <2>2 DEF Poll
  <2>4. polled' \in BOOLEAN /\ old' \in BOOLEAN /\ promised' \subseteq promised
    BY <2>1, <2>2 DEF Poll, TypeOK
  <2> QED
    BY <2>3, <2>4 DEF TypeOK
<1>2. target' \in Slots \cup {NoSlot}
  <2>1. ASSUME NEW v \in Views, NEW m, Take(v, m)
        PROVE  target' \in Slots
    BY <2>1, FreeSlotFacts DEF Take, FreshSlots
  <2> QED
    BY <2>1 DEF TypeOK, Poll, Pass
<1>3. margin' \in {NoMargin, AsBefore, Margin, 0, WaitMargin}
  BY DEF TypeOK, Poll, Take, Pass
<1> QED
  BY <1>1, <1>2, <1>3 DEF TypeOK, Poll, world, memory

(* What a pick is promised is ready.                                        *)
LEMMA PromisedReady ==
  ASSUME Schedule
  PROVE  \E v \in Views : \A s \in promised' :
           s \in Ready(v) /\ s \in Slots /\ SlotFits(s, cur'.cls)
<1>1. PICK v \in Views : promised' = {s \in Ready(v) : SlotFits(s, cur'.cls)}
  BY DEF Schedule
<1>2. \A s \in Ready(v) : s \in Slots
  BY FreeSlotFacts DEF Ready
<1> QED
  BY <1>1, <1>2

LEMMA ScheduleType == TypeOK /\ Schedule => TypeOK'
<1> SUFFICES ASSUME TypeOK, Schedule
             PROVE  TypeOK'
  OBVIOUS
<1>1. PICK v \in Views :
        /\ \E S \in SUBSET OnOffer : \E seen \in [S -> Places] : \E p \in S :
              cur' = Seen(p, seen[p])
        /\ kept' \in Ready(v)
  BY DEF Schedule
<1>2. kept' \in Slots
  BY <1>1, FreeSlotFacts DEF Ready
<1>3. cur' \in Choices
  BY <1>1 DEF OnOffer, Choices
<1>4. phase' = "pick" /\ t' = 0 /\ polled' = FALSE
      /\ UNCHANGED <<travel, fillAge, gone, latched, black, est, contact, target, margin>>
  BY DEF Schedule, Goto, world, memory, history
<1>5. promised' \subseteq Slots
  BY PromisedReady
<1>6. old' \in BOOLEAN
  <2>1. PICK w \in Views : old' = (w.age[kept'[1]] > LatchTime)
    BY DEF Schedule
  <2> QED
    BY <2>1
<1> QED
  BY <1>2, <1>3, <1>4, <1>5, <1>6 DEF TypeOK

LEMMA NextType == TypeOK /\ [Next]_vars => TypeOK'
<1> SUFFICES ASSUME TypeOK, [Next]_vars
             PROVE  TypeOK'
  OBVIOUS
<1> USE DEF Goto, world, memory, history
<1>1. CASE Schedule
  BY <1>1, ScheduleType
<1>2. CASE PickFails
  BY <1>2, ListedType DEF PickFails, Forget, TypeOK
<1>3. CASE PickSeals
  <2>1. gone' \in [Products -> -1 .. Fresh + 1]
    <3>1. 0 \in -1 .. Fresh + 1
      BY Times
    <3> QED
      BY <1>3, <3>1 DEF PickSeals, TypeOK
  <2>2. promised' \subseteq promised /\ est' \in Ests /\ contact' = NoContact
    BY <1>3 DEF PickSeals, Refined
  <2> QED
    BY <1>3, <2>1, <2>2, ListedType DEF PickSeals, TypeOK
<1>4. CASE Poll
  BY <1>4, PollType
<1>5. CASE FallBack
  BY <1>5 DEF FallBack, TypeOK
<1>6. CASE Release
  <2>1. 0 \in -1 .. ViewLag + 1
    BY Times
  <2>2. fillAge' \in [Slots -> -1 .. ViewLag + 1]
    BY <1>6, <2>1 DEF Release, TypeOK
  <2> QED
    BY <1>6, <2>2 DEF Release, TypeOK
<1>7. CASE PlaceEnds
  <2>1. LatchTime \in 0 .. LatchTime
    BY Times
  <2>2. latched' \in [Slots -> 0 .. LatchTime]
    BY <1>7, <2>1 DEF PlaceEnds, TypeOK
  <2> QED
    BY <1>7, <2>2 DEF PlaceEnds, Forget, TypeOK
<1>8. CASE Tick
  BY <1>8, TickType
<1>9. ASSUME NEW p \in Products, Arrive(p)
      PROVE  TypeOK'
  BY <1>9, Times DEF Arrive, TypeOK, OnBelt
<1>10. CASE UNCHANGED vars
  BY <1>10 DEF vars, TypeOK
<1>11. CASE Contact
  BY <1>11, ContactType
<1> QED
  BY <1>1, <1>2, <1>3, <1>4, <1>5, <1>6, <1>7, <1>8, <1>9, <1>10, <1>11 DEF Next

(* Every variable keeps its type.                                           *)
THEOREM TypeCorrect == Spec => []TypeOK
BY InitType, NextType, PTL DEF Spec

-----------------------------------------------------------------------------
(* No pocket is filled twice.                                               *)

(* A fill is older than any view, or its pocket is latched until it is as   *)
(* old as a latch lasts, or the place it is of has not ended.               *)
FillsRemembered ==
  \A s \in Filled :
    \/ fillAge[s] > ViewLag
    \/ latched[s] + fillAge[s] >= LatchTime
    \/ phase = "release" /\ target = s

(* What was chosen is free until the cup lets go, or was from an old view.  *)
ChosenFree ==
  /\ phase \in {"pick", "seal", "choose", "now", "hold"} /\ kept \in Filled => old
  /\ phase = "place" /\ target \in Filled => old

FillInv == TypeOK /\ FillsRemembered /\ ChosenFree

(* A pocket seen empty and not latched is empty, or the view is older than  *)
(* a latch lasts.                                                           *)
LEMMA FreeIsEmpty ==
  ASSUME FillInv, phase # "release",
         NEW v \in Views, NEW lead, NEW m, NEW s \in FreeSlots(v, lead, m), s \in Filled
  PROVE  v.age[s[1]] > LatchTime
<1>1. s \in Slots /\ s \notin v.occupied /\ ~(latched[s] > 0)
  BY FreeSlotFacts
<1>2. v.age[s[1]] \in 0 .. ViewLag /\ fillAge[s] < v.age[s[1]]
  BY <1>1, ViewFacts DEF FillInv
<1>3. fillAge[s] \in Int /\ latched[s] \in Nat
  BY <1>1 DEF FillInv, TypeOK
<1>4. latched[s] + fillAge[s] >= LatchTime
  BY <1>2, <1>3, Times DEF FillInv, FillsRemembered
<1> QED
  BY <1>1, <1>2, <1>3, <1>4, Times

LEMMA FillInit == Init => FillInv
BY InitType DEF Init, FillInv, FillsRemembered, ChosenFree, Filled, Never

(* Steps that fill and latch nothing.                                       *)
LEMMA FillsUntouched ==
  ASSUME FillInv, UNCHANGED <<fillAge, latched>>, phase # "release"
  PROVE  FillsRemembered' /\ Filled' = Filled
BY DEF FillInv, FillsRemembered, Filled

LEMMA FillTick == FillInv /\ Tick => FillsRemembered' /\ ChosenFree'
<1> SUFFICES ASSUME FillInv, Tick
             PROVE  FillsRemembered' /\ ChosenFree'
  OBVIOUS
<1>1. ASSUME NEW s \in Slots
      PROVE  /\ fillAge[s] \in -1 .. ViewLag + 1 /\ latched[s] \in 0 .. LatchTime
             /\ fillAge'[s] = Older(fillAge[s], ViewLag + 1)
             /\ latched'[s] = Down(latched[s], 0)
  BY DEF FillInv, TypeOK, Tick
<1>2. Filled' = Filled
  <2>1. ASSUME NEW s \in Slots
        PROVE  fillAge'[s] = -1 <=> fillAge[s] = -1
    BY <1>1, Times DEF Older, Capped
  <2> QED
    BY <2>1 DEF Filled, Never
<1>3. FillsRemembered'
  <2> SUFFICES ASSUME NEW s \in Filled
               PROVE  \/ fillAge'[s] > ViewLag
                      \/ latched'[s] + fillAge'[s] >= LatchTime
                      \/ phase' = "release" /\ target' = s
    BY <1>2 DEF FillsRemembered
  <2>1. s \in Slots /\ fillAge[s] # -1
    BY DEF Filled, Never
  <2>2. CASE fillAge[s] > ViewLag
    BY <1>1, <2>1, <2>2, Times DEF Older, Capped
  <2>3. CASE latched[s] + fillAge[s] >= LatchTime
    BY <1>1, <2>1, <2>3, Times DEF Older, Capped, Down
  <2>4. CASE phase = "release" /\ target = s
    BY <2>4 DEF Tick, history
  <2> QED
    BY <2>2, <2>3, <2>4 DEF FillInv, FillsRemembered
<1>4. ChosenFree'
  BY <1>2 DEF FillInv, ChosenFree, Tick, history
<1> QED
  BY <1>3, <1>4

LEMMA FillPlaceEnds == FillInv /\ PlaceEnds => FillsRemembered' /\ ChosenFree'
<1> SUFFICES ASSUME FillInv, PlaceEnds
             PROVE  FillsRemembered' /\ ChosenFree'
  OBVIOUS
<1>1. phase' = "schedule" /\ fillAge' = fillAge /\ Filled' = Filled
      /\ latched' = [latched EXCEPT ![target] = LatchTime]
  BY DEF PlaceEnds, Goto, Filled, world
<1>2. ASSUME NEW s \in Filled
      PROVE  fillAge'[s] > ViewLag \/ latched'[s] + fillAge'[s] >= LatchTime
  <2>1. s \in Slots /\ fillAge[s] \in -1 .. ViewLag + 1 /\ fillAge[s] # -1
    BY DEF FillInv, TypeOK, Filled, Never
  <2>2. CASE s = target
    <3>1. latched'[s] = LatchTime
      BY <1>1, <2>1, <2>2 DEF FillInv, TypeOK
    <3> QED
      BY <1>1, <2>1, <3>1, Times
  <2>3. CASE s # target
    BY <1>1, <2>3 DEF FillInv, FillsRemembered
  <2> QED
    BY <2>2, <2>3
<1> QED
  BY <1>1, <1>2 DEF FillsRemembered, ChosenFree

LEMMA FillStep == FillInv /\ [Next]_vars => FillInv'
<1> SUFFICES ASSUME FillInv, [Next]_vars
             PROVE  FillsRemembered' /\ ChosenFree'
  BY NextType DEF FillInv
<1> USE DEF Goto, world, memory, history
<1>1. CASE Schedule
  <2>1. PICK v \in Views : kept' \in Ready(v) /\ old' = (v.age[kept'[1]] > LatchTime)
    BY <1>1 DEF Schedule
  <2>2. kept' \in Filled => old'
    BY <1>1, <2>1, FreeIsEmpty DEF Ready, Schedule
  <2> QED
    BY <1>1, <2>2, FillsUntouched DEF Schedule, ChosenFree
<1>2. CASE PickFails
  BY <1>2, FillsUntouched DEF PickFails, ChosenFree
<1>3. CASE PickSeals
  BY <1>3, FillsUntouched DEF PickSeals, ChosenFree, FillInv
<1>4. CASE Poll
  <2>1. phase \in {"choose", "now", "hold"} /\ UNCHANGED <<fillAge, latched, kept>>
    BY <1>4 DEF Poll
  <2>2. FillsRemembered' /\ Filled' = Filled
    BY <2>1, FillsUntouched
  <2>3. ASSUME NEW v \in Views, NEW m, Take(v, m)
        PROVE  phase' = "place" /\ (target' \in Filled => old')
    <3>1. target' \in FreeSlots(v, PlaceLead, m) /\ old' = (v.age[target'[1]] > LatchTime)
          /\ phase' = "place"
      BY <2>3 DEF Take, FreshSlots
    <3> QED
      BY <2>1, <3>1, FreeIsEmpty
  <2>4. ASSUME NEW v \in Views, NEW m, NEW next, Pass(v, m, next)
        PROVE  phase' = next /\ old' = old
    BY <2>4 DEF Pass
  <2>5. \/ phase' = "place" /\ (target' \in Filled => old')
        \/ phase' \in {"now", "hold"} /\ old' = old
    BY <1>4, <2>3, <2>4 DEF Poll
  <2> QED
    BY <2>1, <2>2, <2>5 DEF ChosenFree, FillInv
<1>5. CASE FallBack
  BY <1>5, FillsUntouched DEF FallBack, ChosenFree, FillInv
<1>6. CASE Release
  <2>1. phase' = "release" /\ target' = target /\ latched' = latched
        /\ (fillAge' = [fillAge EXCEPT ![target] = 0] \/ fillAge' = fillAge)
    BY <1>6 DEF Release
  <2>2. ASSUME NEW s \in Filled', s # target
        PROVE  s \in Filled /\ fillAge'[s] = fillAge[s]
    BY <2>1, <2>2 DEF Filled, FillInv, TypeOK
  <2>3. FillsRemembered'
    BY <1>6, <2>1, <2>2 DEF FillsRemembered, FillInv, Release
  <2> QED
    BY <2>1, <2>3 DEF ChosenFree
<1>7. CASE PlaceEnds
  BY <1>7, FillPlaceEnds
<1>8. CASE Tick
  BY <1>8, FillTick
<1>9. ASSUME NEW p \in Products, Arrive(p)
      PROVE  FillsRemembered' /\ ChosenFree'
  BY <1>9 DEF Arrive, FillInv, FillsRemembered, ChosenFree, Filled
<1>10. CASE UNCHANGED vars
  BY <1>10 DEF vars, FillInv, FillsRemembered, ChosenFree, Filled
<1>11. CASE Contact
  BY <1>11, FillsUntouched DEF Contact, ChosenFree, FillInv
<1> QED
  BY <1>1, <1>2, <1>3, <1>4, <1>5, <1>6, <1>7, <1>8, <1>9, <1>10, <1>11 DEF Next

(* No product is put into a pocket that holds one, not even by falling      *)
(* back, unless the view the pocket was chosen from was older than a latch  *)
(* lasts; for views of any age and latches of any length.                   *)
THEOREM OneProductPerPocket == Spec => []NoDoubleFill
<1>1. FillInv => NoDoubleFill
  BY DEF FillInv, ChosenFree, NoDoubleFill
<1> QED
  BY <1>1, FillInit, FillStep, PTL DEF Spec

-----------------------------------------------------------------------------
(* No ghost is picked.                                                      *)

(* What left the belt is blacklisted for as long as it may be offered.      *)
GhostsListed ==
  \A p \in Products :
    gone[p] # OnBelt /\ gone[p] <= Fresh => black[p] + gone[p] >= BlackTime

PickKnown == phase \in {"pick", "seal"} => cur.key \in Products

GhostInv == TypeOK /\ GhostsListed /\ NoGhostPick /\ PickKnown

LEMMA GhostInit == Init => GhostInv
<1> SUFFICES ASSUME Init
             PROVE  GhostsListed /\ NoGhostPick /\ PickKnown
  BY InitType DEF GhostInv
<1>1. \A p \in Products : gone[p] = OnBelt \/ gone[p] = Fresh + 1
  BY DEF Init
<1> QED
  BY <1>1, Times DEF Init, GhostsListed, NoGhostPick, PickKnown

LEMMA GhostStep ==
  ASSUME Fresh <= BlackTime
  PROVE  GhostInv /\ [Next]_vars => GhostInv'
<1> SUFFICES ASSUME GhostInv, [Next]_vars
             PROVE  GhostsListed' /\ NoGhostPick' /\ PickKnown'
  BY NextType DEF GhostInv
<1> USE DEF Goto, world, memory, history
<1>0. ASSUME NEW p \in Products
      PROVE  gone[p] \in -1 .. Fresh + 1 /\ black[p] \in -1 .. BlackTime
  BY DEF GhostInv, TypeOK
<1>1. CASE Schedule
  <2>1. PICK v \in Views, S \in SUBSET OnOffer : \E seen \in [S -> Places] :
          \E p \in S :
            /\ Pickable(Seen(p, seen[p]), PickLead,
                        UNION {Fits[SpecOf[s[1]].name] : s \in Ready(v)}, black[p] >= 0)
            /\ cur' = Seen(p, seen[p])
    BY <1>1 DEF Schedule
  <2>2. PICK seen \in [S -> Places] : \E p \in S :
          /\ Pickable(Seen(p, seen[p]), PickLead,
                      UNION {Fits[SpecOf[s[1]].name] : s \in Ready(v)}, black[p] >= 0)
          /\ cur' = Seen(p, seen[p])
    BY <2>1
  <2>3. PICK p \in S :
          /\ Pickable(Seen(p, seen[p]), PickLead,
                      UNION {Fits[SpecOf[s[1]].name] : s \in Ready(v)}, black[p] >= 0)
          /\ cur' = Seen(p, seen[p])
    BY <2>2
  <2>4. p \in OnOffer /\ p \in Products /\ ~(black[p] >= 0) /\ cur'.key = p
    BY <2>3 DEF OnOffer, Pickable, Seen
  <2>5. gone[p] = OnBelt
    <3>1. CASE gone[p] # OnBelt /\ gone[p] <= Fresh
      <4>1. black[p] + gone[p] >= BlackTime
        BY <2>4, <3>1 DEF GhostInv, GhostsListed
      <4> QED
        BY <1>0, <2>4, <3>1, <4>1, Times
    <3> QED
      BY <2>4, <3>1 DEF OnOffer
  <2>6. phase' = "pick" /\ gone' = gone /\ black' = black
    BY <1>1 DEF Schedule
  <2> QED
    BY <2>4, <2>5, <2>6 DEF GhostInv, GhostsListed, NoGhostPick, PickKnown
<1>2. CASE PickFails
  <2>1. phase' = "schedule" /\ gone' = gone
        /\ black' = [black EXCEPT ![cur.key] = BlackTime]
    BY <1>2 DEF PickFails, Listed
  <2>2. ASSUME NEW p \in Products, gone[p] # OnBelt, gone[p] <= Fresh
        PROVE  black'[p] + gone[p] >= BlackTime
    <3>1. black'[p] = black[p] \/ black'[p] = BlackTime
      BY <2>1 DEF GhostInv, TypeOK
    <3> QED
      BY <1>0, <2>2, <3>1, Times DEF GhostInv, GhostsListed, OnBelt
  <2> QED
    BY <2>1, <2>2 DEF GhostsListed, NoGhostPick, PickKnown
<1>3. CASE PickSeals
  <2>1. phase' = "choose" /\ gone' = [gone EXCEPT ![cur.key] = 0]
        /\ black' = [black EXCEPT ![cur.key] = BlackTime]
    BY <1>3 DEF PickSeals, Listed
  <2>2. ASSUME NEW p \in Products, gone'[p] # OnBelt, gone'[p] <= Fresh
        PROVE  black'[p] + gone'[p] >= BlackTime
    <3>1. CASE p = cur.key
      <4>1. gone'[p] = 0 /\ black'[p] = BlackTime
        BY <2>1, <3>1 DEF GhostInv, TypeOK
      <4> QED
        BY <4>1, Times
    <3>2. CASE p # cur.key
      BY <2>1, <2>2, <3>2 DEF GhostInv, GhostsListed
    <3> QED
      BY <3>1, <3>2
  <2> QED
    BY <2>1, <2>2 DEF GhostsListed, NoGhostPick, PickKnown
<1>4. CASE Poll
  <2>1. UNCHANGED <<gone, black>>
    BY <1>4 DEF Poll
  <2>2. phase' \notin {"pick", "seal"}
    BY <1>4 DEF Poll, Take, Pass
  <2> QED
    BY <2>1, <2>2 DEF GhostInv, GhostsListed, NoGhostPick, PickKnown
<1>5. CASE FallBack \/ Release \/ PlaceEnds
  BY <1>5 DEF FallBack, Release, PlaceEnds, GhostInv, GhostsListed, NoGhostPick, PickKnown
<1>6. CASE Tick
  <2>1. ASSUME NEW p \in Products
        PROVE  gone'[p] = Older(gone[p], Fresh + 1) /\ black'[p] = Down(black[p], -1)
    BY <1>6 DEF Tick
  <2>2. ASSUME NEW p \in Products
        PROVE  gone'[p] = OnBelt <=> gone[p] = OnBelt
    BY <1>0, <2>1, Times DEF Older, Capped, OnBelt
  <2>3. ASSUME NEW p \in Products, gone'[p] # OnBelt, gone'[p] <= Fresh
        PROVE  black'[p] + gone'[p] >= BlackTime
    <3>1. gone[p] # OnBelt /\ gone[p] <= Fresh /\ gone'[p] = gone[p] + Step
      BY <1>0, <2>1, <2>3, Times DEF Older, Capped, OnBelt
    <3>2. black[p] + gone[p] >= BlackTime
      BY <3>1 DEF GhostInv, GhostsListed
    <3> QED
      BY <1>0, <2>1, <3>1, <3>2, Times DEF Down
  <2> QED
    BY <1>6, <2>2, <2>3 DEF GhostsListed, NoGhostPick, PickKnown, GhostInv, Tick
<1>7. ASSUME NEW p \in Products, Arrive(p)
      PROVE  GhostsListed' /\ NoGhostPick' /\ PickKnown'
  <2>1. gone' = [gone EXCEPT ![p] = OnBelt] /\ black' = [black EXCEPT ![p] = -1]
        /\ phase' = phase /\ cur' = cur
    BY <1>7 DEF Arrive
  <2>2. GhostsListed'
    BY <2>1 DEF GhostInv, GhostsListed, TypeOK
  <2>3. NoGhostPick' /\ PickKnown'
    BY <2>1 DEF GhostInv, NoGhostPick, PickKnown, TypeOK
  <2> QED
    BY <2>2, <2>3
<1>8. CASE UNCHANGED vars
  BY <1>8 DEF vars, GhostInv, GhostsListed, NoGhostPick, PickKnown
<1>9. CASE Contact
  BY <1>9 DEF Contact, GhostInv, GhostsListed, NoGhostPick, PickKnown
<1> QED
  BY <1>1, <1>2, <1>3, <1>4, <1>5, <1>6, <1>7, <1>8, <1>9 DEF Next

(* If products are blacklisted for as long as a lost one may be offered, no *)
(* pick goes for a product that is not on the belt any more.                *)
THEOREM GhostsAreLeft ==
  ASSUME Fresh <= BlackTime
  PROVE  Spec => []NoGhostPick
<1>1. GhostInv => NoGhostPick
  BY DEF GhostInv
<1> QED
  BY <1>1, GhostInit, GhostStep, PTL DEF Spec

-----------------------------------------------------------------------------
(* What is chosen stays in reach.                                           *)

LEMMA ChosenProductInReach ==
  ASSUME Schedule, NEW u \in 0 .. Settle
  PROVE  Reachable(cur'.x + VIn * (PickLead + u), cur'.y)
<1>1. PICK v \in Views, S \in SUBSET OnOffer : \E seen \in [S -> Places] : \E p \in S :
        /\ Pickable(Seen(p, seen[p]), PickLead,
                    UNION {Fits[SpecOf[s[1]].name] : s \in Ready(v)}, black[p] >= 0)
        /\ cur' = Seen(p, seen[p])
  BY DEF Schedule
<1>2. PICK seen \in [S -> Places] : \E p \in S :
        /\ Pickable(Seen(p, seen[p]), PickLead,
                    UNION {Fits[SpecOf[s[1]].name] : s \in Ready(v)}, black[p] >= 0)
        /\ cur' = Seen(p, seen[p])
  BY <1>1
<1>3. PICK p \in S :
        /\ Pickable(Seen(p, seen[p]), PickLead,
                    UNION {Fits[SpecOf[s[1]].name] : s \in Ready(v)}, black[p] >= 0)
        /\ cur' = Seen(p, seen[p])
  BY <1>2
<1>4. seen[p] \in Places
  OBVIOUS
<1>5. cur'.x \in Int /\ cur'.y \in Int /\ cur'.vx = VIn /\ VIn \in Nat
  BY <1>3, <1>4, CellAssumption DEF Seen
<1>6. Pickable(cur', PickLead,
               UNION {Fits[SpecOf[s[1]].name] : s \in Ready(v)}, black[p] >= 0)
  BY <1>3
<1> HIDE DEF Reachable, Pickable, Settle
<1> QED
  BY <1>5, <1>6, Times, PickedInReach

LEMMA OffsetsAreInt ==
  ASSUME NEW s \in Slots
  PROVE  OffsetX(SpecOf[s[1]], s[2]) \in Int /\ OffsetY(SpecOf[s[1]], s[2]) \in Int
<1> DEFINE spec == SpecOf[s[1]]
<1>1. s[1] \in Trays /\ s[2] \in Pockets(spec)
  BY SlotsAreTheirs DEF PocketsOf
<1>2. spec.rows \in Nat \ {0} /\ spec.cols \in Nat \ {0} /\ spec.pitchX \in Nat /\ spec.pitchY \in Nat
  BY <1>1, CellAssumption
<1>3. s[2] \in Int
  BY <1>1 DEF Pockets
<1>4. s[2] % spec.cols \in Int /\ s[2] \div spec.cols \in Int
  BY <1>2, <1>3, SMT
<1> HIDE DEF spec
<1>5. /\ (2 * (s[2] % spec.cols) + 1 - spec.cols) * spec.pitchX \in Int
      /\ (2 * (s[2] \div spec.cols) + 1 - spec.rows) * spec.pitchY \in Int
  BY <1>2, <1>4, SMT
<1>6. OffsetX(spec, s[2]) \in Int /\ OffsetY(spec, s[2]) \in Int
  BY <1>5, SMT DEF OffsetX, OffsetY
<1> QED
  BY <1>6 DEF spec

LEMMA ChosenPocketInReach ==
  ASSUME TypeOK, NEW v \in Views, NEW m \in Nat, Take(v, m), NEW u \in 0 .. m
  PROVE  Reachable(PocketThen(target', PlaceLead + u),
                   TrayY + OffsetY(SpecOf[target'[1]], target'[2]))
<1>1. target' \in FreeSlots(v, PlaceLead, m)
  BY DEF Take, FreshSlots
<1> DEFINE s == target'
           px == TrayX(s[1]) + OffsetX(SpecOf[s[1]], s[2])
           py == TrayY + OffsetY(SpecOf[s[1]], s[2])
<1>2. s \in Slots /\ Servable(px, py, VOut, PlaceLead, m)
  BY <1>1, FreeSlotFacts
<1>3. px \in Int
  <2>1. TrayX(s[1]) \in Int
    BY <1>2, SlotsAreTheirs, CellAssumption, Times DEF TrayX, TypeOK
  <2> QED
    BY <1>2, <2>1, OffsetsAreInt
<1>4. py \in Int /\ py > ReachMin
  BY <1>2, SlotsAreTheirs, OffsetsAreInt, CellAssumption
<1>5. VOut \in Nat
  BY CellAssumption
<1> HIDE DEF px, py
<1>6. Reachable(px + VOut * (PlaceLead + u), py)
  BY <1>2, <1>3, <1>4, <1>5, Times, ServedThroughout
<1> QED
  BY <1>6 DEF px, py, PocketThen

(* A product chosen stays in reach until the cup has sealed, and a pocket   *)
(* for the whole of the margin it was chosen with.                          *)
THEOREM ReachIsKept == Spec => InReach
<1>1. ASSUME TypeOK, Next, phase = "schedule", phase' = "pick", NEW u \in 0 .. Settle
      PROVE  Reachable(cur'.x + VIn * (PickLead + u), cur'.y)
  <2>1. Schedule
    BY <1>1 DEF Next, Contact, PickFails, PickSeals, Poll, FallBack, Release, PlaceEnds, Tick, Arrive
  <2> QED
    BY <2>1, ChosenProductInReach
<1>2. ASSUME TypeOK, Next, phase # "place", phase' = "place", margin' # AsBefore,
             NEW u \in 0 .. margin'
      PROVE  Reachable(PocketThen(target', PlaceLead + u),
                       TrayY + OffsetY(SpecOf[target'[1]], target'[2]))
  <2>1. Poll
    BY <1>2 DEF Next, Schedule, Contact, PickFails, PickSeals, FallBack, Release, PlaceEnds, Tick, Arrive,
               Goto
  <2>2. PICK v \in Views : \E m \in {Margin, 0, WaitMargin} :
          Take(v, m) \/ \E next \in {"now", "hold"} : Pass(v, m, next)
    BY <2>1 DEF Poll
  <2>3. PICK m \in {Margin, 0, WaitMargin} : Take(v, m)
    BY <1>2, <2>2 DEF Pass
  <2>4. m \in Nat /\ margin' = m
    BY <2>3, Times DEF Take
  <2> QED
    BY <1>2, <2>3, <2>4, ChosenPocketInReach
<1>3. TypeOK /\ [Next]_vars =>
        [/\ phase = "schedule" /\ phase' = "pick" =>
              \A u \in 0 .. Settle : Reachable(cur'.x + VIn * (PickLead + u), cur'.y)
         /\ phase # "place" /\ phase' = "place" /\ margin' # AsBefore =>
              \A u \in 0 .. margin' :
                Reachable(PocketThen(target', PlaceLead + u),
                          TrayY + OffsetY(SpecOf[target'[1]], target'[2]))]_vars
  BY <1>1, <1>2
<1> QED
  BY <1>3, InitType, NextType, PTL DEF Spec, InReach

-----------------------------------------------------------------------------
(* The fallback is the exception.                                           *)

(* The pocket can be asked for u from now.                                  *)
Due(s, u) == InWindow(Front(s) + VOut * u, Row(s))

(* A pocket that is not latched and takes the product in hand.              *)
Open(s) == s \in Slots /\ latched[s] = 0 /\ SlotFits(s, cur.cls)

(* During the pick, the pocket comes when the estimate is over.             *)
InTime(s) ==
  /\ t <= est => Due(s, est - t)
  /\ t > est => WindowMin < Front(s)

(* In hand, the pocket comes before a hold would be over.                   *)
InSight(s) == \E u \in Nat : Due(s, u) /\ u + Step <= HoldTime

(* While the product is held, the pocket has not come into the window, but  *)
(* does before the hold is over; or it came since the last poll.            *)
Upstream(s) ==
  Front(s) <= WindowMin /\ \E u \in Nat : Due(s, u) /\ t + u + Step <= HoldTime
JustIn(s) ==
  /\ ~polled /\ t < HoldTime
  /\ WindowMin < Front(s) /\ Front(s) <= WindowMin + VOut * Step

(* What holds of a pocket promised, phase by phase.                         *)
Kept(s) ==
  /\ Open(s)
  /\ phase \in {"pick", "seal"} => InTime(s)
  /\ phase \in {"choose", "now"} => InSight(s)
  /\ phase = "hold" /\ s \notin Filled => Upstream(s) \/ JustIn(s)
  /\ phase = "place" /\ margin = AsBefore => s \in Filled

PromiseKept == \A s \in promised : Kept(s)

(* What is chosen after the pick fits.                                      *)
ChoiceOK == phase = "place" => margin = AsBefore \/ SlotFits(target, cur.cls)

PhaseOK == phase \in {"choose", "now"} => t = 0

AheadInv == TypeOK /\ PhaseOK /\ ChoiceOK /\ PromiseKept

-----------------------------------------------------------------------------
(* What free_pocket finds.                                                  *)

(* Every set of naturals has a least member.                                *)
LEMMA LeastNatural ==
  ASSUME NEW T \in SUBSET Nat, T # {}
  PROVE  \E n \in T : \A m \in T : n <= m
<1> DEFINE less == OpToRel(<, Nat)
<1>1. \A m, n \in Nat : m < n => <<m, n>> \in less
  BY DEF OpToRel
<1>2. IsWellFoundedOn(less, Nat)
  BY NatLessThanWellFounded
<1> HIDE DEF less
<1>3. PICK n \in T : \A m \in T : ~(<<m, n>> \in less)
  BY <1>2, WFMin
<1>4. ASSUME NEW m \in T
      PROVE  n <= m
  <2>1. m \in Nat /\ n \in Nat /\ ~(m < n)
    BY <1>1, <1>3
  <2> QED
    BY <2>1
<1> QED
  BY <1>4

(* Some member of a set has the least value under a function to Nat.        *)
LEMMA LeastValue ==
  ASSUME NEW U, U # {}, NEW f \in [U -> Nat]
  PROVE  \E i \in U : \A j \in U : f[i] <= f[j]
<1> DEFINE T == {f[i] : i \in U}
<1>1. T \in SUBSET Nat /\ T # {}
  OBVIOUS
<1>2. PICK n \in T : \A m \in T : n <= m
  BY <1>1, LeastNatural
<1> QED
  BY <1>2

(* No pocket lies further ahead than the tray is long.                      *)
LEMMA OffsetBound ==
  ASSUME NEW s, s.rows \in Nat \ {0}, s.cols \in Nat \ {0},
         s.pitchX \in Nat, s.pitchY \in Nat, NEW i \in Pockets(s)
  PROVE  /\ i \in Nat
         /\ OffsetX(s, i) \in Int /\ OffsetY(s, i) \in Int
         /\ s.cols * s.pitchX \in Int /\ OffsetX(s, i) <= s.cols * s.pitchX
<1> DEFINE n == s.cols
           c == i % n
           r == i \div n
<1>1. i \in Nat
  BY SMT DEF Pockets
<1>2. n \in Nat /\ c \in Int /\ c < n /\ r \in Int
  BY <1>1, SMT
<1>3. OffsetX(s, i) = ((2 * c + 1 - n) * s.pitchX) \div 2
      /\ OffsetY(s, i) = ((2 * r + 1 - s.rows) * s.pitchY) \div 2
  BY Zenon DEF OffsetX, OffsetY
<1> HIDE DEF n, c, r
<1>4. \A a, b \in Int : \A m \in Nat : a <= b => a * m <= b * m
  BY SMT
<1>5. n * s.pitchX \in Nat /\ (2 * c + 1 - n) * s.pitchX \in Int
      /\ (2 * r + 1 - s.rows) * s.pitchY \in Int
  BY <1>2, SMT
<1>6. (2 * c + 1 - n) * s.pitchX <= n * s.pitchX
  BY <1>2, <1>4
<1>7. \A a \in Int : \A b \in Nat : a <= b => a \div 2 <= b /\ a \div 2 \in Int
  BY SMT
<1>8. OffsetX(s, i) \in Int /\ OffsetX(s, i) <= n * s.pitchX
  BY <1>3, <1>5, <1>6, <1>7
<1>9. OffsetY(s, i) \in Int
  BY <1>3, <1>5, SMT
<1> QED
  BY <1>1, <1>5, <1>8, <1>9 DEF n

(* free_pocket finds a pocket if there is one to be found: of any pockets   *)
(* of a tray, one comes before all others.                                  *)
LEMMA FirstPocket ==
  ASSUME NEW s, s.rows \in Nat \ {0}, s.cols \in Nat \ {0},
         s.pitchX \in Nat, s.pitchY \in Nat,
         NEW U \in SUBSET Pockets(s), U # {}
  PROVE  \E i \in U : \A j \in U \ {i} : Before(s, i, j)
<1> DEFINE x(i) == OffsetX(s, i)
           y(i) == Mag(OffsetY(s, i))
           k == s.cols * s.pitchX
<1>1. \A i \in U : i \in Nat /\ x(i) \in Int /\ OffsetY(s, i) \in Int /\ k \in Int /\ x(i) <= k
  BY OffsetBound
<1>2. \A i \in U : y(i) \in Nat
  BY <1>1 DEF Mag
<1> HIDE DEF x, y, k
<1>3. PICK a \in U : \A j \in U : x(j) <= x(a)
  <2> DEFINE f == [i \in U |-> k - x(i)]
  <2>1. f \in [U -> Nat]
    BY <1>1
  <2>2. PICK a \in U : \A j \in U : f[a] <= f[j]
    <3> HIDE DEF f
    <3> QED
      BY <2>1, LeastValue
  <2>3. \A j \in U : x(j) <= x(a)
    BY <1>1, <2>2
  <2> QED
    BY <2>3
<1> DEFINE V == {i \in U : x(i) = x(a)}
<1>4. PICK b \in V : \A j \in V : y(b) <= y(j)
  <2> DEFINE f == [i \in V |-> y(i)]
  <2>1. f \in [V -> Nat] /\ V # {}
    BY <1>2
  <2>2. PICK b \in V : \A j \in V : f[b] <= f[j]
    <3> HIDE DEF f, V
    <3> QED
      BY <2>1, LeastValue
  <2> QED
    BY <2>2
<1> DEFINE W == {i \in V : y(i) = y(b)}
<1>5. PICK c \in W : \A j \in W : c <= j
  <2>1. W \in SUBSET Nat /\ W # {}
    BY <1>1, <1>4
  <2> HIDE DEF W
  <2> QED
    BY <2>1, LeastNatural
<1>6. ASSUME NEW j \in U \ {c}
      PROVE  \/ x(c) > x(j)
             \/ x(c) = x(j) /\ (y(c) < y(j) \/ (y(c) = y(j) /\ c < j))
  <2>1. c \in U /\ x(c) = x(a) /\ y(c) = y(b) /\ c \in Nat /\ j \in Nat
    BY <1>1, <1>5
  <2>2. x(j) \in Int /\ x(a) \in Int /\ x(j) <= x(a) /\ y(j) \in Nat /\ y(b) \in Nat
    BY <1>1, <1>2, <1>3
  <2>3. CASE x(j) # x(a)
    BY <2>1, <2>2, <2>3
  <2>4. CASE x(j) = x(a) /\ y(j) # y(b)
    <3>1. y(b) <= y(j)
      BY <1>4, <2>4
    <3> QED
      BY <2>1, <2>2, <2>4, <3>1
  <2>5. CASE x(j) = x(a) /\ y(j) = y(b)
    <3>1. c <= j /\ c # j
      BY <1>5, <2>5
    <3> QED
      BY <2>1, <2>2, <2>5, <3>1
  <2> QED
    BY <2>3, <2>4, <2>5
<1>7. c \in U /\ \A j \in U \ {c} : Before(s, c, j)
  BY <1>5, <1>6 DEF Before, x, y
<1> QED
  BY <1>7

(* A pocket that can be filled, of a tray that is seen, is chosen or makes  *)
(* way for another.                                                         *)
LEMMA PollFinds ==
  ASSUME TypeOK, NEW v \in Views, NEW m, NEW s, Open(s), s \notin Filled, s[1] \in v.trays,
         Servable(TrayX(s[1]) + OffsetX(SpecOf[s[1]], s[2]), Row(s), VOut, PlaceLead, m)
  PROVE  FreshSlots(v, m) # {}
<1> DEFINE tray == s[1]
           spec == SpecOf[tray]
           usable == {i \in Pockets(spec) \ Taken(v, tray) :
                        Servable(TrayX(tray) + OffsetX(spec, i), TrayY + OffsetY(spec, i),
                                 VOut, PlaceLead, m)}
<1>1. tray \in Trays /\ s[2] \in PocketsOf(tray) /\ s = <<tray, s[2]>>
  BY SlotsAreTheirs DEF Open
<1>2. s[2] \notin Taken(v, tray)
  <2>1. s \notin v.occupied /\ ~(latched[s] > 0)
    BY DEF Views, Open
  <2> QED
    BY <1>1, <2>1 DEF Taken
<1>3. usable \in SUBSET Pockets(spec) /\ usable # {}
  <2>1. s[2] \in usable
    BY <1>1, <1>2 DEF PocketsOf, Row
  <2> QED
    BY <2>1
<1>4. spec.rows \in Nat \ {0} /\ spec.cols \in Nat \ {0} /\ spec.pitchX \in Nat /\ spec.pitchY \in Nat
  BY <1>1, CellAssumption
<1>5. PICK i \in usable : \A j \in usable \ {i} : Before(spec, i, j)
  <2> HIDE DEF usable, spec
  <2> QED
    BY <1>3, <1>4, FirstPocket
<1>6. i \in FreePocket(spec, TrayX(tray), TrayY, VOut, PlaceLead, m, Taken(v, tray))
  BY <1>5 DEF FreePocket
<1>7. <<tray, i>> \in FreeSlots(v, PlaceLead, m)
  BY <1>1, <1>6 DEF FreeSlots
<1>8. SlotFits(<<tray, i>>, cur.cls)
  BY DEF Open, SlotFits
<1> QED
  BY <1>7, <1>8 DEF FreshSlots

-----------------------------------------------------------------------------
(* How a pocket moves on towards the window.                                *)

LEMMA Belt ==
  /\ VOut \in Nat /\ VOut * Step \in Nat /\ VOut * PlaceLead \in Nat
  /\ VOut * (Step + WaitMargin) \in Nat
  /\ VOut * (Step + WaitMargin) = VOut * Step + VOut * WaitMargin /\ VOut * WaitMargin \in Nat
  /\ \A u \in Nat : VOut * u \in Nat
  /\ \A u, w \in Nat : VOut * (u + w) = VOut * u + VOut * w
  /\ \A u, w \in Nat : u <= w => VOut * u <= VOut * w
<1>1. VOut \in Nat /\ Step \in Nat /\ WaitMargin \in Nat /\ PlaceLead \in Nat
  BY CellAssumption, Times
<1>2. \A u \in Nat : VOut * u \in Nat
  BY <1>1, SMT
<1>3. \A u, w \in Nat : VOut * (u + w) = VOut * u + VOut * w
  BY <1>1, SMT
<1>4. \A u, w \in Nat : u <= w => VOut * u <= VOut * w
  BY <1>1, SMT
<1>5. VOut * (Step + WaitMargin) = VOut * Step + VOut * WaitMargin
  BY <1>1, <1>3
<1>6. Step + WaitMargin \in Nat
  BY <1>1
<1> QED
  BY <1>1, <1>2, <1>3, <1>4, <1>5, <1>6

LEMMA WhereIs ==
  ASSUME TypeOK, NEW s \in Slots
  PROVE  /\ Front(s) \in Int /\ Row(s) \in Int
         /\ TrayX(s[1]) + OffsetX(SpecOf[s[1]], s[2]) \in Int
         /\ Front(s) = TrayX(s[1]) + OffsetX(SpecOf[s[1]], s[2]) + VOut * PlaceLead
<1>1. TrayX(s[1]) \in Int
  BY SlotsAreTheirs, CellAssumption, Times DEF TrayX, TypeOK
<1>2. OffsetX(SpecOf[s[1]], s[2]) \in Int /\ OffsetY(SpecOf[s[1]], s[2]) \in Int
  BY OffsetsAreInt
<1>3. TrayY \in Int
  BY CellAssumption
<1> QED
  BY <1>1, <1>2, <1>3, Belt DEF Front, PocketThen, Row

(* The window of a pocket that takes something.                             *)
LEMMA WindowOf ==
  ASSUME WindowServes, NEW s, Open(s)
  PROVE  /\ s \in Slots /\ Row(s) > MinRadius /\ Row(s) > ReachMin
         /\ Reachable(WindowMin, Row(s))
         /\ Reachable(WindowMin + VOut * (Step + WaitMargin), Row(s))
         /\ WindowMax <= StartX[s[1]] + OffsetX(SpecOf[s[1]], s[2]) + Far
         /\ WindowMin \in Int /\ WindowMax \in Int
<1>1. s \in Slots /\ Fits[SpecOf[s[1]].name] # {}
  BY DEF Open, SlotFits
<1>2. Row(s) \in Int
  <2>1. OffsetY(SpecOf[s[1]], s[2]) \in Int /\ TrayY \in Int
    BY <1>1, OffsetsAreInt, CellAssumption
  <2> QED
    BY <2>1 DEF Row
<1>3. Row(s) > MinRadius
  BY <1>1 DEF WindowServes
<1>4. Row(s) > ReachMin
  BY <1>2, <1>3 DEF MinRadius, ReachMin
<1>5. WindowMin \in Int /\ WindowMax \in Int
  BY DEF WindowMin, WindowMax
<1> QED
  BY <1>1, <1>3, <1>4, <1>5 DEF WindowServes

(* A pocket far enough out is nowhere too close to the base.                *)
LEMMA OffTheBase ==
  ASSUME NEW x \in Int, NEW y \in Int, y > MinRadius
  PROVE  Beyond(x, y, MinRadius)
<1>1. Sq(x) >= 0 /\ Sq(x) \in Int /\ Sq(y) \in Int
  BY SquareOfNegative
<1>2. Sq(MinRadius) < Sq(y) /\ Sq(MinRadius) \in Int
  BY SMT DEF Sq, MinRadius
<1> HIDE DEF Sq
<1> QED
  BY <1>1, <1>2 DEF Beyond

(* Below the end of the window the belt moves on.                           *)
LEMMA Moves ==
  ASSUME TypeOK, WindowServes, Tick, NEW s, Open(s), Front(s) + VOut * Step < WindowMax
  PROVE  Front(s)' = Front(s) + VOut * Step
<1> DEFINE o == OffsetX(SpecOf[s[1]], s[2])
<1>1. s \in Slots
  BY DEF Open
<1>2. o \in Int /\ StartX[s[1]] \in Int /\ travel \in Nat /\ Far \in Nat
  BY <1>1, OffsetsAreInt, SlotsAreTheirs, CellAssumption, Times DEF TypeOK
<1>3. WindowMax <= StartX[s[1]] + o + Far /\ WindowMax \in Int
  BY WindowOf
<1> HIDE DEF o
<1>4. Front(s) = StartX[s[1]] + travel + o + VOut * PlaceLead
  BY DEF o, Front, PocketThen, TrayX
<1>5. VOut * PlaceLead \in Nat /\ VOut * Step \in Nat
  BY Belt
<1>6. travel + VOut * Step < Far
  BY <1>2, <1>3, <1>4, <1>5
<1>7. travel' = travel + VOut * Step
  BY <1>2, <1>5, <1>6 DEF Tick, Capped
<1>8. Front(s)' = StartX[s[1]] + travel' + o + VOut * PlaceLead
  BY DEF o, Front, PocketThen, TrayX
<1> QED
  BY <1>2, <1>4, <1>5, <1>7, <1>8

(* The belt takes no pocket back, and stops none before the window ends.    *)
LEMMA MovesOn ==
  ASSUME TypeOK, WindowServes, Tick, NEW s, Open(s)
  PROVE  /\ Front(s)' \in Int /\ Front(s) <= Front(s)'
         /\ Front(s)' = Front(s) + VOut * Step \/ WindowMax <= Front(s)'
<1> DEFINE o == OffsetX(SpecOf[s[1]], s[2])
<1>1. s \in Slots
  BY DEF Open
<1>2. o \in Int /\ StartX[s[1]] \in Int /\ travel \in 0 .. Far /\ Far \in Nat
  BY <1>1, OffsetsAreInt, SlotsAreTheirs, CellAssumption, Times DEF TypeOK
<1>3. WindowMax <= StartX[s[1]] + o + Far /\ WindowMax \in Int
  BY WindowOf
<1> HIDE DEF o
<1>4. Front(s) = StartX[s[1]] + travel + o + VOut * PlaceLead
  BY DEF o, Front, PocketThen, TrayX
<1>5. VOut * PlaceLead \in Nat /\ VOut * Step \in Nat
  BY Belt
<1>6. \/ travel' = travel + VOut * Step
      \/ travel' = Far
  BY <1>2, <1>5 DEF Tick, Capped
<1>7. Front(s)' = StartX[s[1]] + travel' + o + VOut * PlaceLead
  BY DEF o, Front, PocketThen, TrayX
<1> QED
  BY <1>2, <1>3, <1>4, <1>5, <1>6, <1>7

-----------------------------------------------------------------------------
(* What a poll finds.                                                       *)

(* A pocket that will be in the window and stays in reach can be filled.    *)
LEMMA Serves ==
  ASSUME TypeOK, WindowServes, NEW s, Open(s), NEW m \in Nat,
         InWindow(Front(s), Row(s)), Reachable(Front(s) + VOut * m, Row(s))
  PROVE  Servable(TrayX(s[1]) + OffsetX(SpecOf[s[1]], s[2]), Row(s), VOut, PlaceLead, m)
<1> DEFINE px == TrayX(s[1]) + OffsetX(SpecOf[s[1]], s[2])
           y == Row(s)
<1>1. s \in Slots /\ y > MinRadius
  BY WindowOf
<1>2. px \in Int /\ y \in Int /\ Front(s) \in Int /\ Front(s) = px + VOut * PlaceLead
  BY <1>1, WhereIs
<1>3. px + VOut * (PlaceLead + m) = Front(s) + VOut * m
  <2>1. VOut * (PlaceLead + m) = VOut * PlaceLead + VOut * m /\ VOut * PlaceLead \in Nat
        /\ VOut * m \in Nat
    BY Belt, Times
  <2> HIDE DEF px
  <2> QED
    BY <1>2, <2>1
<1> HIDE DEF px, y
<1>4. Beyond(px, y, MinRadius) /\ Beyond(Front(s), y, MinRadius)
  BY <1>1, <1>2, OffTheBase
<1>5. Reachable(Front(s), y) /\ WindowMin < Front(s) /\ Front(s) < WindowMax
      /\ Reachable(Front(s) + VOut * m, y)
  BY DEF InWindow, y
<1>6. Servable(px, y, VOut, PlaceLead, m)
  BY <1>2, <1>3, <1>4, <1>5 DEF Servable
<1> QED
  BY <1>6 DEF px, y

(* Between the edge of the window and a place in it a pocket is in it.      *)
LEMMA InWindowBetween ==
  ASSUME TypeOK, WindowServes, NEW s, Open(s), NEW x \in Int, NEW b \in Int,
         WindowMin < x, x <= b, Reachable(b, Row(s)), b < WindowMax
  PROVE  InWindow(x, Row(s))
<1>1. Reachable(WindowMin, Row(s)) /\ Row(s) > ReachMin /\ WindowMin \in Int
      /\ WindowMax \in Int /\ s \in Slots
  BY WindowOf
<1>2. Row(s) \in Int
  BY <1>1, WhereIs
<1>3. Reachable(x, Row(s))
  BY <1>1, <1>2, ReachBetween
<1> QED
  BY <1>1, <1>3 DEF InWindow

(* A pocket that came into the window since the last poll is found.         *)
LEMMA JustInFound ==
  ASSUME TypeOK, WindowServes, NEW v \in Views,
         NEW s, Open(s), s \notin Filled, s[1] \in v.trays, JustIn(s)
  PROVE  FreshSlots(v, WaitMargin) # {}
<1> DEFINE e == WindowMin + VOut * (Step + WaitMargin)
           x == Front(s)
<1>1. s \in Slots /\ Reachable(WindowMin, Row(s)) /\ Reachable(e, Row(s)) /\ WindowMin \in Int
      /\ Row(s) > ReachMin
  BY WindowOf
<1>2. x \in Int /\ Row(s) \in Int
  BY <1>1, WhereIs
<1>3. VOut * WaitMargin \in Nat /\ VOut * Step \in Nat
      /\ e = WindowMin + VOut * Step + VOut * WaitMargin
  BY <1>1, Belt
<1>4. e < WindowMax
  BY DEF WindowServes
<1>5. WindowMin < x /\ x <= WindowMin + VOut * Step
  BY DEF JustIn
<1> HIDE DEF e, x
<1>6. e \in Int /\ x <= e /\ WindowMin <= x + VOut * WaitMargin /\ x + VOut * WaitMargin <= e
      /\ x + VOut * WaitMargin \in Int
  BY <1>1, <1>2, <1>3, <1>5
<1>7. InWindow(x, Row(s))
  BY <1>1, <1>2, <1>4, <1>5, <1>6, InWindowBetween
<1>8. Reachable(x + VOut * WaitMargin, Row(s))
  BY <1>1, <1>2, <1>6, ReachBetween
<1>9. Servable(TrayX(s[1]) + OffsetX(SpecOf[s[1]], s[2]), Row(s), VOut, PlaceLead, WaitMargin)
  BY <1>7, <1>8, Times, Serves DEF x
<1> QED
  BY <1>9, PollFinds

(* A pocket that is due and is not found without a margin is upstream.      *)
LEMMA DueFound ==
  ASSUME TypeOK, WindowServes, NEW v \in Views,
         NEW s, Open(s), s \notin Filled, s[1] \in v.trays,
         NEW u \in Nat, Due(s, u), FreshSlots(v, 0) = {}
  PROVE  Front(s) <= WindowMin
<1> DEFINE x == Front(s)
           b == Front(s) + VOut * u
<1>1. s \in Slots /\ WindowMin \in Int
  BY WindowOf
<1>2. x \in Int /\ VOut * u \in Nat /\ b = x + VOut * u
  BY <1>1, WhereIs, Belt
<1>3. Reachable(b, Row(s)) /\ b < WindowMax
  BY DEF Due, InWindow
<1> SUFFICES ASSUME WindowMin < x
             PROVE  FALSE
  BY <1>1, <1>2
<1> HIDE DEF x, b
<1>4. b \in Int /\ x <= b
  BY <1>2
<1>5. InWindow(x, Row(s))
  BY <1>2, <1>3, <1>4, InWindowBetween
<1>6. Reachable(x + VOut * 0, Row(s))
  <2>1. x + VOut * 0 = x
    BY <1>2, Belt
  <2> QED
    BY <1>5, <2>1 DEF InWindow
<1>7. Servable(TrayX(s[1]) + OffsetX(SpecOf[s[1]], s[2]), Row(s), VOut, PlaceLead, 0)
  BY <1>5, <1>6, Serves DEF x
<1> QED
  BY <1>7, PollFinds

-----------------------------------------------------------------------------
(* Step by step.                                                            *)

LEMMA AheadInit == Init => AheadInv
<1> SUFFICES ASSUME Init
             PROVE  AheadInv
  OBVIOUS
<1>1. PhaseOK /\ ChoiceOK /\ PromiseKept
  BY DEF Init, PhaseOK, ChoiceOK, PromiseKept
<1> QED
  BY <1>1, InitType DEF AheadInv

(* Every pocket that is ready comes when the pick takes as long as          *)
(* estimated.                                                               *)
LEMMA AheadSchedule ==
  ASSUME AheadInv, Schedule
  PROVE  PhaseOK' /\ ChoiceOK' /\ PromiseKept'
<1>1. phase = "schedule" /\ phase' = "pick" /\ t' = 0
      /\ UNCHANGED <<travel, fillAge, latched, est>>
  BY DEF Schedule, Goto, world, memory
<1>2. PICK v \in Views :
        \A s \in promised' : s \in Ready(v) /\ s \in Slots /\ SlotFits(s, cur'.cls)
  BY PromisedReady
<1>3. ASSUME NEW s \in promised'
      PROVE  Kept(s)'
  <2> DEFINE px == TrayX(s[1]) + OffsetX(SpecOf[s[1]], s[2])
             y == Row(s)
  <2>1. s \in Slots /\ ~(latched[s] > 0) /\ Servable(px, y, VOut, PlaceLead + est, 0)
    BY <1>2, <1>3, FreeSlotFacts DEF Ready, Row
  <2>2. latched[s] = 0
    BY <2>1, Times DEF AheadInv, TypeOK
  <2>3. Open(s)'
    BY <1>1, <1>2, <1>3, <2>1, <2>2 DEF Open, SlotFits
  <2>4. est \in Nat /\ TypeOK
    BY CellAssumption DEF AheadInv, TypeOK
  <2>5. Due(s, est)
    <3>1. VOut * (PlaceLead + est) = VOut * PlaceLead + VOut * est
          /\ VOut * PlaceLead \in Nat /\ VOut * est \in Nat
      BY <2>4, Belt, Times
    <3>2. px \in Int /\ Front(s) = px + VOut * PlaceLead
      BY <2>1, <2>4, WhereIs
    <3>3. InWindow(px + VOut * (PlaceLead + est), y)
      BY <2>1 DEF Servable, InWindow
    <3> HIDE DEF px
    <3>4. px + VOut * (PlaceLead + est) = Front(s) + VOut * est
      BY <3>1, <3>2
    <3> QED
      BY <3>3, <3>4 DEF Due
  <2>6. est' - t' = est /\ t' <= est'
    BY <1>1, <2>4
  <2>7. Front(s)' = Front(s)
    BY <1>1 DEF Front, PocketThen, TrayX
  <2>8. Due(s, est - t)'
    BY <2>5, <2>6, <2>7 DEF Due
  <2>9. InTime(s)'
    BY <2>4, <2>6, <2>8, <1>1 DEF InTime
  <2> QED
    BY <1>1, <2>3, <2>9 DEF Kept
<1>4. PhaseOK' /\ ChoiceOK'
  BY <1>1 DEF PhaseOK, ChoiceOK
<1> QED
  BY <1>3, <1>4 DEF PromiseKept

(* What the arm and the cup do moves no pocket.                             *)
LEMMA StillAhead ==
  ASSUME UNCHANGED <<travel, latched, cur>>, NEW s
  PROVE  /\ Front(s)' = Front(s) /\ Open(s)' = Open(s)
         /\ \A u \in Nat : Due(s, u)' = Due(s, u)
<1>1. Front(s)' = Front(s)
  BY DEF Front, PocketThen, TrayX
<1>2. Open(s)' = Open(s)
  BY DEF Open, SlotFits
<1> QED
  BY <1>1, <1>2 DEF Due

LEMMA AheadContact ==
  ASSUME AheadInv, Contact
  PROVE  PhaseOK' /\ ChoiceOK' /\ PromiseKept'
<1>1. phase = "pick" /\ phase' = "seal"
      /\ UNCHANGED <<travel, latched, fillAge, cur, t, est, promised>>
  BY DEF Contact, world, memory, history
<1>2. ASSUME NEW s \in promised
      PROVE  Kept(s)'
  <2>1. Open(s) /\ InTime(s)
    BY <1>1, <1>2 DEF AheadInv, PromiseKept, Kept
  <2>2. Open(s)'
    BY <1>1, <2>1, StillAhead
  <2>3. InTime(s)'
    BY <1>1, <2>1 DEF InTime, Due, Front, PocketThen, TrayX
  <2> QED
    BY <1>1, <2>2, <2>3 DEF Kept
<1> QED
  BY <1>1, <1>2 DEF PhaseOK, ChoiceOK, PromiseKept

(* Within the estimate the pocket is yet to come, or just there; later, it  *)
(* has come and, since it has not passed, is there.                         *)
LEMMA AheadSeals ==
  ASSUME WindowServes, AheadInv, PickSeals
  PROVE  PhaseOK' /\ ChoiceOK' /\ PromiseKept'
<1>1. phase \in {"pick", "seal"} /\ phase' = "choose" /\ t' = 0
      /\ promised' = {s \in promised : ~(t > est /\ Passed(s))}
      /\ UNCHANGED <<travel, fillAge, latched, cur>>
  BY DEF PickSeals, Goto
<1>2. t \in Nat /\ est \in Nat /\ est \in Ests /\ TypeOK
  BY CellAssumption DEF AheadInv, TypeOK
<1>3. est + Step <= HoldTime
  BY <1>2 DEF WindowServes
<1>4. ASSUME NEW s \in promised'
      PROVE  Kept(s)'
  <2>1. s \in promised /\ Open(s) /\ InTime(s) /\ ~(t > est /\ Passed(s))
    BY <1>1, <1>4 DEF AheadInv, PromiseKept, Kept
  <2>2. \E u \in Nat : Due(s, u) /\ u + Step <= HoldTime
    <3>1. CASE t <= est
      <4>1. est - t \in Nat /\ est - t + Step <= HoldTime
        BY <1>2, <1>3, <3>1, Times
      <4>2. Due(s, est - t)
        BY <2>1, <3>1 DEF InTime
      <4> QED
        BY <4>1, <4>2
    <3>2. CASE t > est
      <4>1. WindowMin < Front(s) /\ ~Passed(s)
        BY <2>1, <3>2 DEF InTime
      <4>2. InWindow(Front(s), Row(s))
        BY <4>1 DEF Passed
      <4>3. Front(s) \in Int
        BY <1>2, <2>1, WhereIs DEF Open
      <4>4. Front(s) + VOut * 0 = Front(s)
        BY <4>3, Belt
      <4>5. Due(s, 0)
        BY <4>2, <4>4 DEF Due
      <4>6. 0 \in Nat /\ 0 + Step <= HoldTime
        BY <1>2, <1>3, Times
      <4> QED
        BY <4>5, <4>6
    <3> QED
      BY <1>2, <3>1, <3>2
  <2>3. PICK u \in Nat : Due(s, u) /\ u + Step <= HoldTime
    BY <2>2
  <2>4. Open(s)' /\ Due(s, u)'
    BY <1>1, <2>1, <2>3, StillAhead
  <2>5. InSight(s)'
    BY <2>3, <2>4 DEF InSight
  <2> QED
    BY <1>1, <2>4, <2>5 DEF Kept
<1>5. PhaseOK' /\ ChoiceOK'
  BY <1>1 DEF PhaseOK, ChoiceOK
<1> QED
  BY <1>4, <1>5 DEF PromiseKept

LEMMA AheadPoll ==
  ASSUME WindowServes, AheadInv, Poll
  PROVE  PhaseOK' /\ ChoiceOK' /\ PromiseKept'
<1>1. phase \in {"choose", "now", "hold"} /\ UNCHANGED <<travel, fillAge, latched, cur>>
  BY DEF Poll, world, memory
<1>2. (phase \in {"choose", "now"} => t = 0) /\ TypeOK /\ PromiseKept
  BY DEF AheadInv, PhaseOK
<1> DEFINE Goal == PhaseOK' /\ ChoiceOK' /\ PromiseKept'
<1>3. ASSUME NEW v \in Views, NEW m \in Nat, Take(v, m)
      PROVE  Goal
  <2>1. phase' = "place" /\ margin' = m /\ SlotFits(target', cur.cls) /\ promised' = promised
    BY <1>3 DEF Take, FreshSlots, Goto
  <2>2. margin' # AsBefore
    BY <2>1 DEF AsBefore
  <2>3. SlotFits(target, cur.cls)'
    BY <1>1, <2>1 DEF SlotFits
  <2>4. \A s \in promised : Open(s)'
    BY <1>1, <1>2, StillAhead DEF PromiseKept, Kept
  <2> QED
    BY <2>1, <2>2, <2>3, <2>4 DEF PhaseOK, ChoiceOK, PromiseKept, Kept
<1>4. ASSUME NEW v \in Views, NEW m, NEW next \in {"now", "hold"}, Pass(v, m, next)
      PROVE  /\ phase' = next /\ t' = t /\ polled' = TRUE
             /\ FreshSlots(v, m) = {}
             /\ promised' = {s \in promised : s[1] \in v.trays}
  BY <1>4 DEF Pass
<1>5. ASSUME NEW v \in Views, phase = "choose", Pass(v, Margin, "now")
      PROVE  Goal
  <2>1. phase' = "now" /\ t' = t /\ promised' \subseteq promised
    BY <1>4, <1>5
  <2>2. PhaseOK' /\ ChoiceOK'
    BY <1>2, <1>5, <2>1 DEF PhaseOK, ChoiceOK
  <2>3. ASSUME NEW s \in promised'
        PROVE  Kept(s)'
    <3>1. Open(s) /\ InSight(s)
      BY <1>2, <1>5, <2>1, <2>3 DEF PromiseKept, Kept
    <3>2. PICK u \in Nat : Due(s, u) /\ u + Step <= HoldTime
      BY <3>1 DEF InSight
    <3>3. Open(s)' /\ Due(s, u)'
      BY <1>1, <3>1, <3>2, StillAhead
    <3> QED
      BY <2>1, <3>2, <3>3 DEF Kept, InSight
  <2> QED
    BY <2>2, <2>3 DEF PromiseKept
<1>6. ASSUME NEW v \in Views, phase = "now", Pass(v, 0, "hold")
      PROVE  Goal
  <2>1. phase' = "hold" /\ t' = t /\ FreshSlots(v, 0) = {}
        /\ promised' = {s \in promised : s[1] \in v.trays}
    BY <1>4, <1>6
  <2>2. PhaseOK' /\ ChoiceOK'
    BY <2>1 DEF PhaseOK, ChoiceOK
  <2>3. ASSUME NEW s \in promised', s \notin Filled'
        PROVE  Upstream(s)'
    <3>1. Open(s) /\ InSight(s) /\ s[1] \in v.trays /\ s \notin Filled
      BY <1>1, <1>2, <1>6, <2>1, <2>3 DEF PromiseKept, Kept, Filled
    <3>2. PICK u \in Nat : Due(s, u) /\ u + Step <= HoldTime
      BY <3>1 DEF InSight
    <3>3. Front(s) <= WindowMin
      BY <1>2, <2>1, <3>1, <3>2, DueFound
    <3>4. Due(s, u)' /\ Front(s)' <= WindowMin
      BY <1>1, <3>2, <3>3, StillAhead
    <3>5. t' + u + Step <= HoldTime
      <4>1. t' = 0
        BY <1>2, <1>6, <2>1
      <4> QED
        BY <3>2, <4>1, Times
    <3> QED
      BY <3>4, <3>5 DEF Upstream
  <2>4. \A s \in promised' : Open(s)'
    BY <1>1, <1>2, <2>1, StillAhead DEF PromiseKept, Kept
  <2> QED
    BY <2>1, <2>2, <2>3, <2>4 DEF PromiseKept, Kept
<1>7. ASSUME NEW v \in Views, phase = "hold", Pass(v, WaitMargin, "hold")
      PROVE  Goal
  <2>1. phase' = "hold" /\ t' = t /\ FreshSlots(v, WaitMargin) = {}
        /\ promised' = {s \in promised : s[1] \in v.trays}
    BY <1>4, <1>7
  <2>2. PhaseOK' /\ ChoiceOK'
    BY <2>1 DEF PhaseOK, ChoiceOK
  <2>3. ASSUME NEW s \in promised', s \notin Filled'
        PROVE  Upstream(s)'
    <3>1. Open(s) /\ (Upstream(s) \/ JustIn(s)) /\ s[1] \in v.trays /\ s \notin Filled
      BY <1>1, <1>2, <1>7, <2>1, <2>3 DEF PromiseKept, Kept, Filled
    <3>2. ~JustIn(s)
      BY <1>2, <2>1, <3>1, JustInFound
    <3>3. PICK u \in Nat : Front(s) <= WindowMin /\ Due(s, u) /\ t + u + Step <= HoldTime
      BY <3>1, <3>2 DEF Upstream
    <3>4. Due(s, u)' /\ Front(s)' <= WindowMin
      BY <1>1, <3>3, StillAhead
    <3> QED
      BY <2>1, <3>3, <3>4 DEF Upstream
  <2>4. \A s \in promised' : Open(s)'
    BY <1>1, <1>2, <2>1, StillAhead DEF PromiseKept, Kept
  <2> QED
    BY <2>1, <2>2, <2>3, <2>4 DEF PromiseKept, Kept
<1>8. Margin \in Nat /\ WaitMargin \in Nat /\ 0 \in Nat
  BY Times
<1> HIDE DEF Goal
<1>9. Goal
  BY <1>3, <1>5, <1>6, <1>7, <1>8 DEF Poll
<1> QED
  BY <1>9 DEF Goal

(* Time latches nothing, and fills and empties nothing.                     *)
LEMMA OpenTick ==
  ASSUME TypeOK, Tick, NEW s, Open(s)
  PROVE  Open(s)' /\ (s \in Filled' <=> s \in Filled)
<1>1. s \in Slots /\ latched[s] = 0 /\ fillAge[s] \in -1 .. ViewLag + 1
  BY DEF Open, TypeOK
<1>2. fillAge'[s] = -1 <=> fillAge[s] = -1
  BY <1>1, Times DEF Tick, Older, Capped
<1>3. latched'[s] = 0
  BY <1>1, Times DEF Tick, Down
<1>4. cur' = cur /\ Open(s)
  BY DEF Tick
<1>5. Open(s)'
  BY <1>3, <1>4 DEF Open, SlotFits
<1> QED
  BY <1>1, <1>2, <1>5 DEF Filled, Never

LEMMA DueTick ==
  ASSUME TypeOK, WindowServes, Tick, NEW s, Open(s), NEW u \in Nat, Due(s, u), Step <= u
  PROVE  Due(s, u - Step)'
<1> DEFINE w == u - Step
<1>1. w \in Nat /\ u = Step + w
  BY Times
<1>2. VOut * u = VOut * Step + VOut * w /\ VOut * Step \in Nat /\ VOut * w \in Nat
  BY <1>1, Belt, Times
<1>3. Front(s) \in Int /\ WindowMax \in Int
  BY WhereIs, WindowOf
<1>4. Front(s) + VOut * u < WindowMax
  BY DEF Due, InWindow
<1>5. Front(s)' = Front(s) + VOut * Step
  BY <1>2, <1>3, <1>4, Moves
<1> HIDE DEF w
<1>6. Front(s)' + VOut * w = Front(s) + VOut * u
  BY <1>2, <1>3, <1>5
<1>7. InWindow(Front(s)' + VOut * w, Row(s))
  BY <1>6 DEF Due
<1> QED
  BY <1>7 DEF Due, w

(* While the pick lasts.                                                    *)
LEMMA InTimeTick ==
  ASSUME TypeOK, WindowServes, Tick, phase \in {"pick", "seal"}, NEW s, Open(s), InTime(s)
  PROVE  InTime(s)'
<1>1. t' = t + Step /\ est' = est /\ t \in Nat /\ est \in Nat /\ Step \in Nat \ {0}
  BY CellAssumption, TimesAssumption DEF TypeOK, Tick
<1>2. Front(s) \in Int /\ WindowMin \in Int /\ WindowMax \in Int
  BY WhereIs, WindowOf
<1>3. /\ Front(s)' \in Int /\ Front(s) <= Front(s)'
      /\ Front(s)' = Front(s) + VOut * Step \/ WindowMax <= Front(s)'
  BY MovesOn
<1>4. CASE t' <= est
  <2>1. t <= est /\ Step <= est - t
    BY <1>1, <1>4
  <2>2. PICK u \in Nat : u = est - t
    BY <1>1, <2>1
  <2>3. Due(s, u - Step)'
    BY <2>1, <2>2, DueTick DEF InTime
  <2>4. u - Step = est' - t'
    BY <1>1, <2>1, <2>2
  <2>5. InWindow(Front(s)' + VOut * (est' - t'), Row(s))
    BY <2>3, <2>4 DEF Due
  <2> QED
    BY <1>1, <1>4, <2>5 DEF InTime, Due
<1>5. CASE t' > est
  <2>1. WindowMin < Front(s)'
    <3>1. CASE t > est
      BY <1>2, <1>3, <3>1 DEF InTime
    <3>2. CASE t <= est
      <4>1. PICK u \in Nat : u = est - t /\ u <= Step
        BY <1>1, <1>5, <3>2
      <4>2. WindowMin < Front(s) + VOut * u
        BY <3>2, <4>1 DEF InTime, Due, InWindow
      <4>3. VOut * u <= VOut * Step /\ VOut * u \in Nat /\ VOut * Step \in Nat
        BY <1>1, <4>1, Belt
      <4>4. WindowMin < WindowMax
        BY DEF WindowMin, WindowMax
      <4> QED
        BY <1>2, <1>3, <4>2, <4>3, <4>4
    <3> QED
      BY <1>1, <3>1, <3>2
  <2> QED
    BY <1>1, <1>5, <2>1 DEF InTime
<1> QED
  BY <1>1, <1>4, <1>5

(* While the product is held.                                               *)
LEMMA HeldTick ==
  ASSUME TypeOK, WindowServes, Tick, phase = "hold", NEW s, Open(s), Upstream(s)
  PROVE  Upstream(s)' \/ JustIn(s)'
<1>1. t' = t + Step /\ ~polled' /\ t \in Nat /\ Step \in Nat \ {0} /\ HoldTime \in Nat
  BY TimesAssumption DEF TypeOK, Tick
<1>2. PICK u \in Nat : Front(s) <= WindowMin /\ Due(s, u) /\ t + u + Step <= HoldTime
  BY DEF Upstream
<1>3. VOut * Step \in Nat /\ VOut * u \in Nat /\ VOut * WaitMargin \in Nat
      /\ VOut * (Step + WaitMargin) = VOut * Step + VOut * WaitMargin
  BY Belt
<1>4. Front(s) \in Int /\ WindowMin \in Int /\ WindowMax \in Int
  BY WhereIs, WindowOf
<1>5. Front(s)' = Front(s) + VOut * Step
  <2>1. WindowMin + VOut * (Step + WaitMargin) < WindowMax
    BY DEF WindowServes
  <2>2. Front(s) + VOut * Step < WindowMax
    BY <1>2, <1>3, <1>4, <2>1
  <2> QED
    BY <2>2, Moves
<1>6. WindowMin < Front(s) + VOut * u
  BY <1>2 DEF Due, InWindow
<1>7. CASE Front(s)' <= WindowMin
  <2>1. Step <= u
    <3>1. u <= Step => VOut * u <= VOut * Step
      BY <1>1, Belt
    <3> QED
      BY <1>1, <1>3, <1>4, <1>5, <1>6, <1>7, <3>1
  <2>2. Due(s, u - Step)'
    BY <1>2, <2>1, DueTick
  <2>3. PICK w \in Nat : w = u - Step
    BY <1>1, <2>1
  <2>4. Due(s, w)' /\ t' + w + Step <= HoldTime
    BY <1>1, <1>2, <2>2, <2>3
  <2> QED
    BY <1>7, <2>4 DEF Upstream
<1>8. CASE WindowMin < Front(s)'
  <2>1. u # 0
    BY <1>2, <1>4, <1>6, Belt
  <2>2. t' < HoldTime
    BY <1>1, <1>2, <2>1
  <2>3. Front(s)' <= WindowMin + VOut * Step
    BY <1>2, <1>3, <1>4, <1>5
  <2> QED
    BY <1>1, <1>8, <2>2, <2>3 DEF JustIn
<1>9. Front(s)' \in Int
  BY <1>3, <1>4, <1>5
<1> QED
  BY <1>4, <1>7, <1>8, <1>9

LEMMA AheadTick ==
  ASSUME WindowServes, AheadInv, Tick
  PROVE  PhaseOK' /\ ChoiceOK' /\ PromiseKept'
<1>1. /\ phase \notin {"choose", "now"} /\ (phase = "hold" => polled)
      /\ UNCHANGED <<phase, cur, target, margin, promised>> /\ TypeOK
  BY DEF Tick, history, AheadInv
<1>2. PhaseOK' /\ ChoiceOK'
  BY <1>1 DEF AheadInv, PhaseOK, ChoiceOK, SlotFits
<1>3. ASSUME NEW s \in promised
      PROVE  Kept(s)'
  <2>1. Kept(s) /\ Open(s)
    BY DEF AheadInv, PromiseKept, Kept
  <2>2. Open(s)' /\ (s \in Filled' <=> s \in Filled)
    BY <1>1, <2>1, OpenTick
  <2>3. CASE phase \in {"pick", "seal"}
    <3>1. InTime(s)'
      BY <1>1, <2>1, <2>3, InTimeTick DEF Kept
    <3> QED
      BY <1>1, <2>2, <2>3, <3>1 DEF Kept
  <2>4. CASE phase = "hold"
    <3>1. ASSUME s \notin Filled
          PROVE  Upstream(s)' \/ JustIn(s)'
      <4>1. Upstream(s)
        BY <1>1, <2>1, <2>4, <3>1 DEF Kept, JustIn
      <4> QED
        BY <1>1, <2>1, <2>4, <4>1, HeldTick
    <3> QED
      BY <1>1, <2>2, <2>4, <3>1 DEF Kept
  <2>5. CASE phase \notin {"pick", "seal", "hold"}
    BY <1>1, <2>1, <2>2, <2>5 DEF Kept
  <2> QED
    BY <2>3, <2>4, <2>5
<1> QED
  BY <1>1, <1>2, <1>3 DEF PromiseKept

(* A pocket that is ahead or just in is polled for before the hold is over. *)
LEMMA AheadFallBack ==
  ASSUME AheadInv, FallBack
  PROVE  PhaseOK' /\ ChoiceOK' /\ PromiseKept'
<1>1. phase = "hold" /\ t >= HoldTime /\ phase' = "place" /\ margin' = AsBefore
      /\ UNCHANGED <<travel, fillAge, latched, cur, promised>>
  BY DEF FallBack, Goto, world, memory
<1>2. t \in Nat /\ HoldTime \in Nat /\ Step \in Nat \ {0}
  BY TimesAssumption DEF AheadInv, TypeOK
<1>3. ASSUME NEW s \in promised
      PROVE  Kept(s)'
  <2>1. Kept(s) /\ Open(s)
    BY DEF AheadInv, PromiseKept, Kept
  <2>2. s \in Filled
    <3> SUFFICES ASSUME s \notin Filled
                 PROVE  FALSE
      OBVIOUS
    <3>1. Upstream(s) \/ JustIn(s)
      BY <1>1, <2>1 DEF Kept
    <3>2. CASE Upstream(s)
      <4>1. PICK u \in Nat : t + u + Step <= HoldTime
        BY <3>2 DEF Upstream
      <4> QED
        BY <1>1, <1>2, <4>1
    <3>3. CASE JustIn(s)
      BY <1>1, <1>2, <3>3 DEF JustIn
    <3> QED
      BY <3>1, <3>2, <3>3
  <2>3. Open(s)' /\ s \in Filled'
    BY <1>1, <2>1, <2>2, StillAhead DEF Filled
  <2> QED
    BY <1>1, <2>3 DEF Kept
<1> QED
  BY <1>1, <1>3 DEF PhaseOK, ChoiceOK, PromiseKept

LEMMA AheadRelease ==
  ASSUME AheadInv, Release
  PROVE  PhaseOK' /\ ChoiceOK' /\ PromiseKept'
<1>1. phase' = "release" /\ UNCHANGED <<travel, latched, cur, promised>>
  BY DEF Release, Goto, memory, history
<1>2. \A s \in promised : Open(s)'
  BY <1>1, StillAhead DEF AheadInv, PromiseKept, Kept
<1> QED
  BY <1>1, <1>2 DEF PhaseOK, ChoiceOK, PromiseKept, Kept

LEMMA AheadStep ==
  ASSUME WindowServes
  PROVE  AheadInv /\ [Next]_vars => AheadInv'
<1> SUFFICES ASSUME AheadInv, [Next]_vars
             PROVE  PhaseOK' /\ ChoiceOK' /\ PromiseKept'
  BY NextType DEF AheadInv
<1> USE DEF Goto, world, memory, history
<1>1. CASE Schedule
  BY <1>1, AheadSchedule
<1>2. CASE PickFails
  BY <1>2 DEF PickFails, Forget, PhaseOK, ChoiceOK, PromiseKept
<1>3. CASE PickSeals
  BY <1>3, AheadSeals
<1>4. CASE Poll
  BY <1>4, AheadPoll
<1>5. CASE FallBack
  BY <1>5, AheadFallBack
<1>6. CASE Release
  BY <1>6, AheadRelease
<1>7. CASE PlaceEnds
  BY <1>7 DEF PlaceEnds, Forget, PhaseOK, ChoiceOK, PromiseKept
<1>8. CASE Tick
  BY <1>8, AheadTick
<1>9. CASE Contact
  BY <1>9, AheadContact
<1>10. CASE UNCHANGED vars \/ \E p \in Products : Arrive(p)
  <2>1. UNCHANGED <<travel, fillAge, latched, est, phase, t, cur, target, margin, promised, polled>>
    BY <1>10 DEF vars, Arrive
  <2>2. PhaseOK' /\ ChoiceOK'
    BY <2>1 DEF AheadInv, PhaseOK, ChoiceOK, SlotFits
  <2>3. PromiseKept' = PromiseKept
    BY <2>1 DEF PromiseKept, Kept, Open, Filled, SlotFits, InTime, InSight, Upstream, JustIn, Due,
                Front, PocketThen, TrayX
  <2> QED
    BY <2>1, <2>2, <2>3 DEF AheadInv
<1> QED
  BY <1>1, <1>2, <1>3, <1>4, <1>5, <1>6, <1>7, <1>8, <1>9, <1>10 DEF Next

(* A pocket that made a pick worth while is yet to come or there when the   *)
(* product comes to hand in the time estimated, and is taken before the     *)
(* hold is over unless it is full or its tray was out of sight at a poll:   *)
(* the fallback is left to the pockets that passed during a longer pick.    *)
THEOREM FallbackIsTheException ==
  ASSUME WindowServes
  PROVE  Spec => []FallsBackLateOnly
<1>1. AheadInv => FallsBackLateOnly
  <2> SUFFICES ASSUME AheadInv
               PROVE  FallsBackLateOnly
    OBVIOUS
  <2>1. ASSUME phase = "choose", NEW s \in promised
        PROVE  ~Passed(s)
    <3>1. Open(s) /\ TypeOK
      BY DEF AheadInv, PromiseKept, Kept
    <3>2. PICK u \in Nat : Due(s, u)
      BY <2>1 DEF AheadInv, PromiseKept, Kept, InSight
    <3> DEFINE x == Front(s)
               b == Front(s) + VOut * u
    <3>3. x \in Int /\ b \in Int /\ x <= b
      BY <3>1, WhereIs, Belt DEF Open
    <3>4. Reachable(b, Row(s)) /\ b < WindowMax
      BY <3>2 DEF Due, InWindow
    <3> HIDE DEF x, b
    <3>5. WindowMin < x => InWindow(x, Row(s))
      BY <3>1, <3>3, <3>4, InWindowBetween
    <3> QED
      BY <3>5 DEF Passed, x
  <2> QED
    BY <2>1 DEF AheadInv, ChoiceOK, PromiseKept, Kept, FallsBackLateOnly
<1> QED
  BY <1>1, AheadInit, AheadStep, PTL DEF Spec

=============================================================================

----------------------------- MODULE Scheduler -----------------------------
(***************************************************************************)
(* The scheduling rules of the cycle (togsim_task/scheduler.py) and the    *)
(* tray geometry they rest on (togsim_task/trays.py).  Lengths are mm,     *)
(* times are tenths of a second and speeds mm in a tenth of a second, so   *)
(* that every look-ahead is exact; distances are compared by their         *)
(* squares.  The belts run along x and a tray lies along its belt: the     *)
(* tracker resolves its heading to within a quarter turn of the belt.      *)
(***************************************************************************)
EXTENDS Integers

ReachMin == 220     \* REACH_MIN
ReachMax == 620     \* REACH_MAX
WindowMin == -200   \* PLACE_X_WINDOW
WindowMax == 520
MinRadius == 300    \* MIN_RADIUS_NOW
ArriveRadius == 280 \* candidate_reason, at arrival
Settle == 13        \* settle_s
PickMin == 100      \* pick_x_min
PickMax == 500      \* pick_x_max
BeltZ == 520        \* BELT_Z

Sq(a) == a * a
Within(x, y, r) == Sq(x) + Sq(y) < Sq(r)
Beyond(x, y, r) == Sq(x) + Sq(y) > Sq(r)
Reachable(x, y) == Beyond(x, y, ReachMin) /\ Within(x, y, ReachMax)

-----------------------------------------------------------------------------
(* Headings, in degrees.                                                    *)

(* round(a / b): the nearest integer, the even one of two.                  *)
Round(a, b) ==
  LET q == a \div b
      r == a % b
  IN IF 2 * r < b \/ (2 * r = b /\ q % 2 = 0) THEN q ELSE q + 1

NearestBranch(yaw, ref) == yaw + 180 * Round(ref - yaw, 180)

-----------------------------------------------------------------------------
(* A tray s has rows, cols, pitchX and pitchY; its pockets are numbered row *)
(* by row.                                                                  *)

Pockets(s) == 0 .. s.rows * s.cols - 1

OffsetX(s, i) == ((2 * (i % s.cols) + 1 - s.cols) * s.pitchX) \div 2
OffsetY(s, i) == ((2 * (i \div s.cols) + 1 - s.rows) * s.pitchY) \div 2

(* The pocket a point of the tray belongs to; -1 if it lies outside.        *)
PocketOfPoint(s, x, y) ==
  LET col == (2 * x + s.cols * s.pitchX) \div (2 * s.pitchX)
      row == (2 * y + s.rows * s.pitchY) \div (2 * s.pitchY)
  IN IF col \in 0 .. s.cols - 1 /\ row \in 0 .. s.rows - 1 THEN row * s.cols + col ELSE -1

Mag(a) == IF a < 0 THEN -a ELSE a

(* pocket_order: leading pockets first, then those near the centre line.    *)
Before(s, i, j) ==
  \/ OffsetX(s, i) > OffsetX(s, j)
  \/ /\ OffsetX(s, i) = OffsetX(s, j)
     /\ \/ Mag(OffsetY(s, i)) < Mag(OffsetY(s, j))
        \/ Mag(OffsetY(s, i)) = Mag(OffsetY(s, j)) /\ i < j

(* A bug to tell apart: the pocket is not asked for when it is now.         *)
ServableAtLead(px, py, vx, lead, margin) ==
  /\ Reachable(px + vx * lead, py)
  /\ WindowMin < px + vx * lead /\ px + vx * lead < WindowMax

(* A pocket at <<px, py>> now, moving at vx, may be filled lead from now.   *)
Servable(px, py, vx, lead, margin) ==
  /\ Reachable(px + vx * lead, py)
  /\ Reachable(px + vx * (lead + margin), py)
  /\ WindowMin < px + vx * lead /\ px + vx * lead < WindowMax
  /\ Beyond(px + vx * lead, py, MinRadius)
  /\ Beyond(px, py, MinRadius)

(* free_pocket: none, or the one it returns, of a tray of spec s at         *)
(* <<tx, ty>>; the pockets taken are those seen occupied or latched.        *)
FreePocket(s, tx, ty, vx, lead, margin, taken) ==
  LET usable == {i \in Pockets(s) \ taken :
                   Servable(tx + OffsetX(s, i), ty + OffsetY(s, i), vx, lead, margin)}
  IN {i \in usable : \A j \in usable \ {i} : Before(s, i, j)}

(* A bug to tell apart: the product may have left before the cup has sealed.*)
PickableAtLead(c, lead, fits, blacklisted) ==
  LET arrive == c.x + c.vx * lead IN
  /\ ~c.occluded /\ c.cls \in fits
  /\ PickMin < arrive /\ arrive < PickMax /\ -600 < c.y /\ c.y < -100
  /\ BeltZ + 8 < c.top /\ c.top < BeltZ + 80 /\ c.tilt < 4 /\ ~blacklisted

(* candidate_reason is None: product c may be picked lead from now.         *)
Pickable(c, lead, fits, blacklisted) ==
  LET arrive == c.x + c.vx * lead
      settled == arrive + c.vx * Settle
  IN
  /\ ~c.occluded /\ c.cls \in fits
  /\ PickMin < arrive /\ arrive < PickMax /\ -600 < c.y /\ c.y < -100
  /\ Reachable(settled, c.y)
  /\ Beyond(arrive, c.y, ArriveRadius) /\ Beyond(c.x, c.y, MinRadius)
  /\ BeltZ + 8 < c.top /\ c.top < BeltZ + 80 /\ c.tilt < 4 /\ ~blacklisted

=============================================================================

--------------------------- MODULE PocketLattice ---------------------------
(***************************************************************************)
(* How the place camera finds the pockets of a tray: the centre of the     *)
(* rectangle around the tray's mask is corrected by fitting the pocket     *)
(* grid to the pocket floors, and to the products where floors are few.    *)
(* Only the direction of the belt is told apart: across it the rows lie    *)
(* further apart than any error, and trays lie straight, so of a point its *)
(* row and its x matter and the fit has no rotation.  That x is taken from *)
(* where the tray was when the frame was taken.                            *)
(***************************************************************************)
EXTENDS Integers, FiniteSets, FiniteSetsExt

CONSTANTS
  Rows, Cols,       \* the pocket grid
  Pitch,            \* pitch_x
  Gate,             \* gate_xy[0], 0.45 pitch
  LatticeMinFit,    \* lattice_min_fit
  RmsMax2,          \* lattice_rms_max, squared, in hundredths
  Iters,            \* iters of fit_pocket_lattice
  Wall,             \* what is between a floor and the next pocket's product,
                    \* or the end of the tray
  Cover, Rise       \* a product counts for a pocket within Cover of its
                    \* centre by its mask, within Rise by the depth,
                    \* which the wall before it adds to

ASSUME LatticeAssumption ==
  /\ Rows \in Nat \ {0} /\ Cols \in Nat \ {0}
  /\ Pitch \in Nat /\ Pitch % 2 = 0
  /\ Gate \in Nat /\ 2 * Gate < Pitch   \* "the gates stay below half a pitch"
  /\ LatticeMinFit \in Nat /\ RmsMax2 \in Nat /\ Iters \in Nat \ {0}
  /\ Wall \in Nat /\ Cover \in Nat /\ Rise \in Nat

Grid == (0 .. Rows - 1) \X (0 .. Cols - 1)
Offset(j) == (2 * j[2] + 1 - Cols) * (Pitch \div 2)

Abs(n) == IF n < 0 THEN -n ELSE n
Nearest(a, b) == (2 * a + b) \div (2 * b)

-----------------------------------------------------------------------------
(* fit_pocket_lattice.  A point has a row and an x.                         *)

Residual(pair, x) == pair[1].x - x - Offset(pair[2])

(* The pairs within the gate.                                               *)
Inside(pts, x) ==
  {pair \in pts \X Grid : pair[1].row = pair[2][1] /\ Abs(Residual(pair, x)) <= Gate}

(* The nearest ones; below half a pitch no second choice is left to a point *)
(* or a pocket.                                                             *)
Matched(pts, x) ==
  {pair \in Inside(pts, x) : \A other \in Inside(pts, x) :
     other[1] = pair[1] \/ other[2] = pair[2]
       => Abs(Residual(pair, x)) <= Abs(Residual(other, x))}

Residuals(M, x) == [pair \in M |-> Residual(pair, x)]
Squares(M, x) == [pair \in M |-> Residual(pair, x) * Residual(pair, x)]

Refined(pts, x) ==
  LET M == Matched(pts, x)
  IN IF Cardinality(M) < 3 THEN x
     ELSE x + Nearest(SumFunction(Residuals(M, x)), Cardinality(M))

(* The pose from round to round.                                            *)
Poses(pts, x0) ==
  LET pose[k \in 0 .. Iters] == IF k = 0 THEN x0 ELSE Refined(pts, pose[k - 1])
  IN pose

(* The pose, the number matched and the residuals after Iters rounds.       *)
Fit(pts, x0) ==
  LET pose == Poses(pts, x0)
      M == Matched(pts, pose[Iters - 1])
  IN [x |-> pose[Iters], n |-> Cardinality(M), squares |-> SumFunction(Squares(M, pose[Iters]))]

-----------------------------------------------------------------------------
(* process: what is fitted, and whether the fit is believed.                *)

MinFit == Min({LatticeMinFit, Rows * Cols - 1})

(* The floors are those of the depth image, by which the tray is `on'       *)
(* further and the pockets P are filled, within the mask of the frame and   *)
(* clear of the products O in it.  A floor that has moved out of the mask,  *)
(* or under the mask of the product ahead of it, loses that end.            *)
Cut(j, O, on) ==
  IF on > Wall /\ (j[2] = Cols - 1 \/ <<j[1], j[2] + 1>> \in O) THEN on - Wall ELSE 0

Floors(O, P, on) ==
  {[row |-> j[1], x |-> Offset(j) + on - Cut(j, O, on) \div 2] : j \in Grid \ P}

(* The products are where the frame shows them.                             *)
Tops(O, off) == {[row |-> j[1], x |-> Offset(j) + off] : j \in O}

(* The floors; with the products if the floors alone are too few.           *)
Points(O, P, on, off) ==
  IF Cardinality(Floors(O, P, on)) >= MinFit THEN Floors(O, P, on)
  ELSE Floors(O, P, on) \cup Tops(O, off)

Believed(fit, x0) ==
  /\ fit.n >= MinFit
  /\ 100 * fit.squares < RmsMax2 * fit.n
  /\ Abs(fit.x - x0) < Gate

(* A bug to tell apart: the correction is turned round.                     *)
CorrectionBackwards(fit, x0) == x0 - fit.x

Correction(fit, x0) == fit.x - x0

(* The pockets that look occupied if the tray is taken to be `err' off, for *)
(* products off by `off': those with enough of a product in them.           *)
LooksOccupied(O, err, off, reach) ==
  {j \in Grid : \E i \in O : i[1] = j[1] /\ Abs(Offset(i) + off - Offset(j) - err) < reach}
=============================================================================

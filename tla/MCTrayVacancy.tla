--------------------------- MODULE MCTrayVacancy ---------------------------
EXTENDS TrayVacancy, TLC

CONSTANTS w1, w2

MCStart == [first |-> 220, second |-> 0]
(* A twentieth of a tray may be hidden: its mask's centre moves by 10 mm.   *)
MCMaskErrs == {-4, 0}
(* The clearance of a pocket, 5 mm to either end.                           *)
MCSlack == {-2, 2}

MCWorkers == {w1, w2}
MCSymmetry == Permutations(MCWorkers)

(* Trays are filled from the leading pockets on, but for those that left    *)
(* the reach of the arm.                                                    *)
Load(full, cols) == IF full THEN {j \in Grid : j[2] \in cols} ELSE {}

(* What `shows' has the frames seen whole; the trays are loaded from one    *)
(* frame on, the first with floors enough left and the second without.  The *)
(* errors change from frame to frame, and differ from tray to tray.         *)
Film(shows, first, second) ==
  [f \in DOMAIN shows |->
     [whole |-> shows[f],
      filled |-> [first |-> Load(f >= first, {2}), second |-> Load(f >= second, {1, 2})],
      err |-> [first |-> IF f = 2 THEN 0 ELSE -4, second |-> IF f = 2 THEN -4 ELSE 0],
      off |-> [first |-> IF f = 2 THEN -2 ELSE 2, second |-> IF f = 2 THEN 2 ELSE -2]]]

(* Both trays are seen twice, the one loaded from the start and the other   *)
(* meanwhile; one is hidden by the arm for a frame; one comes when the      *)
(* other was hidden for so long that its track may go.                      *)
MCFilms ==
  {Film(<<{"first", "second"}, {"first", "second"}>>, 2, 1),
   Film(<<{"second"}, {"first", "second"}, {"first"}>>, 2, 3),
   Film(<<{"first"}, {}, {"first", "second"}>>, 1, 4)}

(* The theorems apply to this instance.                                     *)
ASSUME MCBudget ==
  /\ Budget(-4, 0, -2, 6) /\ MinFit >= 3 /\ Apart(-6, 10) /\ 10 + 6 < IdGate
=============================================================================

-------------------------- MODULE MCTaskScheduler --------------------------
EXTENDS TaskScheduler

MCSpec == [carton |-> [name |-> "tray_2x4", rows |-> 1, cols |-> 2, pitchX |-> 90, pitchY |-> 70],
           bar |-> [name |-> "tray_bar_2x3", rows |-> 1, cols |-> 1, pitchX |-> 200, pitchY |-> 72]]
MCStartX == [carton |-> -400, bar |-> -800]
MCClass == [c |-> "carton", b |-> "bar"]
MCFits == [tray_2x4 |-> {"carton"}, tray_bar_2x3 |-> {"bar"}]

(* In the window, and at its far edge.                                      *)
Place(x, y) == [x |-> x, y |-> y, top |-> 545, tilt |-> 0, occluded |-> FALSE]
MCPlaces == {Place(60, -350), Place(380, -450)}

(* The theorems apply to this instance.                                     *)
ASSUME MCServes == WindowServes /\ Fresh <= BlackTime
=============================================================================

------------------------------ MODULE Suction ------------------------------
(***************************************************************************)
(* What the vacuum cup promises to whoever commands it: it grabs a product *)
(* it can carry while commanded on, holds one product at a time, and lets  *)
(* go of it only when commanded off or when the product is taken out of    *)
(* the world.  VacuumGripper implements this module.                       *)
(***************************************************************************)
CONSTANTS Products, Heavy, NoProduct

VARIABLES
  on,       \* the command in force
  held,     \* the product on the cup, or NoProduct
  present   \* the products in the world

vars == <<on, held, present>>

Init == on = FALSE /\ held = NoProduct /\ present = Products

Command == on' \in BOOLEAN /\ UNCHANGED <<held, present>>

Grab ==
  /\ on /\ held = NoProduct
  /\ held' \in present \ Heavy
  /\ UNCHANGED <<on, present>>

LetGo ==
  /\ held # NoProduct /\ (~on \/ held \notin present)
  /\ held' = NoProduct
  /\ UNCHANGED <<on, present>>

(* A product on the cup can vanish too: the cup finds out later.            *)
Remove ==
  /\ \E p \in present : present' = present \ {p}
  /\ UNCHANGED <<on, held>>

Next == Command \/ Grab \/ LetGo \/ Remove

Spec == Init /\ [][Next]_vars
=============================================================================

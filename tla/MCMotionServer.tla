--------------------------- MODULE MCMotionServer ---------------------------
(***************************************************************************)
(* Three goals as run_cycle sends them: a pick (hover, then contact with a *)
(* dwell, both tracking the product), a move with a malformed joint        *)
(* segment at its end, and an empty one that is refused.                   *)
(***************************************************************************)
EXTENDS MotionServer

CONSTANTS pick, move, empty, product

MCGoals == {pick, move, empty}
MCFrames == {product}

Track(n) == [kind |-> "track", frame |-> product, dwell |-> n, sized |-> TRUE]
Cart(n) == [kind |-> "cart", frame |-> product, dwell |-> n, sized |-> TRUE]
Joint(ok) == [kind |-> "joint", frame |-> product, dwell |-> 0, sized |-> ok]

MCPlan == [g \in Goals |->
             CASE g = pick -> <<Track(0), Track(2)>>
               [] g = move -> <<Cart(1), Joint(TRUE), Joint(FALSE)>>
               [] g = empty -> <<>>]
=============================================================================

------------------------- MODULE MCConveyorTracker -------------------------
EXTENDS ConveyorTracker

Scene(belt, source, masks, pos, class) ==
  [belt |-> belt, source |-> source, masks |-> masks,
   on |-> DOMAIN pos, pos |-> pos, class |-> class]

Apart == [a |-> 0, b |-> 4]
Bars == [a |-> "bar", b |-> "bar"]

(* Two of a class further apart than the gate; two classes side by side;    *)
(* one that is seen as two; the trays; and what the ground truth shows.     *)
MCScenes ==
  {Scene("products", "vision", 1, Apart, Bars),
   Scene("products", "vision", 1, [a |-> 0, b |-> 1], [a |-> "bar", b |-> "carton"]),
   Scene("products", "vision", 2, [a |-> 0], [a |-> "bar"]),
   Scene("products", "gt", 1, Apart, Bars),
   Scene("trays", "vision", 1, [a |-> 0], [a |-> "tray"]),
   Scene("trays", "gt", 1, [a |-> 0], [a |-> "tray"])}
=============================================================================

-------------------------- MODULE ConveyorTracker --------------------------
(***************************************************************************)
(* The node that keeps the tracks of the products and of the trays         *)
(* (scripts/conveyor_tracker), one tracker each, and publishes them.  The  *)
(* two trackers share nothing: a behaviour is about one of them, fed by    *)
(* the cameras or by the ground truth.                                     *)
(*                                                                         *)
(* Around the node are the belt, that objects leave and whose trays are    *)
(* filled, and the frames of the cameras, which come late and out of       *)
(* order, miss objects, see one as two, and see objects where they are not *)
(* quite; under the arm an object may be seen anywhere.                    *)
(***************************************************************************)
EXTENDS BeltTracker

CONSTANTS
  Objects,    \* what may ride on a belt
  Scenes,     \* the belts looked at: which one, how it is seen, what is on it
  MinOff,     \* the cameras may see a product from MinOff
  MaxOff,     \* to MaxOff of where it is
  KeyOffsets, \* how far from it an object with a key may be seen
  LostS,      \* lost_s, and tray_lost_s for trays
  Fresh,      \* 0.4 s, the age up to which a track is offered for a pick
  Pickable,   \* observations before a product is offered for a pick (4)
  MaxDelay,   \* bound: how late a frame may be
  Lively,     \* bound: the objects that leave, or are filled
  MaxFill,    \* bound: pockets filled of a tray
  MaxId       \* bound: tracks ever started

ASSUME BeltAssumption ==
  /\ \A s \in Scenes :
       /\ s.belt \in {"products", "trays"} /\ s.source \in {"vision", "gt"}
       /\ s.on \subseteq Objects /\ IsFiniteSet(s.on)
       /\ s.pos \in [s.on -> Int] /\ s.masks \in Nat \ {0}
  /\ MinOff \in Int /\ MaxOff \in Int /\ KeyOffsets \subseteq Int
  /\ LostS \in Nat /\ Fresh \in Nat /\ MaxDelay \in Nat
  /\ Pickable \in Nat /\ MaxFill \in Nat /\ MaxId \in Nat
  /\ NoKey \notin Objects /\ Lively \subseteq Objects

(* Products of a class lie further apart than the gate and the errors, and *)
(* the gate is wider than the errors.                                      *)
ASSUME SpacingAssumption ==
  /\ MaxOff - MinOff <= Gate
  /\ \A s \in Scenes : s.belt = "products" /\ s.source = "vision" =>
       \A p, q \in s.on : p # q /\ s.class[p] = s.class[q] =>
         Abs(s.pos[p] - s.pos[q]) > Gate + (MaxOff - MinOff)

VARIABLES
  gtOcc,   \* gt_occ: the pockets filled of each tray of the last poses
  scene,   \* the belt ("products" or "trays"), the source ("vision" or "gt"),
           \* the objects on the belt, the place and class of each, and how
           \* many masks one of them may give in a frame
  gone,    \* gone[p]: how long ago p left the belt; OnBelt until then
  filled,  \* filled[p]: how many pockets of tray p are filled
  fillAge  \* fillAge[p]: how long ago the last one was

world == <<gone, filled, fillAge>>
vars == <<tracker, gtOcc, scene, world>>

OnBelt == -1
NoPayload == -1                   \* payload=None, of the ground truth
MaxAge == LostS + MaxDelay + 1    \* bound: ages are told apart up to here

Init ==
  /\ scene \in Scenes
  /\ tracks = Empty /\ nextId = 1 /\ gtOcc = Empty
  /\ gone = [p \in Objects |-> OnBelt]
  /\ filled = [p \in Objects |-> 0] /\ fillAge = [p \in Objects |-> MaxAge]

-----------------------------------------------------------------------------
(* What a frame taken d ago shows.                                          *)

ThereAt(p, d) == gone[p] = OnBelt \/ gone[p] <= d
FilledAt(p, d) == {filled[p]} \cup
  (IF fillAge[p] <= d /\ filled[p] > 0 THEN {filled[p] - 1} ELSE {})

(* A product the camera sees: without a key; a mask tells two of one apart. *)
ProductSeen(p, d) ==
  {[of |-> p, mask |-> m, cls |-> scene.class[p], key |-> NoKey, x |-> x,
    area |-> a, payload |-> 0, age |-> d] :
     m \in 1 .. scene.masks, x \in {scene.pos[p] + e : e \in MinOff .. MaxOff}, a \in {"usual", "low"}}

KeyPlaces(p) == {scene.pos[p] + e : e \in KeyOffsets}

(* What an observation with a key says of the pockets filled.               *)
Payloads(p, d) == IF scene.source = "gt" THEN {NoPayload} ELSE FilledAt(p, d)

(* Anything with a key, that of the object.                                 *)
KeySeen(p, d) ==
  {[of |-> p, mask |-> 1, cls |-> scene.class[p], key |-> p, x |-> x,
    area |-> "usual", payload |-> k, age |-> d] :
     x \in KeyPlaces(p), k \in Payloads(p, d)}

(* A frame of at most two observations; a first mask is one of the object.  *)
ProductFrames(d) ==
  LET there == {p \in scene.on : ThereAt(p, d)}
      seen == UNION {ProductSeen(p, d) : p \in there}
      whole == {o \in seen : o.mask = 1}
  IN {{}} \cup {{w[1], w[2]} : w \in {v \in whole \X seen :
       IF v[1].of = v[2].of THEN v[1].mask = v[2].mask => v[1] = v[2]
       ELSE v[2].mask = 1}}

-----------------------------------------------------------------------------
(* The inputs.  An observation near the tool is dropped before it is used,  *)
(* so that one under the arm, biased or not, is one that is missing.        *)

(* The stamp of the frame is that of its observations.                      *)
OnCands ==
  /\ scene.belt = "products" /\ scene.source = "vision"
  /\ \E d \in 0 .. MaxDelay : \E F \in ProductFrames(d) : Update(F, d, LostS)
  /\ nextId' <= MaxId + 1
  /\ UNCHANGED <<gtOcc, scene, world>>

(* One tray at a time; what is lost by the time of its frame is dropped     *)
(* before and after.                                                        *)
OnTray ==
  /\ scene.belt = "trays" /\ scene.source = "vision"
  /\ \E d \in 0 .. MaxDelay : \E p \in scene.on :
       ThereAt(p, d) /\ \E o \in KeySeen(p, d) : Update({o}, d, LostS)
  /\ nextId' <= MaxId + 1
  /\ UNCHANGED <<gtOcc, scene, world>>

(* The poses of all that is there, with the time of their arrival; from     *)
(* those of the products the pockets filled are told anew, and forgotten of *)
(* a tray that is not among them.                                           *)
OnGt ==
  /\ scene.source = "gt"
  /\ LET here == {p \in scene.on : gone[p] = OnBelt}
         trays == IF scene.belt = "trays" THEN here ELSE {}
     IN /\ \E seen \in [here -> UNION {KeySeen(p, 0) : p \in here}] :
             /\ \A p \in here : seen[p].of = p
             /\ Update({seen[p] : p \in here}, 0, LostS)
        /\ gtOcc' = [p \in trays |-> filled[p]]
  /\ nextId' <= MaxId + 1
  /\ UNCHANGED <<scene, world>>

(* The timer of 100 Hz.                                                     *)
Publish ==
  /\ Predict(0, LostS)
  /\ UNCHANGED <<gtOcc, scene, world>>

-----------------------------------------------------------------------------
(* The belt and the arm.                                                    *)

(* p is picked up, or reaches the end of the belt.                          *)
Leave(p) ==
  /\ gone[p] = OnBelt
  /\ gone' = [gone EXCEPT ![p] = 0]
  /\ UNCHANGED <<tracker, gtOcc, scene, filled, fillAge>>

(* A pocket of tray p is filled; the last fill is no news any more.         *)
Fill(p) ==
  /\ scene.belt = "trays" /\ gone[p] = OnBelt
  /\ filled[p] < MaxFill /\ fillAge[p] > MaxDelay
  /\ filled' = [filled EXCEPT ![p] = @ + 1]
  /\ fillAge' = [fillAge EXCEPT ![p] = 0]
  /\ UNCHANGED <<tracker, gtOcc, scene, gone>>

Older(a) == IF a < MaxAge THEN a + 1 ELSE a

Tick ==
  /\ tracks' = [i \in DOMAIN tracks |->
                 [tracks[i] EXCEPT !.age = Older(@)]]
  /\ gone' = [p \in Objects |-> IF gone[p] = OnBelt THEN OnBelt ELSE Older(gone[p])]
  /\ fillAge' = [p \in Objects |-> Older(fillAge[p])]
  /\ UNCHANGED <<nextId, gtOcc, scene, filled>>

Next ==
  \/ OnCands \/ OnTray \/ OnGt \/ Publish \/ Tick
  \/ \E p \in Lively \cap scene.on : Leave(p) \/ Fill(p)

(* The timer fires and time passes; no frame need ever come.                *)
Spec == Init /\ [][Next]_vars /\ WF_vars(Publish) /\ WF_vars(Tick)

-----------------------------------------------------------------------------
(* What is published.                                                       *)

(* A bug to tell apart: a product is offered as long as it has a track.     *)
OfferedWhileTracked(tr) == tr.n >= Pickable

(* A product the task may pick: not one that is only predicted.             *)
Offered(tr) == tr.n >= Pickable /\ tr.age <= Fresh

(* The pockets filled of a tray: what its observation said or, of the       *)
(* ground truth, what the last poses say, all free when it is not in them.  *)
Occupancy(tr) ==
  IF tr.payload # NoPayload THEN tr.payload
  ELSE IF tr.key \in DOMAIN gtOcc THEN gtOcc[tr.key] ELSE 0

-----------------------------------------------------------------------------
(* Properties.                                                              *)

Classes == UNION {{s.class[p] : p \in s.on} : s \in Scenes}

Track ==
  [cls : Classes,
   key : Objects \cup {NoKey}, x : Int, n : 1 .. MaxCount, age : 0 .. MaxAge,
   outliers : 0 .. SnapAfter - 1, payload : NoPayload .. MaxFill,
   of : SUBSET Objects, far : Nat]

(* The type of every variable.                                              *)
TypeOK ==
  /\ DOMAIN tracks \subseteq 1 .. nextId - 1 /\ nextId \in 1 .. MaxId + 1
  /\ \A i \in DOMAIN tracks : tracks[i] \in Track
  /\ DOMAIN gtOcc \subseteq Objects /\ \A p \in DOMAIN gtOcc : gtOcc[p] \in 0 .. MaxFill
  /\ scene \in Scenes
  /\ gone \in [Objects -> -1 .. MaxAge]
  /\ filled \in [Objects -> 0 .. MaxFill]
  /\ fillAge \in [Objects -> 0 .. MaxAge]

(* The motion server follows the frame of a track by its id: a track stays  *)
(* with the object it was started for, and no later one gets its id.        *)
FrameNamesOneObject ==
  [][\A i \in DOMAIN tracks' :
       IF i \in DOMAIN tracks THEN tracks'[i].of = tracks[i].of
       ELSE i >= nextId /\ i < nextId' /\ \E p \in Objects : tracks'[i].of = {p}]_vars

(* What is offered for a pick was still on the belt 0.4 s before, although  *)
(* frames come late and out of order.                                       *)
OfferedWasThere ==
  scene.belt = "products" /\ scene.source = "vision" =>
    \A i \in DOMAIN tracks : Offered(tracks[i]) =>
      \A p \in tracks[i].of : gone[p] <= Fresh

(* The pockets published of a tray are those it had when its track was last *)
(* used, of either source: with tracks dropped after tray_lost_s, no older  *)
(* view is published.  Of the ground truth, of a tray that is still there.  *)
OccupancyIsOfItsAge ==
  scene.belt = "trays" =>
    \A i \in DOMAIN tracks : \A p \in tracks[i].of :
      Occupancy(tracks[i]) # filled[p] =>
        \/ fillAge[p] <= tracks[i].age
        \/ scene.source = "gt" /\ gone[p] # OnBelt

(* A settled track with a key jumps only after SnapAfter rejections in a    *)
(* row, and then keeps its count, so that a tray stays placeable.           *)
PatientSnap ==
  [][\A i \in DOMAIN tracks \cap DOMAIN tracks' :
       /\ tracks'[i].n >= tracks[i].n
       /\ /\ tracks[i].key # NoKey /\ tracks[i].n >= Settled
          /\ Abs(tracks'[i].x - tracks[i].x) > KeyGate
          => tracks[i].far = SnapAfter - 1]_vars

(* The track of an object that left is dropped in the end.                  *)
GhostsEnd ==
  \A p \in Objects :
    (gone[p] # OnBelt) ~> ~ \E i \in DOMAIN tracks : p \in tracks[i].of

=============================================================================

--------------------------- MODULE TaskScheduler ---------------------------
(***************************************************************************)
(* What run_cycle decides in a continuous run: which product to pick and   *)
(* which pocket to put it in, with the pockets it latched and the products *)
(* it blacklisted.  How the arm and the cup carry a pick and a place out   *)
(* is CycleTask's matter: here either may last and end as it likes.        *)
(*                                                                         *)
(* Times are those of the belts (the code scales them by the real-time     *)
(* factor), in steps of Step.  The trays pass by once, all on the outfeed. *)
(* The occupancy of a tray is that of its last observation, up to          *)
(* tray_lost_s ago, or the tray is not seen at all; a product is offered   *)
(* for a pick until Fresh after it left the belt, as the belt tracker      *)
(* promises.                                                               *)
(***************************************************************************)
EXTENDS Scheduler

CONSTANTS
  Trays, SpecOf, StartX, TrayY, \* the trays, the spec of each, where it starts
  VOut, VIn,                    \* the speeds of the belts
  Products, Class,              \* the products that may come, the class of each
  Fits,                         \* PRODUCT_FITS: from the names of specs to classes
  Places,                       \* where and how a product may be seen
  PickLead, PlaceLead,          \* pick_lead_s, place_lead_s
  Margin, WaitMargin,           \* 0.5 s and 0.3 s, choose_pocket
  LatchTime, BlackTime,         \* 2 s and 15 s
  HoldTime,                     \* 6 s, choose_pocket
  PickTime,                     \* bound: how long a pick takes
  Ests,                         \* bound: the values of approach_est
  ViewAges, ViewLag,            \* how old the view of a tray may be; the most
  Fresh,                        \* see above
  Step, Far                     \* bounds: the step of time, the way of the belt

PocketsOf(tray) == Pockets(SpecOf[tray])
Slots == UNION {{<<tray, i>> : i \in PocketsOf(tray)} : tray \in Trays}
NoSlot == <<>>

ASSUME CellAssumption ==
  /\ \A tray \in Trays :
       /\ SpecOf[tray].rows \in Nat \ {0} /\ SpecOf[tray].cols \in Nat \ {0}
       /\ SpecOf[tray].pitchX \in Nat /\ SpecOf[tray].pitchY \in Nat
       /\ StartX[tray] \in Int /\ Fits[SpecOf[tray].name] \subseteq {Class[p] : p \in Products}
       /\ \A i \in PocketsOf(tray) : TrayY + OffsetY(SpecOf[tray], i) > ReachMin
  /\ TrayY \in Int /\ VOut \in Nat /\ VIn \in Nat
  /\ \A c \in Places : c.x \in Int /\ c.y \in Int /\ c.top \in Int /\ c.tilt \in Nat
                       /\ c.occluded \in BOOLEAN
  /\ Ests \subseteq Nat

ASSUME TimesAssumption ==
  /\ \A d \in {PickLead, PlaceLead, Margin, WaitMargin, LatchTime, BlackTime,
               HoldTime, PickTime, ViewLag, Fresh, Far} : d \in Nat
  /\ Step \in Nat \ {0} /\ ViewAges \subseteq 0 .. ViewLag

VARIABLES
  travel,   \* how far the outfeed has gone
  fillAge,  \* how long ago each pocket was filled; Never
  latched,  \* self.latched: how much longer; a pocket is latched while > 0
  gone,     \* how long ago each product left the belt; OnBelt until then
  black,    \* self.blacklist: how much longer; a product is on it while >= 0
  phase,    \* where run_continuous is
  t,        \* how long this phase has lasted, a pick up to the seal
  contact,  \* ev["contact_sim"]: when the pick came into contact
  est,      \* self.approach_est
  cur,      \* c, the product chosen, as it was seen
  kept,     \* trays[0] of the schedule
  target,   \* the tray and pocket chosen
  margin,   \* history: the margin target was chosen with
  old,      \* history: the view target or, before, kept was chosen from
            \* was older than a latch lasts
  promised, \* history: the pockets that made the pick worth while, less those
            \* that have passed when it takes longer than approach_est, and
            \* those whose tray some poll of choose_pocket did not see
  polled    \* a poll was made in this step of time

world == <<travel, fillAge, gone>>
memory == <<latched, black, est>>
history == <<margin, old, promised>>
vars == <<world, memory, phase, t, contact, cur, kept, target, history, polled>>

Never == -1
OnBelt == -1
NoProduct == [key |-> "none"]
NoMargin == -1
NoContact == -1
AsBefore == -2   \* the margin of the choice made before the pick

Init ==
  /\ travel = 0 /\ fillAge = [s \in Slots |-> Never]
  /\ latched = [s \in Slots |-> 0]
  /\ gone \in [Products -> {OnBelt, Fresh + 1}] /\ black = [p \in Products |-> -1]
  /\ phase = "schedule" /\ t = 0 /\ est \in Ests /\ cur = NoProduct
  /\ kept = NoSlot /\ target = NoSlot /\ contact = NoContact
  /\ margin = NoMargin /\ old = FALSE /\ promised = {}
  /\ polled = FALSE

-----------------------------------------------------------------------------
(* What the task is shown.                                                  *)

TrayX(tray) == StartX[tray] + travel

Filled == {s \in Slots : fillAge[s] # Never}

(* Some trays, each with the pockets occupied when it was last observed.    *)
Views ==
  {[trays |-> T, age |-> a, occupied |-> {s \in Filled : fillAge[s] >= a[s[1]]}] :
     T \in SUBSET Trays, a \in [Trays -> ViewAges]}

(* A bug to tell apart: pockets are not latched.                            *)
TakenAsSeen(v, tray) == {i \in PocketsOf(tray) : <<tray, i>> \in v.occupied}

Taken(v, tray) ==
  {i \in PocketsOf(tray) : <<tray, i>> \in v.occupied \/ latched[<<tray, i>>] > 0}

(* free_pocket_moving of every tray seen.                                   *)
FreeSlots(v, lead, m) ==
  UNION {{<<tray, i>> : i \in FreePocket(SpecOf[tray], TrayX(tray), TrayY, VOut,
                                         lead, m, Taken(v, tray))} : tray \in v.trays}

(* The products that may be on offer, a ghost for a while.                  *)
OnOffer == {p \in Products : gone[p] = OnBelt \/ gone[p] <= Fresh}

Seen(p, c) ==
  [key |-> p, cls |-> Class[p], vx |-> VIn, x |-> c.x, y |-> c.y, top |-> c.top,
   tilt |-> c.tilt, occluded |-> c.occluded]

SlotFits(s, cls) == cls \in Fits[SpecOf[s[1]].name]

-----------------------------------------------------------------------------
(* Where the pockets go.                                                    *)

(* Where the pocket of a place is, u after it was chosen.                   *)
PocketThen(s, u) == TrayX(s[1]) + OffsetX(SpecOf[s[1]], s[2]) + VOut * u

(* Where the pocket will be when the cup gets there.                        *)
Front(s) == PocketThen(s, PlaceLead)
Row(s) == TrayY + OffsetY(SpecOf[s[1]], s[2])

InWindow(x, y) == Reachable(x, y) /\ WindowMin < x /\ x < WindowMax

(* The pocket has passed: it was in the window, and is not any more.        *)
Passed(s) == WindowMin < Front(s) /\ ~InWindow(Front(s), Row(s))

-----------------------------------------------------------------------------
(* The phases of a cycle.                                                   *)

Goto(p) == phase' = p /\ t' = 0 /\ polled' = FALSE

(* The next cycle chooses anew.                                             *)
Forget ==
  /\ cur' = NoProduct /\ kept' = NoSlot /\ target' = NoSlot
  /\ contact' = NoContact
  /\ margin' = NoMargin /\ old' = FALSE /\ promised' = {}

(* A bug to tell apart: the time of the pick is not allowed for.            *)
ReadyForNow(v) == FreeSlots(v, PlaceLead, 0)

(* The trays that can take a product once it is in hand, see schedule.      *)
Ready(v) == FreeSlots(v, PlaceLead + est, 0)

(* The candidate furthest along that a ready tray can take is picked.       *)
Schedule ==
  /\ phase = "schedule"
  /\ \E v \in Views, S \in SUBSET OnOffer : \E seen \in [S -> Places] :
       LET fitsNow == UNION {Fits[SpecOf[s[1]].name] : s \in Ready(v)}
           cands == {p \in S : Pickable(Seen(p, seen[p]), PickLead, fitsNow, black[p] >= 0)}
       IN /\ \E p \in cands : /\ \A q \in cands : seen[q].x <= seen[p].x
                              /\ cur' = Seen(p, seen[p])
          /\ kept' \in Ready(v) /\ old' = (v.age[kept'[1]] > LatchTime)
          /\ promised' = {s \in Ready(v) : SlotFits(s, cur'.cls)}
  /\ Goto("pick")
  /\ UNCHANGED <<world, memory, contact, target, margin>>

(* on_fb_pick: the cup is on the product and dwells.                        *)
Contact ==
  /\ phase = "pick" /\ phase' = "seal" /\ contact' = t
  /\ UNCHANGED <<world, memory, t, cur, kept, target, history, polled>>

(* A bug to tell apart: the product is blacklisted for the time of a hold.  *)
ListedForHold == black' = [black EXCEPT ![cur.key] = HoldTime]

(* Not to be picked again for a while.                                      *)
Listed == black' = [black EXCEPT ![cur.key] = BlackTime]

(* The pick failed, or its goal was refused.                                *)
PickFails ==
  /\ phase \in {"pick", "seal"} /\ Goto("schedule")
  /\ Listed /\ Forget
  /\ UNCHANGED <<world, latched, est>>

(* approach_est moves towards the time to contact or, when no feedback told *)
(* of it, to the seal.                                                      *)
Refined ==
  LET a == IF contact # NoContact THEN contact ELSE t
  IN {e \in Ests : e = est \/ (est < e /\ e <= a) \/ (a <= e /\ e < est)}

(* A bug to tell apart: only failed picks are blacklisted.                  *)
PickSealsUnlisted ==
  /\ phase \in {"pick", "seal"} /\ gone[cur.key] = OnBelt /\ Goto("choose")
  /\ gone' = [gone EXCEPT ![cur.key] = 0]
  /\ promised' = {s \in promised : ~(t > est /\ Passed(s))}
  /\ est' \in Refined /\ contact' = NoContact
  /\ UNCHANGED <<travel, fillAge, latched, black, cur, kept, target, margin, old>>

(* The cup sealed, after the contact or before it was told of.              *)
PickSeals ==
  /\ phase \in {"pick", "seal"} /\ gone[cur.key] = OnBelt /\ Goto("choose")
  /\ gone' = [gone EXCEPT ![cur.key] = 0]
  /\ Listed
  /\ promised' = {s \in promised : ~(t > est /\ Passed(s))}
  /\ est' \in Refined /\ contact' = NoContact
  /\ UNCHANGED <<travel, fillAge, latched, cur, kept, target, margin, old>>

Dist2(s) ==
  Sq(TrayX(s[1]) + OffsetX(SpecOf[s[1]], s[2]) + VOut * PlaceLead - cur.x)
    + Sq(TrayY + OffsetY(SpecOf[s[1]], s[2]) - cur.y)

(* reachable_pockets(m).                                                    *)
FreshSlots(v, m) == {s \in FreeSlots(v, PlaceLead, m) : SlotFits(s, cur.cls)}

(* The fresh pocket with the shortest transfer.                             *)
Take(v, m) ==
  /\ \E s \in FreshSlots(v, m) :
       /\ \A r \in FreshSlots(v, m) : Dist2(s) <= Dist2(r)
       /\ target' = s /\ old' = (v.age[s[1]] > LatchTime)
  /\ margin' = m /\ Goto("place")
  /\ UNCHANGED promised

(* No pocket is fresh: on to the next poll.                                 *)
Pass(v, m, next) ==
  /\ FreshSlots(v, m) = {}
  /\ promised' = {s \in promised : s[1] \in v.trays}
  /\ phase' = next /\ polled' = TRUE
  /\ UNCHANGED <<t, target, margin, old>>

(* choose_pocket: with margin; without; and while the product is held.      *)
Poll ==
  /\ \E v \in Views :
       \/ phase = "choose" /\ (Take(v, Margin) \/ Pass(v, Margin, "now"))
       \/ phase = "now" /\ (Take(v, 0) \/ Pass(v, 0, "hold"))
       \/ phase = "hold" /\ t < HoldTime /\ ~polled
            /\ (Take(v, WaitMargin) \/ Pass(v, WaitMargin, "hold"))
  /\ UNCHANGED <<world, memory, contact, cur, kept>>

(* A bug to tell apart: the task holds the product for ever.                *)
FallBackNever == phase = "hold" /\ t >= HoldTime /\ UNCHANGED vars

(* The product was held for long enough: the choice from before the pick.   *)
FallBack ==
  /\ phase = "hold" /\ t >= HoldTime
  /\ target' = kept /\ margin' = AsBefore /\ Goto("place")
  /\ UNCHANGED <<world, memory, contact, cur, kept, old, promised>>

(* The cup lets go, over the pocket or on the way.                          *)
Release ==
  /\ phase = "place" /\ Goto("release")
  /\ \E lands \in BOOLEAN :
       fillAge' = IF lands THEN [fillAge EXCEPT ![target] = 0] ELSE fillAge
  /\ UNCHANGED <<travel, gone, memory, contact, cur, kept, target, history>>

(* The place is over.                                                       *)
PlaceEnds ==
  /\ phase = "release" /\ Goto("schedule")
  /\ latched' = [latched EXCEPT ![target] = LatchTime]
  /\ Forget
  /\ UNCHANGED <<world, black, est>>

-----------------------------------------------------------------------------
(* The belts.                                                               *)

(* A product comes, with a key of its own.                                  *)
Arrive(p) ==
  /\ gone[p] > Fresh
  /\ gone' = [gone EXCEPT ![p] = OnBelt] /\ black' = [black EXCEPT ![p] = -1]
  /\ UNCHANGED <<travel, fillAge, latched, est, phase, t, contact, cur, kept, target, history,
                 polled>>

Capped(n, cap) == IF n > cap THEN cap ELSE n
Older(a, cap) == IF a = -1 THEN -1 ELSE Capped(a + Step, cap)
Down(n, least) == IF n - Step > least THEN n - Step ELSE least

(* Time passes; polls are much closer together than Step.                   *)
Tick ==
  /\ phase \notin {"choose", "now"}
  /\ phase = "hold" => polled /\ t < HoldTime
  /\ phase \in {"pick", "seal"} => t < PickTime
  /\ travel' = Capped(travel + VOut * Step, Far)
  /\ fillAge' = [s \in Slots |-> Older(fillAge[s], ViewLag + 1)]
  /\ gone' = [p \in Products |-> Older(gone[p], Fresh + 1)]
  /\ latched' = [s \in Slots |-> Down(latched[s], 0)]
  /\ black' = [p \in Products |-> Down(black[p], -1)]
  /\ t' = IF phase \in {"pick", "seal", "hold"} THEN t + Step ELSE 0
  /\ polled' = FALSE
  /\ UNCHANGED <<phase, est, contact, cur, kept, target, history>>

Next ==
  \/ Schedule \/ Contact \/ PickFails \/ PickSeals \/ Poll \/ FallBack
  \/ Release \/ PlaceEnds \/ Tick
  \/ \E p \in Products : Arrive(p)

(* The task polls and time passes; no product or tray need ever come.       *)
Spec == Init /\ [][Next]_vars /\ WF_vars(Poll) /\ WF_vars(FallBack) /\ WF_vars(Tick)

-----------------------------------------------------------------------------
(* Properties.                                                              *)

Choices == {Seen(p, c) : p \in Products, c \in Places}

(* The type of every variable.                                              *)
TypeOK ==
  /\ travel \in 0 .. Far /\ fillAge \in [Slots -> -1 .. ViewLag + 1]
  /\ latched \in [Slots -> 0 .. LatchTime]
  /\ gone \in [Products -> -1 .. Fresh + 1]
  /\ black \in [Products -> -1 .. BlackTime]
  /\ phase \in {"schedule", "pick", "seal", "choose", "now", "hold", "place", "release"}
  /\ t \in Nat /\ est \in Ests /\ contact \in Nat \cup {NoContact}
  /\ cur \in Choices \cup {NoProduct}
  /\ kept \in Slots \cup {NoSlot} /\ target \in Slots \cup {NoSlot}
  /\ margin \in {NoMargin, AsBefore, Margin, 0, WaitMargin}
  /\ old \in BOOLEAN /\ promised \subseteq Slots
  /\ polled \in BOOLEAN

(* No product is put into a pocket that holds one, unless the tray was last *)
(* observed longer ago than a latch lasts: latch and view leave no gap      *)
(* between them, whatever the order of fills, polls and late views.         *)
NoDoubleFill == phase = "place" /\ target \in Filled => old

(* No ghost is picked: the product a pick goes for is on the belt, although *)
(* the track of one that was taken lives on.                                *)
NoGhostPick == phase \in {"pick", "seal"} => gone[cur.key] = OnBelt

(* The product chosen is in reach from the arrival of the cup until it has  *)
(* sealed, and a pocket chosen with a margin from the arrival of the cup to *)
(* that margin later, all the way.                                          *)
InReach ==
  [][/\ phase = "schedule" /\ phase' = "pick" =>
          \A u \in 0 .. Settle : Reachable(cur'.x + VIn * (PickLead + u), cur'.y)
     /\ phase # "place" /\ phase' = "place" /\ margin' # AsBefore =>
          \A u \in 0 .. margin' :
            Reachable(PocketThen(target', PlaceLead + u),
                      TrayY + OffsetY(SpecOf[target'[1]], target'[2]))]_vars

(* None of the pockets that made the pick worth while has passed when the   *)
(* product comes to hand within approach_est.  The choice from before the   *)
(* pick is fallen back on only when each of them had passed by a later time,*)
(* its tray was out of sight at a poll, or it was full from the start; and  *)
(* nothing else puts a product into a tray that does not take its class.    *)
FallsBackLateOnly ==
  /\ phase = "choose" => \A s \in promised : ~Passed(s)
  /\ phase = "place" /\ margin = AsBefore => promised \subseteq Filled
  /\ phase = "place" /\ ~SlotFits(target, cur.cls) => margin = AsBefore

(* A product in hand is put down.                                           *)
HoldEnds == (phase = "choose") ~> (phase = "place")

-----------------------------------------------------------------------------
(* What the theorems ask of the constants.                                  *)

(* For the trays that take a product: the window is in reach at its         *)
(* upstream edge, for as far as a pocket goes between two polls and in      *)
(* WaitMargin; no pocket passes too close to the base; the belt is long     *)
(* enough; and no pick is expected to take as long as a hold.  In the code: *)
(* 0.35 s at 0.08 m/s, rows at 0.314 m or more, 1.4 s at first against 6 s. *)
WindowServes ==
  /\ WindowMin + VOut * (Step + WaitMargin) < WindowMax
  /\ \A s \in Slots : Fits[SpecOf[s[1]].name] # {} =>
       /\ Row(s) > MinRadius
       /\ Reachable(WindowMin, Row(s))
       /\ Reachable(WindowMin + VOut * (Step + WaitMargin), Row(s))
       /\ WindowMax <= StartX[s[1]] + OffsetX(SpecOf[s[1]], s[2]) + Far
  /\ \A e \in Ests : e + Step <= HoldTime
=============================================================================

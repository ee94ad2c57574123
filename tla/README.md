# tog-sim in TLA+

A model of the pick-and-place cell in this repository (ROS 2 Humble, Gazebo
Fortress): a SCARA arm with a vacuum cup takes products off an infeed belt and
places them in the pockets of trays on an outfeed belt. The modules follow the
code in `src/src/`, never the documentation; each module names its source
file, and `PROJECT.json` maps every definition to the lines it stands for.

Paths below are relative to `src/src/`.

## 1. The system

### Components

| Component | Source | State it keeps | Operations | Talks to | Modules |
|---|---|---|---|---|---|
| Motion server | `togsim_motion/src/motion_server.cpp` | the one goal slot, segment index, dwell deadline, jam counter, stop flag, homing flag, the generator's target | goal, cancel, accept, `~/home`, `~/stop`, first joint state, 500 Hz control tick | TF in; joint targets, feedback, results, `busy` out | `MotionServer`, `MotionGoals`, `MotionSlot` |
| SCARA kinematics | `togsim_motion/include/.../scara5_kinematics.hpp` | none | IK, FK | called by the motion server | choices in `MotionServer` |
| Vacuum gripper plugin | `togsim_gazebo/src/vacuum_gripper_system.cc` | command, pending and welded product, seal and release timers | command callback, `PreUpdate` every physics step | topic in, state topic out, weld joint in the world | `VacuumGripper`, `Suction` |
| Vacuum bridge | `togsim_control/scripts/vacuum_bridge` | last state, dropped flag | plugin state, service | translates between plugin and ROS | a channel of `CycleTask` |
| Pick-and-place task | `togsim_task/scripts/run_cycle` | attempt and cycle counts, `in_pocket`, last vacuum state, flags of the per-goal callbacks, latches, blacklist | continuous cycle, parking, pick, pocket choice, place, indexed cycle | everything | `CycleTask` (how a cycle is carried out), `TaskScheduler` (what it goes for) |
| Scheduler, tray geometry | `togsim_task/togsim_task/{scheduler,trays}.py` | none (pure) | ready trays, pickable candidates, free pocket | called by the task | `Scheduler` |
| Belt tracker | `togsim_perception/togsim_perception/tracking.py`, `scripts/conveyor_tracker` | tracks, identities, outlier counts | update, predict, prune, publish | candidates, trays and ground truth in; TF frames and tracks out | `BeltTracker`, `ConveyorTracker` |
| Tray-vacancy node | `togsim_perception/scripts/tray_vacancy_node`, the lattice fit of `geometry.py` | masks and detections that wait for each other, tray tracks, corrections | two callbacks, `process` | camera in, tray states out | `TrayVacancy`, `PocketLattice` |
| Pick-pose node | `togsim_perception/scripts/pick_pose_node` | the last camera message | one callback | camera in, candidates out | frames of `ConveyorTracker` |
| Product spawner | `togsim_gazebo/scripts/product_spawner`, `togsim_gazebo/ign_client.py` | poses of the models, counters, last tray model | tick, spawn service, pose callback | requests to Gazebo, poses | `ProductSpawner`, `IgnClient` |
| HMI bridge | `togsim_hmi/togsim_hmi/server.py` | task process, status, alarms, history | run, stop, e-stop, acknowledge, health timer | HTTP, the task process, topics | `HmiBridge` |
| Conveyor plugin | `togsim_gazebo/src/conveyor_system.cc` | target and ramped speed | speed command, `PreUpdate` | topic in, contact motion | a speed in the other modules |
| Diagnostics | `togsim_task/togsim_task/diagnostics.py` | metrics | | none of them controls anything | none |
| Segmentation, data generation, training | `togsim_perception/...` | | image processing | | none |
| Ground-truth demo, launch, description, page | | | scripts, configuration, rendering | | none |

### How they interact

One cycle of the continuous mode crosses five processes. The task sends a goal
with all its segments to the motion server. While the arm moves, the server's
*feedback* drives the vacuum: the progress that says "hover reached" makes a
callback of the task send `on`, the one that says "in contact with the pocket"
makes another send `off`. Commands travel to the plugin over a topic and a
bridge; the plugin's state comes back the same way, every 10 ms. The segments
follow TF frames that the tracker broadcasts, one per track, named by the id of
the track; the products the task may pick and the pockets it may fill come from
the same tracks, and the occupancy of the pockets from the tray-vacancy node
before them. The spawner feeds the belts and clears their ends. Above it all
the panel starts the task as a process, and interrupts it.

### What is hard about it

* **Ordering.** The task runs on four executor threads and a reentrant group:
  action feedback, vacuum states and results are handled in any order with
  each other and with the main thread, and callbacks of an attempt that has
  been given up fire in the next one. Camera frames reach the tracker late and
  out of order, the two halves of a frame reach the vacancy node on any thread.
* **Time-outs and retries.** The main thread gives up on an answer after 5 s
  and on a result after 30 s; the server goes on all the same. A request to
  Gazebo that was not answered in time may still be executed.
* **Protocol sequences.** One slot in the server is shared by goals, cancels,
  stops and homing; a stop flag outlives the goal it was meant for; timers in
  the plugin survive the commands that started them.
* **Partial failure.** A segment fails half way through a goal, a product
  vanishes while it is being welded, a place fails with the product in hand, a
  model is not created or not removed although it is counted.
* **Stale state.** Frames get lost while they are followed; distances, dwell
  deadlines and jam counts belong to a segment that is over; a track outlives
  its object, a view of the pockets the fill that changed it, a choice of
  pocket the pick it was made before.
* **Atomicity.** The vacancy node keeps its tracks without a lock.
* **Numbers.** The grid of pockets looks the same one pitch further on.
* **Liveness.** Something must always end: goals, cancels, releases, waits,
  tracks, models.

The list, with lines, is under `hazards` in `PROJECT.json`; the properties
below were chosen from it.

### What makes each part correct

* Motion server: exactly the goal in the slot is open; feedback is in order
  and true; a stop precedes everything else; the arm is not driven for a dead
  goal; jams are convicted on their own evidence; goals end unless they track for
  ever, cancels are answered.
* Cup: a seal needs the command and a covered cup for the whole delay; release
  only on command; a vanished product is noticed and reported.
* Task: it carries only what it holds, lets go only in the pocket, never stays
  with a product after a place, never hangs, lifts before leaving a pocket; it
  fills no pocket twice as long as views are fresh, goes for no product that is
  gone, and chooses only what stays in reach.
* Tracker: an identity is never passed from one object to another; nothing is
  offered that left long ago; outliers alone move no settled track at once.
* Vacancy: each frame is processed once; pockets are reported as they are.
* Spawner: trays keep apart, the population is bounded, what is at the end of a
  belt goes, the supply does not stop.
* Panel: one task at a time; true history, status and alarms.

## 2. The modules

```
MotionGoals  <---implements---  MotionServer  ---implements--->  MotionSlot
   (every handle)                                                    |  used by
                                                                     v
   VacuumGripper  ---implements--->  Suction  ---- used by --->  CycleTask

   BeltTracker  --extended by-->  ConveyorTracker
   Scheduler    --extended by-->  TaskScheduler
   IgnClient    --extended by-->  ProductSpawner
   PocketLattice --extended by--> TrayVacancy
   HmiBridge
```

The detailed modules are never composed with each other: each is shown to
implement a small contract, and `CycleTask` is checked against the contracts.
`TaskScheduler` in turn takes from the tracker what `ConveyorTracker` is shown
to keep (`OfferedWasThere`: a product on offer left at most `Fresh` ago), and
from `CycleTask` that a pick or place may end in any way at any time. Proofs
are in the modules `...Proofs`, one for each component.

### MotionServer (and MotionGoals, MotionSlot)

All callbacks and the control timer of `motion_server.cpp` share one mutually
exclusive group and one mutex; one action stands for one callback or one whole
tick. The variables carry the names of the members (`goal`, `segIdx`,
`segStarted`, `dwellUntil`, `jamTicks`, `stopRequested`, ...). A tick is one of
`TickStop`, `TickIdle`, `TickSucceed`, `TickRefuse`, `TickJam`, `TickRun`, in
the order of the code's early returns. Goal acceptance closes the goal that
held the slot, and keeps the old dwell deadline and target until the next tick,
as the code does.

Abstracted: positions and trajectories. What the generator answers (`Working`,
`Finished`, `Error`), whether a frame is live, lost or out of reach, how far
the measured arm is from the frame (`tight`, `loose`, `out`), and whether the
vertical axis looks stuck, are choices made in each tick. Time is counted in
ticks; ages saturate at the last value that is compared with (`AgeCap`).
Speed override and velocity scale change no control flow and are left out.

`MotionGoals` is what a client may rely on for every handle: the life cycle,
feedback in order that skips nothing, `canceled` only as the answer to a
cancel. `MotionSlot` is what the task plans with: one slot, taken over by
whatever is accepted, and the progress of the goal in it.

### VacuumGripper (and Suction)

One `PreUpdate` is one of `Hold`, `Weld`, `LoseContact`, `Lift`, `Release`, the
branches of the code, then the state message. Times are physics steps. Contact
geometry is the set of products under the cup, which may change arbitrarily
between steps; commands arrive between steps. The passive bellows spring is a
force and no decision and is left out. `coveredFor` and `offFor` are history.

`Suction` is the cup as its users see it: grabs one product it can carry while
on, lets go only when off or when the product is gone.

### CycleTask

One continuous run of `run_cycle`: `GoPark`, `PickSend` ... `Placed` are the
steps of the main thread between two points where anything else can happen;
`OnFbPick`, `OnFbPlace`, `OnVacuumState` are the callbacks. Requests, decisive
feedback, vacuum commands and states are each on their way for a while:
feedback and states may be reordered and overtaken (the vacuum bridge handles
states in a reentrant group), requests and commands arrive in order. Poses,
pockets and product choice are left out: any attempt may find a product, every
wait may time out at any moment. Cancel requests are not followed on their way,
since the server may end any goal at any moment anyway (the panel and the stop
service can).

One assumption is about time, and it is named `Prompt`: the first motion of a
goal takes a good part of a second, longer than a command, a feedback or a
release, so what of these was under way when that motion began has arrived
when it ends. It is an assumption about transport and physics, not something
the code enforces: commands are not acknowledged, and without it
`NoBlindCarry`, `ReleaseAtContact` and `PutDown` are all violated. Nothing of
the kind is assumed of vacuum states, whose callbacks may wait for the busy main
thread for a second (`run_cycle:260`): a state may be late by any time. The
states carry no sequence number, and the task compares the time it received one
with `vac_on`; so one that says "sealed" and is older than the end of the pick's
first motion passes for a new one. `NoBlindCarry` says that this is the only way
to carry nothing: a transfer begins with a product that was held at `vac_on` or
since, or on the word of such a state (`stale`).

Not modelled of `run_cycle`: the indexed mode (a sequential script over the
same calls) and its status for the panel.

### BeltTracker and ConveyorTracker

`BeltTracker` is `tracking.py`: operators for what may become of one track and
one observation (`Fused`, `Identified`, `Snapped`, `Rejected`), and one action
for the whole of `update`: keys first, then the greedy matching by distance
(`NearestFirst`: a pair is passed over only for one at least as near), then
what is nobody's starts a track, then pruning. Positions are taken on the
moving belt, so prediction is the identity; times are ages. The weights of the
filter are abstracted: fusing moves a track to anywhere between its prediction
and the observation. History in a track: the objects it was made of (`of`), and
the rejections in a row (`far`).

`ConveyorTracker` adds the node and what it looks at. A *scene* is a belt with
its objects, the source (cameras or ground truth) and how objects are seen;
frames are late by up to `MaxDelay`, come out of order, lack objects, show one
twice, displace them by `MinOff` to `MaxOff`. Trays are filled and leave.
An observation dropped near the tool is one that is missing. The ground truth
tells no occupancy with a tray: `OnGt` makes `gt_occ` anew from every message, and
a tray that is missing from the last one is published as all free until its
track is lost (`Occupancy`). `OccupancyIsOfItsAge` has that exception.

### Scheduler and TaskScheduler

`Scheduler` is `scheduler.py` with the geometry of `trays.py` as operators:
reach, the pocket order, `free_pocket`, `candidate_reason`, `nearest_branch`,
`pocket_of_point`. Lengths are millimetres, times tenths of a second, and
distances are compared by their squares, so every look-ahead is exact.

`TaskScheduler` is what `run_cycle` does with them: choose a product and a tray
that will be ready (`Schedule`), learn how long an approach takes (`PickSeals`),
choose the pocket with margin, without, or hold the product and poll (`Poll`),
fall back after 6 s (`FallBack`), latch (`PlaceEnds`) and blacklist (`Listed`).
A pick has two halves: `approach_est` follows the time to the contact, or to the
seal if no feedback told of one, and the pick goes on until the seal, which the
schedule does not allow for. What the task is shown of the pockets may lack
trays, and every tray's occupancy is of an age of its own, up to `ViewLag`, which
is `tray_lost_s` and may be longer than a latch lasts; a product that was taken
stays on offer for `Fresh`. History: whether the view a pocket was chosen from
was older than a latch (`old`), and the pockets the pick was worth making for, as
long as nothing excuses that one is missed (`promised`). Times are those of the
belts: the code scales its own by the real-time factor.

### IgnClient and ProductSpawner

`IgnClient` is a blocking request with a time-out: answered at once, or not
answered and executed once later, or never. `ProductSpawner` is the node: its
callbacks exclude each other, so one handler runs at a time (`pc`), made of the
attempts it makes of Gazebo, while the belts move and one pose message waits
(`msg`), as old as it likes. A behaviour is about products or about trays. Left
out: the belt speeds it publishes at the start, and which pose a product gets.
Counter and last model advance even when a creation failed or was not answered
(`product_spawner:214`-`217`); the next pitch is then that of a tray that is not
there. `TraysApart` and `NoCrowd` are about runs in which no creation was given up:
what they show is that stale, forgotten and returning poses do no harm.

### PocketLattice and TrayVacancy

`PocketLattice` is the correction of a tray's pose by its pockets: the fit of the
grid to floors and product tops with its gate and rounds (`Fit`), whether it is
believed, and which pockets then look occupied. The centre it starts from is
that of the smallest rectangle around the mask (`principal_axis` of
`geometry.py`), which products inside the outline of the tray do not move: it is
off by whatever the segmentation is off by (`MaskErrs`). The floors are cut from
the latest depth image with the masks of the frame (`Floors`): they lie where
the tray is by then, lack the pockets filled meanwhile, and lose the end that
has moved out of the mask or under the mask of a product (`Cut`). The rounds of
the fit are a recursive function (`Poses`), its sums folds, so that it can be
reasoned about. One direction is modelled, along the belt, where a pitch is the
smallest and what happens between mask and depth image counts.

`TrayVacancy` is the node: messages of the two topics are taken by two threads
at a time, the pairing is under the lock, and `process` is cut where another
thread may run: at calls and loops (the interpreter switches threads there).
`Locate` is the pose by the mask and the fit. `Search`, `Look`, `Place`, `Update`,
`Prune`, `AppendTrack` and `Bump` are `track_id`, which walks through the list that
was there at its start: it reads the stamp of a track, then its x, then updates
it, and others may do the same in between. `GetCorr` and `SetCorr` are the two
halves of the smoothing; what another thread set between them is lost. What the
camera sees is a *film*: frame by frame the trays in full view, the pockets
filled, and what mask centres and products are off by, which may change from
frame to frame. Left out: that no floor depth is found, components of a few
pixels, and the strips of belt beside a tray that has moved on, which lie 10 mm
below its floors where 4 mm are told apart (`floor_band_m`).

### HmiBridge

The event loop (`web`, one POST handler at a time, with the points where the
lock is not held), the rclpy thread (`OnStatus`, `HealthPoll` then
`HealthTick`: the poll happens before the lock is taken), a reader per run
(`Pump`), and the process itself (`TaskReports`, `TaskFinishes`, `TaskExits`).
An exited process stays a zombie until some thread polls; that is why `Kill`
has a second outcome, `KillFails`. A run's recipe is named by the run it was
meant for. Assumed, and named `Prompt`: a process takes longer to come up or to
exit than a status message takes to arrive. A signalled process publishes no
more in the model; what it may still send in its last moments commutes with
the signal, so nothing is lost by taking it to be sent before.
Belt commands and the caches the page shows are left out.

## 3. What the runs check

| Run | Bounds | Shows |
|---|---|---|
| `motion_server` | three goals: a pick (hover, contact with dwell, both tracked), a move with a dwell and a malformed last segment, an empty goal; one frame; grace 1 tick, jam limit 1 tick | no driving for a dead goal (`AimOwned`), jams on own evidence (`JamWithinSegment`), a stop precedes any feedback, success or command (`StopHonoured`), both contracts (`ImplementsMotionGoals`, `ImplementsMotionSlot`), a goal ends or tracks for ever, and a cancel is answered (`GoalsEnd`) |
| `vacuum_gripper` | two light products and a heavy one; seal delay 3, release delay 2, weld 3, state every 2 steps | a seal is earned (`SealEarned`), the contract (`ImplementsSuction`), commands are followed in the end (`CommandsFollowed`) |
| `cycle_task` | three attempts, up to two cycles, park at every attempt, states as late as they like | `NoBlindCarry`, `ReleaseAtContact`, `PutDown`, `GoesOn` |
| `belt_tracker` | six scenes of two objects at most (two bars apart, a bar and a carton side by side, a bar seen as two, a tray, both belts by ground truth); frames late by 1, lost after 2, three tracks, restart after 2 rejections, counts up to 4 | a frame names one object (`FrameNamesOneObject`), what is offered was there (`OfferedWasThere`), occupancy is as old as it says (`OccupancyIsOfItsAge`), keyed tracks jump late (`PatientSnap`), ghosts end (`GhostsEnd`) |
| `scheduler` | two trays of three pockets in all passing by once, two products of two classes, seen in the window or at its far edge; steps of a second, a latch of one, views of a tray one or two old | no pocket filled twice but from a view older than the latch (`NoDoubleFill`), no ghost picked (`NoGhostPick`), the fallback is the exception (`FallsBackLateOnly`), the choice is in reach all the way (`InReach`), a product in hand is put down (`HoldEnds`) |
| `product_spawner` | two models ever, one request not answered in time and not over, a belt of four steps, trays of lengths 1 and 3 in turns, one product asked for by hand | `TraysApart`, `NoCrowd`, `GoesRound` |
| `tray_vacancy` | the carton tray (2 by 4, pitch 90 mm), two of them, three films of two or three frames, two threads, one message kept of each kind; mask centres off by up to 10 mm, products by 5 mm either way, in other ways from frame to frame and tray to tray; depth images up to two frames (15 mm) late; the one tray has floors enough, the other needs the products | frames processed once and not lost (`FramesPaired`), pockets right one by one (`RightPockets`), ids name trays (`TrayIds`) |
| `hmi_bridge` | two runs, one failure each, one watched topic, two messages under way | `OneTask`, `HistoryTrue`, `OutageShown` |

Every one of them also checks the types of its variables (`TypeOK`).

Four runs end in a violation, each of a statement in the source:

| Run | Statement | What the code does |
|---|---|---|
| `release_takes_time` | "OFF removes the joint after \<release_delay\>" (`vacuum_gripper_system.cc:6`) | an interrupted release leaves its start time behind, the next one takes a single step |
| `lifts_first` | "the next goal must lift first" (`run_cycle:783`) | parking after a place leaves the pocket by a plain move |
| `given_up` | "give the product up" (`run_cycle:611`) | a hover feedback that is handled late switches the vacuum on again after the pick was given up, and nothing switches it off before the next place |
| `estop_latched` | "latched alarm until acknowledged" (`server.py:247`) | nothing clears the alarm, so after an acknowledgement the next emergency stop raises none; the same holds for a failure of a later run |

Other places where code and words part, met while modelling and without a run:

* `motion_server.cpp:381` ("settle on the MEASURED arm"), `:442` ("a tracked
  target is never finished") and `:186`: the generator's `Finished` is accepted
  for tracked segments too, and a frame lost in the middle of a segment is
  followed at its last pose. `MotionServer` has both behaviours.
* `src/README.md:42` and `:125` (every product into a fitting tray only): the
  fallback of `run_cycle:700` takes the tray of the schedule, which fits *a*
  product on offer, not necessarily the one picked. `FallsBackLateOnly` says
  when that can happen at all.
* `run_cycle:782` ("until the vacancy view catches up"): a pocket is latched
  for 2 s, while a tray that the camera does not see is kept for
  `tray_lost_s`, 4 s by default and 8 s as tuned (`perception_tuning.yaml:17`),
  with the occupancy of before. So a pocket can be filled twice. `NoDoubleFill`
  is checked with views as old as the code has them, and says that a view older
  than the latch is the only way to it.
* `run_cycle:512`-`514` and `529` ("once the product is in hand", "by the time the
  product was in hand"): `approach_est` ends at the contact (`:638`-`640`), and the
  wait for the seal is not allowed for. The pocket of the schedule may have
  passed when the product is in hand although the approach took no longer than
  estimated; `FallsBackLateOnly` counts the pick up to the seal as late then.
* `conveyor_tracker:207`-`216` and `:303`: with the ground truth for a source, a
  tray missing from the last message is published as all free while its track
  lives on.
* `product_spawner:117` (the reply is verified through the pose feedback): the
  pose callback is excluded while the request blocks, so no pose can come.
* `tray_vacancy_node:222`, `:271` and `:292` speak of the centroid of the mask; the
  code takes the centre of the smallest rectangle around it (`geometry.py:77`),
  which products do not draw away.
* `tray_vacancy_node:316`-`317` (no jumps that spawn new ids): when two threads make
  a track at the same time, one is lost from the list or two get one id. `TrayIds`
  says that nothing else does it, but for frames that overtake each other.
* `server.py:241`: the process polled may be collected by another thread before
  it is signalled; `getpgid` then raises, and neither belts nor alarm follow.

### Why the bounds are enough

The server keeps one goal at a time and forgets everything about older ones
but the dwell deadline, the target and the jam counter: two non-empty goals
reach every hand-over, and a third, empty one the refusal. Grace and limit of
one tick are the smallest for which evidence of an earlier segment could be
mistaken for evidence of the present one. The cup keeps one product and two
timers: two products suffice for it to confuse them, and delays of two and
three steps for a timer to be interrupted half way. An attempt of the task
meets leftovers of the one before, and what that one left may be set up by an
earlier one still: three attempts.

To confuse identities a tracker needs two objects and a frame that shows a
third thing, an object twice; the thresholds keep their order (key gate, gate,
spacing) and the counters are cut to the smallest that tell "settled" from not
and "restart" from "one rejection". A pocket can be promised twice by one tray,
a class be put into the wrong tray by two. Two spawned trays are a pair to keep
apart. A frame can be overtaken by one, and be dropped with one message kept;
two threads are a race, and the horizon is cut to two frames, so that a tray that
a frame does not show may be forgotten and one in the next frame may not. A view older than a latch and one as old are
the two ages that a pocket can tell apart. The panel keeps one run and can confuse it with the one
before: two runs. What the bounds do not settle the theorems of the next
section do, where there is one.

### Fairness, and why the code justifies it

* `MotionServer`: weak fairness of `Tick` and of the first joint state (timer
  and publisher keep firing); strong fairness of a tick in which the generator
  answers `Finished` in a joint or Cartesian segment: their trajectories are
  planned once and are finite. None is assumed in a tracked segment, which is
  planned anew every tick: `GoalsEnd` says that a goal ends or follows a frame it
  never settles on from some time on, and that a cancel is answered all the
  same. A generator that answers `Error` for ever in a fixed segment is excluded;
  the task's 30 s limit is what covers it, as it does such a tracked one.
* `VacuumGripper`: weak fairness of `PreUpdate`: the simulation steps.
* `CycleTask`: weak fairness of the main thread (its waits are bounded), of the
  arrival of commands and of the cup letting go. Nothing is asked of the motion
  server: `GoesOn` and `PutDown` hold even if it never answers again.
* `ConveyorTracker`: weak fairness of the 100 Hz timer and of time. No frame
  need ever come.
* `TaskScheduler`: weak fairness of polling, of the fallback and of time; polls
  are closer together (50 ms) than a step of time. No tray or product need ever
  come.
* `ProductSpawner`: weak fairness of the node's timer, of the belts, the poses
  and what Gazebo does late; strong fairness of the callbacks, which exclude
  each other, and of a request being answered: one that is made again and again
  is answered at last. Gazebo serves requests in the order in which it is asked.
* `HmiBridge`: weak fairness of the two halves of the health timer.
* `TrayVacancy`: none; all its properties are safety.

Deadlock is checked where the system must go on. It is not for the tracker, the
scheduler, the spawner and the vacancy node, whose inputs are bounded: a film
ends, models are used up.

## 4. What is proved

For every value of the constants that satisfies the assumptions in the modules:
identities are distinct, counts and delays are naturals, models have a length,
and some that say more. The first two hold of the modules, the others are
hypotheses of single theorems; the runs check all of them on their instances.

* `SpacingAssumption` (`ConveyorTracker`): products of a class lie further apart
  than the gate and the camera's errors, and the errors are within the gate. The
  spawner breaks it on purpose now and then: it drops some products so that they
  may land on a neighbour (`product_spawner:181`-`185`), and what the tracker
  makes of two of a class that lean on each other is not covered.
* `CellAssumption` (`TaskScheduler`): the pockets lie further from the base than
  `ReachMin`, the belts run forward.
* `Fresh <= BlackTime`, of `GhostsAreLeft`: 0.4 s against 15 s.
* `WindowServes` (`TaskScheduler`), of `FallbackIsTheException`: where pockets
  come into the window the cup reaches them, for 0.35 s at 0.08 m/s more; their
  rows lie further out than `MIN_RADIUS_NOW`, 0.314 m (the 3 by 5 tray has one
  at 0.28 m and takes no product in `PRODUCT_FITS`); the belt does not end before
  the window does; and the longest pick expected is shorter than a hold, 1.4 s
  at first against 6 s.
* `Budget` (`TrayVacancy`), of `PocketsAreRight` and the theorems on ids: centres
  of masks are off by `a` to `b`, the points fitted by `c` to `d`, where products
  count by what they lie off their pockets, and floors by what the belt moves
  until the depth image (`V * Lag`). The two spans together are less than a
  product covers, and with what it covers, or rises and moves, less than a pitch.
  `ErrorBudget` says there are such bounds. `MinFit >= 3`: the smallest tray has
  six pockets, `MinFit` is five.
* `Apart(lo, hi)` (`TrayVacancy`), of the theorems on ids: no tray comes as close
  to where another was as the id gate and the errors of poses, `lo` to `hi`, reach.
* Of `TraysKeepTheirIds`, that the errors of two poses of a tray differ by less
  than the id gate, 80 mm: with masks off by 10 mm at most, products by 5 mm
  either way and a depth image 15 mm late they differ by 40 mm at most.

**MotionServerProofs.** The inductive invariant is `TypeOK`, `SlotOwnsActive`,
`AimOwned`, `JamWithinSegment`, `FeedbackInStep`, and two strengthenings:
`PlanNotEmpty` (the goal in the slot has a segment to run: the hand-over, in
which the target still belongs to the goal before, ends with a tick that starts
or refuses one) and `FreshIsSilent` (no feedback precedes the acceptance of its
goal, so that execution and feedback start in step). From it:
`TypeCorrect`, `OneOpenGoal`, `NoDriveForDeadGoal`, `JamEvidence`,
`FeedbackAgrees`, the action property `StopIsHonoured`, and two refinements,
`Refinement` (of `MotionGoals`: every step is one of a handle's life or a
stutter) and `SlotRefinement` (of `MotionSlot`; the lemma `NextPoint` shows that
feedback goes to the next point a plan has and skips none).

**VacuumGripperProofs.** `TypeOK` and `SealEarned` need `TimerCovered` (the
seal timer never runs longer than the cup was covered) and `WeldAhead` (a
pending product still has weld steps left). From them: `GripTypeCorrect`,
`SealIsEarned`, and `CupRefinement` (the plugin implements `Suction`).

**CycleTaskProofs.** `TypeCorrect`, `NoBlindCarries` and `ReleasesAtContact`, for
any number of attempts. `NoBlindCarry` is far from inductive: whether a sealed state is of
this pick depends on everything that can be under way. The invariant says, of a
pick that is asked for, awaited or done: until the server answers, it is the
last request and has not moved (`QueueOK`); once its first motion is over
(`Moved`), no request, no off and no feedback but its own is left, the cup
holds a product only while it is on, and a state that says "sealed" says the
truth or was under way before (`Clear`); nothing under way is of an attempt to come (`Pending`), and
the counts fit (`CountOK`). `Prompt` is what makes `Clear` true when the motion
ends; every later step keeps it. `ReleaseAtContact` carries that on through the
place (`PlaceOK`): what runs is the place or the pick before it, past its hover,
so that it reports nothing any more; and if an off is decided or on its way
(`OffComes`) the arm is in contact, and stays until another goal is asked for.

**ConveyorTrackerProofs.** Every track is one of a single object on the belt
(`TrackOf`): its class, its key, a place within the errors of the object's, an
age no younger than when the object left or was filled. An observation of a
product then falls within the gate of no track but its own, so whatever the
greedy matching picks is right. For trays by the ground truth, what was told last
of a tray that is on the belt is as old as its track (`GtOK`). From these: `TypeCorrect`, `FramesNameOneObject`,
`SnapsArePatient`, `OffersWereThere`, `OccupancyAge`. `NoObjectTwice`: an object
that gives one observation a frame never has two tracks. Its observation lies
within the gate of its track, so a matching that left it over would have given
the track to another observation, of another object. (Seen as two by the
camera, a product has two tracks.) `EveryFrameMatches`: there is always a matching
that is nearest first, by induction over the number of pairs, so that the set
the model chooses from is not empty.

**TaskSchedulerProofs.** About the operators: `QuarterTurn` (the cup never turns
by more than a quarter), `PocketFound` (`pocket_of_point` inverts
`pocket_offset`), and that what is in reach at both ends of a straight way is in
reach all along it. About the task: `OneProductPerPocket`, from
`FillsRemembered` (a fill is older than any view, or latched until it is as old
as a latch lasts, or of the place that is ending) and `ChosenFree` (what was
chosen is free, or was from a view older than a latch); `GhostsAreLeft`, from `GhostsListed`
(what left the belt is blacklisted for as long as it may be on offer);
`ReachIsKept` and `TypeCorrect`. `FallbackIsTheException` follows a pocket through
the pick and the hold (`PocketAhead`): the schedule saw a free one that fits and
is due in the window when the estimate is over; while the pick lasts no longer
than that, up to the seal, the pocket is still due; while the product is held, it is upstream and due before
the hold ends, or came into the window since the last poll, and then the next
poll finds it servable. So there is always something to choose before the
fallback, but for pockets that passed because the pick took longer, were full
all the time, or whose trays a poll did not see; each pocket is excused by
itself (`promised`).

**ProductSpawnerProofs.** `TypeCorrect` needs `Counted`: nothing is in the world,
seen or asked for that the counter does not know, which is why the counts do
not run over. `NeverCrowded` rests on `CrowdInv`: while all is answered, the
snapshot a tick counts by lacks no model of the world. `TraysKeptApart` rests on
`TrayInv`, while every tray due was created: the last model is that of the
counter (`LastOK`), poses, message and snapshot show a tray no further than it
is, and every tray on the belt is in them from when it was created on
(`SeenOK`); only what has left the belt is removed (`OpenOK`); between two trays
none is missing (`NoneMissing`), so that the pitch from the last one is enough
for all (`Room`). `OnlyTakenAtTheEnd`: as long as no creation was given up, a model
leaves the world only at the end of its belt. Poses and the message the names
are looked up in are never ahead of the world (`NewsOK`), so what a tick means to
remove had left its belt; and only the request now under way may still create a
model, so that no name to be removed is given to a new one (`OrdersOK`). Given up,
a creation may be carried out after its model was removed: without that premise
TLC finds a model removed anew when two requests are under way at once.

**TrayVacancyProofs.** `FramesArePaired`: a half of a frame that came waits in
its store, or was dropped for `KeepLast` later ones, and what is old stays old.
The lock around the two stores is all this needs. `TypeCorrect`.

`FitFindsTheTray` is about the fit alone, for any grid, pockets filled and
number of rounds: below half a pitch, only a floor or product and its own pocket
are within the gate (`OwnPockets`), a round moves the pose to the mean of what
the matched pairs are off by (`RefinedBetween`), and so it stays between the
least and the greatest of these errors. The sum of a function lies between
bounds of its values, by induction over the subsets of its domain as a least
counterexample (`EverySubset`, `SumIs`).

`PocketsAreRight` then bounds every error that can be in play (`PocketInv`): a
floor lies where its tray was or up to `V * Lag` further (`CutLess`), a correction
that is believed lies in `c - b .. d - a`, smoothing takes a value between two of
these, whichever track and thread they are from and whichever is overwritten,
and a pose is off by `a + c - b .. b + d - a`. Within the `Budget` the pockets are
then told apart: those the frame has filled are reported, and none is that the
depth image has not. `NoIdNamesTwoTrays` (the first half of `TrayIds`): while no two tracks
were made at the same time, every track is near where one tray was, its id is
its own, and the one id that is not counted up yet is that of the tray the
thread is at (`Clear`); and a thread about to update a track has found that of
its tray (`Chosen`), although it read stamp and x at different times: by
`FitsItsOwn` such a reading puts the track where its own tray is in some frame,
and trays that are `Apart` lie too far from that.

`TraysKeepTheirIds` adds the second half, that a tray keeps its id, which
`TrayIds` asks for while states are published in the order of their frames.
What was published of a tray lately is then still in the list: the first track
of the tray has that id (`Named` in `TrackInv`), or a thread that was overtaken
has lost it and will publish late itself (`Lost`, `Belated`). The walk through
the list is followed track by track: a thread that looks for its tray's track
still has it before it, unless a later frame has moved the track on or it was
made meanwhile (`Seeks`); what it has before it was not dropped from the list,
unless it was overtaken (`Holds`); and the stamp it read is still the track's
(`Steady`). So a thread that is not late comes to the track and takes it, since
the errors of two poses differ by less than the gate (`FitsIfMine`). A thread
about to make a track found none of its tray, unless a later frame moved that on
(`Unfound`); and the list it makes, without the old tracks, lacks nothing young
(`KeepsFresh`), so that it may replace the one others have changed.

**HmiBridgeProofs.** The invariant says that only the last process can be
alive, that its output is being read, that messages under way are of a live
process, and that a run reports its end once (`EndOnce`: unrecorded while it
can still report, and while the report is on its way). From it:
`PanelTypeCorrect`, `OneTaskAtATime`, `HistoryIsTrue`, and `StatusIsTold` (no
run that is gone is shown as running).

**Model-checked only.** Liveness (`GoalsEnd`, `CommandsFollowed`, `PutDown`,
`GoesOn`, `GhostsEnd`, `HoldEnds`, `GoesRound`, `OutageShown`): fairness and
ENABLED are out of reach of the prover used here. And the violations. Every
invariant and every other action property of the runs is stated by a theorem.

## 5. Not modelled, and why

* SCARA kinematics, segmentation, image geometry but for the lattice fit: real
  numbers; their answers are choices where control depends on them. Yaw and
  the direction across the belt, in the vacancy node, for the same reason.
* Filter weights, headings and the measured belt speed of the tracker: numbers
  that decide nothing but other numbers.
* Vacuum bridge: the continuous cycle sees of it a channel that may reorder
  states, which `CycleTask` has; its `dropped` latch is read by no decision.
* The indexed mode of `run_cycle` and the ground-truth demo: sequential scripts
  over interfaces that are modelled.
* The conveyor plugin: a speed ramp and forces.
* Of the panel: belt commands, the caches the page shows, and a restart of the
  panel itself, after which a `run_cycle` that still runs is nobody's.
* Diagnostics, data generation and training control nothing; launch files,
  descriptions and the page's script hold no state of the cell.

## 6. Plan

Done: the modules above. Next, in this order:

1. Refinement of an abstract map from identities to objects by
   `ConveyorTracker`, and of the set of models in the world by
   `ProductSpawner`.
2. That what `TaskScheduler` takes from the tracker is what `ConveyorTracker`
   keeps, as a step of the refinement and not by the names of the bounds.
3. The vacuum bridge with its service, when the indexed mode is modelled.

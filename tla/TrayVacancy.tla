---------------------------- MODULE TrayVacancy ----------------------------
(***************************************************************************)
(* The node that watches the trays with the place camera                   *)
(* (scripts/tray_vacancy_node).  For every frame the segmentation sends a  *)
(* message with the detections and one with their masks; whichever comes   *)
(* second has the frame processed, on the thread it came on.  Callbacks    *)
(* are reentrant and run on several threads: frames may be processed at    *)
(* the same time and out of order, and but for the lock around the two     *)
(* stores nothing is protected.  A thread gives way at calls and loops.    *)
(*                                                                         *)
(* Frames are numbered, and time is counted in frames.  What the camera    *)
(* sees is given; a tray that a frame does not show whole is passed over.  *)
(***************************************************************************)
EXTENDS PocketLattice, Sequences

CONSTANTS
  Trays, Start,      \* the trays, and where each is at the start
  V,                 \* what the outfeed moves between two frames
  KeepLast,          \* messages of each kind that wait for the other (5)
  IdGate,            \* id_gate_x_m
  Horizon,           \* 3 s, after which a track may go
  Workers,           \* bound: the threads (4)
  MaskErrs,          \* how far off the centre of a mask may be
  Slack,             \* how far off its pocket's centre a product may lie
  NoKey,
  Films,             \* bound: what the frames show, see film
  Lag                \* bound: how much later a depth image may be

ASSUME VacancyAssumption ==
  /\ Start \in [Trays -> Int] /\ V \in Nat /\ MaskErrs \subseteq Int /\ Slack \subseteq Int
  /\ KeepLast \in Nat \ {0} /\ IdGate \in Nat \ {0} /\ Horizon \in Nat
  /\ NoKey \notin Nat /\ Lag \in Nat
  /\ \A x \in Films :
       /\ x \in Seq([whole : SUBSET Trays, filled : [Trays -> SUBSET Grid],
                     err : [Trays -> MaskErrs], off : [Trays -> Slack]])
       /\ \A f, g \in DOMAIN x : \A tray \in Trays :
            f < g => x[f].filled[tray] \subseteq x[g].filled[tray]

VARIABLES
  film,       \* frame by frame, the trays seen whole, the pockets filled, how
              \* far off the masks' centres are and the products lie
  wire,       \* the messages under way
  masks, det, \* self.masks, self.det: the frames stored
  runs,       \* history: how often each frame was processed
  work,       \* what each thread is in the middle of
  objs,       \* the tracks ever made: id, x, stamp
  tracks,     \* self.tracks, by their numbers in objs, which are in its order
  nextId,     \* self.next_id
  corr,       \* self.corr
  published,  \* history: the tray states published
  overlap     \* history: two new tracks were made at the same time

stores == <<masks, det, runs>>
ids == <<objs, tracks, nextId>>
vars == <<film, wire, stores, work, ids, corr, published, overlap>>

Frames == DOMAIN film
At(tray, f) == Start[tray] + V * f
Idle == [at |-> "idle"]

Init ==
  /\ film \in Films /\ wire = Frames \X {"det", "mask"}
  /\ masks = {} /\ det = {} /\ runs = [f \in Frames |-> 0]
  /\ work = [w \in Workers |-> Idle]
  /\ objs = <<>> /\ tracks = {} /\ nextId = 1
  /\ corr = [k \in {} |-> 0] /\ published = {} /\ overlap = FALSE

-----------------------------------------------------------------------------
(* The two callbacks.                                                       *)

(* A bug to tell apart: nothing is dropped.                                 *)
TrimNone(S) == S

(* A bug to tell apart: the newest are dropped.                             *)
TrimNewest(S) == {f \in S : Cardinality({g \in S : g < f}) < KeepLast}

(* sorted(...)[:-5] is dropped.                                             *)
Trim(S) == {f \in S : Cardinality({g \in S : g > f}) < KeepLast}

(* What is left of process.                                                 *)
Ahead(f, d, todo) ==
  IF todo = {} THEN Idle ELSE [at |-> "next", frame |-> f, depth |-> d, todo |-> todo]

(* process begins: the depth image is the latest, not that of the frame.    *)
Begin(w, f) ==
  /\ runs' = [runs EXCEPT ![f] = @ + 1]
  /\ \E d \in f .. Min({f + Lag, Len(film)}) :
       work' = [work EXCEPT ![w] = Ahead(f, d, film[f].whole)]

(* The threads take the messages of a topic in order, and may then overtake *)
(* each other.                                                              *)
Takes(w, f, kind) ==
  /\ work[w] = Idle /\ <<f, kind>> \in wire /\ wire' = wire \ {<<f, kind>>}
  /\ Cardinality({g \in 1 .. f - 1 : <<g, kind>> \in wire}) < Cardinality(Workers)

OnDet(w, f) ==
  /\ Takes(w, f, "det")
  /\ det' = det \cup {f} /\ masks' = masks \ {f}
  /\ IF f \in masks THEN Begin(w, f) ELSE UNCHANGED <<runs, work>>
  /\ UNCHANGED <<film, ids, corr, published, overlap>>

OnMasks(w, f) ==
  /\ Takes(w, f, "mask")
  /\ IF f \in det
     THEN /\ det' = det \ {f} /\ UNCHANGED masks
          /\ Begin(w, f)
     ELSE /\ masks' = Trim(masks \cup {f}) /\ det' = Trim(det)
          /\ UNCHANGED <<runs, work>>
  /\ UNCHANGED <<film, ids, corr, published, overlap>>

-----------------------------------------------------------------------------
(* process, tray by tray.                                                   *)

Job(w) == work[w]
Filled(w) == film[Job(w).frame].filled[Job(w).tray]
Going(w, at) == Job(w).at = at

Looks == UNION {UNION {Range(x[f].filled) : f \in DOMAIN x} : x \in Films}

(* The correction the fit asks for, by what is filled in the frame and in   *)
(* the depth image, how much later that is, and what is off.                *)
Views ==
  [O \in Looks |-> [P \in Looks |-> [late \in 0 .. Lag |->
     [e \in MaskErrs |-> [off \in Slack |->
        LET fit == Fit(Points(O, P, V * late, off), e)
        IN [dx |-> Correction(fit, e), believed |-> Believed(fit, e)]]]]]]

(* The mask's pose of the next tray.  If the fit is believed, the track it  *)
(* would belong to is looked up first.                                      *)
Locate(w) ==
  /\ Going(w, "next")
  /\ \E tray \in Job(w).todo :
       LET f == Job(w).frame
           d == Job(w).depth
           e == film[f].err[tray]
           view == Views[film[f].filled[tray]][film[d].filled[tray]][d - f][e][film[f].off[tray]]
       IN work' = [work EXCEPT ![w] =
            [at |-> "search", assign |-> ~view.believed,
             frame |-> f, depth |-> d, todo |-> Job(w).todo \ {tray},
             tray |-> tray, x |-> At(tray, f) + e,
             dx |-> IF view.believed THEN view.dx ELSE 0,
             key |-> NoKey, rest |-> {}, since |-> 0, kept |-> {}]]
  /\ UNCHANGED <<film, wire, stores, ids, corr, published, overlap>>

(* The corrections of a track, smoothed.                                    *)
Smoothed(prev, dx) == Nearest(7 * prev + 3 * dx, 10)

(* Trays that have no track yet share the corrections kept under None.      *)
GetCorr(w) ==
  /\ Going(w, "get")
  /\ LET k == Job(w).key
         c == IF k \in DOMAIN corr THEN Smoothed(corr[k], Job(w).dx) ELSE Job(w).dx
     IN work' = [work EXCEPT ![w].at = "set", ![w].dx = c]
  /\ UNCHANGED <<film, wire, stores, ids, corr, published, overlap>>

(* What others have set meanwhile is lost.                                  *)
SetCorr(w) ==
  /\ Going(w, "set")
  /\ corr' = [n \in DOMAIN corr \cup {Job(w).key} |->
               IF n = Job(w).key THEN Job(w).dx ELSE corr[n]]
  /\ work' = [work EXCEPT ![w].at = "search", ![w].assign = TRUE, ![w].x = @ + Job(w).dx]
  /\ UNCHANGED <<film, wire, stores, ids, published, overlap>>

(* What the pockets look like, by the masks of the frame and by a depth     *)
(* image that may show the tray further on.                                 *)
Occupied(w) ==
  LET job == Job(w)
      err == job.x - At(job.tray, job.frame)
      on == V * (job.depth - job.frame)
      off == film[job.frame].off[job.tray]
  IN LooksOccupied(Filled(w), err, off, Cover)
       \cup LooksOccupied(film[job.depth].filled[job.tray], err, off + on, Rise)

Publish(w, id) ==
  /\ published' = published \cup
       {[tray |-> Job(w).tray, frame |-> Job(w).frame, depth |-> Job(w).depth,
        late |-> \E f \in Frames : f > Job(w).frame /\ runs[f] > 0,
        id |-> id, occupied |-> Occupied(w)]}
  /\ work' = [work EXCEPT ![w] = Ahead(Job(w).frame, Job(w).depth, Job(w).todo)]

-----------------------------------------------------------------------------
(* track_id, track by track.  The list walked through is the one that was   *)
(* there at the start; the tracks in it may change at any time.             *)

Making(w) == Going(w, "prune") \/ Going(w, "bump")

(* Of the next track the stamp is read.  If no track is left, there is no   *)
(* key; or a new track is made, and the list is read again to be pruned.    *)
Reads(w, list) ==
  LET n == Min(list)
      passed == IF Job(w).frame > objs[n].stamp THEN Job(w).frame - objs[n].stamp ELSE 0
  IN \/ /\ list # {}
        /\ work' = [work EXCEPT ![w].at = "place", ![w].rest = list, ![w].since = passed]
        /\ UNCHANGED overlap
     \/ /\ list = {} /\ ~Job(w).assign
        /\ work' = [work EXCEPT ![w].at = "get", ![w].rest = {}]
        /\ UNCHANGED overlap
     \/ /\ list = {} /\ Job(w).assign
        /\ work' = [work EXCEPT ![w].at = "prune", ![w].rest = tracks, ![w].kept = {}]
        /\ overlap' = (overlap \/ \E v \in Workers \ {w} : Making(v))

Search(w) ==
  /\ Going(w, "search") /\ Reads(w, tracks)
  /\ UNCHANGED <<film, wire, stores, ids, corr, published>>

Look(w) ==
  /\ Going(w, "look") /\ Reads(w, Job(w).rest)
  /\ UNCHANGED <<film, wire, stores, ids, corr, published>>

(* Then its x: moved on to the time of the frame, is it near enough?        *)
Fits(w, n) == Abs(objs[n].x + V * Job(w).since - Job(w).x) < IdGate

Place(w) ==
  /\ Going(w, "place")
  /\ LET job == Job(w)
         n == Min(job.rest)
     IN work' = [work EXCEPT ![w] =
          IF ~Fits(w, n) THEN [job EXCEPT !.at = "look", !.rest = job.rest \ {n}]
          ELSE IF job.assign THEN [job EXCEPT !.at = "update"]
          ELSE [job EXCEPT !.at = "get", !.key = objs[n].id]]
  /\ UNCHANGED <<film, wire, stores, ids, corr, published, overlap>>

(* The track that fits is updated and names the tray.                       *)
Update(w) ==
  /\ Going(w, "update")
  /\ LET n == Min(Job(w).rest)
     IN /\ objs' = [objs EXCEPT ![n].x = Job(w).x, ![n].stamp = Job(w).frame]
        /\ Publish(w, objs[n].id)
  /\ UNCHANGED <<film, wire, stores, tracks, nextId, corr, overlap>>

(* None fits: the list without the old ones is made, again track by track.  *)
Prune(w) ==
  /\ Going(w, "prune") /\ Job(w).rest # {}
  /\ LET n == Min(Job(w).rest)
         recent == {m \in {n} : Job(w).frame - objs[m].stamp < Horizon}
     IN work' = [work EXCEPT ![w].rest = @ \ {n}, ![w].kept = @ \cup recent]
  /\ UNCHANGED <<film, wire, stores, ids, corr, published, overlap>>

(* It replaces the list, whatever that has become, with the new track.      *)
AppendTrack(w) ==
  /\ Going(w, "prune") /\ Job(w).rest = {}
  /\ objs' = Append(objs, [id |-> nextId, x |-> Job(w).x, stamp |-> Job(w).frame])
  /\ tracks' = Job(w).kept \cup {Len(objs) + 1}
  /\ work' = [work EXCEPT ![w].at = "bump"]
  /\ UNCHANGED <<film, wire, stores, nextId, corr, published, overlap>>

(* A bug to tell apart: ids count the tracks in the list.                   *)
BumpByLength(w) ==
  /\ Going(w, "bump")
  /\ nextId' = Cardinality(tracks) + 1
  /\ Publish(w, nextId)
  /\ UNCHANGED <<film, wire, stores, objs, tracks, corr, overlap>>

Bump(w) ==
  /\ Going(w, "bump")
  /\ nextId' = nextId + 1
  /\ Publish(w, nextId)
  /\ UNCHANGED <<film, wire, stores, objs, tracks, corr, overlap>>

Process(w) ==
  \/ Locate(w) \/ GetCorr(w) \/ SetCorr(w)
  \/ Search(w) \/ Look(w) \/ Place(w) \/ Update(w)
  \/ Prune(w) \/ AppendTrack(w) \/ Bump(w)

Next ==
  \/ \E w \in Workers : Process(w)
  \/ \E w \in Workers, f \in Frames : OnDet(w, f) \/ OnMasks(w, f)

Spec == Init /\ [][Next]_vars

-----------------------------------------------------------------------------
(* Properties.                                                              *)

Came(f, kind) == <<f, kind>> \notin wire

(* What a thread may be in the middle of: before a tray, and at one.        *)
Pending == [at : {"next"}, frame : Frames, depth : Frames, todo : SUBSET Trays]
Looking ==
  [at : {"search", "look", "place", "get", "set", "update", "prune", "bump"},
   assign : BOOLEAN, frame : Frames, depth : Frames, todo : SUBSET Trays, tray : Trays,
   x : Int, dx : Int, key : Nat \cup {NoKey}, since : Nat,
   rest : SUBSET (1 .. Len(objs)), kept : SUBSET (1 .. Len(objs))]

(* The depth image is not that late; a thread at a track has one, and it is *)
(* no older than the film.                                                  *)
Sound(job) ==
  /\ job.at # "idle" => job.depth \in job.frame .. job.frame + Lag
  /\ job.at \in {"place", "update"} => job.rest # {}
  /\ job.at = "place" => job.since < job.frame

(* The type of every variable; no more masks than KeepLast wait.            *)
TypeOK ==
  /\ film \in Films
  /\ wire \subseteq Frames \X {"det", "mask"}
  /\ masks \subseteq Frames /\ Cardinality(masks) <= KeepLast
  /\ det \subseteq Frames
  /\ runs \in [Frames -> Nat]
  /\ work \in [Workers -> {Idle} \cup Pending \cup Looking]
  /\ \A w \in Workers : Sound(work[w])
  /\ objs \in Seq([id : Nat, x : Int, stamp : Frames])
  /\ tracks \subseteq 1 .. Len(objs)
  /\ nextId \in Nat /\ overlap \in BOOLEAN
  /\ DOMAIN corr \subseteq Nat \cup {NoKey} /\ \A k \in DOMAIN corr : corr[k] \in Int

(* Every frame whose two messages came is processed, and only once, in      *)
(* whatever order they came and on whatever threads; but one that is older  *)
(* than KeepLast others may be given up.                                    *)
FramesPaired ==
  \A f \in Frames :
    /\ runs[f] <= 1
    /\ Came(f, "det") /\ Came(f, "mask") /\ runs[f] = 0
         => Cardinality({g \in Frames : g > f /\ (Came(g, "det") \/ Came(g, "mask"))}) >= KeepLast

(* What is published of a tray is right pocket by pocket: a pocket filled   *)
(* when the frame was taken is not free, and one that is not filled is not  *)
(* taken.  Not so easy: the floors are those of a later depth image, the    *)
(* grid looks the same a pitch further on, the correction is smoothed, a    *)
(* new tray inherits that of others, and threads overwrite each other's.    *)
RightPockets ==
  \A p \in published : film[p.frame].filled[p.tray] \subseteq p.occupied
                       /\ p.occupied \subseteq film[p.depth].filled[p.tray]

OneTrayPerId == \A p, q \in published : p.id = q.id => p.tray = q.tray

KeepsItsId ==
  (\A r \in published : ~r.late) =>
    \A p, q \in published :
      p.tray = q.tray /\ Abs(p.frame - q.frame) < Horizon => p.id = q.id

(* Ids name trays, unless two tracks were made at the same time: no id      *)
(* names two, and as long as no frame got ahead of an earlier one, a tray   *)
(* keeps its id from one frame to another within the horizon.               *)
TrayIds == overlap \/ (OneTrayPerId /\ KeepsItsId)

-----------------------------------------------------------------------------
(* What the theorems assume.                                                *)

(* The centres of the masks lie in a .. b, the points fitted in c .. d of   *)
(* their pockets: the products are off, the floors as late as the depth     *)
(* image.  So the corrections lie in c - b .. d - a.                        *)
Budget(a, b, c, d) ==
  /\ a <= 0 /\ 0 <= b /\ c <= 0 /\ V * Lag <= d
  /\ \A e \in MaskErrs : a <= e /\ e <= b
  /\ \A off \in Slack : c <= off /\ off <= d
  /\ d - c <= Gate /\ d - a <= Gate /\ b - c <= Gate
  /\ (b - a) + (d - c) < Cover
  /\ (b - a) + (d - c) + Cover <= Pitch
  /\ (b - a) + (d - c) + Rise <= Pitch
  /\ \A off \in Slack : (b - a) + (off - c) + V * Lag + Rise <= Pitch

(* What the pockets are told apart by is small enough for it.               *)
ErrorBudget == \E a, b, c, d \in Int : Budget(a, b, c, d)

(* No two trays come so close, as far as a film tells frames apart, that    *)
(* the one would be taken for the other.                                    *)
Apart(lo, hi) ==
  \A s, t \in Trays, x \in Films : \A k \in 0 .. Len(x) :
    s # t => \/ Start[s] - Start[t] + V * k >= IdGate + (hi - lo)
             \/ Start[t] - Start[s] - V * k >= IdGate + (hi - lo)

(* A track is where a tray was at its stamp.                                *)
Near(o, tray, lo, hi) ==
  lo <= o.x - At(tray, o.stamp) /\ o.x - At(tray, o.stamp) <= hi
=============================================================================

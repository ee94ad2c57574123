----------------------- MODULE ConveyorTrackerProofs -----------------------
(***************************************************************************)
(* Proofs about ConveyorTracker, for every set of scenes and every value   *)
(* of the thresholds.  The heart is that the observations of a product     *)
(* fall within the gate of no track but its own: whatever is matched to a  *)
(* track, nearest first or not, is of the object the track was started     *)
(* for.  That it is nearest first, and so leaves over no observation that  *)
(* a free track would take, is why an object never has two tracks.         *)
(***************************************************************************)
EXTENDS ConveyorTracker, FiniteSetTheorems, WellFoundedInduction, TLAPS

Unkeyed == scene.belt = "products" /\ scene.source = "vision"

(* What every observation that reaches a tracker satisfies.                 *)
Obs(o) ==
  /\ o.of \in scene.on /\ o.cls = scene.class[o.of]
  /\ o.x \in Int /\ o.age \in 0 .. MaxAge /\ o.area \in {"usual", "low"}
  /\ o.payload \in NoPayload .. MaxFill
  /\ gone[o.of] <= o.age
  /\ scene.source = "gt" <=> o.payload = NoPayload
  /\ scene.source = "vision" /\ o.payload # filled[o.of] /\ scene.belt = "trays" => fillAge[o.of] <= o.age
  /\ Unkeyed => o.key = NoKey /\ o.x \in scene.pos[o.of] + MinOff .. scene.pos[o.of] + MaxOff
  /\ ~Unkeyed => o.key = o.of

(* A track that is of the object p.                                         *)
TrackOf(tr, p) ==
  /\ tr \in Track /\ tr.of = {p} /\ tr.cls = scene.class[p]
  /\ tr.far = tr.outliers
  /\ gone[p] <= tr.age
  /\ scene.source = "gt" <=> tr.payload = NoPayload
  /\ scene.source = "vision" /\ tr.payload # filled[p] /\ scene.belt = "trays" => fillAge[p] <= tr.age
  /\ Unkeyed => tr.key = NoKey /\ tr.x \in scene.pos[p] + MinOff .. scene.pos[p] + MaxOff
  /\ ~Unkeyed => tr.key = p

WorldOK ==
  /\ scene \in Scenes
  /\ gone \in [Objects -> -1 .. MaxAge]
  /\ filled \in [Objects -> 0 .. MaxFill]
  /\ fillAge \in [Objects -> 0 .. MaxAge]

IInv ==
  /\ WorldOK
  /\ DOMAIN tracks \subseteq 1 .. nextId - 1 /\ nextId \in 1 .. MaxId + 1
  /\ \A i \in DOMAIN tracks : \E p \in scene.on : TrackOf(tracks[i], p)

(* What the last poses say of a tray that is still there is of its age.     *)
GtOK ==
  /\ DOMAIN gtOcc \subseteq Objects /\ \A p \in DOMAIN gtOcc : gtOcc[p] \in 0 .. MaxFill
  /\ scene.belt = "trays" /\ scene.source = "gt" =>
       \A i \in DOMAIN tracks : \A p \in tracks[i].of : gone[p] = OnBelt =>
         p \in DOMAIN gtOcc /\ (gtOcc[p] # filled[p] => fillAge[p] <= tracks[i].age)

LEMMA Constants ==
  /\ Gate \in Nat /\ KeyGate \in Nat /\ Settled \in Nat \ {0} /\ SnapAfter \in Nat \ {0}
  /\ MaxCount \in Nat /\ MaxCount >= Settled /\ MaxCount >= 1
  /\ MinOff \in Int /\ MaxOff \in Int /\ LostS \in Nat /\ Fresh \in Nat
  /\ MaxDelay \in Nat /\ Pickable \in Nat /\ MaxFill \in Nat /\ MaxId \in Nat
  /\ MaxAge \in Nat /\ MaxDelay <= MaxAge
  /\ NoKey \notin Objects /\ Lively \subseteq Objects /\ KeyOffsets \subseteq Int
  /\ NoPayload = -1
BY TrackerAssumption, BeltAssumption DEF MaxAge, NoPayload

LEMMA SceneFacts ==
  ASSUME scene \in Scenes
  PROVE  /\ scene.belt \in {"products", "trays"} /\ scene.source \in {"vision", "gt"}
         /\ scene.on \subseteq Objects /\ IsFiniteSet(scene.on)
         /\ scene.pos \in [scene.on -> Int] /\ scene.masks \in Nat \ {0}
BY BeltAssumption

(* The classes of the tracks of a scene are classes of Track.               *)
LEMMA ClassType ==
  ASSUME scene \in Scenes, NEW p \in scene.on
  PROVE  scene.class[p] \in Classes
BY DEF Classes

-----------------------------------------------------------------------------
(* One observation and one track.                                           *)

(* A track that is used stays a track of its object.                        *)
LEMMA UsedTrack ==
  ASSUME WorldOK, NEW p \in scene.on, NEW tr, NEW o, NEW x \in Between(tr.x, o.x),
         TrackOf(tr, p), Obs(o), o.of = p
  PROVE  /\ TrackOf(Used(tr, o, x), p)
         /\ Used(tr, o, x).n >= tr.n /\ Used(tr, o, x).key = tr.key
         /\ Abs(x - tr.x) <= Dist(tr, o) /\ Used(tr, o, x).x = x
<1> USE Constants
<1>1. scene.on \subseteq Objects /\ scene.pos[p] \in Int
  BY SceneFacts DEF WorldOK
<1>2. tr \in Track /\ tr.x \in Int /\ o.x \in Int /\ x \in Int
  BY DEF TrackOf, Obs, Between, Track
<1>3. Counted(tr.n) \in 1 .. MaxCount /\ Counted(tr.n) >= tr.n
  BY <1>2 DEF Counted, Track
<1>4. /\ Used(tr, o, x) = [tr EXCEPT !.x = x, !.n = Counted(tr.n), !.age = o.age,
             !.payload = o.payload, !.outliers = 0, !.of = tr.of \cup {o.of}, !.far = 0]
      /\ tr.of \cup {o.of} = {p}
  BY <1>2 DEF Used, TrackOf, Track
<1>5. Used(tr, o, x) \in Track
  <2>1. /\ o.age \in 0 .. MaxAge /\ 0 \in 0 .. SnapAfter - 1 /\ 0 \in Nat
        /\ o.payload \in NoPayload .. MaxFill /\ tr.of \cup {o.of} \in SUBSET Objects
    BY <1>1, <1>4 DEF Obs
  <2> HIDE Constants
  <2> QED
    BY <1>2, <1>3, <1>4, <2>1 DEF Track
<1>6. Unkeyed => x \in scene.pos[p] + MinOff .. scene.pos[p] + MaxOff
  BY <1>1, <1>2 DEF TrackOf, Obs, Between
<1>7. Abs(x - tr.x) <= Dist(tr, o)
  BY <1>2 DEF Between, Dist, Abs
<1> QED
  BY <1>2, <1>3, <1>4, <1>5, <1>6, <1>7 DEF TrackOf, Obs, Track

LEMMA FusedTrack ==
  ASSUME WorldOK, NEW p \in scene.on, NEW tr, NEW o, NEW r \in Fused(tr, o),
         TrackOf(tr, p), Obs(o), o.of = p
  PROVE  /\ TrackOf(r, p) /\ r.n >= tr.n /\ r.key = tr.key
         /\ r.x # tr.x => Abs(r.x - tr.x) <= Dist(tr, o)
<1> USE Constants
<1>1. CASE o.age > tr.age
  BY <1>1 DEF Fused, TrackOf, Track
<1>2. CASE ~(o.age > tr.age) /\ o.area = "low" /\ tr.n >= 3
  <2>1. r = [tr EXCEPT !.payload = o.payload]
    BY <1>2 DEF Fused
  <2>2. tr \in Track /\ r \in Track
    BY <2>1 DEF TrackOf, Track, Obs
  <2>3. o.age \in Int /\ tr.age \in Int /\ fillAge[p] \in Int
    BY <2>2, SceneFacts DEF Obs, Track, WorldOK
  <2> QED
    BY <1>2, <2>1, <2>2, <2>3 DEF TrackOf, Track, Obs
<1>3. CASE ~(o.age > tr.age) /\ ~(o.area = "low" /\ tr.n >= 3)
  <2>1. PICK x \in Between(tr.x, o.x) : r = Used(tr, o, x)
    BY <1>3 DEF Fused
  <2> QED
    BY <2>1, UsedTrack
<1> QED
  BY <1>1, <1>2, <1>3

LEMMA SnappedTrack ==
  ASSUME WorldOK, NEW p \in scene.on, NEW tr, NEW o,
         TrackOf(tr, p), Obs(o), o.of = p
  PROVE  /\ TrackOf(Snapped(tr, o), p) /\ Snapped(tr, o).n = tr.n
         /\ Snapped(tr, o).key = tr.key
<1> USE Constants
<1>1. tr \in Track /\ tr.of \cup {o.of} = {p}
  BY DEF TrackOf
<1>2. Snapped(tr, o) \in Track
  <2>1. /\ o.x \in Int /\ o.age \in 0 .. MaxAge /\ 0 \in 0 .. SnapAfter - 1
        /\ o.payload \in NoPayload .. MaxFill /\ tr.of \cup {o.of} \in SUBSET Objects /\ 0 \in Nat
    BY <1>1, SceneFacts DEF Obs, WorldOK
  <2>2. Snapped(tr, o) = [tr EXCEPT !.x = o.x, !.age = o.age, !.outliers = 0,
          !.payload = o.payload, !.of = tr.of \cup {o.of}, !.far = 0]
    BY DEF Snapped
  <2> HIDE Constants
  <2> QED
    BY <1>1, <2>1, <2>2 DEF Track
<1> QED
  BY <1>1, <1>2 DEF TrackOf, Obs, Track, Snapped

LEMMA RejectedTrack ==
  ASSUME NEW p \in scene.on, NEW tr, TrackOf(tr, p), tr.outliers + 1 < SnapAfter
  PROVE  /\ TrackOf(Rejected(tr), p) /\ Rejected(tr).n = tr.n
         /\ Rejected(tr).key = tr.key /\ Rejected(tr).x = tr.x
<1> USE Constants
<1>1. tr \in Track
  BY DEF TrackOf
<1>2. Rejected(tr) \in Track
  <2>1. /\ tr.outliers + 1 \in 0 .. SnapAfter - 1 /\ tr.far + 1 \in Nat
    BY <1>1 DEF Track
  <2>2. Rejected(tr) = [tr EXCEPT !.outliers = tr.outliers + 1, !.far = tr.far + 1]
    BY DEF Rejected
  <2> HIDE Constants
  <2> QED
    BY <1>1, <2>1, <2>2 DEF Track
<1> QED
  BY <1>1, <1>2 DEF TrackOf, Track, Rejected

(* Whatever comes of an observation with the key of a track is patient.     *)
Patient(tr, r) ==
  /\ r.n >= tr.n
  /\ (tr.key # NoKey /\ tr.n >= Settled /\ Abs(r.x - tr.x) > KeyGate)
       => tr.far = SnapAfter - 1

LEMMA IdentifiedTrack ==
  ASSUME WorldOK, NEW p \in scene.on, NEW tr, NEW o, NEW r \in Identified(tr, o),
         TrackOf(tr, p), Obs(o), o.of = p
  PROVE  TrackOf(r, p) /\ Patient(tr, r)
<1> USE Constants
<1>1. tr \in Track /\ tr.n \in Int /\ tr.x \in Int /\ tr.far = tr.outliers /\ tr.outliers \in 0 .. SnapAfter - 1
  BY DEF TrackOf, Track
<1>2. CASE tr.n >= Settled /\ Dist(tr, o) > KeyGate /\ tr.outliers + 1 < SnapAfter
  <2>1. r = Rejected(tr)
    BY <1>2 DEF Identified
  <2>2. Abs(r.x - tr.x) = 0
    BY <1>1, <1>2, <2>1, RejectedTrack DEF Abs
  <2> QED
    BY <1>1, <1>2, <2>1, <2>2, RejectedTrack DEF Patient
<1>3. CASE tr.n >= Settled /\ Dist(tr, o) > KeyGate /\ ~(tr.outliers + 1 < SnapAfter)
  <2>1. r = Snapped(tr, o)
    BY <1>3 DEF Identified
  <2> QED
    BY <1>1, <1>3, <2>1, SnappedTrack DEF Patient
<1>4. CASE ~(tr.n >= Settled /\ Dist(tr, o) > KeyGate)
  <2>1. r \in Fused(tr, o)
    BY <1>4 DEF Identified
  <2>2. r.x \in Int /\ Dist(tr, o) \in Int
    BY <1>1, <2>1, FusedTrack DEF TrackOf, Track, Dist, Abs, Obs
  <2>3. tr.n >= Settled => Abs(r.x - tr.x) <= KeyGate
    BY <1>1, <1>4, <2>1, <2>2, FusedTrack DEF Abs
  <2> QED
    BY <1>1, <2>1, <2>2, <2>3, FusedTrack DEF Patient, Abs
<1> QED
  BY <1>2, <1>3, <1>4

-----------------------------------------------------------------------------
(* One frame.                                                               *)

(* An observation lies within the gate of no track but of its own object.   *)
LEMMA PairsAreOfOneObject ==
  ASSUME WorldOK, NEW F, \A o \in F : Obs(o),
         \A i \in DOMAIN tracks : \E p \in scene.on : TrackOf(tracks[i], p),
         NEW w \in Pairs(F)
  PROVE  w[1] \in F /\ w[2] \in DOMAIN tracks /\ TrackOf(tracks[w[2]], w[1].of)
<1> USE Constants
<1>1. /\ w[1] \in F /\ w[1].key = NoKey /\ w[2] \in DOMAIN tracks
      /\ tracks[w[2]].cls = w[1].cls /\ Dist(tracks[w[2]], w[1]) <= Gate
  BY DEF Pairs, Keyed
<1> DEFINE o == w[1]  tr == tracks[w[2]]
<1>2. Obs(o) /\ o.of \in scene.on /\ o.key = NoKey
  BY <1>1 DEF Obs
<1>3. Unkeyed
  BY <1>2, SceneFacts DEF Obs, WorldOK
<1>4. PICK p \in scene.on : TrackOf(tr, p)
  BY <1>1
<1>5. p = o.of
  <2> SUFFICES ASSUME p # o.of PROVE FALSE
    OBVIOUS
  <2>1. scene.class[p] = scene.class[o.of]
    BY <1>1, <1>2, <1>4 DEF TrackOf, Obs
  <2>2. Abs(scene.pos[p] - scene.pos[o.of]) > Gate + (MaxOff - MinOff)
    BY <1>2, <1>3, <2>1, SpacingAssumption DEF Unkeyed, WorldOK
  <2>3. scene.pos[p] \in Int /\ scene.pos[o.of] \in Int
    BY <1>2, SceneFacts DEF WorldOK
  <2>4. /\ tr.x \in Int /\ tr.x >= scene.pos[p] + MinOff /\ tr.x <= scene.pos[p] + MaxOff
        /\ o.x \in Int /\ o.x >= scene.pos[o.of] + MinOff /\ o.x <= scene.pos[o.of] + MaxOff
    BY <1>2, <1>3, <1>4, <2>3 DEF TrackOf, Obs
  <2>5. Abs(tr.x - o.x) <= Gate
    BY <1>1 DEF Dist
  <2> HIDE DEF o, tr
  <2> QED
    BY <2>2, <2>3, <2>4, <2>5 DEF Abs
<1> QED
  BY <1>1, <1>4, <1>5

(* What becomes of a track in a frame is of its object, and patient.        *)
LEMMA AfterTrack ==
  ASSUME WorldOK, NEW F, \A o \in F : Obs(o),
         \A i \in DOMAIN tracks : \E p \in scene.on : TrackOf(tracks[i], p),
         NEW M \in SUBSET Pairs(F), NEW i \in DOMAIN tracks, NEW r \in After(F, M, i)
  PROVE  \E p \in scene.on :
           TrackOf(tracks[i], p) /\ TrackOf(r, p) /\ Patient(tracks[i], r)
<1> USE Constants
<1> DEFINE same == {o \in Keyed(F) : o.key = tracks[i].key}
           matched == {o \in F : <<o, i>> \in M}
<1>1. PICK p \in scene.on : TrackOf(tracks[i], p)
  OBVIOUS
<1>2. CASE same # {}
  <2>1. PICK o \in same : r \in Identified(tracks[i], o)
    BY <1>2 DEF After
  <2>2. o \in F /\ Obs(o) /\ o.key # NoKey /\ o.key = tracks[i].key
    BY DEF Keyed
  <2>3. o.of = p
    BY <1>1, <2>2 DEF Obs, TrackOf
  <2> QED
    BY <1>1, <2>1, <2>2, <2>3, IdentifiedTrack
<1>3. CASE same = {} /\ matched # {}
  <2>1. PICK o \in matched : r \in Fused(tracks[i], o)
    BY <1>3 DEF After
  <2>2. o \in F /\ Obs(o) /\ <<o, i>> \in Pairs(F)
    OBVIOUS
  <2>3. TrackOf(tracks[i], o.of) /\ o.of \in scene.on /\ tracks[i].key = NoKey
    BY <2>2, PairsAreOfOneObject DEF Obs, Pairs
  <2>4. TrackOf(r, o.of) /\ r.n >= tracks[i].n
    BY <2>1, <2>2, <2>3, FusedTrack
  <2> QED
    BY <2>3, <2>4 DEF Patient
<1>4. CASE same = {} /\ matched = {}
  <2>1. r = tracks[i]
    BY <1>4 DEF After
  <2>2. r.n \in Int /\ r.x \in Int
    BY <1>1, <2>1 DEF TrackOf, Track
  <2> QED
    BY <1>1, <2>1, <2>2 DEF Patient, Abs
<1> QED
  BY <1>2, <1>3, <1>4

LEMMA CreatedTrack ==
  ASSUME WorldOK, NEW o, Obs(o)
  PROVE  TrackOf(Created(o), o.of)
<1> USE Constants
<1>1. /\ o.cls \in Classes /\ o.key \in Objects \cup {NoKey} /\ o.x \in Int
      /\ 1 \in 1 .. MaxCount /\ o.age \in 0 .. MaxAge /\ 0 \in 0 .. SnapAfter - 1
      /\ o.payload \in NoPayload .. MaxFill /\ {o.of} \in SUBSET Objects /\ 0 \in Nat
  BY SceneFacts, ClassType DEF WorldOK, Obs
<1>2. Created(o) \in Track
  <2> HIDE Constants
  <2> QED
    BY <1>1 DEF Created, Track
<1> QED
  BY <1>2 DEF TrackOf, Obs, Created

(* A frame: tracks keep their object, new ones get new ids.                 *)
LEMMA UpdateKeeps ==
  ASSUME IInv, NEW F, IsFiniteSet(F), \A o \in F : Obs(o),
         NEW t, NEW lost, Update(F, t, lost)
  PROVE  /\ nextId' \in Int /\ nextId' >= nextId
         /\ DOMAIN tracks' \subseteq 1 .. nextId' - 1
         /\ \A i \in DOMAIN tracks' :
              /\ \E p \in scene.on : TrackOf(tracks'[i], p)
              /\ i \in DOMAIN tracks => /\ tracks'[i].of = tracks[i].of
                                       /\ Patient(tracks[i], tracks'[i])
              /\ i \notin DOMAIN tracks => i >= nextId /\ i < nextId'
<1> USE Constants DEF IInv
<1>0. PICK M \in NearestFirst(Pairs(F)) :
        \E born \in [nextId .. (nextId + Cardinality(Unclaimed(F, M)) - 1) -> Unclaimed(F, M)],
           kept \in [DOMAIN tracks -> UNION {After(F, M, i) : i \in DOMAIN tracks}] :
          /\ \A i \in DOMAIN tracks : kept[i] \in After(F, M, i)
          /\ tracks' = Prune([i \in DOMAIN tracks \cup
                (nextId .. (nextId + Cardinality(Unclaimed(F, M)) - 1)) |->
                  IF i \in nextId .. (nextId + Cardinality(Unclaimed(F, M)) - 1)
                  THEN Created(born[i]) ELSE kept[i]], t, lost)
          /\ nextId' = nextId + Cardinality(Unclaimed(F, M))
  BY DEF Update, IdAfter
<1> DEFINE new == Unclaimed(F, M)
           k == Cardinality(new)
           ids == nextId .. (nextId + k - 1)
<1>1. PICK born \in [ids -> new], kept \in [DOMAIN tracks -> UNION {After(F, M, i) : i \in DOMAIN tracks}] :
          /\ \A i \in DOMAIN tracks : kept[i] \in After(F, M, i)
          /\ tracks' = Prune([i \in DOMAIN tracks \cup ids |->
                  IF i \in ids THEN Created(born[i]) ELSE kept[i]], t, lost)
          /\ nextId' = nextId + k
  BY <1>0
<1> DEFINE all == [i \in DOMAIN tracks \cup ids |->
                    IF i \in ids THEN Created(born[i]) ELSE kept[i]]
<1>2. M \in SUBSET Pairs(F)
  BY DEF NearestFirst
<1>3. new \subseteq F /\ k \in Nat
  <2>1. new \subseteq F
    BY DEF Unclaimed
  <2> QED
    BY <2>1, FS_Subset, FS_CardinalityType
<1>4. nextId \in Int /\ \A i \in DOMAIN tracks : i \in Int /\ i >= 1 /\ i < nextId
  OBVIOUS
<1>5. nextId' = nextId + k /\ \A i \in DOMAIN tracks' : i \in DOMAIN tracks \cup ids /\ tracks'[i] = all[i]
  BY <1>1 DEF Prune
<1>6. ASSUME NEW i \in DOMAIN tracks', i \in DOMAIN tracks
      PROVE  /\ \E p \in scene.on : TrackOf(tracks'[i], p)
             /\ tracks'[i].of = tracks[i].of /\ Patient(tracks[i], tracks'[i])
  <2>1. i \notin ids
    BY <1>3, <1>4, <1>6
  <2>2. tracks'[i] = kept[i] /\ kept[i] \in After(F, M, i)
    BY <1>1, <1>5, <1>6, <2>1
  <2>3. PICK p \in scene.on : TrackOf(tracks[i], p) /\ TrackOf(kept[i], p) /\ Patient(tracks[i], kept[i])
    BY <1>2, <1>6, <2>2, AfterTrack
  <2> QED
    BY <2>2, <2>3 DEF TrackOf
<1>7. ASSUME NEW i \in DOMAIN tracks', i \notin DOMAIN tracks
      PROVE  (\E p \in scene.on : TrackOf(tracks'[i], p)) /\ i \in ids
  <2>1. i \in ids /\ tracks'[i] = Created(born[i]) /\ born[i] \in F
    BY <1>1, <1>3, <1>5, <1>7
  <2> QED
    BY <2>1, CreatedTrack DEF Obs
<1>8. \A i \in ids : i \in Int /\ i >= nextId /\ i < nextId + k
  BY <1>3, <1>4
<1> HIDE DEF ids, k
<1> QED
  BY <1>3, <1>4, <1>5, <1>6, <1>7, <1>8

-----------------------------------------------------------------------------
(* The steps of the node and of the belt.                                   *)

(* What a step does to the tracks: they keep their object, a new one has a  *)
(* new id, and none jumps or counts back without patience.                  *)
Steady ==
  /\ nextId' >= nextId
  /\ \A i \in DOMAIN tracks' :
       IF i \in DOMAIN tracks
       THEN tracks'[i].of = tracks[i].of /\ Patient(tracks[i], tracks'[i])
       ELSE i >= nextId /\ i < nextId' /\ \E p \in Objects : tracks'[i].of = {p}

LEMMA UpdateStep ==
  ASSUME IInv, NEW F, IsFiniteSet(F), \A o \in F : Obs(o), NEW t, NEW lost,
         Update(F, t, lost), nextId' <= MaxId + 1, UNCHANGED <<scene, world>>
  PROVE  IInv' /\ Steady
<1> USE Constants
<1>1. /\ nextId' \in Int /\ nextId' >= nextId
      /\ DOMAIN tracks' \subseteq 1 .. nextId' - 1
      /\ \A i \in DOMAIN tracks' :
            /\ \E p \in scene.on : TrackOf(tracks'[i], p)
            /\ i \in DOMAIN tracks => /\ tracks'[i].of = tracks[i].of
                                     /\ Patient(tracks[i], tracks'[i])
            /\ i \notin DOMAIN tracks => i >= nextId /\ i < nextId'
  BY UpdateKeeps
<1>2. scene.on \subseteq Objects
  BY SceneFacts DEF IInv, WorldOK
<1>3. Steady
  BY <1>1, <1>2 DEF Steady, TrackOf
<1>4. WorldOK' /\ scene' = scene /\ gone' = gone /\ filled' = filled /\ fillAge' = fillAge
  BY DEF IInv, WorldOK, world
<1>5. \A i \in DOMAIN tracks' : \E p \in scene'.on : TrackOf(tracks[i], p)'
  BY <1>1, <1>4 DEF TrackOf, Unkeyed
<1>6. nextId' \in 1 .. MaxId + 1
  BY <1>1 DEF IInv
<1> QED
  BY <1>1, <1>3, <1>4, <1>5, <1>6 DEF IInv

LEMMA ThereAtAge ==
  ASSUME WorldOK, NEW p \in scene.on, NEW d \in 0 .. MaxDelay, ThereAt(p, d)
  PROVE  gone[p] <= d
BY Constants, SceneFacts DEF ThereAt, OnBelt, WorldOK

LEMMA FilledAtAge ==
  ASSUME WorldOK, NEW p \in scene.on, NEW d \in 0 .. MaxDelay, NEW c \in FilledAt(p, d)
  PROVE  c \in 0 .. MaxFill /\ (c # filled[p] => fillAge[p] <= d)
BY Constants, SceneFacts DEF FilledAt, WorldOK

LEMMA PayloadsAge ==
  ASSUME WorldOK, NEW p \in scene.on, NEW d \in 0 .. MaxDelay, NEW c \in Payloads(p, d)
  PROVE  /\ c \in NoPayload .. MaxFill /\ (scene.source = "gt" <=> c = NoPayload)
         /\ scene.source = "vision" /\ c # filled[p] => fillAge[p] <= d
BY Constants, SceneFacts, FilledAtAge DEF Payloads, WorldOK

LEMMA KeySeenObs ==
  ASSUME WorldOK, ~Unkeyed, NEW p \in scene.on, NEW d \in 0 .. MaxDelay,
         ThereAt(p, d), NEW o \in KeySeen(p, d)
  PROVE  Obs(o) /\ o.of = p
<1> USE Constants
<1>1. PICK x \in KeyPlaces(p), c \in Payloads(p, d) :
        o = [of |-> p, mask |-> 1, cls |-> scene.class[p], key |-> p, x |-> x,
             area |-> "usual", payload |-> c, age |-> d]
  BY DEF KeySeen
<1>2. x \in Int
  <2>1. PICK e \in KeyOffsets : x = scene.pos[p] + e
    BY DEF KeyPlaces
  <2>2. e \in Int /\ scene.pos[p] \in Int
    BY SceneFacts DEF WorldOK
  <2> QED
    BY <2>1, <2>2
<1> QED
  BY <1>1, <1>2, ThereAtAge, PayloadsAge DEF Obs

LEMMA ProductSeenObs ==
  ASSUME WorldOK, Unkeyed, NEW p \in scene.on, NEW d \in 0 .. MaxDelay,
         ThereAt(p, d), NEW o \in ProductSeen(p, d)
  PROVE  Obs(o)
<1> USE Constants
<1>1. PICK m \in 1 .. scene.masks, x \in {scene.pos[p] + e : e \in MinOff .. MaxOff}, a \in {"usual", "low"} :
        o = [of |-> p, mask |-> m, cls |-> scene.class[p], key |-> NoKey, x |-> x,
             area |-> a, payload |-> 0, age |-> d]
  BY DEF ProductSeen
<1>2. scene.pos[p] \in Int
  BY SceneFacts DEF WorldOK
<1>3. x \in scene.pos[p] + MinOff .. scene.pos[p] + MaxOff /\ x \in Int
  BY <1>2
<1>4. d \in 0 .. MaxAge /\ 0 \in 0 .. MaxFill
  OBVIOUS
<1> QED
  BY <1>1, <1>3, <1>4, ThereAtAge DEF Obs, Unkeyed

LEMMA OnCandsStep == ASSUME IInv, OnCands PROVE IInv' /\ Steady
<1>0. PICK d \in 0 .. MaxDelay : \E F \in ProductFrames(d) : Update(F, d, LostS)
  BY DEF OnCands
<1>1. PICK F \in ProductFrames(d) : Update(F, d, LostS)
  BY <1>0
<1>2. Unkeyed /\ WorldOK /\ nextId' <= MaxId + 1 /\ UNCHANGED <<scene, world>>
  BY DEF OnCands, Unkeyed, IInv
<1> DEFINE seen == UNION {ProductSeen(p, d) : p \in {q \in scene.on : ThereAt(q, d)}}
<1>3. F = {} \/ \E w \in seen \X seen : F = {w[1], w[2]}
  BY DEF ProductFrames
<1>4. \A o \in F : Obs(o)
  BY <1>2, <1>3, ProductSeenObs
<1>5. IsFiniteSet(F)
  <2>1. CASE F = {}
    BY <2>1, FS_EmptySet
  <2>2. ASSUME NEW w \in seen \X seen, F = {w[1], w[2]} PROVE IsFiniteSet(F)
    <3>1. IsFiniteSet({w[1]} \cup {w[2]})
      BY FS_Singleton, FS_Union
    <3>2. F = {w[1]} \cup {w[2]}
      BY <2>2
    <3> QED
      BY <3>1, <3>2
  <2> QED
    BY <1>3, <2>1, <2>2
<1> QED
  BY <1>1, <1>2, <1>4, <1>5, UpdateStep

LEMMA OnTrayStep == ASSUME IInv, OnTray PROVE IInv' /\ Steady
<1>0. PICK d \in 0 .. MaxDelay, p \in scene.on :
        ThereAt(p, d) /\ \E o \in KeySeen(p, d) : Update({o}, d, LostS)
  BY DEF OnTray
<1>1. PICK o \in KeySeen(p, d) : ThereAt(p, d) /\ Update({o}, d, LostS)
  BY <1>0
<1>2. ~Unkeyed /\ WorldOK /\ nextId' <= MaxId + 1 /\ UNCHANGED <<scene, world>>
  BY DEF OnTray, Unkeyed, IInv
<1>3. Obs(o) /\ IsFiniteSet({o})
  BY <1>1, <1>2, KeySeenObs, FS_Singleton
<1> QED
  BY <1>1, <1>2, <1>3, UpdateStep

(* The poses of all that is there.                                          *)
LEMMA GtFrame ==
  ASSUME WorldOK, ~Unkeyed,
         NEW seen \in [{p \in scene.on : gone[p] = OnBelt} ->
                         UNION {KeySeen(p, 0) : p \in {q \in scene.on : gone[q] = OnBelt}}]
  PROVE  /\ \A o \in {seen[p] : p \in {q \in scene.on : gone[q] = OnBelt}} : Obs(o)
         /\ IsFiniteSet({seen[p] : p \in {q \in scene.on : gone[q] = OnBelt}})
<1> DEFINE here == {p \in scene.on : gone[p] = OnBelt}
<1>1. \A o \in {seen[p] : p \in here} : Obs(o)
  <2> SUFFICES ASSUME NEW q \in here PROVE Obs(seen[q])
    OBVIOUS
  <2>1. PICK p \in here : seen[q] \in KeySeen(p, 0)
    OBVIOUS
  <2>2. 0 \in 0 .. MaxDelay /\ ThereAt(p, 0)
    BY Constants DEF ThereAt
  <2> QED
    BY <2>1, <2>2, KeySeenObs
<1>2. IsFiniteSet({seen[p] : p \in here})
  <2>1. IsFiniteSet(here)
    BY SceneFacts, FS_Subset DEF WorldOK
  <2>2. seen \in Surjection(here, {seen[p] : p \in here})
    BY DEF Surjection
  <2> HIDE DEF here
  <2> QED
    BY <2>1, <2>2, FS_Surjection
<1> QED
  BY <1>1, <1>2

LEMMA OnGtStep == ASSUME IInv, OnGt PROVE IInv' /\ Steady
<1> DEFINE here == {p \in scene.on : gone[p] = OnBelt}
<1>1. PICK seen \in [here -> UNION {KeySeen(p, 0) : p \in here}] :
        /\ \A p \in here : seen[p].of = p
        /\ Update({seen[p] : p \in here}, 0, LostS)
  BY DEF OnGt
<1>2. ~Unkeyed /\ WorldOK /\ nextId' <= MaxId + 1 /\ UNCHANGED <<scene, world>>
  BY DEF OnGt, Unkeyed, IInv
<1>3. (\A o \in {seen[p] : p \in here} : Obs(o)) /\ IsFiniteSet({seen[p] : p \in here})
  BY <1>2, GtFrame
<1> HIDE DEF here
<1> QED
  BY <1>1, <1>2, <1>3, UpdateStep

(* A track that is only looked at is steady.                                *)
LEMMA SamePatient ==
  ASSUME NEW tr \in Track, NEW r, r.n = tr.n, r.x = tr.x
  PROVE  Patient(tr, r)
BY Constants DEF Patient, Track, Abs

LEMMA PublishStep == ASSUME IInv, Publish PROVE IInv' /\ Steady
<1> USE Constants
<1>1. /\ DOMAIN tracks' \subseteq DOMAIN tracks /\ nextId' = nextId
      /\ \A i \in DOMAIN tracks' : tracks'[i] = tracks[i]
      /\ scene' = scene /\ gone' = gone /\ filled' = filled /\ fillAge' = fillAge
  BY DEF Publish, Predict, Prune, world
<1>2. \A i \in DOMAIN tracks' : \E p \in scene.on : TrackOf(tracks[i], p)
  BY <1>1 DEF IInv
<1>3. Steady
  BY <1>1, <1>2, SamePatient DEF Steady, IInv, TrackOf
<1>4. \A i \in DOMAIN tracks' : \E p \in scene'.on : TrackOf(tracks[i], p)'
  BY <1>1, <1>2 DEF TrackOf, Unkeyed
<1>5. WorldOK'
  BY <1>1 DEF IInv, WorldOK
<1> QED
  BY <1>1, <1>3, <1>4, <1>5 DEF IInv

LEMMA OlderAge ==
  ASSUME NEW a \in -1 .. MaxAge, NEW b \in 0 .. MaxAge, a <= b
  PROVE  /\ Older(b) \in 0 .. MaxAge /\ a >= 0 => Older(a) \in 0 .. MaxAge
         /\ Older(a) <= Older(b) /\ a <= Older(b)
BY Constants DEF Older

LEMMA TickStep == ASSUME IInv, Tick PROVE IInv' /\ Steady
<1> USE Constants
<1>1. /\ DOMAIN tracks' = DOMAIN tracks /\ nextId' = nextId
      /\ \A i \in DOMAIN tracks : tracks'[i] = [tracks[i] EXCEPT !.age = Older(tracks[i].age)]
      /\ gone' = [p \in Objects |-> IF gone[p] = OnBelt THEN OnBelt ELSE Older(gone[p])]
      /\ fillAge' = [p \in Objects |-> Older(fillAge[p])]
      /\ scene' = scene /\ filled' = filled
  BY DEF Tick
<1>2. WorldOK'
  <2>1. \A p \in Objects : (IF gone[p] = OnBelt THEN OnBelt ELSE Older(gone[p])) \in -1 .. MaxAge
    BY DEF IInv, WorldOK, OnBelt, Older
  <2>2. \A p \in Objects : Older(fillAge[p]) \in 0 .. MaxAge
    BY DEF IInv, WorldOK, Older
  <2> QED
    BY <1>1, <2>1, <2>2 DEF IInv, WorldOK
<1>3. ASSUME NEW i \in DOMAIN tracks
      PROVE  /\ \E p \in scene'.on : TrackOf(tracks[i], p)'
             /\ tracks'[i].of = tracks[i].of /\ Patient(tracks[i], tracks'[i])
  <2>1. PICK p \in scene.on : TrackOf(tracks[i], p)
    BY DEF IInv
  <2> DEFINE tr == tracks[i]  r == tracks'[i]
  <2>2. tr \in Track /\ tr.age \in 0 .. MaxAge /\ Older(tr.age) \in 0 .. MaxAge
    BY <2>1 DEF TrackOf, Track, Older
  <2>3. r = [tr EXCEPT !.age = Older(tr.age)] /\ r \in Track
    BY <1>1, <2>2 DEF Track
  <2>4. /\ r.n = tr.n /\ r.x = tr.x /\ r.of = tr.of /\ r.cls = tr.cls /\ r.far = tr.far
        /\ r.outliers = tr.outliers /\ r.key = tr.key /\ r.payload = tr.payload
        /\ r.age = Older(tr.age)
    BY <2>2, <2>3 DEF Track
  <2>5. p \in Objects /\ gone[p] \in -1 .. MaxAge /\ fillAge[p] \in 0 .. MaxAge
    BY SceneFacts DEF IInv, WorldOK
  <2>6. gone'[p] <= r.age
    BY <1>1, <2>1, <2>2, <2>4, <2>5, OlderAge DEF TrackOf, OnBelt
  <2>7. fillAge[p] <= tr.age => fillAge'[p] <= r.age
    BY <1>1, <2>2, <2>4, <2>5 DEF Older
  <2>8. Patient(tr, r)
    BY <2>2, <2>4, SamePatient
  <2>9. TrackOf(tracks[i], p)'
    BY <1>1, <2>1, <2>3, <2>4, <2>6, <2>7 DEF TrackOf, Unkeyed
  <2> QED
    BY <1>1, <2>4, <2>8, <2>9
<1>4. Steady
  BY <1>1, <1>3 DEF Steady, IInv
<1> QED
  BY <1>1, <1>2, <1>3, <1>4 DEF IInv

(* An object leaves, or a pocket is filled: the news is younger than any    *)
(* track.                                                                   *)
LEMMA WorldStep ==
  ASSUME IInv, NEW q \in Objects, Leave(q) \/ Fill(q)
  PROVE  IInv' /\ Steady
<1> USE Constants
<1>1. tracks' = tracks /\ nextId' = nextId /\ scene' = scene
  BY DEF Leave, Fill, tracker
<1>2. WorldOK'
  <2>1. CASE Leave(q)
    BY <2>1 DEF Leave, IInv, WorldOK
  <2>2. CASE Fill(q)
    BY <2>2 DEF Fill, IInv, WorldOK
  <2> QED
    BY <2>1, <2>2
<1>3. ASSUME NEW i \in DOMAIN tracks
      PROVE  (\E p \in scene.on : TrackOf(tracks[i], p)') /\ tracks[i] \in Track
  <2>1. PICK p \in scene.on : TrackOf(tracks[i], p)
    BY DEF IInv
  <2>2. p \in Objects /\ tracks[i] \in Track /\ tracks[i].age >= 0
    BY <2>1, SceneFacts DEF TrackOf, Track, IInv, WorldOK
  <2>3. gone'[p] <= tracks[i].age
    BY <2>1, <2>2 DEF Leave, Fill, TrackOf, IInv, WorldOK
  <2>4. scene.source = "vision" /\ tracks[i].payload # filled'[p] /\ scene.belt = "trays" => fillAge'[p] <= tracks[i].age
    BY <2>1, <2>2 DEF Leave, Fill, TrackOf, IInv, WorldOK
  <2>5. TrackOf(tracks[i], p)'
    BY <1>1, <2>1, <2>2, <2>3, <2>4 DEF TrackOf, Unkeyed
  <2> QED
    BY <2>2, <2>5
<1>4. Steady
  BY <1>1, <1>3, SamePatient DEF Steady, IInv
<1> QED
  BY <1>1, <1>2, <1>3, <1>4 DEF IInv

LEMMA NextStep == ASSUME IInv, [Next]_vars PROVE IInv' /\ Steady
<1>1. CASE UNCHANGED vars
  <2>1. /\ tracks' = tracks /\ nextId' = nextId /\ scene' = scene
        /\ gone' = gone /\ filled' = filled /\ fillAge' = fillAge
    BY <1>1 DEF vars, tracker, world
  <2>2. IInv'
    BY <2>1 DEF IInv, WorldOK, TrackOf, Unkeyed
  <2> QED
    BY <2>1, <2>2, Constants, SamePatient DEF Steady, IInv, TrackOf
<1>2. CASE \E p \in Lively \cap scene.on : Leave(p) \/ Fill(p)
  BY <1>2, Constants, WorldStep
<1> QED
  BY <1>1, <1>2, OnCandsStep, OnTrayStep, OnGtStep, PublishStep, TickStep DEF Next

(* A frame of the cameras, and whatever leaves gtOcc alone.                 *)
LEMMA NextGt == ASSUME IInv, GtOK, [Next]_vars, IInv', Steady PROVE GtOK'
<1> USE Constants
<1>1. scene' = scene /\ WorldOK /\ scene.on \subseteq Objects
  BY SceneFacts DEF IInv, WorldOK, Next, OnCands, OnTray, OnGt, Publish, Tick, Leave, Fill, vars
<1>2. CASE OnGt
  <2> DEFINE here == {p \in scene.on : gone[p] = OnBelt}
  <2>1. /\ gtOcc' = [p \in IF scene.belt = "trays" THEN here ELSE {} |-> filled[p]]
        /\ gone' = gone /\ filled' = filled
    BY <1>2 DEF OnGt, world
  <2>2. \A i \in DOMAIN tracks' : tracks'[i].of \subseteq scene.on
    BY <1>1 DEF IInv, TrackOf
  <2>3. DOMAIN gtOcc' \subseteq Objects /\ \A p \in DOMAIN gtOcc' : gtOcc'[p] \in 0 .. MaxFill
    BY <1>1, <2>1 DEF WorldOK
  <2> QED
    BY <1>1, <2>1, <2>2, <2>3 DEF GtOK
<1>3. CASE OnCands \/ OnTray
  <2>1. scene.source = "vision" /\ gtOcc' = gtOcc
    BY <1>3 DEF OnCands, OnTray
  <2> QED
    BY <1>1, <2>1 DEF GtOK
<1>4. CASE Publish \/ UNCHANGED vars
  <2>1. /\ gtOcc' = gtOcc /\ gone' = gone /\ filled' = filled /\ fillAge' = fillAge
        /\ DOMAIN tracks' \subseteq DOMAIN tracks /\ \A i \in DOMAIN tracks' : tracks'[i] = tracks[i]
    BY <1>4 DEF Publish, Predict, Prune, vars, world, tracker
  <2> QED
    BY <1>1, <2>1 DEF GtOK
<1>5. CASE Tick
  <2>1. /\ gtOcc' = gtOcc /\ filled' = filled /\ DOMAIN tracks' = DOMAIN tracks
        /\ gone' = [p \in Objects |-> IF gone[p] = OnBelt THEN OnBelt ELSE Older(gone[p])]
        /\ fillAge' = [p \in Objects |-> Older(fillAge[p])]
        /\ \A i \in DOMAIN tracks : tracks'[i] = [tracks[i] EXCEPT !.age = Older(tracks[i].age)]
    BY <1>5 DEF Tick
  <2>2. ASSUME NEW i \in DOMAIN tracks, NEW p \in tracks'[i].of, gone'[p] = OnBelt,
               fillAge[p] <= tracks[i].age
        PROVE  fillAge'[p] <= tracks'[i].age
    <3>1. tracks[i] \in Track /\ tracks'[i].age = Older(tracks[i].age) /\ p \in Objects
      BY <1>1, <2>1, <2>2 DEF IInv, TrackOf, Track
    <3>2. tracks[i].age \in 0 .. MaxAge /\ fillAge[p] \in 0 .. MaxAge
      BY <1>1, <3>1 DEF Track, WorldOK
    <3> QED
      BY <2>1, <2>2, <3>1, <3>2 DEF Older
  <2>3. \A i \in DOMAIN tracks : tracks'[i].of = tracks[i].of /\ tracks[i].of \subseteq Objects
    BY <1>1, <2>1 DEF Steady, IInv, TrackOf
  <2>4. \A p \in Objects : gone'[p] = OnBelt => gone[p] = OnBelt
    BY <1>1, <2>1 DEF WorldOK, Older, OnBelt
  <2> QED
    BY <1>1, <2>1, <2>2, <2>3, <2>4 DEF GtOK
<1>6. CASE \E q \in Lively \cap scene.on : Leave(q) \/ Fill(q)
  <2>1. PICK q \in Objects : Leave(q) \/ Fill(q)
    BY <1>1, <1>6
  <2>2. gtOcc' = gtOcc /\ tracks' = tracks
    BY <2>1 DEF Leave, Fill, tracker
  <2>3. \A i \in DOMAIN tracks : tracks[i].of \subseteq Objects /\ tracks[i].age >= 0
    BY <1>1 DEF IInv, TrackOf, Track
  <2>4. \A p \in Objects : gone'[p] = OnBelt => gone[p] = OnBelt
    BY <1>1, <2>1 DEF Leave, Fill, WorldOK, OnBelt
  <2>5. \A p \in Objects : (p = q /\ fillAge'[p] = 0)
                          \/ (filled'[p] = filled[p] /\ fillAge'[p] = fillAge[p])
    <3>1. CASE Leave(q)
      BY <3>1 DEF Leave
    <3>2. CASE Fill(q)
      <4>1. /\ filled' = [filled EXCEPT ![q] = @ + 1] /\ fillAge' = [fillAge EXCEPT ![q] = 0]
            /\ filled \in [Objects -> 0 .. MaxFill] /\ fillAge \in [Objects -> 0 .. MaxAge]
        BY <1>1, <3>2 DEF Fill, WorldOK
      <4> QED
        BY <4>1
    <3> QED
      BY <2>1, <3>1, <3>2
  <2> QED
    BY <1>1, <2>2, <2>3, <2>4, <2>5 DEF GtOK
<1> QED
  BY <1>2, <1>3, <1>4, <1>5, <1>6 DEF Next

LEMMA InitIInv == ASSUME Init PROVE IInv
BY Constants DEF Init, IInv, WorldOK, Empty, OnBelt

LEMMA Invariance == Spec => []IInv
<1>1. Init => IInv
  BY InitIInv
<1>2. IInv /\ [Next]_vars => IInv'
  BY NextStep
<1> QED
  BY <1>1, <1>2, PTL DEF Spec

LEMMA GtInvariance == Spec => []GtOK
<1>1. Init => GtOK
  BY DEF Init, GtOK, Empty
<1>2. IInv /\ GtOK /\ [Next]_vars => GtOK'
  BY NextStep, NextGt
<1> QED
  BY <1>1, <1>2, Invariance, PTL DEF Spec

-----------------------------------------------------------------------------
(* Nearest first.                                                           *)

LEMMA LeastNatural ==
  ASSUME NEW T \in SUBSET Nat, T # {}
  PROVE  \E n \in T : \A m \in T : n <= m
<1> DEFINE less == OpToRel(<, Nat)
<1>1. \A m, n \in Nat : m < n => <<m, n>> \in less
  BY DEF OpToRel
<1>2. IsWellFoundedOn(less, Nat)
  BY NatLessThanWellFounded
<1> HIDE DEF less
<1>3. PICK n \in T : \A m \in T : ~(<<m, n>> \in less)
  BY <1>2, WFMin
<1>4. ASSUME NEW m \in T
      PROVE  n <= m
  <2>1. m \in Nat /\ n \in Nat /\ ~(m < n)
    BY <1>1, <1>3
  <2> QED
    BY <2>1
<1> QED
  BY <1>4

(* Of some pairs, one is nearest.                                           *)
LEMMA NearestPair ==
  ASSUME NEW P, P # {}, \A q \in P : PairDist(q) \in Nat
  PROVE  \E p \in P : \A q \in P : PairDist(p) <= PairDist(q)
<1> DEFINE T == {PairDist(q) : q \in P}
<1>1. T \in SUBSET Nat /\ T # {}
  OBVIOUS
<1>2. PICK n \in T : \A m \in T : n <= m
  <2> HIDE DEF T
  <2> QED
    BY <1>1, LeastNatural
<1> QED
  BY <1>2

(* To take the nearest pair leaves fewer: those that share nothing with it. *)
LEMMA NearestTaken ==
  ASSUME NEW P, NEW p \in P, \A q \in P : PairDist(p) <= PairDist(q),
         NEW M \in NearestFirst({q \in P : ~Share(p, q)})
  PROVE  M \cup {p} \in NearestFirst(P)
<1> DEFINE rest == {q \in P : ~Share(p, q)}
<1>1. /\ M \subseteq rest
      /\ \A q, r \in M : Share(q, r) => q = r
      /\ \A q \in rest \ M : \E r \in M : Share(r, q) /\ PairDist(r) <= PairDist(q)
  BY DEF NearestFirst
<1>2. \A q \in M : ~Share(p, q) /\ ~Share(q, p)
  BY <1>1 DEF Share
<1>3. \A q, r \in M \cup {p} : Share(q, r) => q = r
  BY <1>1, <1>2
<1>4. ASSUME NEW q \in P \ (M \cup {p})
      PROVE  \E r \in M \cup {p} : Share(r, q) /\ PairDist(r) <= PairDist(q)
  <2>1. CASE Share(p, q)
    BY <2>1
  <2>2. CASE ~Share(p, q)
    BY <1>1, <1>4, <2>2
  <2> QED
    BY <2>1, <2>2
<1> QED
  BY <1>1, <1>3, <1>4 DEF NearestFirst

(* So there is always a way to match, as update finds one by sorting: by    *)
(* induction over the number of pairs.                                      *)
LEMMA MatchingExists ==
  ASSUME NEW P, IsFiniteSet(P), \A q \in P : PairDist(q) \in Nat
  PROVE  NearestFirst(P) # {}
<1> DEFINE Bad == {s \in SUBSET P : NearestFirst(s) = {}}
           T == {Cardinality(s) : s \in Bad}
<1> SUFFICES ASSUME T # {}
             PROVE  FALSE
  OBVIOUS
<1>1. \A s \in SUBSET P : IsFiniteSet(s) /\ Cardinality(s) \in Nat
  BY FS_Subset, FS_CardinalityType
<1>2. PICK n \in T : \A k \in T : n <= k
  <2>1. T \in SUBSET Nat
    BY <1>1
  <2> HIDE DEF T
  <2> QED
    BY <2>1, LeastNatural
<1>3. PICK s \in Bad : Cardinality(s) = n
  BY <1>2
<1>4. s # {}
  <2> SUFFICES ASSUME s = {} PROVE FALSE
    OBVIOUS
  <2>1. {} \in NearestFirst(s)
    BY DEF NearestFirst
  <2> QED
    BY <1>3, <2>1
<1>5. PICK p \in s : \A q \in s : PairDist(p) <= PairDist(q)
  BY <1>4, NearestPair
<1> DEFINE rest == {q \in s : ~Share(p, q)}
<1>6. rest \in SUBSET s /\ rest # s /\ rest \in SUBSET P
  BY <1>5 DEF Share
<1>7. Cardinality(rest) < n
  <2>1. IsFiniteSet(s) /\ Cardinality(s) = n /\ Cardinality(rest) \in Nat /\ n \in Nat
    BY <1>1, <1>3, <1>6
  <2>2. Cardinality(rest) <= n /\ Cardinality(rest) # n
    BY <1>6, <2>1, FS_Subset
  <2> QED
    BY <2>1, <2>2
<1>8. rest \notin Bad
  <2>1. Cardinality(rest) \in Nat /\ n \in Nat
    BY <1>1, <1>3, <1>6
  <2>2. Cardinality(rest) \notin T
    BY <1>2, <1>7, <2>1
  <2> QED
    BY <2>2
<1>9. PICK M : M \in NearestFirst(rest)
  BY <1>6, <1>8
<1>10. M \cup {p} \in NearestFirst(s)
  BY <1>5, <1>9, NearestTaken
<1> QED
  BY <1>3, <1>10

(* The pairs of a frame are finitely many, as are its observations and the  *)
(* tracks.                                                                  *)
LEMMA FrameMatches ==
  ASSUME IInv, NEW F, IsFiniteSet(F), \A o \in F : Obs(o)
  PROVE  NearestFirst(Pairs(F)) # {}
<1>1. IsFiniteSet(DOMAIN tracks)
  <2>1. nextId - 1 \in Int /\ 1 \in Int /\ DOMAIN tracks \in SUBSET (1 .. nextId - 1)
    BY Constants DEF IInv
  <2> QED
    BY <2>1, FS_Interval, FS_Subset
<1>2. IsFiniteSet(Pairs(F))
  <2>1. IsFiniteSet(F \X DOMAIN tracks)
    BY <1>1, FS_Product
  <2>2. Pairs(F) \in SUBSET (F \X DOMAIN tracks)
    BY DEF Pairs
  <2> QED
    BY <2>1, <2>2, FS_Subset
<1>3. ASSUME NEW q \in Pairs(F)
      PROVE  PairDist(q) \in Nat
  <2>1. q[1] \in F /\ q[2] \in DOMAIN tracks
    BY DEF Pairs
  <2>2. q[1].x \in Int /\ tracks[q[2]].x \in Int
    BY <2>1 DEF Obs, IInv, TrackOf, Track
  <2> QED
    BY <2>2 DEF PairDist, Dist, Abs
<1> QED
  BY <1>2, <1>3, MatchingExists

(* A frame of the cameras can be matched, nearest first.                    *)
FramesMatch ==
  Unkeyed => \A d \in 0 .. MaxDelay : \A F \in ProductFrames(d) : NearestFirst(Pairs(F)) # {}

-----------------------------------------------------------------------------
(* One track for each object.                                               *)

(* Objects that give one observation in a frame: those with a key, and the  *)
(* products that the camera does not see as two.                            *)
SeenWhole == Unkeyed => scene.masks = 1

Singly(F) == \A o, q \in F : o.of = q.of => o = q

(* No object has two tracks at a time, so none is counted or offered twice. *)
OneTrackEach ==
  SeenWhole => \A i, j \in DOMAIN tracks : tracks[i].of \cap tracks[j].of # {} => i = j

(* An observation of an object that has a track starts no other.            *)
LEMMA KnownIsClaimed ==
  ASSUME IInv, NEW F, \A o \in F : Obs(o), Singly(F),
         NEW M \in NearestFirst(Pairs(F)), NEW o \in Unclaimed(F, M),
         NEW j \in DOMAIN tracks, TrackOf(tracks[j], o.of)
  PROVE  FALSE
<1> USE Constants
<1>1. o \in F /\ Obs(o) /\ o \notin Known(F) /\ \A p \in M : p[1] # o
  BY DEF Unclaimed
<1>2. WorldOK /\ o.of \in scene.on /\ o.of \in Objects
  BY <1>1, SceneFacts DEF IInv, WorldOK, Obs
<1>3. Unkeyed
  <2> SUFFICES ASSUME ~Unkeyed PROVE FALSE
    OBVIOUS
  <2>1. o.key = o.of /\ tracks[j].key = o.of /\ o.of # NoKey
    BY <1>1, <1>2 DEF Obs, TrackOf
  <2> QED
    BY <1>1, <2>1 DEF Known, Keyed
<1>4. <<o, j>> \in Pairs(F)
  <2>1. o.key = NoKey /\ tracks[j].key = NoKey /\ tracks[j].cls = o.cls
    BY <1>1, <1>3 DEF Obs, TrackOf
  <2>2. scene.pos[o.of] \in Int
    BY <1>2, SceneFacts DEF WorldOK
  <2>3. /\ tracks[j].x \in scene.pos[o.of] + MinOff .. scene.pos[o.of] + MaxOff
        /\ o.x \in scene.pos[o.of] + MinOff .. scene.pos[o.of] + MaxOff
    BY <1>1, <1>3 DEF Obs, TrackOf
  <2>4. Abs(tracks[j].x - o.x) <= Gate
    <3>1. MaxOff - MinOff <= Gate
      BY SpacingAssumption
    <3> QED
      BY <2>2, <2>3, <3>1 DEF Abs
  <2> QED
    BY <1>1, <2>1, <2>4 DEF Pairs, Keyed, Dist
<1>5. <<o, j>> \notin M
  BY <1>1
<1>6. PICK p \in M : Share(p, <<o, j>>)
  BY <1>4, <1>5 DEF NearestFirst
<1>7. p \in Pairs(F)
  BY DEF NearestFirst
<1>8. p[2] = j
  BY <1>1, <1>6 DEF Share
<1>9. p[1] \in F /\ TrackOf(tracks[j], p[1].of)
  BY <1>2, <1>7, <1>8, PairsAreOfOneObject DEF IInv
<1>10. p[1].of = o.of
  BY <1>9 DEF TrackOf
<1> QED
  BY <1>1, <1>9, <1>10 DEF Singly

(* The tracks that a frame starts are of objects that had none.             *)
LEMMA UpdateAdds ==
  ASSUME IInv, NEW F, IsFiniteSet(F), \A o \in F : Obs(o), Singly(F),
         NEW t, NEW lost, Update(F, t, lost)
  PROVE  /\ \A i, j \in DOMAIN tracks' :
              i \notin DOMAIN tracks /\ j \notin DOMAIN tracks /\ tracks'[i].of = tracks'[j].of => i = j
         /\ \A i \in DOMAIN tracks', j \in DOMAIN tracks :
              i \notin DOMAIN tracks => tracks'[i].of # tracks[j].of
<1>1. PICK M \in NearestFirst(Pairs(F)) :
        \E born \in [nextId .. (nextId + Cardinality(Unclaimed(F, M)) - 1) -> Unclaimed(F, M)],
           kept \in [DOMAIN tracks -> UNION {After(F, M, i) : i \in DOMAIN tracks}] :
          /\ \A i, j \in nextId .. (nextId + Cardinality(Unclaimed(F, M)) - 1) : born[i] = born[j] => i = j
          /\ tracks' = Prune([i \in DOMAIN tracks \cup
                (nextId .. (nextId + Cardinality(Unclaimed(F, M)) - 1)) |->
                  IF i \in nextId .. (nextId + Cardinality(Unclaimed(F, M)) - 1)
                  THEN Created(born[i]) ELSE kept[i]], t, lost)
  BY DEF Update
<1> DEFINE new == Unclaimed(F, M)
           ids == nextId .. (nextId + Cardinality(new) - 1)
<1>2. PICK born \in [ids -> new], kept \in [DOMAIN tracks -> UNION {After(F, M, i) : i \in DOMAIN tracks}] :
        /\ \A i, j \in ids : born[i] = born[j] => i = j
        /\ tracks' = Prune([i \in DOMAIN tracks \cup ids |->
             IF i \in ids THEN Created(born[i]) ELSE kept[i]], t, lost)
  BY <1>1
<1> HIDE DEF ids
<1>3. ASSUME NEW i \in DOMAIN tracks', i \notin DOMAIN tracks
      PROVE  i \in ids /\ born[i] \in new /\ born[i] \in F /\ tracks'[i].of = {born[i].of}
  <2>1. i \in ids /\ tracks'[i] = Created(born[i])
    BY <1>2, <1>3 DEF Prune
  <2> QED
    BY <2>1 DEF Created, Unclaimed
<1>4. ASSUME NEW i \in DOMAIN tracks', NEW j \in DOMAIN tracks', i \notin DOMAIN tracks,
             j \notin DOMAIN tracks, tracks'[i].of = tracks'[j].of
      PROVE  i = j
  <2>1. born[i].of = born[j].of
    BY <1>3, <1>4
  <2>2. born[i] = born[j]
    BY <1>3, <1>4, <2>1 DEF Singly
  <2> QED
    BY <1>2, <1>3, <1>4, <2>2
<1>5. ASSUME NEW i \in DOMAIN tracks', NEW j \in DOMAIN tracks, i \notin DOMAIN tracks,
             tracks'[i].of = tracks[j].of
      PROVE  FALSE
  <2>1. PICK p \in scene.on : TrackOf(tracks[j], p)
    BY DEF IInv
  <2>2. p = born[i].of /\ born[i] \in new
    BY <1>3, <1>5, <2>1 DEF TrackOf
  <2> QED
    BY <2>1, <2>2, KnownIsClaimed
<1> QED
  BY <1>4, <1>5

LEMMA UpdateSingle ==
  ASSUME IInv, OneTrackEach, SeenWhole, NEW F, IsFiniteSet(F), \A o \in F : Obs(o), Singly(F),
         NEW t, NEW lost, Update(F, t, lost), Steady, IInv'
  PROVE  OneTrackEach'
<1> SUFFICES ASSUME NEW i \in DOMAIN tracks', NEW j \in DOMAIN tracks',
                    tracks'[i].of \cap tracks'[j].of # {}
             PROVE  i = j
  BY DEF OneTrackEach
<1>1. tracks'[i].of = tracks'[j].of
  <2>1. \A k \in DOMAIN tracks' : \E p : tracks'[k].of = {p}
    BY DEF IInv, TrackOf
  <2> QED
    BY <2>1
<1>2. CASE i \in DOMAIN tracks /\ j \in DOMAIN tracks
  <2>1. tracks'[i].of = tracks[i].of /\ tracks'[j].of = tracks[j].of
    BY <1>2 DEF Steady
  <2> QED
    BY <1>2, <2>1 DEF OneTrackEach
<1>3. CASE i \in DOMAIN tracks /\ j \notin DOMAIN tracks
  <2>1. tracks'[i].of = tracks[i].of
    BY <1>3 DEF Steady
  <2> QED
    BY <1>1, <1>3, <2>1, UpdateAdds
<1>4. CASE i \notin DOMAIN tracks /\ j \in DOMAIN tracks
  <2>1. tracks'[j].of = tracks[j].of
    BY <1>4 DEF Steady
  <2> QED
    BY <1>1, <1>4, <2>1, UpdateAdds
<1>5. CASE i \notin DOMAIN tracks /\ j \notin DOMAIN tracks
  BY <1>1, <1>5, UpdateAdds
<1> QED
  BY <1>2, <1>3, <1>4, <1>5

(* Frames of what is seen whole, one after the other.                       *)
LEMMA OnCandsFrame ==
  ASSUME IInv, NEW d \in 0 .. MaxDelay, NEW F \in ProductFrames(d), Unkeyed
  PROVE  IsFiniteSet(F) /\ (\A o \in F : Obs(o)) /\ (SeenWhole => Singly(F))
<1> DEFINE there == {p \in scene.on : ThereAt(p, d)}
           seen == UNION {ProductSeen(p, d) : p \in there}
<1>1. F = {} \/ \E w \in seen \X seen : F = {w[1], w[2]} /\ (w[1].of = w[2].of /\ w[1].mask = w[2].mask => w[1] = w[2])
  BY DEF ProductFrames
<1>2. \A o \in seen : Obs(o) /\ o.mask \in 1 .. scene.masks
  BY ProductSeenObs DEF ProductSeen, IInv
<1> HIDE DEF seen
<1>3. CASE F = {}
  BY <1>3, FS_EmptySet DEF Singly
<1>4. ASSUME NEW w \in seen \X seen, F = {w[1], w[2]},
             w[1].of = w[2].of /\ w[1].mask = w[2].mask => w[1] = w[2]
      PROVE  IsFiniteSet(F) /\ (\A o \in F : Obs(o)) /\ (SeenWhole => Singly(F))
  <2>1. IsFiniteSet({w[1]} \cup {w[2]}) /\ F = {w[1]} \cup {w[2]}
    BY <1>4, FS_Singleton, FS_Union
  <2>2. SeenWhole => w[1].mask = 1 /\ w[2].mask = 1
    BY <1>2 DEF SeenWhole
  <2> QED
    BY <1>2, <1>4, <2>1, <2>2 DEF Singly
<1> QED
  BY <1>1, <1>3, <1>4

LEMMA OnCandsSingle == ASSUME IInv, OneTrackEach, SeenWhole, OnCands PROVE OneTrackEach'
<1>1. PICK d \in 0 .. MaxDelay : \E F \in ProductFrames(d) : Update(F, d, LostS)
  BY DEF OnCands
<1>2. PICK F \in ProductFrames(d) : Update(F, d, LostS)
  BY <1>1
<1> QED
  BY <1>2, OnCandsFrame, OnCandsStep, UpdateSingle DEF OnCands, Unkeyed

LEMMA OnTraySingle == ASSUME IInv, OneTrackEach, SeenWhole, OnTray PROVE OneTrackEach'
<1>1. PICK d \in 0 .. MaxDelay, p \in scene.on :
        ThereAt(p, d) /\ \E o \in KeySeen(p, d) : Update({o}, d, LostS)
  BY DEF OnTray
<1>2. PICK o \in KeySeen(p, d) : ThereAt(p, d) /\ Update({o}, d, LostS)
  BY <1>1
<1>3. Obs(o) /\ IsFiniteSet({o}) /\ Singly({o})
  BY <1>2, KeySeenObs, FS_Singleton DEF OnTray, Unkeyed, IInv, Singly
<1> QED
  BY <1>2, <1>3, OnTrayStep, UpdateSingle

LEMMA OnGtSingle == ASSUME IInv, OneTrackEach, SeenWhole, OnGt PROVE OneTrackEach'
<1> DEFINE here == {p \in scene.on : gone[p] = OnBelt}
<1>1. PICK seen \in [here -> UNION {KeySeen(p, 0) : p \in here}] :
        /\ \A p \in here : seen[p].of = p
        /\ Update({seen[p] : p \in here}, 0, LostS)
  BY DEF OnGt
<1>2. (\A o \in {seen[p] : p \in here} : Obs(o)) /\ IsFiniteSet({seen[p] : p \in here})
  BY GtFrame DEF OnGt, Unkeyed, IInv
<1>3. Singly({seen[p] : p \in here})
  BY <1>1 DEF Singly
<1> HIDE DEF here
<1> QED
  BY <1>1, <1>2, <1>3, OnGtStep, UpdateSingle

LEMMA NextSingle == ASSUME IInv, OneTrackEach, [Next]_vars PROVE OneTrackEach'
<1>1. SeenWhole' => SeenWhole
  <2>1. scene' = scene
    BY DEF Next, OnCands, OnTray, OnGt, Publish, Tick, Leave, Fill, vars
  <2> QED
    BY <2>1 DEF SeenWhole, Unkeyed
<1>2. CASE Publish \/ Tick \/ UNCHANGED vars \/ \E p \in Lively \cap scene.on : Leave(p) \/ Fill(p)
  <2>1. DOMAIN tracks' \subseteq DOMAIN tracks
    BY <1>2 DEF Publish, Predict, Prune, Tick, Leave, Fill, vars, tracker
  <2>2. \A i \in DOMAIN tracks' : tracks'[i].of = tracks[i].of
    BY <2>1, NextStep DEF Steady
  <2> QED
    BY <1>1, <2>1, <2>2 DEF OneTrackEach
<1>3. CASE OnCands \/ OnTray \/ OnGt
  <2>1. CASE SeenWhole
    BY <1>3, <2>1, OnCandsSingle, OnTraySingle, OnGtSingle
  <2>2. CASE ~SeenWhole
    BY <1>1, <2>2 DEF OneTrackEach
  <2> QED
    BY <2>1, <2>2
<1> QED
  BY <1>2, <1>3 DEF Next

-----------------------------------------------------------------------------
(* Theorems.                                                                *)

(* The variables of the tracker and of the belt stay within their types,    *)
(* whatever frames come, and however late.                                  *)
THEOREM TypeCorrect == Spec => []TypeOK
<1>1. IInv /\ GtOK => TypeOK
  BY DEF IInv, GtOK, WorldOK, TypeOK, TrackOf
<1> QED
  BY <1>1, Invariance, GtInvariance, PTL

(* A track stays with the object it was started for, and an id is never     *)
(* given twice: prod_<id> names one product for good (conveyor_tracker,     *)
(* which the motion server follows).                                        *)
THEOREM FramesNameOneObject == Spec => FrameNamesOneObject
<1>1. IInv /\ [Next]_vars =>
        [\A i \in DOMAIN tracks' :
           IF i \in DOMAIN tracks THEN tracks'[i].of = tracks[i].of
           ELSE i >= nextId /\ i < nextId' /\ \E p \in Objects : tracks'[i].of = {p}]_vars
  BY NextStep DEF Steady
<1> QED
  BY <1>1, Invariance, PTL DEF Spec, FrameNamesOneObject

(* A settled track with a key jumps only after SnapAfter rejections in a    *)
(* row, and never counts back (tracking.py, update and _snap).              *)
THEOREM SnapsArePatient == Spec => PatientSnap
<1>1. IInv /\ [Next]_vars =>
        [\A i \in DOMAIN tracks \cap DOMAIN tracks' :
           /\ tracks'[i].n >= tracks[i].n
           /\ /\ tracks[i].key # NoKey /\ tracks[i].n >= Settled
              /\ Abs(tracks'[i].x - tracks[i].x) > KeyGate
              => tracks[i].far = SnapAfter - 1]_vars
  BY NextStep DEF Steady, Patient
<1> QED
  BY <1>1, Invariance, PTL DEF Spec, PatientSnap

(* A product offered for a pick was on the belt at most Fresh ago.          *)
THEOREM OffersWereThere == Spec => []OfferedWasThere
<1>1. IInv => OfferedWasThere
  <2> SUFFICES ASSUME IInv, NEW i \in DOMAIN tracks, Offered(tracks[i]), NEW p \in tracks[i].of
               PROVE  gone[p] <= Fresh
    BY DEF OfferedWasThere
  <2>1. TrackOf(tracks[i], p) /\ p \in scene.on
    BY DEF IInv, TrackOf
  <2>2. gone[p] \in Int /\ tracks[i].age \in Int
    BY <2>1, SceneFacts, Constants DEF IInv, WorldOK, TrackOf, Track
  <2> QED
    BY <2>1, <2>2, Constants DEF TrackOf, Offered
<1> QED
  BY <1>1, Invariance, PTL

(* The pockets published of a tray are those of when its track was used.    *)
THEOREM OccupancyAge == Spec => []OccupancyIsOfItsAge
<1>1. IInv /\ GtOK => OccupancyIsOfItsAge
  <2> SUFFICES ASSUME IInv, GtOK, scene.belt = "trays", NEW i \in DOMAIN tracks, NEW p \in tracks[i].of,
                      Occupancy(tracks[i]) # filled[p]
               PROVE  fillAge[p] <= tracks[i].age \/ (scene.source = "gt" /\ gone[p] # OnBelt)
    BY DEF OccupancyIsOfItsAge
  <2>1. TrackOf(tracks[i], p)
    BY DEF IInv, TrackOf
  <2>2. CASE scene.source = "vision"
    BY <2>1, <2>2 DEF TrackOf, Occupancy
  <2>3. CASE scene.source = "gt"
    BY <2>1, <2>3 DEF TrackOf, Occupancy, GtOK, Unkeyed
  <2> QED
    BY <2>2, <2>3, SceneFacts DEF IInv, WorldOK
<1> QED
  BY <1>1, Invariance, GtInvariance, PTL

(* An object that is seen as one never has two tracks, although frames come *)
(* late, miss objects, and tracks are lost and started anew: what a frame   *)
(* shows of an object with a track is that track's, as nearest first leaves *)
(* over no observation that a free track would take (tracking.py, update).  *)
THEOREM NoObjectTwice == Spec => []OneTrackEach
<1>1. Init => OneTrackEach
  BY DEF Init, OneTrackEach, Empty
<1>2. IInv /\ OneTrackEach /\ [Next]_vars => OneTrackEach'
  BY NextSingle
<1> QED
  BY <1>1, <1>2, Invariance, PTL DEF Spec

(* No frame is turned away for want of a matching: what sorting the pairs   *)
(* and going through them yields (tracking.py, update) is always there.     *)
THEOREM EveryFrameMatches == Spec => []FramesMatch
<1>1. IInv => FramesMatch
  BY OnCandsFrame, FrameMatches DEF FramesMatch
<1> QED
  BY <1>1, Invariance, PTL

=============================================================================

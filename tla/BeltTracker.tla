---------------------------- MODULE BeltTracker ----------------------------
(***************************************************************************)
(* The multi-object tracker of a belt (togsim_perception/tracking.py).     *)
(* Positions are taken on the moving belt: an object that rides it keeps   *)
(* its coordinate, and the prediction of a track is its coordinate.  Times *)
(* are ages: how long before now.  The weights of the filter, the heading  *)
(* and the measured speed are left out: fusing moves a track to anywhere   *)
(* between its prediction and what was observed.                           *)
(***************************************************************************)
EXTENDS Integers, FiniteSets

CONSTANTS
  NoKey,      \* the key of an observation without identity
  Gate,       \* gate_m
  KeyGate,    \* key_gate_factor * gate_m
  Settled,    \* observations after which outliers are told (3 in the code)
  SnapAfter,  \* outliers in a row after which a track restarts (8)
  MaxCount    \* bound: n_obs is told apart up to here

ASSUME TrackerAssumption ==
  /\ Gate \in Nat /\ KeyGate \in Nat
  /\ Settled \in Nat \ {0} /\ SnapAfter \in Nat \ {0}
  /\ MaxCount \in Nat /\ MaxCount >= Settled

VARIABLES
  tracks,  \* self.tracks: from ids to tracks
  nextId   \* self._next_id

tracker == <<tracks, nextId>>

Empty == [i \in {} |-> {}]

Abs(i) == IF i < 0 THEN -i ELSE i
Between(a, b) == IF a <= b THEN a .. b ELSE b .. a

-----------------------------------------------------------------------------
(* An observation o has a class, a key, a position, an age and a payload;  *)
(* o.area is "low" when it fell below what the track is used to.  o.of names    *)
(* what was observed, which the tracker does not know: a track remembers   *)
(* in its history variables of all that went into it, and in far how many  *)
(* keyed observations were rejected since the last one that was used.      *)

Dist(tr, o) == Abs(tr.x - o.x)

Created(o) ==
  [cls |-> o.cls, key |-> o.key, x |-> o.x, n |-> 1, age |-> o.age,
   outliers |-> 0, payload |-> o.payload, of |-> {o.of}, far |-> 0]

Counted(n) == IF n < MaxCount THEN n + 1 ELSE n

(* A bug to tell apart: the outliers of before still count.                 *)
UsedKeepsOutliers(tr, o, x) ==
  [tr EXCEPT !.x = x, !.n = Counted(@), !.age = o.age, !.payload = o.payload,
             !.of = @ \cup {o.of}, !.far = 0]

Used(tr, o, x) ==
  [tr EXCEPT !.x = x, !.n = Counted(@), !.age = o.age, !.payload = o.payload,
             !.outliers = 0, !.of = @ \cup {o.of}, !.far = 0]

(* What may become of a track when an observation is fused: an older one   *)
(* is ignored, a partly hidden one only refreshes the payload.             *)
Fused(tr, o) ==
  IF o.age > tr.age THEN {tr}
  ELSE IF o.area = "low" /\ tr.n >= 3 THEN {[tr EXCEPT !.payload = o.payload]}
  ELSE {Used(tr, o, x) : x \in Between(tr.x, o.x)}

(* A track restarts where the observation is; it keeps its id and count.    *)
Snapped(tr, o) ==
  [tr EXCEPT !.x = o.x, !.age = o.age, !.outliers = 0, !.payload = o.payload,
             !.of = @ \cup {o.of}, !.far = 0]

(* A bug to tell apart: a rejected observation counts as one.               *)
RejectedAsSeen(tr) == [tr EXCEPT !.outliers = @ + 1, !.far = @ + 1, !.age = 0]

Rejected(tr) == [tr EXCEPT !.outliers = @ + 1, !.far = @ + 1]

(* A bug to tell apart: one more outlier is put up with.                    *)
IdentifiedOneLater(tr, o) ==
  IF tr.n >= Settled /\ Dist(tr, o) > KeyGate
  THEN IF tr.outliers + 1 <= SnapAfter
       THEN {Rejected(tr)}
       ELSE {Snapped(tr, o)}
  ELSE Fused(tr, o)

(* An observation with the key of a track.                                  *)
Identified(tr, o) ==
  IF tr.n >= Settled /\ Dist(tr, o) > KeyGate
  THEN IF tr.outliers + 1 < SnapAfter
       THEN {Rejected(tr)}
       ELSE {Snapped(tr, o)}
  ELSE Fused(tr, o)

-----------------------------------------------------------------------------
(* One frame F of observations.                                             *)

Keyed(F) == {o \in F : o.key # NoKey}
Known(F) == {o \in Keyed(F) : \E i \in DOMAIN tracks : tracks[i].key = o.key}

(* A bug to tell apart: whatever its class, the nearest track will do.      *)
PairsAnyClass(F) ==
  {p \in (F \ Keyed(F)) \X DOMAIN tracks :
     tracks[p[2]].key = NoKey /\ Dist(tracks[p[2]], p[1]) <= Gate}

(* The observations without a key, each with the tracks it may belong to.   *)
Pairs(F) ==
  {p \in (F \ Keyed(F)) \X DOMAIN tracks :
     /\ tracks[p[2]].cls = p[1].cls /\ tracks[p[2]].key = NoKey
     /\ Dist(tracks[p[2]], p[1]) <= Gate}

Share(p, q) == p[1] = q[1] \/ p[2] = q[2]
PairDist(p) == Dist(tracks[p[2]], p[1])

(* Nearest first: a pair is passed over only for one at least as near.      *)
NearestFirst(P) ==
  {M \in SUBSET P :
     /\ \A p, q \in M : Share(p, q) => p = q
     /\ \A q \in P \ M : \E p \in M : Share(p, q) /\ PairDist(p) <= PairDist(q)}

(* What may become of track i when the pairs M are matched.                 *)
After(F, M, i) ==
  LET same == {o \in Keyed(F) : o.key = tracks[i].key}
      matched == {o \in F : <<o, i>> \in M}
  IN CASE same # {} -> UNION {Identified(tracks[i], o) : o \in same}
       [] same = {} /\ matched # {} -> UNION {Fused(tracks[i], o) : o \in matched}
       [] OTHER -> {tracks[i]}

(* The observations that are nobody's: each starts a track.                 *)
Unclaimed(F, M) == (F \ Known(F)) \ {p[1] : p \in M}

(* A bug to tell apart: a lost track is never dropped.                      *)
PruneNone(trs, t, lost) == trs

(* What is left of tracks t ago: a track is lost after lost without use.    *)
Prune(trs, t, lost) ==
  [i \in {j \in DOMAIN trs : trs[j].age - t <= lost} |-> trs[i]]

IdAfter(new) == nextId + Cardinality(new)

(* update: t is how long ago the later of the frame and t_now was.          *)
Update(F, t, lost) ==
  \E M \in NearestFirst(Pairs(F)) :
    LET new == Unclaimed(F, M)
        ids == nextId .. (nextId + Cardinality(new) - 1)
    IN \E born \in [ids -> new], kept \in [DOMAIN tracks -> UNION {After(F, M, i) : i \in DOMAIN tracks}] :
         /\ \A i, j \in ids : born[i] = born[j] => i = j
         /\ \A i \in DOMAIN tracks : kept[i] \in After(F, M, i)
         /\ tracks' = Prune([i \in DOMAIN tracks \cup ids |->
                       IF i \in ids THEN Created(born[i]) ELSE kept[i]], t, lost)
         /\ nextId' = IdAfter(new)

(* predict: also drops what was lost by then.                               *)
Predict(t, lost) ==
  /\ tracks' = Prune(tracks, t, lost)
  /\ UNCHANGED nextId

=============================================================================

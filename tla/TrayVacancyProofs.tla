------------------------- MODULE TrayVacancyProofs -------------------------
(***************************************************************************)
(* The node that watches the trays, for any number of frames, threads,     *)
(* trays and messages kept.                                                *)
(*                                                                         *)
(* The pairing of masks and detections: the lock around the two stores is  *)
(* enough, whatever the threads do between its uses.                       *)
(*                                                                         *)
(* The pockets: a fit that is believed has found the tray.  What is        *)
(* published is right then as long as the errors stay within a budget,     *)
(* whichever corrections the threads smooth and hand on.                   *)
(*                                                                         *)
(* The ids: a track is matched by its place alone, and tracks and ids are  *)
(* changed without the lock.  Still no id names two trays, and a tray      *)
(* keeps its id, but if two tracks were made at the same time or a frame   *)
(* got ahead of an earlier one.                                            *)
(***************************************************************************)
EXTENDS TrayVacancy, FiniteSetTheorems, WellFoundedInduction, TLAPS

-----------------------------------------------------------------------------
(* The pairing.                                                             *)

(* What came of the frames after f.                                         *)
Heard(f) == Came(f, "det") \/ Came(f, "mask")
Later(f) == {g \in Frames : g > f /\ Heard(g)}
Old(f) == Cardinality(Later(f)) >= KeepLast

(* What came waits for the other, unless it was dropped as old.             *)
Pairing(f) ==
  /\ runs[f] <= 1
  /\ f \in det => Came(f, "det")
  /\ f \in masks => Came(f, "mask")
  /\ ~Came(f, "det") \/ ~Came(f, "mask") => runs[f] = 0
  /\ Came(f, "det") /\ ~Came(f, "mask") => f \in det \/ Old(f)
  /\ Came(f, "mask") /\ ~Came(f, "det") => f \in masks \/ Old(f)
  /\ Came(f, "det") /\ Came(f, "mask") /\ runs[f] = 0 => Old(f)

StoresOK ==
  /\ film \in Films
  /\ wire \subseteq Frames \X {"det", "mask"}
  /\ masks \subseteq Frames /\ det \subseteq Frames
  /\ runs \in [Frames -> Nat]

IInv == StoresOK /\ \A f \in Frames : Pairing(f)

LEMMA FramesFinite ==
  ASSUME StoresOK
  PROVE  IsFiniteSet(Frames) /\ Frames \subseteq Nat \ {0}
<1>1. \E n \in Nat : Frames = 1 .. n
  BY VacancyAssumption DEF StoresOK, Frames
<1> QED
  BY <1>1, FS_Interval

(* Messages only come, so what is old stays old.                            *)
LEMMA OldStays ==
  ASSUME StoresOK, film' = film, wire' \subseteq wire, NEW f \in Frames, Old(f)
  PROVE  Old(f)'
<1>1. Later(f) \subseteq Later(f)' /\ Later(f)' \subseteq Frames
  BY DEF Later, Heard, Came, Frames
<1>2. IsFiniteSet(Later(f)')
  BY <1>1, FramesFinite, FS_Subset
<1>3. /\ Cardinality(Later(f)) \in Nat /\ Cardinality(Later(f)') \in Nat
      /\ Cardinality(Later(f)) <= Cardinality(Later(f)')
  BY <1>1, <1>2, FS_Subset, FS_CardinalityType
<1> QED
  BY <1>3, VacancyAssumption DEF Old

(* What is trimmed is old.                                                  *)
LEMMA TrimmedIsOld ==
  ASSUME StoresOK, film' = film, NEW S, S \subseteq Frames, \A g \in S : Heard(g)',
         NEW f \in S, f \notin Trim(S)
  PROVE  Old(f)'
<1> DEFINE T == {g \in S : g > f}
<1>1. T \subseteq Later(f)' /\ Later(f)' \subseteq Frames
  BY DEF Later, Frames
<1>2. IsFiniteSet(Later(f)')
  BY <1>1, FramesFinite, FS_Subset
<1>3. /\ Cardinality(T) \in Nat /\ Cardinality(Later(f)') \in Nat
      /\ Cardinality(T) <= Cardinality(Later(f)')
  BY <1>1, <1>2, FS_Subset, FS_CardinalityType
<1>4. ~(Cardinality(T) < KeepLast)
  BY DEF Trim
<1> QED
  BY <1>3, <1>4, VacancyAssumption DEF Old

LEMMA InitIInv == Init => IInv
<1> SUFFICES ASSUME Init PROVE IInv
  OBVIOUS
<1>1. StoresOK
  BY DEF Init, StoresOK
<1>2. \A f \in Frames : Pairing(f)
  BY DEF Init, Pairing, Came
<1> QED
  BY <1>1, <1>2 DEF IInv

(* A frame begins to be processed.                                          *)
LEMMA BeginCounts ==
  ASSUME StoresOK, NEW w, NEW f \in Frames, Begin(w, f)
  PROVE  runs' = [runs EXCEPT ![f] = runs[f] + 1]
BY DEF Begin

LEMMA OnDetKeeps ==
  ASSUME IInv, NEW w \in Workers, NEW f \in Frames, OnDet(w, f)
  PROVE  IInv'
<1> USE DEF IInv
<1>1. /\ <<f, "det">> \in wire /\ wire' = wire \ {<<f, "det">>} /\ film' = film
      /\ det' = det \cup {f} /\ masks' = masks \ {f}
      /\ \/ f \in masks /\ runs' = [runs EXCEPT ![f] = runs[f] + 1]
         \/ f \notin masks /\ runs' = runs
  BY BeginCounts DEF OnDet, Takes
<1>2. StoresOK'
  BY <1>1 DEF StoresOK, Frames
<1>3. \A g \in Frames : /\ Came(g, "mask")' <=> Came(g, "mask")
                        /\ Came(g, "det")' <=> Came(g, "det") \/ g = f
                        /\ Old(g) => Old(g)'
  BY <1>1, OldStays DEF Came
<1>4. ~Came(f, "det")
  BY <1>1 DEF Came
<1>5. ASSUME NEW g \in Frames PROVE Pairing(g)'
  <2>1. Pairing(g) /\ runs[g] \in Nat
    BY DEF StoresOK
  <2>2. CASE g # f
    <3>1. runs'[g] = runs[g]
      BY <1>1, <2>2 DEF StoresOK
    <3> QED
      BY <1>1, <1>3, <2>1, <2>2, <3>1 DEF Pairing
  <2>3. CASE g = f /\ f \in masks
    <3>1. runs[f] = 0 /\ runs'[f] = 1
      BY <1>1, <1>4, <2>1, <2>3 DEF StoresOK, Pairing
    <3> QED
      BY <1>1, <1>3, <2>1, <2>3, <3>1 DEF Pairing
  <2>4. CASE g = f /\ f \notin masks
    <3>1. runs'[f] = 0 /\ (Came(f, "mask") => Old(f))
      BY <1>1, <1>4, <2>1, <2>4 DEF Pairing
    <3> QED
      BY <1>1, <1>3, <2>1, <2>4, <3>1 DEF Pairing
  <2> QED
    BY <2>2, <2>3, <2>4
<1> QED
  BY <1>1, <1>2, <1>5 DEF Frames

LEMMA OnMasksKeeps ==
  ASSUME IInv, NEW w \in Workers, NEW f \in Frames, OnMasks(w, f)
  PROVE  IInv'
<1> USE DEF IInv
<1>1. /\ <<f, "mask">> \in wire /\ wire' = wire \ {<<f, "mask">>} /\ film' = film
      /\ \/ /\ f \in det /\ det' = det \ {f} /\ masks' = masks
            /\ runs' = [runs EXCEPT ![f] = runs[f] + 1]
         \/ /\ f \notin det /\ masks' = Trim(masks \cup {f}) /\ det' = Trim(det)
            /\ runs' = runs
  BY BeginCounts DEF OnMasks, Takes
<1>2. Trim(masks \cup {f}) \subseteq masks \cup {f} /\ Trim(det) \subseteq det
  BY DEF Trim
<1>3. StoresOK'
  BY <1>1, <1>2 DEF StoresOK, Frames
<1>4. \A g \in Frames : /\ Came(g, "det")' <=> Came(g, "det")
                        /\ Came(g, "mask")' <=> Came(g, "mask") \/ g = f
                        /\ Old(g) => Old(g)'
  BY <1>1, OldStays DEF Came
<1>5. ~Came(f, "mask")
  BY <1>1 DEF Came
<1>6. /\ \A g \in masks \cup {f} : g \in Trim(masks \cup {f}) \/ Old(g)'
      /\ \A g \in det : g \in Trim(det) \/ Old(g)'
  <2>1. \A g \in masks \cup {f} : Heard(g)'
    BY <1>4 DEF Heard, Pairing, StoresOK
  <2>2. \A g \in det : Heard(g)'
    BY <1>4 DEF Heard, Pairing, StoresOK
  <2> QED
    BY <1>1, <2>1, <2>2, TrimmedIsOld DEF StoresOK
<1>7. ASSUME NEW g \in Frames PROVE Pairing(g)'
  <2>1. Pairing(g) /\ runs[g] \in Nat
    BY DEF StoresOK
  <2>2. CASE f \in det /\ g # f
    <3>1. runs'[g] = runs[g]
      BY <1>1, <2>2 DEF StoresOK
    <3> QED
      BY <1>1, <1>4, <2>1, <2>2, <3>1 DEF Pairing
  <2>3. CASE f \in det /\ g = f
    <3>1. runs[f] = 0 /\ runs'[f] = 1 /\ Came(f, "det")
      BY <1>1, <1>5, <2>1, <2>3 DEF StoresOK, Pairing
    <3> QED
      BY <1>1, <1>4, <2>1, <2>3, <3>1 DEF Pairing
  <2>4. CASE f \notin det /\ g # f
    BY <1>1, <1>2, <1>4, <1>6, <2>1, <2>4 DEF Pairing
  <2>5. CASE f \notin det /\ g = f
    <3>1. runs'[f] = 0 /\ (Came(f, "det") => Old(f))
      BY <1>1, <1>5, <2>1, <2>5 DEF Pairing
    <3> QED
      BY <1>1, <1>2, <1>4, <1>6, <2>1, <2>5, <3>1 DEF Pairing
  <2> QED
    BY <2>2, <2>3, <2>4, <2>5
<1> QED
  BY <1>1, <1>3, <1>7 DEF Frames

(* Processing touches neither the messages nor the stores.                  *)
LEMMA ProcessKeeps ==
  ASSUME IInv, (\E w \in Workers : Process(w)) \/ UNCHANGED vars
  PROVE  IInv'
<1>1. UNCHANGED <<film, wire, masks, det, runs>>
  BY DEF Process, Locate, GetCorr, SetCorr, Search, Look, Place, Update, Prune, AppendTrack,
         Bump, stores, vars
<1> QED
  BY <1>1 DEF IInv, StoresOK, Pairing, Old, Later, Heard, Came, Frames

LEMMA NextIInv == IInv /\ [Next]_vars => IInv'
<1> SUFFICES ASSUME IInv, [Next]_vars PROVE IInv'
  OBVIOUS
<1>1. CASE (\E w \in Workers : Process(w)) \/ UNCHANGED vars
  BY <1>1, ProcessKeeps
<1>2. CASE \E w \in Workers, f \in Frames : OnDet(w, f) \/ OnMasks(w, f)
  BY <1>2, OnDetKeeps, OnMasksKeeps
<1> QED
  BY <1>1, <1>2 DEF Next

LEMMA IInvPaired == IInv => FramesPaired
<1> SUFFICES ASSUME IInv, NEW f \in Frames
             PROVE  /\ runs[f] <= 1
                    /\ Came(f, "det") /\ Came(f, "mask") /\ runs[f] = 0 => Old(f)
  BY DEF FramesPaired, Old, Later, Heard
<1> QED
  BY DEF IInv, Pairing

(* Every frame whose two messages came is processed, and only once, unless  *)
(* as many later ones as are kept had come: for any films, any number of    *)
(* threads and any order of the messages.                                   *)
THEOREM FramesArePaired == Spec => []FramesPaired
<1>1. Init => IInv
  BY InitIInv
<1>2. IInv /\ [Next]_vars => IInv'
  BY NextIInv
<1>3. IInv => FramesPaired
  BY IInvPaired
<1> QED
  BY <1>1, <1>2, <1>3, PTL DEF Spec

-----------------------------------------------------------------------------
(* Sums over finite sets.  Induction over them is by a least natural that   *)
(* counts, a set standing for what is shown: the library's theorems take an *)
(* operator instead.                                                        *)

(* Every set of naturals has a least member.                                *)
LEMMA LeastNatural ==
  ASSUME NEW T \in SUBSET Nat, T # {}
  PROVE  \E n \in T : \A m \in T : n <= m
<1> DEFINE less == OpToRel(<, Nat)
<1>1. \A m, n \in Nat : m < n => <<m, n>> \in less
  BY DEF OpToRel
<1>2. IsWellFoundedOn(less, Nat)
  BY NatLessThanWellFounded
<1> HIDE DEF less
<1>3. PICK n \in T : \A m \in T : ~(<<m, n>> \in less)
  BY <1>2, WFMin
<1>4. ASSUME NEW m \in T
      PROVE  n <= m
  <2>1. m \in Nat /\ n \in Nat /\ ~(m < n)
    BY <1>1, <1>3
  <2> QED
    BY <2>1
<1> QED
  BY <1>4

Some(s) == CHOOSE x \in s : TRUE

(* g sums the values of f over every set of at most n of its arguments.     *)
Sums(g, f, n) ==
  /\ g \in [{s \in SUBSET DOMAIN f : Cardinality(s) <= n} -> Int]
  /\ \A s \in DOMAIN g :
       g[s] = IF s = {} THEN 0 ELSE f[Some(s)] + g[s \ {Some(s)}]

LEMMA SumsNone ==
  ASSUME NEW S, IsFiniteSet(S), NEW f \in [S -> Int]
  PROVE  \E g : Sums(g, f, 0)
<1> DEFINE D == {s \in SUBSET DOMAIN f : Cardinality(s) <= 0}
           g == [s \in D |-> 0]
<1>1. ASSUME NEW s \in D PROVE s = {}
  <2>1. IsFiniteSet(s) /\ Cardinality(s) \in Nat
    BY FS_Subset, FS_CardinalityType
  <2> QED
    BY <2>1, FS_EmptySet
<1>2. Sums(g, f, 0)
  BY <1>1 DEF Sums
<1> QED
  BY <1>2

LEMMA SumsMore ==
  ASSUME NEW S, IsFiniteSet(S), NEW f \in [S -> Int], NEW n \in Nat, NEW h, Sums(h, f, n)
  PROVE  \E g : Sums(g, f, n + 1)
<1> DEFINE D(m) == {s \in SUBSET DOMAIN f : Cardinality(s) <= m}
           g == [s \in D(n + 1) |->
                   IF s \in D(n) THEN h[s] ELSE f[Some(s)] + h[s \ {Some(s)}]]
<1>1. DOMAIN f = S /\ DOMAIN h = D(n) /\ \A s \in D(n) : h[s] \in Int
  BY DEF Sums
<1>2. ASSUME NEW s \in D(n + 1), s # {}
      PROVE  /\ Some(s) \in S /\ s \ {Some(s)} \in D(n)
  <2>1. Some(s) \in s
    BY <1>2 DEF Some
  <2>2. s \subseteq S /\ IsFiniteSet(s) /\ Cardinality(s) \in Nat
    BY <1>1, FS_Subset, FS_CardinalityType
  <2>3. Cardinality(s \ {Some(s)}) = Cardinality(s) - 1
    BY <2>1, <2>2, FS_RemoveElement
  <2> QED
    BY <1>1, <2>1, <2>2, <2>3
<1>3. {} \in D(n)
  BY FS_EmptySet
<1>4. \A s \in D(n) : s \in D(n + 1)
  <2>1. \A s \in D(n) : Cardinality(s) \in Nat
    BY <1>1, FS_Subset, FS_CardinalityType
  <2> QED
    BY <2>1
<1>5. g \in [D(n + 1) -> Int]
  <2> SUFFICES ASSUME NEW s \in D(n + 1)
               PROVE  (IF s \in D(n) THEN h[s] ELSE f[Some(s)] + h[s \ {Some(s)}]) \in Int
    OBVIOUS
  <2>1. CASE s \in D(n)
    BY <1>1, <2>1
  <2>2. CASE s \notin D(n)
    <3>1. s # {}
      BY <1>3, <2>2
    <3>2. Some(s) \in S /\ s \ {Some(s)} \in D(n)
      BY <1>2, <3>1
    <3>3. f[Some(s)] \in Int /\ h[s \ {Some(s)}] \in Int
      BY <1>1, <3>2
    <3> HIDE DEF D
    <3> QED
      BY <2>2, <3>3
  <2> QED
    BY <2>1, <2>2
<1>6. ASSUME NEW s \in D(n + 1)
      PROVE  g[s] = IF s = {} THEN 0 ELSE f[Some(s)] + g[s \ {Some(s)}]
  <2>1. CASE s = {}
    BY <1>1, <1>3, <2>1 DEF Sums
  <2>2. CASE s # {}
    <3>1. g[s \ {Some(s)}] = h[s \ {Some(s)}]
      BY <1>2, <1>4, <2>2
    <3>2. s \in D(n) => h[s] = f[Some(s)] + h[s \ {Some(s)}]
      BY <1>1, <2>2 DEF Sums
    <3> QED
      BY <2>2, <3>1, <3>2
  <2> QED
    BY <2>1, <2>2
<1>7. Sums(g, f, n + 1)
  BY <1>1, <1>5, <1>6 DEF Sums
<1> QED
  BY <1>7

LEMMA SumsAll ==
  ASSUME NEW S, IsFiniteSet(S), NEW f \in [S -> Int], NEW n \in Nat
  PROVE  \E g : Sums(g, f, n)
<1> DEFINE T == {m \in Nat : ~ \E g : Sums(g, f, m)}
<1> SUFFICES ASSUME T # {}
             PROVE  FALSE
  OBVIOUS
<1>1. PICK m \in T : \A k \in T : m <= k
  <2>1. T \in SUBSET Nat
    OBVIOUS
  <2> HIDE DEF T
  <2> QED
    BY <2>1, LeastNatural
<1>2. m # 0
  BY SumsNone
<1>3. m - 1 \in Nat /\ m - 1 \notin T /\ m = (m - 1) + 1
  BY <1>1, <1>2
<1>4. PICK k \in Nat : k = m - 1
  BY <1>3
<1>5. \E g : Sums(g, f, k)
  BY <1>3, <1>4
<1>6. \E g : Sums(g, f, k + 1)
  BY <1>5, SumsMore
<1>7. k + 1 = m
  BY <1>4
<1> QED
  BY <1>6, <1>7

(* What holds of no members, and of a set if of what is left without any    *)
(* member, holds of every subset.                                           *)
LEMMA EverySubset ==
  ASSUME NEW S, IsFiniteSet(S), NEW G, {} \in G,
         \A s \in SUBSET S : s # {} /\ (\A x \in s : s \ {x} \in G) => s \in G
  PROVE  \A s \in SUBSET S : s \in G
<1> DEFINE T == {Cardinality(s) : s \in (SUBSET S) \ G}
<1> SUFFICES ASSUME T # {}
             PROVE  FALSE
  OBVIOUS
<1>1. \A s \in SUBSET S : IsFiniteSet(s) /\ Cardinality(s) \in Nat
  BY FS_Subset, FS_CardinalityType
<1>2. PICK n \in T : \A k \in T : n <= k
  <2>1. T \in SUBSET Nat
    BY <1>1
  <2> HIDE DEF T
  <2> QED
    BY <2>1, LeastNatural
<1>3. PICK s \in (SUBSET S) \ G : Cardinality(s) = n
  BY <1>2
<1>4. PICK x \in s : s \ {x} \notin G
  BY <1>3
<1>5. Cardinality(s \ {x}) = n - 1 /\ n \in Nat
  BY <1>1, <1>3, <1>4, FS_RemoveElement
<1>6. n - 1 \in T
  BY <1>3, <1>4, <1>5
<1> QED
  BY <1>2, <1>5, <1>6

(* A sum is the value of one argument and the sum over the others.          *)
LEMMA SumIs ==
  ASSUME NEW S, IsFiniteSet(S), NEW f \in [S -> Int]
  PROVE  \E g \in [SUBSET S -> Int] :
           /\ g[{}] = 0
           /\ \A s \in SUBSET S : s # {} => \E x \in s : g[s] = f[x] + g[s \ {x}]
           /\ SumFunction(f) = g[S]
<1> DEFINE R(g) == [s \in SUBSET DOMAIN f |->
                      IF s = {} THEN 0 ELSE f[Some(s)] + g[s \ {Some(s)}]]
           iter == CHOOSE g : g = R(g)
<1>1. Cardinality(S) \in Nat /\ DOMAIN f = S
  BY FS_CardinalityType
<1>2. {s \in SUBSET S : Cardinality(s) <= Cardinality(S)} = SUBSET S
  BY FS_Subset
<1>3. PICK h : Sums(h, f, Cardinality(S))
  BY <1>1, SumsAll
<1>4. h = R(h)
  BY <1>1, <1>2, <1>3 DEF Sums
<1>5. iter = R(iter)
  BY <1>4
<1>6. SumFunction(f) = iter[S]
  BY <1>1 DEF SumFunction, SumFunctionOnSet, FoldFunctionOnSet, MapThenFoldSet, Some
<1> HIDE DEF iter
<1>7. /\ DOMAIN iter = SUBSET S /\ iter[{}] = 0
      /\ \A s \in SUBSET S : s # {} =>
            Some(s) \in s /\ iter[s] = f[Some(s)] + iter[s \ {Some(s)}]
  BY <1>1, <1>5 DEF Some
<1>8. \A s \in SUBSET S : s \in {r \in SUBSET S : iter[r] \in Int}
  <2> DEFINE G == {r \in SUBSET S : iter[r] \in Int}
  <2>1. {} \in G
    BY <1>7
  <2>2. ASSUME NEW s \in SUBSET S, s # {}, \A x \in s : s \ {x} \in G
        PROVE  s \in G
    <3>1. Some(s) \in s /\ f[Some(s)] \in Int /\ iter[s \ {Some(s)}] \in Int
      BY <1>7, <2>2
    <3> QED
      BY <1>7, <2>2, <3>1
  <2> HIDE DEF G
  <2>3. \A s \in SUBSET S : s \in G
    BY <2>1, <2>2, EverySubset
  <2> QED
    BY <2>3 DEF G
<1>9. iter \in [SUBSET S -> Int]
  <2>1. iter = [s \in SUBSET S |-> iter[s]]
    BY <1>1, <1>5
  <2> QED
    BY <1>8, <2>1
<1>10. \A s \in SUBSET S : s # {} => \E x \in s : iter[s] = f[x] + iter[s \ {x}]
  BY <1>7
<1> QED
  BY <1>6, <1>7, <1>9, <1>10

LEMMA SumInt ==
  ASSUME NEW S, IsFiniteSet(S), NEW f \in [S -> Int]
  PROVE  SumFunction(f) \in Int
<1>1. PICK g \in [SUBSET S -> Int] : SumFunction(f) = g[S]
  BY SumIs
<1> QED
  BY <1>1

-----------------------------------------------------------------------------
(* The fit of the pockets.                                                  *)

LEMMA GridFinite == IsFiniteSet(Grid) /\ Cardinality(Grid) <= Rows * Cols
<1> DEFINE number == [j \in Grid |-> j[1] * Cols + j[2] + 1]
<1>1. Rows \in Nat /\ Cols \in Nat /\ Rows * Cols \in Nat
  <2>1. Rows \in Nat /\ Cols \in Nat
    BY LatticeAssumption
  <2>2. \A m, n \in Nat : m * n \in Nat
    BY SMT
  <2> QED
    BY <2>1, <2>2
<1>2. \A i \in Grid : i = <<i[1], i[2]>> /\ i[1] \in 0 .. Rows - 1 /\ i[2] \in 0 .. Cols - 1
  BY DEF Grid
<1>3. \A a, b, c, r \in Nat : a <= r - 1 /\ b <= c - 1 => a * c + b + 1 \in 1 .. r * c
  <2>1. \A a, c, r \in Nat : a <= r - 1 => a * c + c <= r * c /\ a * c \in Nat /\ r * c \in Nat
    <3>1. \A a, c, k \in Nat : a * c + c + k * c = (a + 1 + k) * c /\ k * c >= 0 /\ a * c >= 0
      BY SMT
    <3>2. SUFFICES ASSUME NEW a \in Nat, NEW c \in Nat, NEW r \in Nat, a <= r - 1
                   PROVE  a * c + c <= r * c /\ a * c \in Nat /\ r * c \in Nat
      OBVIOUS
    <3>3. PICK k \in Nat : r = a + 1 + k
      <4>1. r - a - 1 \in Nat /\ r = a + 1 + (r - a - 1)
        BY <3>2
      <4> QED
        BY <4>1
    <3>4. a * c + c + k * c = r * c /\ k * c >= 0 /\ a * c >= 0
      BY <3>1, <3>3
    <3>5. a * c \in Int /\ k * c \in Int /\ r * c \in Int
      BY SMT
    <3> QED
      BY <3>4, <3>5
  <2>2. SUFFICES ASSUME NEW a \in Nat, NEW b \in Nat, NEW c \in Nat, NEW r \in Nat,
                        a <= r - 1, b <= c - 1
                 PROVE  a * c + b + 1 \in 1 .. r * c
    OBVIOUS
  <2>3. PICK p \in Nat, q \in Nat : p = a * c /\ q = r * c /\ p + c <= q
    BY <2>1, <2>2
  <2>4. p + b + 1 \in 1 .. q
    BY <2>2, <2>3
  <2> QED
    BY <2>3, <2>4
<1>4. number \in [Grid -> 1 .. Rows * Cols]
  BY <1>1, <1>2, <1>3
<1>5. ASSUME NEW i \in Grid, NEW j \in Grid, number[i] = number[j]
      PROVE  i = j
  <2>1. PICK a \in Nat, b \in Nat : a = i[1] /\ b = i[2] /\ b <= Cols - 1
    BY <1>1, <1>2
  <2>2. PICK c \in Nat, d \in Nat : c = j[1] /\ d = j[2] /\ d <= Cols - 1
    BY <1>1, <1>2
  <2>3. a * Cols + b = c * Cols + d
    <3>1. a * Cols + b + 1 = c * Cols + d + 1
      BY <1>5, <2>1, <2>2
    <3>2. a * Cols \in Int /\ c * Cols \in Int
      BY <1>1
    <3> QED
      BY <3>1, <3>2
  <2>4. \A x, y, n \in Nat : x < y => x * n + n <= y * n
    <3>1. \A x, n, k \in Nat : x * n + n + k * n = (x + 1 + k) * n /\ k * n >= 0
      BY SMT
    <3>2. SUFFICES ASSUME NEW x \in Nat, NEW y \in Nat, NEW n \in Nat, x < y
                   PROVE  x * n + n <= y * n
      OBVIOUS
    <3>3. PICK k \in Nat : y = x + 1 + k
      <4>1. y - x - 1 \in Nat /\ y = x + 1 + (y - x - 1)
        BY <3>2
      <4> QED
        BY <4>1
    <3>4. x * n + n + k * n = y * n /\ k * n >= 0
      BY <3>1, <3>3
    <3>5. x * n \in Int /\ k * n \in Int /\ y * n \in Int
      BY SMT
    <3> QED
      BY <3>4, <3>5
  <2>5. PICK p \in Int, q \in Int : p = a * Cols /\ q = c * Cols
    BY <1>1
  <2>6. (a < c => p + Cols <= q) /\ (c < a => q + Cols <= p)
    BY <1>1, <2>4, <2>5
  <2>7. p + b = q + d
    BY <2>3, <2>5
  <2>8. a = c /\ b = d
    <3>1. ~(a < c) /\ ~(c < a)
      BY <1>1, <2>1, <2>2, <2>6, <2>7
    <3>2. a = c
      BY <3>1
    <3> QED
      BY <2>5, <2>7, <3>2
  <2> QED
    BY <1>2, <2>1, <2>2, <2>8
<1>6. number \in Injection(Grid, 1 .. Rows * Cols)
  BY <1>4, <1>5 DEF Injection, IsInjective
<1>7. PICK n \in Nat : n = Rows * Cols
  BY <1>1
<1>8. IsFiniteSet(1 .. n) /\ Cardinality(1 .. n) = n
  BY FS_Interval
<1> QED
  BY <1>6, <1>7, <1>8, FS_Injection

LEMMA OffsetInt == \A j \in Grid : Offset(j) \in Int
<1>1. Pitch \div 2 \in Int
  BY LatticeAssumption
<1>2. \A j \in Grid : 2 * j[2] + 1 - Cols \in Int
  BY LatticeAssumption DEF Grid
<1>3. \A m, n \in Int : m * n \in Int
  BY SMT
<1> QED
  BY <1>1, <1>2, <1>3 DEF Offset

LEMMA NearestInt ==
  ASSUME NEW a \in Int, NEW b \in Nat \ {0}
  PROVE  Nearest(a, b) \in Int
BY DEF Nearest

LEMMA UnionFinite ==
  ASSUME NEW A, IsFiniteSet(A), NEW B, IsFiniteSet(B)
  PROVE  IsFiniteSet(A \cup B)
<1> DEFINE G == {s \in SUBSET B : IsFiniteSet(A \cup s)}
<1>1. {} \in G
  BY Zenon
<1>2. ASSUME NEW s \in SUBSET B, s # {}, \A x \in s : s \ {x} \in G
      PROVE  s \in G
  <2>1. PICK x \in s : IsFiniteSet(A \cup (s \ {x}))
    BY <1>2
  <2>2. IsFiniteSet((A \cup (s \ {x})) \cup {x})
    BY <2>1, FS_AddElement
  <2>3. (A \cup (s \ {x})) \cup {x} = A \cup s
    OBVIOUS
  <2> QED
    BY <2>2, <2>3
<1> HIDE DEF G
<1>3. B \in G
  BY <1>1, <1>2, EverySubset
<1> QED
  BY <1>3 DEF G

LEMMA ProductFinite ==
  ASSUME NEW A, IsFiniteSet(A), NEW B, IsFiniteSet(B)
  PROVE  IsFiniteSet(A \X B)
<1> DEFINE G == {s \in SUBSET A : IsFiniteSet(s \X B)}
<1>1. {} \in G
  <2>1. {} \X B = {}
    OBVIOUS
  <2> QED
    BY <2>1, FS_EmptySet
<1>2. ASSUME NEW s \in SUBSET A, s # {}, \A x \in s : s \ {x} \in G
      PROVE  s \in G
  <2>1. PICK x \in s : IsFiniteSet((s \ {x}) \X B)
    BY <1>2
  <2> DEFINE with == [y \in B |-> <<x, y>>]
  <2>2. with \in Surjection(B, {x} \X B)
    <3>1. with \in [B -> {x} \X B]
      OBVIOUS
    <3>2. ASSUME NEW t \in {x} \X B
          PROVE  \E y \in B : with[y] = t
      <4>1. t = <<x, t[2]>> /\ t[2] \in B
        BY <3>2
      <4>2. with[t[2]] = t
        BY <4>1
      <4> QED
        BY <4>1, <4>2
    <3> HIDE DEF with
    <3> QED
      BY <3>1, <3>2 DEF Surjection
  <2>3. IsFiniteSet({x} \X B)
    BY <2>2, FS_Surjection
  <2>4. s \X B = ((s \ {x}) \X B) \cup ({x} \X B)
    OBVIOUS
  <2> QED
    BY <2>1, <2>3, <2>4, UnionFinite
<1> HIDE DEF G
<1>3. A \in G
  BY <1>1, <1>2, EverySubset
<1> QED
  BY <1>3 DEF G

(* The poses follow from one another.                                       *)
LEMMA PosesFollow ==
  ASSUME NEW pts, NEW x0
  PROVE  /\ Poses(pts, x0)[0] = x0
         /\ \A k \in 1 .. Iters : Poses(pts, x0)[k] = Refined(pts, Poses(pts, x0)[k - 1])
<1> DEFINE R(g, n) == [k \in 0 .. n |-> IF k = 0 THEN x0 ELSE Refined(pts, g[k - 1])]
           T == {n \in Nat : ~ \E g : g = R(g, n)}
           pose == CHOOSE g : g = R(g, Iters)
<1>1. Iters \in Nat \ {0}
  BY LatticeAssumption
<1>2. T = {}
  <2> SUFFICES ASSUME T # {} PROVE FALSE
    OBVIOUS
  <2>1. PICK n \in T : \A k \in T : n <= k
    <3>1. T \in SUBSET Nat
      OBVIOUS
    <3> HIDE DEF T
    <3> QED
      BY <3>1, LeastNatural
  <2>2. n # 0
    <3>1. [k \in 0 .. 0 |-> x0] = R([k \in 0 .. 0 |-> x0], 0)
      OBVIOUS
    <3> QED
      BY <3>1
  <2>3. PICK m \in Nat : n = m + 1
    <3>1. n - 1 \in Nat /\ n = (n - 1) + 1
      BY <2>2
    <3> QED
      BY <3>1
  <2>4. PICK h : h = R(h, m)
    BY <2>1, <2>3
  <2> DEFINE g == [k \in 0 .. n |-> IF k = n THEN Refined(pts, h[m]) ELSE h[k]]
  <2>5. ASSUME NEW k \in 0 .. n
        PROVE  g[k] = IF k = 0 THEN x0 ELSE Refined(pts, g[k - 1])
    <3>1. CASE k = n
      BY <2>3, <3>1
    <3>2. CASE k # n
      <4>1. k \in 0 .. m /\ g[k] = h[k] /\ (k # 0 => g[k - 1] = h[k - 1])
        BY <2>3, <3>2
      <4>2. h[k] = IF k = 0 THEN x0 ELSE Refined(pts, h[k - 1])
        BY <2>4, <4>1
      <4> QED
        BY <4>1, <4>2
    <3> QED
      BY <3>1, <3>2
  <2>6. g = R(g, n)
    <3>1. \A k \in 0 .. n : g[k] = R(g, n)[k]
      BY <2>5
    <3> QED
      BY <3>1
  <2> QED
    BY <2>1, <2>6
<1>3. \E g : g = R(g, Iters)
  BY <1>1, <1>2
<1>4. pose = R(pose, Iters)
  BY <1>3
<1>5. Poses(pts, x0) = pose
  BY DEF Poses
<1> HIDE DEF pose
<1>6. \A k \in 0 .. Iters : pose[k] = IF k = 0 THEN x0 ELSE Refined(pts, pose[k - 1])
  BY <1>4
<1> QED
  BY <1>1, <1>5, <1>6

(* What holds at the start and is kept by a round holds of every pose.      *)
LEMMA PosesWithin ==
  ASSUME NEW pts, NEW x0, NEW G, x0 \in G, \A x \in G : Refined(pts, x) \in G
  PROVE  \A k \in 0 .. Iters : Poses(pts, x0)[k] \in G
<1> DEFINE T == {k \in 0 .. Iters : Poses(pts, x0)[k] \notin G}
<1> SUFFICES ASSUME T # {} PROVE FALSE
  OBVIOUS
<1>1. PICK n \in T : \A k \in T : n <= k
  <2>1. T \in SUBSET Nat
    BY LatticeAssumption
  <2> HIDE DEF T
  <2> QED
    BY <2>1, LeastNatural
<1>2. n # 0
  BY PosesFollow
<1>3. n \in 1 .. Iters /\ n - 1 \in 0 .. Iters /\ n - 1 \notin T
  BY <1>1, <1>2, LatticeAssumption
<1> QED
  BY <1>1, <1>3, PosesFollow

-----------------------------------------------------------------------------
(* What a fit finds.                                                        *)

ArePoints(pts) == IsFiniteSet(pts) /\ \A p \in pts : p.x \in Int

LEMMA ResidualInt ==
  ASSUME NEW pts, ArePoints(pts), NEW x \in Int
  PROVE  /\ IsFiniteSet(Matched(pts, x)) /\ Matched(pts, x) \subseteq Inside(pts, x)
         /\ \A pair \in Inside(pts, x) : Residual(pair, x) \in Int
<1>1. IsFiniteSet(pts \X Grid)
  BY GridFinite, ProductFinite DEF ArePoints
<1>2. Matched(pts, x) \subseteq Inside(pts, x) /\ Inside(pts, x) \subseteq pts \X Grid
  BY DEF Matched, Inside
<1>3. IsFiniteSet(Matched(pts, x))
  BY <1>1, <1>2, FS_Subset
<1>4. ASSUME NEW pair \in pts \X Grid PROVE Residual(pair, x) \in Int
  <2>1. pair[1].x \in Int /\ Offset(pair[2]) \in Int
    BY OffsetInt DEF ArePoints
  <2> QED
    BY <2>1 DEF Residual
<1> QED
  BY <1>2, <1>3, <1>4

LEMMA RefinedInt ==
  ASSUME NEW pts, ArePoints(pts), NEW x \in Int
  PROVE  Refined(pts, x) \in Int
<1> DEFINE M == Matched(pts, x)
<1>1. IsFiniteSet(M) /\ Cardinality(M) \in Nat /\ Residuals(M, x) \in [M -> Int]
  BY ResidualInt, FS_CardinalityType DEF Residuals
<1>2. SumFunction(Residuals(M, x)) \in Int
  <2> HIDE DEF M
  <2> QED
    BY <1>1, SumInt
<1>3. CASE Cardinality(M) < 3
  BY <1>3 DEF Refined
<1>4. CASE ~(Cardinality(M) < 3)
  <2>1. Cardinality(M) \in Nat \ {0}
    BY <1>1, <1>4
  <2>2. Nearest(SumFunction(Residuals(M, x)), Cardinality(M)) \in Int
    BY <1>2, <2>1, NearestInt
  <2>3. Refined(pts, x) = x + Nearest(SumFunction(Residuals(M, x)), Cardinality(M))
    BY <1>4 DEF Refined
  <2> QED
    BY <2>2, <2>3
<1> QED
  BY <1>3, <1>4

LEMMA FitInt ==
  ASSUME NEW pts, ArePoints(pts), NEW x0 \in Int
  PROVE  Fit(pts, x0).x \in Int
<1>1. \A k \in 0 .. Iters : Poses(pts, x0)[k] \in Int
  BY RefinedInt, PosesWithin
<1>2. Fit(pts, x0).x = Poses(pts, x0)[Iters] /\ Iters \in 0 .. Iters
  BY LatticeAssumption DEF Fit
<1> QED
  BY <1>1, <1>2

(* A sum lies where its parts do.                                           *)
LEMMA SumBetween ==
  ASSUME NEW S, IsFiniteSet(S), NEW f \in [S -> Int], NEW lo \in Int, NEW hi \in Int,
         \A x \in S : lo <= f[x] /\ f[x] <= hi
  PROVE  /\ Cardinality(S) * lo <= SumFunction(f)
         /\ SumFunction(f) <= Cardinality(S) * hi
<1>1. PICK g \in [SUBSET S -> Int] :
           /\ g[{}] = 0
           /\ \A s \in SUBSET S : s # {} => \E x \in s : g[s] = f[x] + g[s \ {x}]
           /\ SumFunction(f) = g[S]
  BY SumIs
<1> DEFINE G == {s \in SUBSET S : Cardinality(s) * lo <= g[s] /\ g[s] <= Cardinality(s) * hi}
<1>2. {} \in G
  BY <1>1, FS_EmptySet
<1>3. ASSUME NEW s \in SUBSET S, s # {}, \A x \in s : s \ {x} \in G
      PROVE  s \in G
  <2>1. PICK x \in s : g[s] = f[x] + g[s \ {x}]
    BY <1>1, <1>3
  <2>2. PICK n \in Int : n = Cardinality(s) /\ n - 1 = Cardinality(s \ {x})
    <3>1. IsFiniteSet(s) /\ Cardinality(s) \in Nat
      BY FS_Subset, FS_CardinalityType
    <3>2. Cardinality(s \ {x}) = Cardinality(s) - 1
      BY <3>1, FS_RemoveElement
    <3> QED
      BY <3>1, <3>2
  <2>3. PICK a \in Int, b \in Int : a = f[x] /\ b = g[s \ {x}] /\ lo <= a /\ a <= hi
    OBVIOUS
  <2>4. (n - 1) * lo <= b /\ b <= (n - 1) * hi
    BY <1>3, <2>2, <2>3
  <2>5. \A c \in Int : c + (n - 1) * c = n * c /\ (n - 1) * c \in Int /\ n * c \in Int
    BY SMT
  <2>6. n * lo <= a + b /\ a + b <= n * hi
    BY <2>3, <2>4, <2>5
  <2> QED
    BY <2>1, <2>2, <2>3, <2>6
<1> HIDE DEF G
<1>4. S \in G
  BY <1>2, <1>3, EverySubset
<1> QED
  BY <1>1, <1>4 DEF G

LEMMA NearestBetween ==
  ASSUME NEW s \in Int, NEW n \in Nat \ {0}, NEW lo \in Int, NEW hi \in Int,
         n * lo <= s, s <= n * hi
  PROVE  lo <= Nearest(s, n) /\ Nearest(s, n) <= hi
<1>1. PICK q \in Int : q = Nearest(s, n) /\ 2 * n * q <= 2 * s + n /\ 2 * s + n < 2 * n * q + 2 * n
  <2>1. \A a \in Int, b \in Nat \ {0} : b * (a \div b) <= a /\ a < b * (a \div b) + b
    BY SMT
  <2>2. 2 * s + n \in Int /\ 2 * n \in Nat \ {0}
    OBVIOUS
  <2> QED
    BY <2>1, <2>2, NearestInt DEF Nearest
<1>2. \A x, y \in Int : x <= y => n * x <= n * y
  <2>1. SUFFICES ASSUME NEW x \in Int, NEW y \in Int, x <= y PROVE n * x <= n * y
    OBVIOUS
  <2>2. PICK k \in Nat : y = x + k
    <3>1. y - x \in Nat /\ y = x + (y - x)
      BY <2>1
    <3> QED
      BY <3>1
  <2>3. n * (x + k) = n * x + n * k /\ n * k >= 0 /\ n * k \in Int /\ n * x \in Int
    BY SMT
  <2> QED
    BY <2>2, <2>3
<1>3. PICK p \in Int : p = n * q
  OBVIOUS
<1>4. 2 * n * q = 2 * p
  BY <1>3
<1>5. n * lo \in Int /\ n * hi \in Int /\ n * (q + 1) = p + n /\ n * (q - 1) = p - n
  BY <1>3
<1>6. ~(q < lo)
  <2> SUFFICES ASSUME q + 1 <= lo PROVE FALSE
    OBVIOUS
  <2>1. p + n <= n * lo
    BY <1>2, <1>5
  <2> QED
    BY <1>1, <1>4, <1>5, <2>1
<1>7. ~(hi < q)
  <2> SUFFICES ASSUME hi <= q - 1 PROVE FALSE
    OBVIOUS
  <2>1. n * hi <= p - n
    BY <1>2, <1>5
  <2> QED
    BY <1>1, <1>4, <1>5, <2>1
<1> QED
  BY <1>1, <1>6, <1>7

(* Pockets of a row lie at least a pitch apart.                             *)
LEMMA OffsetGap ==
  ASSUME NEW i \in Grid, NEW j \in Grid, i[1] = j[1], i # j
  PROVE  Offset(i) - Offset(j) >= Pitch \/ Offset(j) - Offset(i) >= Pitch
<1>1. PICK h \in Nat : h = Pitch \div 2 /\ Pitch = 2 * h
  BY LatticeAssumption
<1>2. i[2] \in Int /\ j[2] \in Int /\ i[2] # j[2] /\ Cols \in Int
  BY LatticeAssumption DEF Grid
<1>3. \A c, d \in Int : c * h \in Int /\ c * h - d * h = (c - d) * h
  BY SMT
<1>4. PICK p \in Int, q \in Int : p = 2 * i[2] + 1 - Cols /\ q = 2 * j[2] + 1 - Cols
                                  /\ (p - q >= 2 \/ q - p >= 2)
  <2>1. 2 * i[2] + 1 - Cols \in Int /\ 2 * j[2] + 1 - Cols \in Int
    BY <1>2
  <2>2. \/ (2 * i[2] + 1 - Cols) - (2 * j[2] + 1 - Cols) >= 2
        \/ (2 * j[2] + 1 - Cols) - (2 * i[2] + 1 - Cols) >= 2
    BY <1>2
  <2> QED
    BY <2>1, <2>2
<1>5. Offset(i) = p * h /\ Offset(j) = q * h
  BY <1>1, <1>4 DEF Offset
<1>6. p * h - q * h = (p - q) * h /\ q * h - p * h = (q - p) * h
  BY <1>3
<1>7. \A c \in Int : c >= 2 => c * h >= 2 * h
  <2>1. SUFFICES ASSUME NEW c \in Int, c >= 2 PROVE c * h >= 2 * h
    OBVIOUS
  <2>2. PICK k \in Nat : c = 2 + k
    <3>1. c - 2 \in Nat /\ c = 2 + (c - 2)
      BY <2>1
    <3> QED
      BY <3>1
  <2>3. (2 + k) * h = 2 * h + k * h /\ k * h >= 0 /\ k * h \in Int
    BY SMT
  <2> QED
    BY <2>2, <2>3
<1>8. p - q >= 2 => (p - q) * h >= 2 * h
  BY <1>7
<1>9. q - p >= 2 => (q - p) * h >= 2 * h
  BY <1>7
<1> QED
  BY <1>1, <1>4, <1>5, <1>6, <1>8, <1>9

(* A floor lies no further on than the depth image is late.                 *)
LEMMA CutLess ==
  ASSUME NEW O, NEW on \in Nat, NEW j \in Grid
  PROVE  on - Cut(j, O, on) \div 2 \in 0 .. on
<1>1. PICK c \in Nat : c = Cut(j, O, on) /\ c <= on
  <2>1. Wall \in Nat
    BY LatticeAssumption
  <2>2. CASE on > Wall /\ (j[2] = Cols - 1 \/ <<j[1], j[2] + 1>> \in O)
    <3>1. Cut(j, O, on) = on - Wall
      BY <2>2 DEF Cut
    <3>2. on - Wall \in Nat /\ on - Wall <= on
      BY <2>1, <2>2
    <3> QED
      BY <3>1, <3>2
  <2>3. CASE ~(on > Wall /\ (j[2] = Cols - 1 \/ <<j[1], j[2] + 1>> \in O))
    BY <2>3 DEF Cut
  <2> QED
    BY <2>2, <2>3
<1>2. \A n \in Nat : n <= on => on - n \div 2 \in 0 .. on
  BY SMT
<1> QED
  BY <1>1, <1>2

LEMMA PointsAre ==
  ASSUME NEW O \in SUBSET Grid, NEW P \in SUBSET Grid, NEW on \in Nat, NEW off \in Int
  PROVE  /\ ArePoints(Points(O, P, on, off))
         /\ \A p \in Points(O, P, on, off) : \E i \in Grid, d \in (0 .. on) \cup {off} :
              p.row = i[1] /\ p.x = Offset(i) + d
<1>1. IsFiniteSet(Floors(O, P, on))
  <2> DEFINE f == [j \in Grid \ P |-> [row |-> j[1], x |-> Offset(j) + on - Cut(j, O, on) \div 2]]
  <2>1. f \in Surjection(Grid \ P, Floors(O, P, on))
    <3>1. f \in [Grid \ P -> Floors(O, P, on)]
      BY DEF Floors
    <3>2. \A t \in Floors(O, P, on) : \E j \in Grid \ P : f[j] = t
      BY DEF Floors
    <3> HIDE DEF f
    <3> QED
      BY <3>1, <3>2 DEF Surjection
  <2>2. IsFiniteSet(Grid \ P)
    BY GridFinite, FS_Subset
  <2> QED
    BY <2>1, <2>2, FS_Surjection
<1>2. IsFiniteSet(Tops(O, off))
  <2> DEFINE f == [j \in O |-> [row |-> j[1], x |-> Offset(j) + off]]
  <2>1. f \in Surjection(O, Tops(O, off))
    <3>1. f \in [O -> Tops(O, off)]
      BY DEF Tops
    <3>2. \A t \in Tops(O, off) : \E j \in O : f[j] = t
      BY DEF Tops
    <3> HIDE DEF f
    <3> QED
      BY <3>1, <3>2 DEF Surjection
  <2>2. IsFiniteSet(O)
    BY GridFinite, FS_Subset
  <2> QED
    BY <2>1, <2>2, FS_Surjection
<1>3. ASSUME NEW p \in Floors(O, P, on)
      PROVE  \E i \in Grid, d \in (0 .. on) \cup {off} : p.row = i[1] /\ p.x = Offset(i) + d
  <2>1. PICK j \in Grid : p.row = j[1] /\ p.x = Offset(j) + on - Cut(j, O, on) \div 2
    BY DEF Floors
  <2>2. PICK d \in 0 .. on : d = on - Cut(j, O, on) \div 2
    BY CutLess
  <2>3. Cut(j, O, on) \div 2 \in Int
    <3>1. Cut(j, O, on) \in Int
      BY LatticeAssumption DEF Cut
    <3> QED
      BY <3>1
  <2>4. Offset(j) + on - Cut(j, O, on) \div 2 = Offset(j) + d
    <3>1. \A o, c \in Int : o + on - c = o + (on - c)
      BY SMT
    <3> QED
      BY <2>2, <2>3, <3>1, OffsetInt
  <2> QED
    BY <2>1, <2>4
<1>4. \A p \in Tops(O, off) : \E i \in Grid : p.row = i[1] /\ p.x = Offset(i) + off
  BY DEF Tops
<1>5. Points(O, P, on, off) \subseteq Floors(O, P, on) \cup Tops(O, off)
  BY DEF Points
<1>6. IsFiniteSet(Points(O, P, on, off))
  <2>1. IsFiniteSet(Floors(O, P, on) \cup Tops(O, off))
    BY <1>1, <1>2, UnionFinite
  <2> QED
    BY <1>5, <2>1, FS_Subset
<1>7. ASSUME NEW p \in Points(O, P, on, off)
      PROVE  \E i \in Grid, d \in (0 .. on) \cup {off} : p.row = i[1] /\ p.x = Offset(i) + d
  BY <1>3, <1>4, <1>5
<1>8. \A p \in Points(O, P, on, off) : p.x \in Int
  <2>1. \A i \in Grid, d \in (0 .. on) \cup {off} : Offset(i) + d \in Int
    BY OffsetInt
  <2> QED
    BY <1>7, <2>1
<1> QED
  BY <1>6, <1>7, <1>8 DEF ArePoints

(* If the tray is taken to lie at x, within the gate of where the floors    *)
(* and the products say it is, only true pairs of points and pockets are    *)
(* matched.                                                                 *)
LEMMA OwnPockets ==
  ASSUME NEW O \in SUBSET Grid, NEW P \in SUBSET Grid, NEW on \in Nat, NEW off \in Int,
         NEW lo \in Int, NEW hi \in Int, lo <= 0, on <= hi, lo <= off, off <= hi,
         NEW x \in Int, hi - x <= Gate, x - lo <= Gate,
         NEW pair \in Inside(Points(O, P, on, off), x)
  PROVE  lo - x <= Residual(pair, x) /\ Residual(pair, x) <= hi - x
<1>1. PICK j \in Grid : pair[2] = j /\ pair[1] \in Points(O, P, on, off) /\ pair[1].row = j[1]
                        /\ Abs(Residual(pair, x)) <= Gate
  BY DEF Inside
<1>2. PICK i \in Grid, d \in (0 .. on) \cup {off} : i[1] = j[1] /\ pair[1].x = Offset(i) + d
  BY <1>1, PointsAre
<1>3. PICK a \in Int, b \in Int :
           /\ a = Offset(i) /\ b = Offset(j) /\ d \in Int
           /\ pair[1].x = a + d /\ lo <= d /\ d <= hi
  <2>1. PICK a \in Int, b \in Int : a = Offset(i) /\ b = Offset(j)
    BY OffsetInt
  <2>2. d \in Int /\ lo <= d /\ d <= hi
    OBVIOUS
  <2> QED
    BY <1>2, <2>1, <2>2
<1>4. PICK r \in Int : r = a + d - x - b /\ Residual(pair, x) = r
  BY <1>1, <1>3 DEF Residual
<1>5. -Gate <= r /\ r <= Gate /\ Gate \in Nat /\ Pitch \in Nat /\ 2 * Gate < Pitch
  BY <1>1, <1>4, LatticeAssumption DEF Abs
<1>6. i # j => a - b >= Pitch \/ b - a >= Pitch
  BY <1>2, <1>3, OffsetGap
<1>7. a = b
  <2>1. ~(a - b >= Pitch)
    BY <1>3, <1>4, <1>5
  <2>2. ~(b - a >= Pitch)
    BY <1>3, <1>4, <1>5
  <2> QED
    BY <1>3, <1>6, <2>1, <2>2
<1> QED
  BY <1>3, <1>4, <1>7

(* A round takes the pose to where the floors and the products are, or      *)
(* leaves it if too little is matched.                                      *)
LEMMA RefinedBetween ==
  ASSUME NEW O \in SUBSET Grid, NEW P \in SUBSET Grid, NEW on \in Nat, NEW off \in Int,
         NEW lo \in Int, NEW hi \in Int, lo <= 0, on <= hi, lo <= off, off <= hi,
         NEW x \in Int, hi - x <= Gate, x - lo <= Gate
  PROVE  LET M == Matched(Points(O, P, on, off), x)
             r == Refined(Points(O, P, on, off), x)
         IN IF Cardinality(M) < 3 THEN r = x ELSE r \in Int /\ lo <= r /\ r <= hi
<1> DEFINE pts == Points(O, P, on, off)
           M == Matched(pts, x)
           f == Residuals(M, x)
<1>1. ArePoints(pts)
  BY PointsAre
<1>2. IsFiniteSet(M) /\ M \subseteq Inside(pts, x) /\ Cardinality(M) \in Nat
  <2> HIDE DEF pts
  <2> QED
    BY <1>1, ResidualInt, FS_CardinalityType
<1>3. CASE Cardinality(M) < 3
  BY <1>3 DEF Refined
<1>4. CASE ~(Cardinality(M) < 3)
  <2>1. PICK n \in Nat \ {0} : n = Cardinality(M)
    BY <1>2, <1>4
  <2>2. PICK a \in Int, b \in Int : a = lo - x /\ b = hi - x
    OBVIOUS
  <2>3. f \in [M -> Int] /\ \A pair \in M : a <= f[pair] /\ f[pair] <= b
    <3>1. \A pair \in M : Residual(pair, x) \in Int
      <4> HIDE DEF pts
      <4> QED
        BY <1>1, <1>2, ResidualInt
    <3>2. \A pair \in M : lo - x <= Residual(pair, x) /\ Residual(pair, x) <= hi - x
      BY <1>2, OwnPockets
    <3> QED
      BY <2>2, <3>1, <3>2 DEF Residuals
  <2> HIDE DEF f, M
  <2>4. PICK s \in Int : s = SumFunction(f)
    BY <1>2, <2>3, SumInt
  <2>5. n * a <= s /\ s <= n * b
    BY <1>2, <2>1, <2>3, <2>4, SumBetween
  <2>6. a <= Nearest(s, n) /\ Nearest(s, n) <= b /\ Nearest(s, n) \in Int
    BY <2>5, NearestBetween, NearestInt
  <2>7. Refined(pts, x) = x + Nearest(s, n)
    BY <1>4, <2>1, <2>4 DEF Refined, M, f
  <2>8. x + Nearest(s, n) \in Int /\ lo <= x + Nearest(s, n) /\ x + Nearest(s, n) <= hi
    BY <2>2, <2>6
  <2> QED
    BY <1>4, <2>7, <2>8 DEF M
<1> QED
  BY <1>3, <1>4

(* A fit that is believed has found the tray: for any pockets filled, if    *)
(* neither the mask's centre nor the products are further than the gate     *)
(* from where the floors and the products are, the pose ends up there.  In  *)
(* particular it is never a pitch beside.                                   *)
THEOREM FitFindsTheTray ==
  ASSUME MinFit >= 3,
         NEW O \in SUBSET Grid, NEW P \in SUBSET Grid, NEW on \in Nat, NEW off \in Int,
         NEW lo \in Int, NEW hi \in Int, lo <= 0, on <= hi, lo <= off, off <= hi, hi - lo <= Gate,
         NEW x0 \in Int, hi - x0 <= Gate, x0 - lo <= Gate,
         Believed(Fit(Points(O, P, on, off), x0), x0)
  PROVE  Fit(Points(O, P, on, off), x0).x \in lo .. hi
<1> DEFINE pts == Points(O, P, on, off)
           G == {x \in Int : hi - x <= Gate /\ x - lo <= Gate}
           pose == Poses(pts, x0)
           last == pose[Iters - 1]
<1>1. Gate \in Nat /\ Iters \in Nat \ {0}
  BY LatticeAssumption
<1>2. \A r \in Int : lo <= r /\ r <= hi => r \in G
  BY <1>1
<1>3. \A x \in G : Refined(pts, x) \in G
  <2> SUFFICES ASSUME NEW x \in G PROVE Refined(pts, x) \in G
    OBVIOUS
  <2>1. \/ Refined(pts, x) = x
        \/ Refined(pts, x) \in Int /\ lo <= Refined(pts, x) /\ Refined(pts, x) <= hi
    BY RefinedBetween
  <2> QED
    BY <1>2, <2>1
<1>4. last \in G
  <2>1. x0 \in G /\ Iters - 1 \in 0 .. Iters
    BY <1>1
  <2> HIDE DEF G
  <2> QED
    BY <1>3, <2>1, PosesWithin
<1>5. Cardinality(Matched(pts, last)) >= 3
  <2>1. Cardinality(Matched(pts, last)) >= MinFit
    BY DEF Believed, Fit
  <2>2. Cardinality(Matched(pts, last)) \in Nat
    BY <1>4, PointsAre, ResidualInt, FS_CardinalityType
  <2>3. MinFit \in Int
    <3>1. PICK a \in Int, b \in Int : a = LatticeMinFit /\ b = Rows * Cols - 1
      BY LatticeAssumption
    <3>2. \E n \in {a, b} : \A m \in {a, b} : n <= m
      BY <3>1
    <3> QED
      BY <3>1, <3>2 DEF MinFit, Min
  <2> QED
    BY <2>1, <2>2, <2>3
<1>6. Refined(pts, last) \in Int /\ lo <= Refined(pts, last) /\ Refined(pts, last) <= hi
  <2>1. Cardinality(Matched(pts, last)) \in Nat
    BY <1>4, PointsAre, ResidualInt, FS_CardinalityType
  <2>2. ~(Cardinality(Matched(pts, last)) < 3)
    BY <1>5, <2>1
  <2> HIDE DEF last
  <2> QED
    BY <1>4, <2>2, RefinedBetween
<1>7. Fit(pts, x0).x = Refined(pts, last)
  <2>1. pose[Iters] = Refined(pts, last)
    BY <1>1, PosesFollow
  <2> QED
    BY <2>1 DEF Fit
<1> QED
  BY <1>6, <1>7

-----------------------------------------------------------------------------
(* How a tray may look.                                                     *)

LEMMA FilmIs ==
  ASSUME film \in Films
  PROVE  /\ Frames = 1 .. Len(film) /\ Len(film) \in Nat
         /\ \A f \in Frames :
              /\ film[f].whole \subseteq Trays
              /\ \A tray \in Trays : /\ film[f].filled[tray] \subseteq Grid
                                     /\ film[f].filled[tray] \in Looks
                                     /\ film[f].err[tray] \in MaskErrs
                                     /\ film[f].off[tray] \in Slack
         /\ \A f, g \in Frames, tray \in Trays :
              f <= g => film[f].filled[tray] \subseteq film[g].filled[tray]
<1> DEFINE Scenes == [whole : SUBSET Trays, filled : [Trays -> SUBSET Grid],
                      err : [Trays -> MaskErrs], off : [Trays -> Slack]]
<1>1. film \in Seq(Scenes)
  BY VacancyAssumption
<1>2. Frames = 1 .. Len(film) /\ Len(film) \in Nat
  BY <1>1 DEF Frames
<1>3. \A f \in Frames : film[f] \in Scenes
  <2> HIDE DEF Scenes
  <2> QED
    BY <1>1, <1>2
<1>4. \A f \in Frames : /\ film[f].whole \subseteq Trays /\ film[f].filled \in [Trays -> SUBSET Grid]
                        /\ film[f].err \in [Trays -> MaskErrs] /\ film[f].off \in [Trays -> Slack]
  BY <1>3
<1>5. \A f \in Frames, tray \in Trays : film[f].filled[tray] \in Looks
  <2> SUFFICES ASSUME NEW f \in Frames, NEW tray \in Trays
               PROVE  film[f].filled[tray] \in Looks
    OBVIOUS
  <2>1. film[f].filled[tray] \in Range(film[f].filled)
    BY <1>4 DEF Range
  <2>2. film[f].filled[tray] \in UNION {Range(film[g].filled) : g \in DOMAIN film}
    BY <2>1 DEF Frames
  <2> QED
    BY <2>2 DEF Looks
<1>6. \A f, g \in Frames, tray \in Trays :
        f < g => film[f].filled[tray] \subseteq film[g].filled[tray]
  BY VacancyAssumption DEF Frames
<1>7. \A f, g \in Frames : f <= g => f < g \/ f = g
  BY <1>2
<1> QED
  BY <1>2, <1>4, <1>5, <1>6, <1>7

LEMMA LooksAre == Looks \subseteq SUBSET Grid
<1> SUFFICES ASSUME NEW O \in Looks PROVE O \subseteq Grid
  OBVIOUS
<1> DEFINE Scenes == [whole : SUBSET Trays, filled : [Trays -> SUBSET Grid],
                      err : [Trays -> MaskErrs], off : [Trays -> Slack]]
<1>1. PICK x \in Films : \E f \in DOMAIN x : O \in Range(x[f].filled)
  BY DEF Looks
<1>2. x \in Seq(Scenes)
  BY VacancyAssumption
<1>3. PICK f \in DOMAIN x : O \in Range(x[f].filled)
  BY <1>1
<1>4. x[f] \in Scenes
  <2> HIDE DEF Scenes
  <2> QED
    BY <1>2, <1>3
<1>5. x[f].filled \in [Trays -> SUBSET Grid]
  BY <1>4
<1> QED
  BY <1>3, <1>5 DEF Range

LEMMA ViewIs ==
  ASSUME NEW O \in Looks, NEW P \in Looks, NEW late \in 0 .. Lag,
         NEW e \in MaskErrs, NEW off \in Slack
  PROVE  LET fit == Fit(Points(O, P, V * late, off), e)
         IN /\ fit.x - e \in Int
            /\ Views[O][P][late][e][off] = [dx |-> fit.x - e, believed |-> Believed(fit, e)]
<1>1. O \in SUBSET Grid /\ P \in SUBSET Grid /\ e \in Int /\ off \in Int
  BY LooksAre, VacancyAssumption
<1>2. V * late \in Nat
  <2>1. \A m, n \in Nat : m * n \in Nat
    BY SMT
  <2> QED
    BY <2>1, VacancyAssumption
<1>3. Fit(Points(O, P, V * late, off), e).x \in Int
  BY <1>1, <1>2, PointsAre, FitInt
<1>4. Views[O][P][late][e][off] =
        [dx |-> Correction(Fit(Points(O, P, V * late, off), e), e),
         believed |-> Believed(Fit(Points(O, P, V * late, off), e), e)]
  BY DEF Views
<1> QED
  BY <1>1, <1>3, <1>4 DEF Correction

(* The next track of a list.                                                *)
LEMMA NextTrack ==
  ASSUME NEW list \in SUBSET Nat, list # {}
  PROVE  Min(list) \in list /\ \A n \in list : Min(list) <= n
<1>1. \E n \in list : \A m \in list : n <= m
  BY LeastNatural
<1> QED
  BY <1>1 DEF Min

(* No more are kept than may be.                                            *)
LEMMA TrimKeeps ==
  ASSUME NEW S, IsFiniteSet(S), S \subseteq Nat
  PROVE  IsFiniteSet(Trim(S)) /\ Cardinality(Trim(S)) <= KeepLast
<1> DEFINE R == Trim(S)
<1>1. R \subseteq S /\ KeepLast \in Nat \ {0}
  BY VacancyAssumption DEF Trim
<1>2. IsFiniteSet(R) /\ Cardinality(R) \in Nat
  BY <1>1, FS_Subset, FS_CardinalityType
<1>3. CASE R = {}
  BY <1>1, <1>2, <1>3, FS_EmptySet
<1>4. CASE R # {}
  <2>1. PICK m \in R : \A k \in R : m <= k
    <3>1. R \in SUBSET Nat
      BY <1>1
    <3> HIDE DEF R
    <3> QED
      BY <1>4, <3>1, LeastNatural
  <2> DEFINE L == {g \in S : g > m}
  <2>2. R \ {m} \subseteq L /\ L \subseteq S
    <3>1. \A k \in R \ {m} : k \in Nat /\ m \in Nat /\ m <= k /\ k # m
      BY <1>1, <2>1
    <3>2. \A k \in R \ {m} : k > m
      BY <3>1
    <3> QED
      BY <1>1, <3>2
  <2>3. IsFiniteSet(L) /\ Cardinality(L) \in Nat
    BY <2>2, FS_Subset, FS_CardinalityType
  <2>4. Cardinality(L) < KeepLast
    BY <2>1 DEF Trim
  <2> HIDE DEF L, R
  <2>5. Cardinality(R \ {m}) <= Cardinality(L)
    BY <2>2, <2>3, FS_Subset
  <2>6. Cardinality(R \ {m}) = Cardinality(R) - 1
    BY <1>2, <2>1, FS_RemoveElement
  <2> QED
    BY <1>1, <1>2, <2>3, <2>4, <2>5, <2>6 DEF R
<1> QED
  BY <1>3, <1>4

-----------------------------------------------------------------------------
(* The types.                                                               *)

States == {Idle} \cup Pending \cup Looking

LEMMA InitTypeOK == Init => TypeOK
<1> SUFFICES ASSUME Init PROVE TypeOK
  OBVIOUS
<1>1. Cardinality(masks) <= KeepLast
  BY FS_EmptySet, VacancyAssumption DEF Init
<1>2. /\ film \in Films /\ wire \subseteq Frames \X {"det", "mask"}
      /\ masks \subseteq Frames /\ det \subseteq Frames /\ runs \in [Frames -> Nat]
  BY DEF Init
<1>3. work \in [Workers -> States] /\ \A w \in Workers : Sound(work[w])
  BY DEF Init, States, Sound, Idle
<1>4. /\ objs \in Seq([id : Nat, x : Int, stamp : Frames]) /\ tracks \subseteq 1 .. Len(objs)
      /\ nextId \in Nat /\ overlap \in BOOLEAN
      /\ DOMAIN corr \subseteq Nat \cup {NoKey} /\ \A k \in DOMAIN corr : corr[k] \in Int
  <2>1. objs = <<>> /\ tracks = {} /\ nextId = 1 /\ overlap = FALSE /\ corr = [k \in {} |-> 0]
    BY DEF Init
  <2>2. \A S : <<>> \in Seq(S)
    OBVIOUS
  <2>3. DOMAIN corr = {}
    BY <2>1
  <2> QED
    BY <2>1, <2>2, <2>3, Zenon
<1> QED
  BY <1>1, <1>2, <1>3, <1>4 DEF TypeOK, States

(* Tracks only come, so what a thread is in the middle of stays so.         *)
LEMMA StatesStay ==
  ASSUME film' = film, Len(objs) \in Nat, Len(objs)' \in Nat, Len(objs) <= Len(objs)'
  PROVE  States \subseteq States'
<1>1. SUBSET (1 .. Len(objs)) \subseteq (SUBSET (1 .. Len(objs)))'
  BY Z3
<1>2. Frames' = Frames
  BY DEF Frames
<1>3. Looking \subseteq Looking' /\ Pending' = Pending
  BY <1>1, <1>2 DEF Looking, Pending
<1> QED
  BY <1>3 DEF States

LEMMA WorkMoves ==
  ASSUME TypeOK, NEW w \in Workers, NEW r, r \in States', Sound(r),
         work' = [work EXCEPT ![w] = r], States \subseteq States'
  PROVE  work' \in [Workers -> States'] /\ \A v \in Workers : Sound(work'[v])
<1>1. work \in [Workers -> States] /\ \A v \in Workers : Sound(work[v])
  BY DEF TypeOK, States
<1>2. \A v \in Workers : work'[v] = IF v = w THEN r ELSE work[v]
  BY <1>1
<1>3. \A v \in Workers : Sound(work'[v])
  BY <1>1, <1>2
<1> QED
  BY <1>1, <1>3

LEMMA AheadTyped ==
  ASSUME NEW f \in Frames, NEW d \in Frames, NEW todo \in SUBSET Trays, d \in f .. f + Lag
  PROVE  Ahead(f, d, todo) \in States /\ Sound(Ahead(f, d, todo))
BY DEF Ahead, States, Pending, Sound, Idle

Objs == [id : Nat, x : Int, stamp : Frames]
Steps == {"search", "look", "place", "get", "set", "update", "prune", "bump"}

LEMMA JobIs ==
  ASSUME TypeOK, NEW w \in Workers
  PROVE  /\ Job(w).at = "next" => Job(w) \in Pending
         /\ Job(w).at \in Steps => Job(w) \in Looking
<1>1. Job(w) \in {Idle} \cup Pending \cup Looking
  BY DEF Job, TypeOK
<1>2. Idle.at = "idle"
  BY DEF Idle
<1>3. \A j \in Pending : j.at = "next"
  BY DEF Pending
<1>4. \A j \in Looking : j.at \in Steps
  BY DEF Looking, Steps
<1> QED
  BY <1>1, <1>2, <1>3, <1>4 DEF Steps

LEMMA ObjsAre ==
  ASSUME TypeOK
  PROVE  /\ objs \in Seq(Objs) /\ Len(objs) \in Nat /\ tracks \subseteq 1 .. Len(objs)
         /\ \A n \in 1 .. Len(objs) :
              objs[n].id \in Nat /\ objs[n].x \in Int /\ objs[n].stamp \in Frames
         /\ Frames \subseteq Nat
<1>1. objs \in Seq(Objs) /\ tracks \subseteq 1 .. Len(objs)
  BY DEF TypeOK, Objs
<1>2. Len(objs) \in Nat /\ \A n \in 1 .. Len(objs) : objs[n] \in Objs
  BY <1>1
<1>3. Frames \subseteq Nat
  BY FilmIs DEF TypeOK
<1> QED
  BY <1>1, <1>2, <1>3 DEF Objs

LEMMA BeginIs ==
  ASSUME TypeOK, NEW w \in Workers, NEW f \in Frames, Begin(w, f)
  PROVE  /\ runs' = [runs EXCEPT ![f] = runs[f] + 1]
         /\ \E d \in Frames : f <= d /\ d <= f + Lag
              /\ work' = [work EXCEPT ![w] = Ahead(f, d, film[f].whole)]
<1>1. PICK d \in f .. Min({f + Lag, Len(film)}) :
           work' = [work EXCEPT ![w] = Ahead(f, d, film[f].whole)]
  BY DEF Begin
<1>2. Frames = 1 .. Len(film) /\ Len(film) \in Nat /\ Lag \in Nat
  BY FilmIs, VacancyAssumption DEF TypeOK
<1>3. PICK a \in Int, b \in Int : a = f + Lag /\ b = Len(film)
  BY <1>2
<1>4. Min({a, b}) \in {a, b} /\ Min({a, b}) <= a /\ Min({a, b}) <= b
  <2>1. \E n \in {a, b} : \A m \in {a, b} : n <= m
    OBVIOUS
  <2> QED
    BY <2>1 DEF Min
<1>5. d \in Frames /\ f <= d /\ d <= f + Lag
  BY <1>2, <1>3, <1>4
<1> QED
  BY <1>1, <1>5 DEF Begin

LEMMA BeginTyped ==
  ASSUME TypeOK, NEW w \in Workers, NEW f \in Frames, Begin(w, f), film' = film, objs' = objs
  PROVE  /\ runs' \in [Frames -> Nat]
         /\ work' \in [Workers -> States'] /\ \A v \in Workers : Sound(work'[v])
<1>1. PICK d \in Frames : /\ f <= d /\ d <= f + Lag
                         /\ work' = [work EXCEPT ![w] = Ahead(f, d, film[f].whole)]
  BY BeginIs
<1>2. film[f].whole \in SUBSET Trays
  BY FilmIs DEF TypeOK
<1>3. Ahead(f, d, film[f].whole) \in States /\ Sound(Ahead(f, d, film[f].whole))
  <2>1. d \in f .. f + Lag
    BY <1>1, ObjsAre, VacancyAssumption
  <2> QED
    BY <1>2, <2>1, AheadTyped
<1>4. Len(objs) \in Nat
  BY DEF TypeOK
<1>5. States \subseteq States'
  BY <1>4, StatesStay
<1>6. work' \in [Workers -> States'] /\ \A v \in Workers : Sound(work'[v])
  BY <1>1, <1>3, <1>5, WorkMoves
<1>7. runs' \in [Frames -> Nat]
  <2>1. runs' = [runs EXCEPT ![f] = runs[f] + 1] /\ Frames' = Frames
    BY BeginIs DEF Frames
  <2> QED
    BY <2>1 DEF TypeOK
<1> QED
  BY <1>6, <1>7

LEMMA StoresTyped ==
  ASSUME TypeOK, NEW w \in Workers, NEW f \in Frames, OnDet(w, f) \/ OnMasks(w, f)
  PROVE  TypeOK'
<1>1. /\ film' = film /\ wire' \subseteq wire
      /\ UNCHANGED <<objs, tracks, nextId, corr, overlap>>
  BY DEF OnDet, OnMasks, Takes, ids
<1>2. Frames' = Frames
  BY <1>1 DEF Frames
<1>3. Len(objs) \in Nat /\ States \subseteq States'
  <2>1. Len(objs) \in Nat
    BY DEF TypeOK
  <2> QED
    BY <1>1, <2>1, StatesStay
<1>4. /\ runs' \in [Frames -> Nat]
      /\ work' \in [Workers -> States'] /\ \A v \in Workers : Sound(work'[v])
  <2>1. CASE UNCHANGED <<runs, work>>
    BY <1>3, <2>1 DEF TypeOK, States
  <2>2. CASE Begin(w, f)
    BY <1>1, <2>2, BeginTyped
  <2> QED
    BY <2>1, <2>2 DEF OnDet, OnMasks
<1>5. /\ IsFiniteSet(Frames) /\ Frames \subseteq Nat
      /\ IsFiniteSet(masks) /\ Cardinality(masks) \in Nat
  <2>1. Frames = 1 .. Len(film) /\ Len(film) \in Nat
    BY FilmIs DEF TypeOK
  <2>2. IsFiniteSet(Frames) /\ Frames \subseteq Nat
    BY <2>1, FS_Interval
  <2> QED
    BY <2>2, FS_Subset, FS_CardinalityType DEF TypeOK
<1>6. masks' \subseteq Frames /\ Cardinality(masks') <= KeepLast /\ det' \subseteq Frames
  <2>1. CASE OnDet(w, f)
    <3>1. masks' \subseteq masks /\ det' = det \cup {f}
      BY <2>1 DEF OnDet
    <3>2. Cardinality(masks') \in Nat /\ Cardinality(masks') <= Cardinality(masks)
      BY <1>5, <3>1, FS_Subset, FS_CardinalityType
    <3>3. Cardinality(masks') <= KeepLast
      BY <1>5, <3>2, VacancyAssumption DEF TypeOK
    <3>4. masks \subseteq Frames /\ det \subseteq Frames
      BY DEF TypeOK
    <3> QED
      BY <3>1, <3>3, <3>4
  <2>2. CASE OnMasks(w, f) /\ f \in det
    BY <2>2 DEF OnMasks, TypeOK
  <2>3. CASE OnMasks(w, f) /\ f \notin det
    <3>1. masks' = Trim(masks \cup {f}) /\ det' = Trim(det)
      BY <2>3 DEF OnMasks
    <3>2. IsFiniteSet(masks \cup {f}) /\ masks \cup {f} \subseteq Frames
      BY <1>5, FS_AddElement DEF TypeOK
    <3>3. Cardinality(Trim(masks \cup {f})) <= KeepLast
      BY <1>5, <3>2, TrimKeeps
    <3> QED
      BY <3>1, <3>2, <3>3 DEF Trim, TypeOK
  <2> QED
    BY <2>1, <2>2, <2>3
<1> QED
  BY <1>1, <1>2, <1>4, <1>6 DEF TypeOK, States

(* A thread goes on with a tray.                                            *)
LEMMA GoesOn ==
  ASSUME TypeOK, NEW w \in Workers, NEW r, r \in Looking', Sound(r),
         work' = [work EXCEPT ![w] = r],
         UNCHANGED <<film, wire, stores, objs, tracks, nextId>>, overlap' \in BOOLEAN,
         DOMAIN corr' \subseteq Nat \cup {NoKey}, \A k \in DOMAIN corr' : corr'[k] \in Int
  PROVE  TypeOK'
<1>1. Len(objs) \in Nat /\ UNCHANGED <<masks, det, runs>>
  BY ObjsAre DEF stores
<1>2. States \subseteq States'
  BY <1>1, StatesStay
<1>3. work' \in [Workers -> States'] /\ \A v \in Workers : Sound(work'[v])
  BY <1>2, WorkMoves DEF States
<1>4. Frames' = Frames
  BY DEF Frames
<1>5. UNCHANGED <<film, wire, masks, det, runs, objs, tracks, nextId>>
  BY <1>1
<1> QED
  BY <1>3, <1>4, <1>5 DEF TypeOK, States

(* A thread goes on to r, and nothing else changes.                         *)
LEMMA GoesOnTo ==
  ASSUME TypeOK, NEW w \in Workers, NEW r \in Looking, Sound(r), work' = [work EXCEPT ![w] = r],
         UNCHANGED <<film, wire, stores, ids, corr>>, overlap' \in BOOLEAN
  PROVE  TypeOK'
<1>1. UNCHANGED <<film, wire, stores, objs, tracks, nextId, corr>>
  BY DEF ids
<1>2. r \in Looking'
  BY <1>1 DEF Looking, Frames
<1>3. DOMAIN corr' \subseteq Nat \cup {NoKey} /\ \A k \in DOMAIN corr' : corr'[k] \in Int
  BY <1>1 DEF TypeOK
<1> QED
  BY <1>1, <1>2, <1>3, GoesOn

(* What a thread knows once it has seen a tray.                             *)
Seen(w, tray, assign, x, dx) ==
  [at |-> "search", assign |-> assign, frame |-> Job(w).frame, depth |-> Job(w).depth,
   todo |-> Job(w).todo \ {tray}, tray |-> tray, x |-> x, dx |-> dx,
   key |-> NoKey, rest |-> {}, since |-> 0, kept |-> {}]

LEMMA SeenAre ==
  ASSUME TypeOK, NEW w \in Workers, Locate(w)
  PROVE  \E tray \in Trays, e \in MaskErrs, off \in Slack, O \in Looks, P \in Looks,
            late \in 0 .. Lag, x \in Int :
           LET fit == Fit(Points(O, P, V * late, off), e)
           IN /\ tray \in Job(w).todo /\ x = At(tray, Job(w).frame) + e
              /\ \/ /\ Believed(fit, e)
                    /\ \E dx \in Int : /\ dx = fit.x - e
                                      /\ work' = [work EXCEPT ![w] = Seen(w, tray, FALSE, x, dx)]
                 \/ work' = [work EXCEPT ![w] = Seen(w, tray, TRUE, x, 0)]
<1>1. Job(w) \in Pending
  BY JobIs DEF Locate, Going
<1>2. Job(w).frame \in Frames /\ Job(w).depth \in Frames /\ Job(w).todo \subseteq Trays
  BY <1>1 DEF Pending
<1>3. PICK late \in 0 .. Lag : late = Job(w).depth - Job(w).frame
  <2>1. Job(w).depth \in Job(w).frame .. Job(w).frame + Lag
    BY <1>1 DEF TypeOK, Sound, Job, Pending
  <2> QED
    BY <1>2, <2>1, ObjsAre, VacancyAssumption
<1>4. PICK tray \in Job(w).todo :
        LET f == Job(w).frame
            e == film[f].err[tray]
            view == Views[film[f].filled[tray]][film[Job(w).depth].filled[tray]][late][e]
                         [film[f].off[tray]]
        IN work' = [work EXCEPT ![w] =
             Seen(w, tray, ~view.believed, At(tray, f) + e, IF view.believed THEN view.dx ELSE 0)]
  BY <1>3 DEF Locate, Seen
<1>5. PICK O \in Looks, P \in Looks, e \in MaskErrs, off \in Slack :
        /\ O = film[Job(w).frame].filled[tray] /\ P = film[Job(w).depth].filled[tray]
        /\ e = film[Job(w).frame].err[tray] /\ off = film[Job(w).frame].off[tray]
        /\ tray \in Trays
  BY <1>2, FilmIs DEF TypeOK
<1>6. PICK dx \in Int : dx = Fit(Points(O, P, V * late, off), e).x - e
  BY ViewIs
<1>7. PICK view : view = Views[O][P][late][e][off]
  OBVIOUS
<1>8. view.dx = dx /\ view.believed = Believed(Fit(Points(O, P, V * late, off), e), e)
  <2>1. view = [dx |-> dx, believed |-> Believed(Fit(Points(O, P, V * late, off), e), e)]
    BY <1>6, <1>7, ViewIs
  <2> QED
    BY <2>1
<1>9. PICK x \in Int : x = At(tray, Job(w).frame) + e
  <2>1. Start[tray] \in Int /\ V \in Int /\ Job(w).frame \in Int /\ e \in Int
    BY <1>2, <1>5, ObjsAre, VacancyAssumption
  <2>2. V * Job(w).frame \in Int
    BY <2>1
  <2>3. At(tray, Job(w).frame) \in Int
    BY <2>1, <2>2 DEF At
  <2> QED
    BY <2>1, <2>3
<1>10. work' = [work EXCEPT ![w] =
          Seen(w, tray, ~view.believed, x, IF view.believed THEN dx ELSE 0)]
  BY <1>4, <1>5, <1>7, <1>8, <1>9
<1>11. CASE view.believed
  <2>1. work' = [work EXCEPT ![w] = Seen(w, tray, FALSE, x, dx)]
    BY <1>10, <1>11
  <2>2. Believed(Fit(Points(O, P, V * late, off), e), e)
    BY <1>8, <1>11
  <2> QED
    BY <1>5, <1>6, <1>9, <2>1, <2>2
<1>12. CASE ~view.believed
  <2>1. work' = [work EXCEPT ![w] = Seen(w, tray, TRUE, x, 0)]
    BY <1>10, <1>12
  <2> QED
    BY <1>5, <1>9, <2>1
<1> QED
  BY <1>11, <1>12

LEMMA LocateTyped ==
  ASSUME TypeOK, NEW w \in Workers, Locate(w)
  PROVE  TypeOK'
<1>1. Job(w) \in Pending
  BY JobIs DEF Locate, Going
<1>2. PICK tray \in Trays, x \in Int, dx \in Int, assign \in BOOLEAN :
        work' = [work EXCEPT ![w] = Seen(w, tray, assign, x, dx)]
  <2>1. PICK tray \in Trays, x \in Int :
          \/ \E dx \in Int : work' = [work EXCEPT ![w] = Seen(w, tray, FALSE, x, dx)]
          \/ work' = [work EXCEPT ![w] = Seen(w, tray, TRUE, x, 0)]
    <3>1. PICK tray \in Trays, e \in MaskErrs, off \in Slack, O \in Looks, P \in Looks,
               late \in 0 .. Lag, x \in Int :
             LET fit == Fit(Points(O, P, V * late, off), e)
             IN /\ tray \in Job(w).todo /\ x = At(tray, Job(w).frame) + e
                /\ \/ /\ Believed(fit, e)
                      /\ \E dx \in Int : /\ dx = fit.x - e
                                        /\ work' = [work EXCEPT ![w] = Seen(w, tray, FALSE, x, dx)]
                   \/ work' = [work EXCEPT ![w] = Seen(w, tray, TRUE, x, 0)]
      BY SeenAre, Zenon
    <3> QED
      BY <3>1
  <2>2. 0 \in Int /\ FALSE \in BOOLEAN /\ TRUE \in BOOLEAN
    OBVIOUS
  <2> QED
    BY <2>1, <2>2, Zenon
<1>3. UNCHANGED <<film, wire, stores, ids, corr>> /\ overlap' \in BOOLEAN
  BY DEF Locate, TypeOK
<1>4. Seen(w, tray, assign, x, dx) \in Looking
  <2>1. Job(w).frame \in Frames /\ Job(w).depth \in Frames /\ Job(w).todo \subseteq Trays
    BY <1>1 DEF Pending
  <2> QED
    BY <2>1 DEF Seen, Looking
<1>5. Sound(Seen(w, tray, assign, x, dx))
  <2>1. Job(w).depth \in Job(w).frame .. Job(w).frame + Lag
    BY <1>1 DEF TypeOK, Sound, Job, Pending
  <2> QED
    BY <2>1 DEF Sound, Seen
<1> QED
  BY <1>2, <1>3, <1>4, <1>5, GoesOnTo

(* A correction is as wide as what it is made of.                           *)
LEMMA SmoothedBetween ==
  ASSUME NEW lo \in Int, NEW hi \in Int, NEW p \in Int, NEW d \in Int,
         lo <= p, p <= hi, lo <= d, d <= hi
  PROVE  Smoothed(p, d) \in Int /\ lo <= Smoothed(p, d) /\ Smoothed(p, d) <= hi
<1>1. PICK s \in Int : s = 7 * p + 3 * d /\ 10 * lo <= s /\ s <= 10 * hi
  <2>1. 7 * p + 3 * d \in Int
    OBVIOUS
  <2> QED
    BY <2>1
<1>2. Smoothed(p, d) = Nearest(s, 10)
  BY <1>1 DEF Smoothed
<1> QED
  BY <1>1, <1>2, NearestBetween, NearestInt

(* The correction a thread is about to apply.                               *)
Smoothing(job, c) == [job EXCEPT !.at = "set", !.dx = c]

LEMMA GetIs ==
  ASSUME TypeOK, NEW w \in Workers, GetCorr(w)
  PROVE  \E job \in Looking, c \in Int :
           /\ job = Job(w) /\ job.at = "get"
           /\ c = job.dx \/ (job.key \in DOMAIN corr /\ c = Smoothed(corr[job.key], job.dx))
           /\ work' = [work EXCEPT ![w] = Smoothing(job, c)]
<1>1. PICK job \in Looking : job = Job(w) /\ job.at = "get"
  BY JobIs DEF GetCorr, Going, Steps
<1>2. job.dx \in Int
  BY DEF Looking
<1>3. PICK c : c = IF job.key \in DOMAIN corr THEN Smoothed(corr[job.key], job.dx) ELSE job.dx
  OBVIOUS
<1>4. c \in Int
  <2>1. job.key \in DOMAIN corr => corr[job.key] \in Int
    BY DEF TypeOK
  <2>2. \A p, d \in Int : Smoothed(p, d) \in Int
    BY DEF Smoothed, Nearest
  <2> QED
    BY <1>2, <1>3, <2>1, <2>2
<1>5. work' = [work EXCEPT ![w].at = "set", ![w].dx = c]
  BY <1>1, <1>3 DEF GetCorr
<1>6. work' = [work EXCEPT ![w] = Smoothing(job, c)]
  BY <1>1, <1>5 DEF Smoothing, Job, TypeOK, Looking
<1> QED
  BY <1>1, <1>3, <1>4, <1>6

LEMMA GetTyped ==
  ASSUME TypeOK, NEW w \in Workers, GetCorr(w)
  PROVE  TypeOK'
<1>1. PICK job \in Looking, c \in Int : /\ job = Job(w) /\ job.at = "get"
                                       /\ work' = [work EXCEPT ![w] = Smoothing(job, c)]
  BY GetIs
<1>2. Smoothing(job, c) \in Looking
  BY DEF Looking, Smoothing
<1>3. Sound(Smoothing(job, c))
  <2>1. Sound(job)
    BY <1>1 DEF TypeOK, Job
  <2> QED
    BY <1>1, <2>1 DEF Sound, Smoothing, Looking
<1>4. UNCHANGED <<film, wire, stores, ids, corr>> /\ overlap' \in BOOLEAN
  BY DEF GetCorr, TypeOK
<1> QED
  BY <1>1, <1>2, <1>3, <1>4, GoesOnTo

(* What a thread knows once it has corrected the pose of a tray.            *)
Corrected(job) == [job EXCEPT !.at = "search", !.assign = TRUE, !.x = job.x + job.dx]

LEMMA SetIs ==
  ASSUME TypeOK, NEW w \in Workers, SetCorr(w)
  PROVE  \E job \in Looking :
           /\ job = Job(w) /\ job.at = "set"
           /\ DOMAIN corr' = DOMAIN corr \cup {job.key}
           /\ \A n \in DOMAIN corr' : corr'[n] = IF n = job.key THEN job.dx ELSE corr[n]
           /\ work' = [work EXCEPT ![w] = Corrected(job)]
<1>1. PICK job \in Looking : job = Job(w) /\ job.at = "set"
  BY JobIs DEF SetCorr, Going, Steps
<1>2. corr' = [n \in DOMAIN corr \cup {job.key} |-> IF n = job.key THEN job.dx ELSE corr[n]]
  BY <1>1 DEF SetCorr
<1>3. work' = [work EXCEPT ![w].at = "search", ![w].assign = TRUE, ![w].x = @ + job.dx]
  BY <1>1 DEF SetCorr
<1>4. work' = [work EXCEPT ![w] = Corrected(job)]
  BY <1>1, <1>3 DEF Corrected, Job, TypeOK, Looking
<1>5. /\ DOMAIN corr' = DOMAIN corr \cup {job.key}
      /\ \A n \in DOMAIN corr' : corr'[n] = IF n = job.key THEN job.dx ELSE corr[n]
  BY <1>2
<1> QED
  BY <1>1, <1>4, <1>5, Zenon

LEMMA SetTyped ==
  ASSUME TypeOK, NEW w \in Workers, SetCorr(w)
  PROVE  TypeOK'
<1>1. PICK job \in Looking :
        /\ job = Job(w) /\ job.at = "set"
        /\ DOMAIN corr' = DOMAIN corr \cup {job.key}
        /\ \A n \in DOMAIN corr' : corr'[n] = IF n = job.key THEN job.dx ELSE corr[n]
        /\ work' = [work EXCEPT ![w] = Corrected(job)]
  BY SetIs, Zenon
<1>2. UNCHANGED <<film, wire, stores, objs, tracks, nextId>> /\ overlap' \in BOOLEAN
  BY DEF SetCorr, ids, TypeOK
<1>3. Corrected(job) \in Looking'
  <2>1. PICK y \in Int : y = job.x + job.dx
    BY DEF Looking
  <2>2. [job EXCEPT !.at = "search", !.assign = TRUE, !.x = y] \in Looking
    BY DEF Looking
  <2>3. Looking' = Looking
    BY <1>2 DEF Looking, Frames
  <2> QED
    BY <2>1, <2>2, <2>3 DEF Corrected
<1>4. Sound(Corrected(job))
  <2>1. Sound(job)
    BY <1>1 DEF TypeOK, Job
  <2> QED
    BY <1>1, <2>1 DEF Sound, Corrected, Looking
<1>5. DOMAIN corr' \subseteq Nat \cup {NoKey} /\ \A k \in DOMAIN corr' : corr'[k] \in Int
  <2>1. job.key \in Nat \cup {NoKey} /\ job.dx \in Int
    BY DEF Looking
  <2> QED
    BY <1>1, <2>1 DEF TypeOK
<1> QED
  BY <1>1, <1>2, <1>3, <1>4, <1>5, GoesOn

(* A tray is done with.                                                     *)
LEMMA DoneTyped ==
  ASSUME TypeOK, NEW w \in Workers, Job(w) \in Looking, NEW id, Publish(w, id),
         film' = film, Len(objs)' \in Nat, Len(objs) <= Len(objs)'
  PROVE  work' \in [Workers -> States'] /\ \A v \in Workers : Sound(work'[v])
<1>1. /\ Job(w).frame \in Frames /\ Job(w).depth \in Frames /\ Job(w).todo \in SUBSET Trays
      /\ Job(w).at # "idle" /\ Sound(Job(w))
  BY DEF Looking, TypeOK, Job
<1>2. /\ Ahead(Job(w).frame, Job(w).depth, Job(w).todo) \in States
      /\ Sound(Ahead(Job(w).frame, Job(w).depth, Job(w).todo))
  BY <1>1, AheadTyped DEF Sound
<1>3. States \subseteq States'
  BY ObjsAre, StatesStay
<1> QED
  BY <1>2, <1>3, WorkMoves DEF Publish

(* What a thread knows on its walk through a list.                          *)
Passed(f, stamp) == IF f > stamp THEN f - stamp ELSE 0
AtTrack(job, list, s) == [job EXCEPT !.at = "place", !.rest = list, !.since = s]
Keyless(job) == [job EXCEPT !.at = "get", !.rest = {}]
Pruning(job, list) == [job EXCEPT !.at = "prune", !.rest = list, !.kept = {}]

ReadsOn(w, job, list) ==
  \/ /\ list # {} /\ overlap' = overlap
     /\ Min(list) \in list /\ \A n \in list : Min(list) <= n
     /\ \E s \in Nat :
          /\ s = Passed(job.frame, objs[Min(list)].stamp)
          /\ work' = [work EXCEPT ![w] = AtTrack(job, list, s)]
  \/ /\ list = {} /\ ~job.assign /\ overlap' = overlap
     /\ work' = [work EXCEPT ![w] = Keyless(job)]
  \/ /\ list = {} /\ job.assign
     /\ overlap' = (overlap \/ \E v \in Workers \ {w} : Making(v))
     /\ work' = [work EXCEPT ![w] = Pruning(job, tracks)]

LEMMA ReadsIs ==
  ASSUME TypeOK, NEW w \in Workers, Search(w) \/ Look(w)
  PROVE  \E job \in Looking, list \in SUBSET (1 .. Len(objs)) :
           /\ job = Job(w)
           /\ (job.at = "search" /\ list = tracks) \/ (job.at = "look" /\ list = job.rest)
           /\ ReadsOn(w, job, list)
<1>1. PICK job \in Looking : job = Job(w) /\ job.at \in {"search", "look"}
  BY JobIs DEF Search, Look, Going, Steps
<1>2. PICK list \in SUBSET (1 .. Len(objs)) :
        /\ (job.at = "search" /\ list = tracks) \/ (job.at = "look" /\ list = job.rest)
        /\ Reads(w, list)
  <2>1. job.rest \subseteq 1 .. Len(objs) /\ tracks \subseteq 1 .. Len(objs)
    BY ObjsAre DEF Looking
  <2> QED
    BY <1>1, <2>1 DEF Search, Look, Going
<1>3. work \in [Workers -> States] /\ job = work[w]
  BY <1>1 DEF TypeOK, States, Job
<1>4. CASE list # {}
  <2>1. Min(list) \in list /\ \A n \in list : Min(list) <= n
    <3>1. 1 .. Len(objs) \subseteq Nat
      BY ObjsAre
    <3> QED
      BY <1>4, <3>1, NextTrack
  <2>2. PICK s : s = Passed(job.frame, objs[Min(list)].stamp)
    OBVIOUS
  <2>3. s \in Nat
    <3>1. PICK f \in Nat, g \in Nat : f = job.frame /\ g = objs[Min(list)].stamp
      BY <2>1, ObjsAre DEF Looking
    <3>2. s = IF f > g THEN f - g ELSE 0
      BY <2>2, <3>1 DEF Passed
    <3>3. f > g => f - g \in Nat
      OBVIOUS
    <3> QED
      BY <3>2, <3>3
  <2>4. /\ work' = [work EXCEPT ![w].at = "place", ![w].rest = list, ![w].since = s]
        /\ overlap' = overlap
    BY <1>1, <1>2, <1>4, <2>2 DEF Reads, Passed
  <2>5. work' = [work EXCEPT ![w] = AtTrack(job, list, s)]
    BY <1>3, <2>4 DEF AtTrack, Looking
  <2>6. ReadsOn(w, job, list)
    BY <1>4, <2>1, <2>2, <2>3, <2>4, <2>5 DEF ReadsOn
  <2> QED
    BY <1>1, <1>2, <2>6
<1>5. CASE list = {} /\ ~job.assign
  <2>1. /\ work' = [work EXCEPT ![w].at = "get", ![w].rest = {}]
        /\ overlap' = overlap
    BY <1>1, <1>2, <1>5 DEF Reads
  <2>2. work' = [work EXCEPT ![w] = Keyless(job)]
    BY <1>3, <2>1 DEF Keyless, Looking
  <2>3. ReadsOn(w, job, list)
    BY <1>5, <2>1, <2>2 DEF ReadsOn
  <2> QED
    BY <1>1, <1>2, <2>3
<1>6. CASE list = {} /\ job.assign
  <2>1. /\ work' = [work EXCEPT ![w].at = "prune", ![w].rest = tracks, ![w].kept = {}]
        /\ overlap' = (overlap \/ \E v \in Workers \ {w} : Making(v))
    BY <1>1, <1>2, <1>6 DEF Reads
  <2>2. work' = [work EXCEPT ![w] = Pruning(job, tracks)]
    BY <1>3, <2>1 DEF Pruning, Looking
  <2>3. ReadsOn(w, job, list)
    BY <1>6, <2>1, <2>2 DEF ReadsOn
  <2> QED
    BY <1>1, <1>2, <2>3
<1> QED
  BY <1>4, <1>5, <1>6

LEMMA ReadsTyped ==
  ASSUME TypeOK, NEW w \in Workers, Search(w) \/ Look(w)
  PROVE  TypeOK'
<1>1. PICK job \in Looking, list \in SUBSET (1 .. Len(objs)) :
        /\ job = Job(w)
        /\ (job.at = "search" /\ list = tracks) \/ (job.at = "look" /\ list = job.rest)
        /\ ReadsOn(w, job, list)
  BY ReadsIs
<1>2. UNCHANGED <<film, wire, stores, ids, corr>> /\ overlap' \in BOOLEAN
  <2>1. overlap \in BOOLEAN /\ \A b \in BOOLEAN : (overlap \/ b) \in BOOLEAN
    BY DEF TypeOK
  <2>2. overlap' = overlap \/ overlap' = (overlap \/ \E v \in Workers \ {w} : Making(v))
    BY <1>1 DEF ReadsOn
  <2>3. UNCHANGED <<film, wire, stores, ids, corr>>
    BY DEF Search, Look
  <2> QED
    BY <2>1, <2>2, <2>3
<1>3. /\ \A s \in Nat : AtTrack(job, list, s) \in Looking
      /\ Keyless(job) \in Looking /\ Pruning(job, tracks) \in Looking
  BY ObjsAre DEF Looking, AtTrack, Keyless, Pruning
<1>4. /\ \A s \in Nat : list # {} /\ s < job.frame => Sound(AtTrack(job, list, s))
      /\ Sound(Keyless(job)) /\ Sound(Pruning(job, tracks))
  <2>1. Sound(job) /\ job.at # "idle"
    BY <1>1 DEF TypeOK, Job, Looking
  <2> QED
    BY <2>1 DEF Sound, AtTrack, Keyless, Pruning, Looking
<1>5. list # {} => Passed(job.frame, objs[Min(list)].stamp) < job.frame
  <2> SUFFICES ASSUME list # {} PROVE Passed(job.frame, objs[Min(list)].stamp) < job.frame
    OBVIOUS
  <2>1. PICK g \in Frames, f \in Frames : g = objs[Min(list)].stamp /\ f = job.frame
    BY <1>1, ObjsAre DEF ReadsOn, Looking
  <2>2. f \in Nat \ {0} /\ g \in Nat \ {0}
    BY FilmIs DEF TypeOK
  <2> QED
    BY <2>1, <2>2 DEF Passed
<1>6. \E r \in Looking : Sound(r) /\ work' = [work EXCEPT ![w] = r]
  BY <1>1, <1>3, <1>4, <1>5 DEF ReadsOn
<1> QED
  BY <1>2, <1>6, GoesOnTo

(* What a thread knows once it has compared a track.                        *)
Further(job, n) == [job EXCEPT !.at = "look", !.rest = job.rest \ {n}]
Settled(job) == [job EXCEPT !.at = "update"]
Keyed(job, id) == [job EXCEPT !.at = "get", !.key = id]

LEMMA PlaceIs ==
  ASSUME TypeOK, NEW w \in Workers, Place(w)
  PROVE  \E job \in Looking, n \in 1 .. Len(objs) :
           /\ job = Job(w) /\ job.at = "place"
           /\ n = Min(job.rest) /\ n \in job.rest /\ \A m \in job.rest : n <= m
           /\ \/ ~Fits(w, n) /\ work' = [work EXCEPT ![w] = Further(job, n)]
              \/ Fits(w, n) /\ job.assign /\ work' = [work EXCEPT ![w] = Settled(job)]
              \/ Fits(w, n) /\ ~job.assign /\ work' = [work EXCEPT ![w] = Keyed(job, objs[n].id)]
<1>1. PICK job \in Looking : job = Job(w) /\ job.at = "place"
  BY JobIs DEF Place, Going, Steps
<1>2. PICK n \in 1 .. Len(objs) :
        n = Min(job.rest) /\ n \in job.rest /\ \A m \in job.rest : n <= m
  <2>1. job.rest \subseteq 1 .. Len(objs) /\ 1 .. Len(objs) \subseteq Nat
    BY ObjsAre DEF Looking
  <2>2. job.rest # {}
    BY <1>1 DEF TypeOK, Sound, Job
  <2> QED
    BY <2>1, <2>2, NextTrack
<1>3. work \in [Workers -> States] /\ job = work[w]
  BY <1>1 DEF TypeOK, States, Job
<1>4. work' = [work EXCEPT ![w] =
         IF ~Fits(w, n) THEN [job EXCEPT !.at = "look", !.rest = job.rest \ {n}]
         ELSE IF job.assign THEN [job EXCEPT !.at = "update"]
         ELSE [job EXCEPT !.at = "get", !.key = objs[n].id]]
  BY <1>1, <1>2 DEF Place
<1>5. CASE ~Fits(w, n)
  BY <1>1, <1>2, <1>4, <1>5 DEF Further
<1>6. CASE Fits(w, n) /\ job.assign
  BY <1>1, <1>2, <1>4, <1>6 DEF Settled
<1>7. CASE Fits(w, n) /\ ~job.assign
  BY <1>1, <1>2, <1>4, <1>7 DEF Keyed
<1> QED
  BY <1>5, <1>6, <1>7

LEMMA PlaceTyped ==
  ASSUME TypeOK, NEW w \in Workers, Place(w)
  PROVE  TypeOK'
<1>1. PICK job \in Looking, n \in 1 .. Len(objs) :
        /\ job = Job(w) /\ job.at = "place"
        /\ n = Min(job.rest) /\ n \in job.rest /\ \A m \in job.rest : n <= m
        /\ \/ ~Fits(w, n) /\ work' = [work EXCEPT ![w] = Further(job, n)]
           \/ Fits(w, n) /\ job.assign /\ work' = [work EXCEPT ![w] = Settled(job)]
           \/ Fits(w, n) /\ ~job.assign /\ work' = [work EXCEPT ![w] = Keyed(job, objs[n].id)]
  BY PlaceIs, Zenon
<1>2. UNCHANGED <<film, wire, stores, ids, corr>> /\ overlap' \in BOOLEAN
  BY DEF Place, TypeOK
<1>3. Further(job, n) \in Looking /\ Settled(job) \in Looking /\ Keyed(job, objs[n].id) \in Looking
  <2>1. objs[n].id \in Nat
    BY ObjsAre
  <2> QED
    BY <2>1 DEF Looking, Further, Settled, Keyed
<1>4. Sound(Further(job, n)) /\ Sound(Settled(job)) /\ Sound(Keyed(job, objs[n].id))
  <2>1. Sound(job)
    BY <1>1 DEF TypeOK, Job
  <2> QED
    BY <1>1, <2>1 DEF Sound, Further, Settled, Keyed, Looking
<1> QED
  BY <1>1, <1>2, <1>3, <1>4, GoesOnTo

LEMMA UpdateIs ==
  ASSUME TypeOK, NEW w \in Workers, Update(w)
  PROVE  \E job \in Looking, n \in 1 .. Len(objs) :
           /\ job = Job(w) /\ job.at = "update"
           /\ n = Min(job.rest) /\ n \in job.rest /\ \A m \in job.rest : n <= m
           /\ objs' = [objs EXCEPT ![n].x = job.x, ![n].stamp = job.frame]
           /\ Len(objs') = Len(objs)
           /\ \A m \in 1 .. Len(objs) :
                objs'[m] = IF m = n THEN [id |-> objs[n].id, x |-> job.x, stamp |-> job.frame]
                           ELSE objs[m]
           /\ Publish(w, objs[n].id)
           /\ UNCHANGED <<film, wire, stores, tracks, nextId, corr, overlap>>
<1>1. PICK job \in Looking : job = Job(w) /\ job.at = "update"
  BY JobIs DEF Update, Going, Steps
<1>2. PICK n \in 1 .. Len(objs) :
        n = Min(job.rest) /\ n \in job.rest /\ \A m \in job.rest : n <= m
  <2>1. job.rest \subseteq 1 .. Len(objs) /\ 1 .. Len(objs) \subseteq Nat
    BY ObjsAre DEF Looking
  <2>2. job.rest # {}
    BY <1>1 DEF TypeOK, Sound, Job
  <2> QED
    BY <2>1, <2>2, NextTrack
<1>3. /\ objs' = [objs EXCEPT ![n].x = job.x, ![n].stamp = job.frame]
      /\ Publish(w, objs[n].id)
      /\ UNCHANGED <<film, wire, stores, tracks, nextId, corr, overlap>>
  BY <1>1, <1>2 DEF Update
<1>4. /\ Len(objs') = Len(objs)
      /\ \A m \in 1 .. Len(objs) :
           objs'[m] = IF m = n THEN [id |-> objs[n].id, x |-> job.x, stamp |-> job.frame]
                      ELSE objs[m]
  <2>1. PICK o \in Objs : o = objs[n]
    BY ObjsAre
  <2>0. PICK x \in Int, f \in Frames : x = job.x /\ f = job.frame
    BY DEF Looking
  <2>2. [o EXCEPT !.x = x, !.stamp = f] = [id |-> o.id, x |-> x, stamp |-> f]
    <3>1. PICK r : r = [o EXCEPT !.x = x, !.stamp = f]
      OBVIOUS
    <3>2. r \in Objs /\ r.id = o.id /\ r.x = x /\ r.stamp = f
      BY <3>1 DEF Objs
    <3>3. r = [id |-> r.id, x |-> r.x, stamp |-> r.stamp]
      BY <3>2 DEF Objs
    <3> QED
      BY <3>1, <3>2, <3>3
  <2>3. objs' = [objs EXCEPT ![n] = [o EXCEPT !.x = x, !.stamp = f]]
    BY <1>3, <2>0, <2>1, ObjsAre
  <2>4. PICK p : p = [id |-> o.id, x |-> x, stamp |-> f]
    OBVIOUS
  <2>5. objs' = [objs EXCEPT ![n] = p]
    BY <2>2, <2>3, <2>4
  <2> HIDE DEF Objs
  <2>6. /\ Len(objs') = Len(objs)
        /\ \A m \in 1 .. Len(objs) : objs'[m] = IF m = n THEN p ELSE objs[m]
    BY <2>5, ObjsAre
  <2> QED
    BY <2>0, <2>1, <2>4, <2>6
<1> QED
  BY <1>1, <1>2, <1>3, <1>4

LEMMA UpdateTyped ==
  ASSUME TypeOK, NEW w \in Workers, Update(w)
  PROVE  TypeOK'
<1>1. PICK job \in Looking, n \in 1 .. Len(objs) :
        /\ job = Job(w)
        /\ objs' = [objs EXCEPT ![n].x = job.x, ![n].stamp = job.frame]
        /\ Len(objs') = Len(objs)
        /\ Publish(w, objs[n].id)
        /\ UNCHANGED <<film, wire, stores, tracks, nextId, corr, overlap>>
  BY UpdateIs, Zenon
<1>2. UNCHANGED <<film, wire, masks, det, runs, tracks, nextId, corr, overlap>>
  BY <1>1 DEF stores
<1>3. Frames' = Frames /\ Objs' = Objs
  BY <1>2 DEF Frames, Objs
<1>4. objs' \in Seq(Objs)
  <2>1. PICK x \in Int, f \in Frames : x = job.x /\ f = job.frame
    BY DEF Looking
  <2>2. PICK o \in Objs : o = objs[n]
    BY ObjsAre
  <2>3. [o EXCEPT !.x = x, !.stamp = f] \in Objs
    BY DEF Objs
  <2>4. objs' = [objs EXCEPT ![n] = [o EXCEPT !.x = x, !.stamp = f]]
    BY <1>1, <2>1, <2>2
  <2> HIDE DEF Objs
  <2> QED
    BY <2>3, <2>4, ObjsAre
<1>5. work' \in [Workers -> States'] /\ \A v \in Workers : Sound(work'[v])
  BY <1>1, <1>2, ObjsAre, DoneTyped
<1> QED
  BY <1>1, <1>2, <1>3, <1>4, <1>5 DEF TypeOK, States, Objs

(* What a thread knows once it has looked at a track to keep it or not.     *)
Young(job, n) == job.frame - objs[n].stamp < Horizon
Sifted(job, n) ==
  [job EXCEPT !.rest = job.rest \ {n}, !.kept = job.kept \cup {m \in {n} : Young(job, m)}]

LEMMA PruneIs ==
  ASSUME TypeOK, NEW w \in Workers, Prune(w)
  PROVE  \E job \in Looking, n \in 1 .. Len(objs) :
           /\ job = Job(w) /\ job.at = "prune" /\ n \in job.rest
           /\ work' = [work EXCEPT ![w] = Sifted(job, n)]
<1>1. PICK job \in Looking : job = Job(w) /\ job.at = "prune" /\ job.rest # {}
  BY JobIs DEF Prune, Going, Steps
<1>2. PICK n \in 1 .. Len(objs) : n = Min(job.rest) /\ n \in job.rest
  <2>1. job.rest \subseteq 1 .. Len(objs) /\ 1 .. Len(objs) \subseteq Nat
    BY ObjsAre DEF Looking
  <2> QED
    BY <1>1, <2>1, NextTrack
<1>3. work \in [Workers -> States] /\ job = work[w]
  BY <1>1 DEF TypeOK, States, Job
<1>4. PICK recent : recent = {m \in {n} : Young(job, m)}
  OBVIOUS
<1>5. work' = [work EXCEPT ![w].rest = @ \ {n}, ![w].kept = @ \cup recent]
  BY <1>1, <1>2, <1>4 DEF Prune, Young
<1>6. work' = [work EXCEPT ![w] = [job EXCEPT !.rest = job.rest \ {n}, !.kept = job.kept \cup recent]]
  BY <1>3, <1>5 DEF Looking
<1> QED
  BY <1>1, <1>2, <1>4, <1>6 DEF Sifted

LEMMA PruneTyped ==
  ASSUME TypeOK, NEW w \in Workers, Prune(w)
  PROVE  TypeOK'
<1>1. PICK job \in Looking, n \in 1 .. Len(objs) :
        /\ job = Job(w) /\ job.at = "prune" /\ n \in job.rest
        /\ work' = [work EXCEPT ![w] = Sifted(job, n)]
  BY PruneIs
<1>2. UNCHANGED <<film, wire, stores, ids, corr>> /\ overlap' \in BOOLEAN
  BY DEF Prune, TypeOK
<1>3. PICK recent \in SUBSET (1 .. Len(objs)) : recent = {m \in {n} : Young(job, m)}
  OBVIOUS
<1>4. Sifted(job, n) = [job EXCEPT !.rest = job.rest \ {n}, !.kept = job.kept \cup recent]
  BY <1>3 DEF Sifted
<1>5. Sifted(job, n) \in Looking
  BY <1>4 DEF Looking
<1>6. Sound(Sifted(job, n))
  <2>1. Sound(job)
    BY <1>1 DEF TypeOK, Job
  <2> QED
    BY <1>1, <1>4, <2>1 DEF Sound, Looking
<1> QED
  BY <1>1, <1>2, <1>5, <1>6, GoesOnTo

LEMMA AppendTyped ==
  ASSUME TypeOK, NEW w \in Workers, AppendTrack(w)
  PROVE  TypeOK'
<1>1. Job(w) \in Looking
  BY JobIs DEF AppendTrack, Going, Steps
<1>2. UNCHANGED <<film, wire, masks, det, runs, nextId, corr, overlap>>
  BY DEF AppendTrack, stores
<1>3. Frames' = Frames
  BY <1>2 DEF Frames
<1>4. objs' \in Seq(Objs) /\ Len(objs') = Len(objs) + 1 /\ Len(objs) \in Nat
  <2>1. PICK o : o = [id |-> nextId, x |-> Job(w).x, stamp |-> Job(w).frame]
    OBVIOUS
  <2>2. o \in Objs
    BY <1>1, <2>1 DEF Looking, Objs, TypeOK
  <2>3. objs' = Append(objs, o)
    BY <2>1 DEF AppendTrack
  <2> HIDE DEF Objs
  <2> QED
    BY <2>2, <2>3, ObjsAre
<1>5. States \subseteq States'
  BY <1>2, <1>4, StatesStay
<1>6. work' \in [Workers -> States'] /\ \A v \in Workers : Sound(work'[v])
  <2>1. work' = [work EXCEPT ![w] = [Job(w) EXCEPT !.at = "bump"]]
    BY DEF AppendTrack, Job
  <2>2. PICK job \in Looking : job = Job(w)
    BY <1>1
  <2>3. [job EXCEPT !.at = "bump"] \in States /\ Sound([job EXCEPT !.at = "bump"])
    <3>1. [job EXCEPT !.at = "bump"] \in Looking
      BY <2>2 DEF Looking
    <3>2. Sound(job) /\ job.at # "idle"
      BY <2>2 DEF TypeOK, Job, Looking
    <3> QED
      BY <3>1, <3>2 DEF States, Sound, Looking
  <2> QED
    BY <1>5, <2>1, <2>2, <2>3, WorkMoves
<1>7. tracks' \subseteq 1 .. Len(objs')
  <2>1. tracks' = Job(w).kept \cup {Len(objs) + 1}
    BY DEF AppendTrack
  <2>2. Job(w).kept \subseteq 1 .. Len(objs)
    BY <1>1 DEF Looking
  <2> QED
    BY <1>4, <2>1, <2>2
<1>8. Objs' = Objs
  BY <1>3 DEF Objs
<1> QED
  BY <1>2, <1>3, <1>4, <1>6, <1>7, <1>8 DEF TypeOK, States, Objs

LEMMA BumpTyped ==
  ASSUME TypeOK, NEW w \in Workers, Bump(w)
  PROVE  TypeOK'
<1>1. Job(w) \in Looking
  BY JobIs DEF Bump, Going, Steps
<1>2. /\ UNCHANGED <<film, wire, masks, det, runs, objs, tracks, corr, overlap>>
      /\ nextId' = nextId + 1 /\ Publish(w, nextId)
  BY DEF Bump, stores
<1>3. Frames' = Frames
  BY <1>2 DEF Frames
<1>4. work' \in [Workers -> States'] /\ \A v \in Workers : Sound(work'[v])
  BY <1>1, <1>2, ObjsAre, DoneTyped
<1>5. nextId' \in Nat
  BY <1>2 DEF TypeOK
<1> QED
  BY <1>2, <1>3, <1>4, <1>5 DEF TypeOK, States

LEMMA NextTypeOK == TypeOK /\ [Next]_vars => TypeOK'
<1> SUFFICES ASSUME TypeOK, [Next]_vars PROVE TypeOK'
  OBVIOUS
<1>1. ASSUME NEW w \in Workers, Process(w) PROVE TypeOK'
  BY <1>1, LocateTyped, GetTyped, SetTyped, ReadsTyped, PlaceTyped, UpdateTyped, PruneTyped,
     AppendTyped, BumpTyped DEF Process
<1>2. CASE UNCHANGED vars
  <2>1. /\ UNCHANGED <<film, wire, masks, det, runs, work, objs, tracks, nextId, corr, overlap>>
    BY <1>2 DEF vars, stores, ids
  <2>2. Frames' = Frames /\ Looking' = Looking /\ Pending' = Pending
    BY <2>1 DEF Frames, Looking, Pending
  <2> QED
    BY <2>1, <2>2 DEF TypeOK
<1> QED
  BY <1>1, <1>2, StoresTyped DEF Next

(* Every variable keeps its type, and no more masks than KeepLast wait for  *)
(* their detections, whatever the threads do.                               *)
THEOREM TypeCorrect == Spec => []TypeOK
BY InitTypeOK, NextTypeOK, PTL DEF Spec

-----------------------------------------------------------------------------
(* What is published.                                                       *)

(* How far a thread takes the tray it is at to be off.                      *)
Err(job) == job.x - At(job.tray, job.frame)

(* It has the mask's pose and a correction, or the pose to stay with.       *)
Raw(job) ==
  job.at \in {"get", "set"} \/ (job.at \in {"search", "look", "place"} /\ ~job.assign)
Final(job) ==
  \/ job.at \in {"update", "prune", "bump"}
  \/ (job.at \in {"search", "look", "place"} /\ job.assign)

JobOK(job, a, b, c, d) ==
  /\ Raw(job) => /\ a <= Err(job) /\ Err(job) <= b
                 /\ c - b <= job.dx /\ job.dx <= d - a
  /\ Final(job) => a + c - b <= Err(job) /\ Err(job) <= b + d - a

CorrOK(a, b, c, d) == \A k \in DOMAIN corr : c - b <= corr[k] /\ corr[k] <= d - a

PocketInv(a, b, c, d) ==
  /\ TypeOK
  /\ \A w \in Workers : JobOK(work[w], a, b, c, d)
  /\ CorrOK(a, b, c, d)
  /\ RightPockets

(* The pockets that look occupied are those that are, if what products and  *)
(* tray are off by differs by at most m.                                    *)
LEMMA OccupiedRight ==
  ASSUME NEW O \in SUBSET Grid, NEW err \in Int, NEW off \in Int, NEW reach \in Nat,
         NEW m \in Int, -m <= off - err, off - err <= m
  PROVE  /\ m < reach => O \subseteq LooksOccupied(O, err, off, reach)
         /\ m + reach <= Pitch => LooksOccupied(O, err, off, reach) \subseteq O
<1>1. ASSUME m < reach, NEW i \in O PROVE i \in LooksOccupied(O, err, off, reach)
  <2>1. PICK x \in Int : x = Offset(i)
    BY OffsetInt
  <2>2. Abs(x + off - x - err) < reach
    BY <1>1 DEF Abs
  <2> QED
    BY <1>1, <2>1, <2>2 DEF LooksOccupied
<1>2. ASSUME m + reach <= Pitch, NEW j \in LooksOccupied(O, err, off, reach) PROVE j \in O
  <2>1. PICK i \in O : j \in Grid /\ i[1] = j[1]
                       /\ Abs(Offset(i) + off - Offset(j) - err) < reach
    BY DEF LooksOccupied
  <2>2. PICK x \in Int, y \in Int : x = Offset(i) /\ y = Offset(j)
    BY <2>1, OffsetInt
  <2>3. i # j => x - y >= Pitch \/ y - x >= Pitch
    BY <2>1, <2>2, OffsetGap
  <2>4. Abs(x + off - y - err) < reach
    BY <2>1, <2>2
  <2>5. x + off - y - err < reach /\ -reach < x + off - y - err
    BY <2>4 DEF Abs
  <2>6. Pitch \in Nat
    BY LatticeAssumption
  <2>7. ~(x - y >= Pitch) /\ ~(y - x >= Pitch)
    BY <1>2, <2>5, <2>6
  <2> QED
    BY <2>1, <2>3, <2>7
<1> QED
  BY <1>1, <1>2

(* What a thread would publish of the tray it is at is right.               *)
LEMMA OccupiedIs ==
  ASSUME NEW a \in Int, NEW b \in Int, NEW c \in Int, NEW d \in Int, Budget(a, b, c, d),
         TypeOK, NEW w \in Workers, Job(w) \in Looking, JobOK(Job(w), a, b, c, d),
         Final(Job(w))
  PROVE  /\ film[Job(w).frame].filled[Job(w).tray] \subseteq Occupied(w)
         /\ Occupied(w) \subseteq film[Job(w).depth].filled[Job(w).tray]
<1>1. PICK f \in Frames, g \in Frames, tray \in Trays :
           f = Job(w).frame /\ g = Job(w).depth /\ tray = Job(w).tray
  BY DEF Looking
<1>2. PICK off \in Slack : off = film[f].off[tray]
  BY <1>1, FilmIs DEF TypeOK
<1>3. f \in Nat /\ g \in Nat /\ f <= g /\ g <= f + Lag /\ Lag \in Nat /\ V \in Nat
  <2>1. f \in Nat /\ g \in Nat /\ Lag \in Nat /\ V \in Nat
    BY ObjsAre, VacancyAssumption
  <2>2. g \in f .. f + Lag
    BY <1>1 DEF TypeOK, Sound, Job, Looking
  <2> QED
    BY <2>1, <2>2
<1>4. PICK err \in Int : err = Job(w).x - At(tray, f)
  <2>1. Job(w).x \in Int /\ Start[tray] \in Int
    BY VacancyAssumption DEF Looking
  <2>2. V * f \in Int
    BY <1>3
  <2> QED
    BY <2>1, <2>2 DEF At
<1>5. a + c - b <= err /\ err <= b + d - a
  BY <1>1, <1>4 DEF JobOK, Err
<1>6. off \in Int /\ c <= off /\ off <= d
  BY VacancyAssumption DEF Budget
<1>7. PICK on \in Int : on = V * (g - f) /\ 0 <= on /\ on <= V * Lag
  <2>1. \A m, n \in Nat : m <= n => V * m \in Nat /\ V * m <= V * n /\ V * n \in Int
    <3>1. SUFFICES ASSUME NEW m \in Nat, NEW n \in Nat, m <= n
                   PROVE  V * m \in Nat /\ V * m <= V * n /\ V * n \in Int
      OBVIOUS
    <3>2. PICK k \in Nat : n = m + k
      <4>1. n - m \in Nat /\ n = m + (n - m)
        BY <3>1
      <4> QED
        BY <4>1
    <3>3. V * (m + k) = V * m + V * k /\ V * k \in Nat /\ V * m \in Nat
      BY <1>3, SMT
    <3> QED
      BY <3>2, <3>3
  <2>2. PICK h \in Nat : h = g - f /\ h <= Lag
    BY <1>3
  <2> QED
    BY <1>3, <2>1, <2>2
<1>8. PICK m \in Int : m = (b - a) + (d - c) /\ m < Cover /\ m + Cover <= Pitch /\ m + Rise <= Pitch
  BY DEF Budget
<1>9. PICK n \in Int : n = V * Lag /\ (b - a) + (off - c) + n + Rise <= Pitch
  <2>1. V * Lag \in Int
    BY <1>3
  <2> QED
    BY <2>1 DEF Budget
<1>10. Cover \in Nat /\ Rise \in Nat
  BY LatticeAssumption
<1>11. -m <= off - err /\ off - err <= m
  BY <1>5, <1>6, <1>8
<1>12. PICK u \in Int : u = off + on
  BY <1>6
<1>13. PICK q \in Int : q = (b - a) + (off - c) + n
  BY <1>6, <1>9
<1>14. PICK k \in Int : k + Rise <= Pitch /\ m <= k /\ q <= k
  <2>1. CASE m <= q
    BY <1>9, <1>13, <2>1
  <2>2. CASE q <= m
    BY <1>8, <2>2
  <2> QED
    BY <2>1, <2>2
<1>15. -k <= u - err /\ u - err <= k
  <2>1. on <= n /\ 0 <= on
    BY <1>7, <1>9
  <2>2. -m <= u - err /\ u - err <= q
    BY <1>5, <1>6, <1>11, <1>12, <1>13, <2>1
  <2> QED
    BY <1>14, <2>2
<1>16. PICK O \in SUBSET Grid, Q \in SUBSET Grid :
            O = film[f].filled[tray] /\ Q = film[g].filled[tray] /\ O \subseteq Q
  BY <1>3, FilmIs DEF TypeOK
<1>17. /\ O \subseteq LooksOccupied(O, err, off, Cover)
       /\ LooksOccupied(O, err, off, Cover) \subseteq O
  BY <1>6, <1>8, <1>10, <1>11, OccupiedRight
<1>18. LooksOccupied(Q, err, u, Rise) \subseteq Q
  BY <1>10, <1>14, <1>15, OccupiedRight
<1>19. Occupied(w) = LooksOccupied(O, err, off, Cover) \cup LooksOccupied(Q, err, u, Rise)
  BY <1>1, <1>2, <1>4, <1>7, <1>12, <1>16 DEF Occupied, Filled, Job
<1> QED
  BY <1>1, <1>16, <1>17, <1>18, <1>19

LEMMA InitPockets ==
  ASSUME NEW a \in Int, NEW b \in Int, NEW c \in Int, NEW d \in Int, Init
  PROVE  PocketInv(a, b, c, d)
<1>1. \A w \in Workers : JobOK(work[w], a, b, c, d)
  BY DEF Init, Idle, JobOK, Raw, Final
<1>2. CorrOK(a, b, c, d)
  BY DEF Init, CorrOK
<1>3. RightPockets
  BY DEF Init, RightPockets
<1> QED
  BY <1>1, <1>2, <1>3, InitTypeOK DEF PocketInv

(* A thread goes on; nothing is published.                                  *)
LEMMA OneMoves ==
  ASSUME NEW a \in Int, NEW b \in Int, NEW c \in Int, NEW d \in Int,
         PocketInv(a, b, c, d), TypeOK', CorrOK(a, b, c, d)',
         film' = film, published' = published,
         NEW w \in Workers, NEW r, work' = [work EXCEPT ![w] = r], JobOK(r, a, b, c, d)
  PROVE  PocketInv(a, b, c, d)'
<1>1. \A v \in Workers : work'[v] = IF v = w THEN r ELSE work[v]
  BY DEF PocketInv, TypeOK
<1>2. \A v \in Workers : JobOK(work'[v], a, b, c, d)
  BY <1>1 DEF PocketInv
<1>3. RightPockets'
  BY DEF PocketInv, RightPockets
<1> QED
  BY <1>2, <1>3 DEF PocketInv, JobOK, Err, At, Raw, Final

LEMMA AheadOK ==
  ASSUME NEW a, NEW b, NEW c, NEW d, NEW f, NEW g, NEW todo
  PROVE  JobOK(Ahead(f, g, todo), a, b, c, d)
<1>1. CASE todo = {}
  BY <1>1 DEF Ahead, JobOK, Idle, Raw, Final
<1>2. CASE todo # {}
  BY <1>2 DEF Ahead, JobOK, Raw, Final
<1> QED
  BY <1>1, <1>2

LEMMA StoresPockets ==
  ASSUME NEW a \in Int, NEW b \in Int, NEW c \in Int, NEW d \in Int, PocketInv(a, b, c, d),
         NEW w \in Workers, NEW f \in Frames, OnDet(w, f) \/ OnMasks(w, f)
  PROVE  PocketInv(a, b, c, d)'
<1>1. TypeOK /\ TypeOK'
  BY StoresTyped DEF PocketInv
<1>2. film' = film /\ published' = published /\ corr' = corr
  BY DEF OnDet, OnMasks
<1>3. CorrOK(a, b, c, d)'
  BY <1>2 DEF PocketInv, CorrOK
<1>4. CASE work' = work
  <2>1. RightPockets'
    BY <1>2 DEF PocketInv, RightPockets
  <2> QED
    BY <1>1, <1>3, <1>4, <2>1 DEF PocketInv, JobOK, Err, At, Raw, Final
<1>5. CASE Begin(w, f)
  <2>1. PICK g \in Frames : f <= g /\ g <= f + Lag
                            /\ work' = [work EXCEPT ![w] = Ahead(f, g, film[f].whole)]
    BY <1>1, <1>5, BeginIs
  <2>2. JobOK(Ahead(f, g, film[f].whole), a, b, c, d)
    BY AheadOK
  <2> QED
    BY <1>1, <1>2, <1>3, <2>1, <2>2, OneMoves
<1> QED
  BY <1>4, <1>5 DEF OnDet, OnMasks

LEMMA LocatePockets ==
  ASSUME NEW a \in Int, NEW b \in Int, NEW c \in Int, NEW d \in Int, Budget(a, b, c, d),
         MinFit >= 3, PocketInv(a, b, c, d), NEW w \in Workers, Locate(w)
  PROVE  PocketInv(a, b, c, d)'
<1>1. TypeOK /\ TypeOK'
  BY LocateTyped DEF PocketInv
<1>2. film' = film /\ published' = published /\ corr' = corr
  BY DEF Locate
<1>3. CorrOK(a, b, c, d)'
  BY <1>2 DEF PocketInv, CorrOK
<1>4. Job(w) \in Pending
  BY <1>1, JobIs DEF Locate, Going
<1>5. PICK tray \in Trays, e \in MaskErrs, off \in Slack, O \in Looks, P \in Looks,
           late \in 0 .. Lag, x \in Int :
        LET fit == Fit(Points(O, P, V * late, off), e)
        IN /\ tray \in Job(w).todo /\ x = At(tray, Job(w).frame) + e
           /\ \/ /\ Believed(fit, e)
                 /\ \E dx \in Int : /\ dx = fit.x - e
                                   /\ work' = [work EXCEPT ![w] = Seen(w, tray, FALSE, x, dx)]
              \/ work' = [work EXCEPT ![w] = Seen(w, tray, TRUE, x, 0)]
  BY <1>1, SeenAre, Zenon
<1>6. /\ e \in Int /\ a <= e /\ e <= b /\ off \in Int /\ c <= off /\ off <= d
      /\ c <= 0 /\ d - c <= Gate /\ d - a <= Gate /\ b - c <= Gate /\ a <= 0 /\ 0 <= b
  BY VacancyAssumption DEF Budget
<1>7. Gate \in Nat
  BY LatticeAssumption
<1>8. PICK on \in Nat : on = V * late /\ on <= d
  <2>1. V * Lag <= d /\ V \in Nat /\ Lag \in Nat /\ late \in Nat /\ late <= Lag
    BY VacancyAssumption DEF Budget
  <2>2. PICK k \in Nat : Lag = late + k
    <3>1. Lag - late \in Nat /\ Lag = late + (Lag - late)
      BY <2>1
    <3> QED
      BY <3>1
  <2>3. V * (late + k) = V * late + V * k /\ V * k \in Nat /\ V * late \in Nat
    BY <2>1, <2>2, SMT
  <2> QED
    BY <2>1, <2>2, <2>3
<1>9. x - At(tray, Job(w).frame) = e
  <2>1. Start[tray] \in Int /\ V \in Int /\ Job(w).frame \in Int
    BY <1>1, <1>4, ObjsAre, VacancyAssumption DEF Pending
  <2>2. V * Job(w).frame \in Int
    BY <2>1
  <2>3. PICK p \in Int : p = At(tray, Job(w).frame)
    BY <2>1, <2>2 DEF At
  <2> QED
    BY <1>5, <1>6, <2>3
<1>10. CASE work' = [work EXCEPT ![w] = Seen(w, tray, TRUE, x, 0)]
  <2>1. a + c - b <= e /\ e <= b + d - a
    BY <1>6, <1>8
  <2>2. JobOK(Seen(w, tray, TRUE, x, 0), a, b, c, d)
    BY <1>9, <2>1 DEF JobOK, Seen, Err, Raw, Final
  <2> QED
    BY <1>1, <1>2, <1>3, <1>10, <2>2, OneMoves
<1>11. ASSUME Believed(Fit(Points(O, P, on, off), e), e), NEW dx \in Int,
              dx = Fit(Points(O, P, on, off), e).x - e,
              work' = [work EXCEPT ![w] = Seen(w, tray, FALSE, x, dx)]
       PROVE  PocketInv(a, b, c, d)'
  <2>1. O \in SUBSET Grid /\ P \in SUBSET Grid /\ d - e <= Gate /\ e - c <= Gate
    BY <1>6, <1>7, LooksAre
  <2>2. Fit(Points(O, P, on, off), e).x \in c .. d
    BY <1>6, <1>8, <1>11, <2>1, FitFindsTheTray
  <2>3. PICK y \in Int : y = Fit(Points(O, P, on, off), e).x /\ c <= y /\ y <= d
    BY <2>2
  <2>4. c - b <= dx /\ dx <= d - a
    BY <1>6, <1>11, <2>3
  <2>5. JobOK(Seen(w, tray, FALSE, x, dx), a, b, c, d)
    BY <1>6, <1>9, <2>4 DEF JobOK, Seen, Err, Raw, Final
  <2> QED
    BY <1>1, <1>2, <1>3, <1>11, <2>5, OneMoves
<1> QED
  BY <1>5, <1>8, <1>10, <1>11

LEMMA GetPockets ==
  ASSUME NEW a \in Int, NEW b \in Int, NEW c \in Int, NEW d \in Int,
         PocketInv(a, b, c, d), NEW w \in Workers, GetCorr(w)
  PROVE  PocketInv(a, b, c, d)'
<1>1. TypeOK /\ TypeOK'
  BY GetTyped DEF PocketInv
<1>2. PICK job \in Looking, s \in Int :
        /\ job = Job(w) /\ job.at = "get"
        /\ s = job.dx \/ (job.key \in DOMAIN corr /\ s = Smoothed(corr[job.key], job.dx))
        /\ work' = [work EXCEPT ![w] = Smoothing(job, s)]
  BY <1>1, GetIs
<1>3. /\ a <= Err(job) /\ Err(job) <= b /\ c - b <= job.dx /\ job.dx <= d - a
      /\ job.dx \in Int
  BY <1>2 DEF PocketInv, JobOK, Job, Raw, Looking
<1>4. c - b <= s /\ s <= d - a
  <2>1. CASE s = job.dx
    BY <1>3, <2>1
  <2>2. CASE job.key \in DOMAIN corr /\ s = Smoothed(corr[job.key], job.dx)
    <3>1. PICK p \in Int : p = corr[job.key] /\ c - b <= p /\ p <= d - a
      BY <1>1, <2>2 DEF TypeOK, PocketInv, CorrOK
    <3>2. PICK lo \in Int, hi \in Int, dx \in Int : lo = c - b /\ hi = d - a /\ dx = job.dx
      BY <1>3
    <3>3. lo <= Smoothed(p, dx) /\ Smoothed(p, dx) <= hi
      BY <1>3, <3>1, <3>2, SmoothedBetween
    <3> QED
      BY <2>2, <3>1, <3>2, <3>3
  <2> QED
    BY <1>2, <2>1, <2>2
<1>5. PICK r : r = Smoothing(job, s)
  OBVIOUS
<1>6. r.at = "set" /\ r.frame = job.frame /\ r.tray = job.tray /\ r.x = job.x /\ r.dx = s
  BY <1>5 DEF Looking, Smoothing
<1>7. JobOK(r, a, b, c, d)
  BY <1>3, <1>4, <1>6 DEF JobOK, Raw, Final, Err
<1>8. film' = film /\ published' = published /\ corr' = corr
  BY DEF GetCorr
<1>9. CorrOK(a, b, c, d)'
  BY <1>8 DEF PocketInv, CorrOK
<1> QED
  BY <1>1, <1>2, <1>5, <1>7, <1>8, <1>9, OneMoves

LEMMA SetPockets ==
  ASSUME NEW a \in Int, NEW b \in Int, NEW c \in Int, NEW d \in Int,
         PocketInv(a, b, c, d), NEW w \in Workers, SetCorr(w)
  PROVE  PocketInv(a, b, c, d)'
<1>1. TypeOK /\ TypeOK'
  BY SetTyped DEF PocketInv
<1>2. PICK job \in Looking :
        /\ job = Job(w) /\ job.at = "set"
        /\ DOMAIN corr' = DOMAIN corr \cup {job.key}
        /\ \A n \in DOMAIN corr' : corr'[n] = IF n = job.key THEN job.dx ELSE corr[n]
        /\ work' = [work EXCEPT ![w] = Corrected(job)]
  BY <1>1, SetIs
<1>3. a <= Err(job) /\ Err(job) <= b /\ c - b <= job.dx /\ job.dx <= d - a
  BY <1>2 DEF PocketInv, JobOK, Job, Raw
<1>4. job.dx \in Int /\ job.x \in Int /\ job.frame \in Nat /\ job.tray \in Trays
  BY <1>1, ObjsAre DEF Looking
<1>5. CorrOK(a, b, c, d)'
  BY <1>2, <1>3 DEF PocketInv, CorrOK
<1>6. PICK p \in Int, x \in Int, s \in Int :
           p = At(job.tray, job.frame) /\ x = job.x /\ s = job.dx
  <2>1. Start[job.tray] \in Int /\ V \in Int
    BY <1>4, VacancyAssumption
  <2>2. V * job.frame \in Int
    BY <1>4, <2>1
  <2> QED
    BY <1>4, <2>1, <2>2 DEF At
<1>7. PICK r : r = Corrected(job)
  OBVIOUS
<1>8. /\ r.at = "search" /\ r.assign /\ r.frame = job.frame /\ r.tray = job.tray
      /\ r.x = x + s
  BY <1>6, <1>7 DEF Looking, Corrected
<1>9. Err(r) = x + s - p /\ Err(job) = x - p
  BY <1>6, <1>8 DEF Err
<1>10. a + c - b <= x + s - p /\ x + s - p <= b + d - a
  BY <1>3, <1>6, <1>9
<1>11. JobOK(r, a, b, c, d)
  BY <1>8, <1>9, <1>10 DEF JobOK, Raw, Final
<1>12. film' = film /\ published' = published
  BY DEF SetCorr
<1> QED
  BY <1>1, <1>2, <1>5, <1>7, <1>11, <1>12, OneMoves

(* A thread publishes the tray it is at.                                    *)
LEMMA PublishPockets ==
  ASSUME NEW a \in Int, NEW b \in Int, NEW c \in Int, NEW d \in Int, Budget(a, b, c, d),
         PocketInv(a, b, c, d), TypeOK', film' = film, corr' = corr,
         NEW w \in Workers, Job(w) \in Looking, Final(Job(w)),
         NEW id, Publish(w, id)
  PROVE  PocketInv(a, b, c, d)'
<1>1. TypeOK /\ JobOK(Job(w), a, b, c, d)
  BY DEF PocketInv, Job
<1>2. /\ film[Job(w).frame].filled[Job(w).tray] \subseteq Occupied(w)
      /\ Occupied(w) \subseteq film[Job(w).depth].filled[Job(w).tray]
  BY <1>1, OccupiedIs
<1>3. RightPockets'
  <2>1. ASSUME NEW p \in published'
        PROVE  /\ film[p.frame].filled[p.tray] \subseteq p.occupied
               /\ p.occupied \subseteq film[p.depth].filled[p.tray]
    <3>1. CASE p \in published
      BY <3>1 DEF PocketInv, RightPockets
    <3>2. CASE p \notin published
      <4>1. /\ p.tray = Job(w).tray /\ p.frame = Job(w).frame /\ p.depth = Job(w).depth
            /\ p.occupied = Occupied(w)
        BY <2>1, <3>2 DEF Publish
      <4> QED
        BY <1>2, <4>1
    <3> QED
      BY <3>1, <3>2
  <2> QED
    BY <2>1 DEF RightPockets
<1>4. JobOK(Ahead(Job(w).frame, Job(w).depth, Job(w).todo), a, b, c, d)
  BY AheadOK
<1>5. \A v \in Workers : work'[v] =
        IF v = w THEN Ahead(Job(w).frame, Job(w).depth, Job(w).todo) ELSE work[v]
  BY <1>1 DEF Publish, TypeOK
<1>6. \A v \in Workers : JobOK(work'[v], a, b, c, d)
  BY <1>4, <1>5 DEF PocketInv
<1>7. CorrOK(a, b, c, d)'
  BY DEF PocketInv, CorrOK
<1> QED
  BY <1>3, <1>6, <1>7 DEF PocketInv, JobOK, Err, At, Raw, Final

(* A thread moves on with the tray it is at, as it has located it; nothing  *)
(* is published.                                                            *)
Stays(r, job) ==
  /\ r.frame = job.frame /\ r.depth = job.depth /\ r.tray = job.tray
  /\ r.x = job.x /\ r.dx = job.dx

LEMMA TrackPockets ==
  ASSUME NEW a \in Int, NEW b \in Int, NEW c \in Int, NEW d \in Int,
         PocketInv(a, b, c, d), TypeOK', film' = film, corr' = corr, published' = published,
         NEW w \in Workers, NEW r, work' = [work EXCEPT ![w] = r], Stays(r, Job(w)),
         Raw(r) => Raw(Job(w)), Final(r) => Final(Job(w))
  PROVE  PocketInv(a, b, c, d)'
<1>1. JobOK(Job(w), a, b, c, d)
  BY DEF PocketInv, Job
<1>2. Err(r) = Err(Job(w)) /\ r.dx = Job(w).dx
  BY DEF Err, Stays
<1>3. JobOK(r, a, b, c, d)
  BY <1>1, <1>2 DEF JobOK
<1>4. CorrOK(a, b, c, d)'
  BY DEF PocketInv, CorrOK
<1> QED
  BY <1>3, <1>4, OneMoves

(* What the steps along a list of tracks leave alone.                       *)
LEMMA WalkStays ==
  ASSUME TypeOK, NEW w \in Workers, Search(w) \/ Look(w) \/ Place(w) \/ Prune(w)
  PROVE  \E r \in Looking :
           /\ work' = [work EXCEPT ![w] = r] /\ Stays(r, Job(w))
           /\ Job(w) \in Looking
           /\ Raw(r) => Raw(Job(w))
           /\ Final(r) => Final(Job(w))
<1>1. CASE Search(w) \/ Look(w)
  <2>1. PICK job \in Looking, list \in SUBSET (1 .. Len(objs)) :
          /\ job = Job(w)
          /\ (job.at = "search" /\ list = tracks) \/ (job.at = "look" /\ list = job.rest)
          /\ ReadsOn(w, job, list)
    BY <1>1, ReadsIs
  <2>2. CASE list # {}
    <3>1. PICK s \in Nat : work' = [work EXCEPT ![w] = AtTrack(job, list, s)]
      BY <2>1, <2>2 DEF ReadsOn
    <3>2. AtTrack(job, list, s) \in Looking
      BY DEF AtTrack, Looking
    <3>3. PICK r \in Looking : r = AtTrack(job, list, s)
      BY <3>2
    <3>4. Stays(r, job) /\ r.at = "place" /\ r.assign = job.assign
      BY <3>3 DEF AtTrack, Looking, Stays
    <3>5. (Raw(r) => Raw(job)) /\ (Final(r) => Final(job))
      BY <2>1, <3>4 DEF Raw, Final
    <3> QED
      BY <2>1, <3>1, <3>3, <3>4, <3>5
  <2>3. CASE list = {} /\ ~job.assign
    <3>1. work' = [work EXCEPT ![w] = Keyless(job)]
      BY <2>1, <2>3 DEF ReadsOn
    <3>2. Keyless(job) \in Looking
      BY DEF Keyless, Looking
    <3>3. PICK r \in Looking : r = Keyless(job)
      BY <3>2
    <3>4. Stays(r, job) /\ r.at = "get"
      BY <3>3 DEF Keyless, Looking, Stays
    <3>5. (Raw(r) => Raw(job)) /\ (Final(r) => Final(job))
      BY <2>1, <2>3, <3>4 DEF Raw, Final
    <3> QED
      BY <2>1, <3>1, <3>3, <3>4, <3>5
  <2>4. CASE list = {} /\ job.assign
    <3>1. work' = [work EXCEPT ![w] = Pruning(job, tracks)]
      BY <2>1, <2>4 DEF ReadsOn
    <3>2. Pruning(job, tracks) \in Looking
      BY ObjsAre DEF Pruning, Looking
    <3>3. PICK r \in Looking : r = Pruning(job, tracks)
      BY <3>2
    <3>4. Stays(r, job) /\ r.at = "prune"
      BY <3>3 DEF Pruning, Looking, Stays
    <3>5. (Raw(r) => Raw(job)) /\ (Final(r) => Final(job))
      BY <2>1, <2>4, <3>4 DEF Raw, Final
    <3> QED
      BY <2>1, <3>1, <3>3, <3>4, <3>5
  <2> QED
    BY <2>1, <2>2, <2>3, <2>4
<1>2. CASE Place(w)
  <2>1. PICK job \in Looking, n \in 1 .. Len(objs) :
          /\ job = Job(w) /\ job.at = "place"
          /\ n = Min(job.rest) /\ n \in job.rest /\ \A m \in job.rest : n <= m
          /\ \/ ~Fits(w, n) /\ work' = [work EXCEPT ![w] = Further(job, n)]
             \/ Fits(w, n) /\ job.assign /\ work' = [work EXCEPT ![w] = Settled(job)]
             \/ Fits(w, n) /\ ~job.assign /\ work' = [work EXCEPT ![w] = Keyed(job, objs[n].id)]
    BY <1>2, PlaceIs, Zenon
  <2>2. CASE work' = [work EXCEPT ![w] = Further(job, n)]
    <3>1. Further(job, n) \in Looking
      BY DEF Further, Looking
    <3>2. PICK r \in Looking : r = Further(job, n)
      BY <3>1
    <3>3. Stays(r, job) /\ r.at = "look" /\ r.assign = job.assign
      BY <3>2 DEF Further, Looking, Stays
    <3>4. (Raw(r) => Raw(job)) /\ (Final(r) => Final(job))
      BY <2>1, <3>3 DEF Raw, Final
    <3> QED
      BY <2>1, <2>2, <3>2, <3>3, <3>4
  <2>3. CASE job.assign /\ work' = [work EXCEPT ![w] = Settled(job)]
    <3>1. Settled(job) \in Looking
      BY DEF Settled, Looking
    <3>2. PICK r \in Looking : r = Settled(job)
      BY <3>1
    <3>3. Stays(r, job) /\ r.at = "update"
      BY <3>2 DEF Settled, Looking, Stays
    <3>4. (Raw(r) => Raw(job)) /\ (Final(r) => Final(job))
      BY <2>1, <2>3, <3>3 DEF Raw, Final
    <3> QED
      BY <2>1, <2>3, <3>2, <3>3, <3>4
  <2>4. CASE ~job.assign /\ work' = [work EXCEPT ![w] = Keyed(job, objs[n].id)]
    <3>1. Keyed(job, objs[n].id) \in Looking
      <4>1. objs[n].id \in Nat
        BY ObjsAre
      <4> QED
        BY <4>1 DEF Keyed, Looking
    <3>2. PICK r \in Looking : r = Keyed(job, objs[n].id)
      BY <3>1
    <3>3. Stays(r, job) /\ r.at = "get"
      BY <3>2 DEF Keyed, Looking, Stays
    <3>4. (Raw(r) => Raw(job)) /\ (Final(r) => Final(job))
      BY <2>1, <2>4, <3>3 DEF Raw, Final
    <3> QED
      BY <2>1, <2>4, <3>2, <3>3, <3>4
  <2> QED
    BY <2>1, <2>2, <2>3, <2>4
<1>3. CASE Prune(w)
  <2>1. PICK job \in Looking, n \in 1 .. Len(objs) :
          /\ job = Job(w) /\ job.at = "prune" /\ n \in job.rest
          /\ work' = [work EXCEPT ![w] = Sifted(job, n)]
    BY <1>3, PruneIs
  <2>2. PICK recent \in SUBSET (1 .. Len(objs)) : recent = {m \in {n} : Young(job, m)}
    OBVIOUS
  <2>3. Sifted(job, n) = [job EXCEPT !.rest = job.rest \ {n}, !.kept = job.kept \cup recent]
    BY <2>2 DEF Sifted
  <2>4. PICK r \in Looking : r = Sifted(job, n)
    BY <2>3 DEF Looking
  <2>5. Stays(r, job) /\ r.at = "prune"
    BY <2>1, <2>3, <2>4 DEF Looking, Stays
  <2>6. (Raw(r) => Raw(job)) /\ (Final(r) => Final(job))
    BY <2>1, <2>5 DEF Raw, Final
  <2> QED
    BY <2>1, <2>4, <2>5, <2>6
<1> QED
  BY <1>1, <1>2, <1>3

LEMMA ProcessPockets ==
  ASSUME NEW a \in Int, NEW b \in Int, NEW c \in Int, NEW d \in Int, Budget(a, b, c, d),
         MinFit >= 3, PocketInv(a, b, c, d), NEW w \in Workers, Process(w)
  PROVE  PocketInv(a, b, c, d)'
<1>1. TypeOK /\ TypeOK'
  BY LocateTyped, GetTyped, SetTyped, ReadsTyped, PlaceTyped, UpdateTyped, PruneTyped,
     AppendTyped, BumpTyped DEF Process, PocketInv
<1>2. CASE Locate(w)
  BY <1>2, LocatePockets
<1>3. CASE GetCorr(w) \/ SetCorr(w)
  BY <1>3, GetPockets, SetPockets
<1>4. CASE Search(w) \/ Look(w) \/ Place(w) \/ Prune(w)
  <2>1. film' = film /\ corr' = corr /\ published' = published
    BY <1>4 DEF Search, Look, Place, Prune
  <2>2. PICK r \in Looking :
             /\ work' = [work EXCEPT ![w] = r] /\ Stays(r, Job(w))
             /\ Raw(r) => Raw(Job(w))
             /\ Final(r) => Final(Job(w))
    BY <1>1, <1>4, WalkStays
  <2> QED
    BY <1>1, <2>1, <2>2, TrackPockets
<1>5. CASE Update(w) \/ Bump(w)
  <2>1. /\ Job(w) \in Looking /\ Final(Job(w)) /\ film' = film /\ corr' = corr
        /\ \E id : Publish(w, id)
    BY <1>1, <1>5, JobIs DEF Update, Bump, Going, Steps, Final
  <2> QED
    BY <1>1, <2>1, PublishPockets
<1>6. CASE AppendTrack(w)
  <2>1. /\ Job(w) \in Looking /\ Job(w).at = "prune"
        /\ film' = film /\ corr' = corr /\ published' = published
    BY <1>1, <1>6, JobIs DEF AppendTrack, Going, Steps
  <2>2. PICK r : r = [Job(w) EXCEPT !.at = "bump"]
    OBVIOUS
  <2>3. work' = [work EXCEPT ![w] = r]
    BY <1>6, <2>2 DEF AppendTrack, Job
  <2>4. r.at = "bump" /\ Stays(r, Job(w))
    BY <2>1, <2>2 DEF Looking, Stays
  <2>5. (Raw(r) => Raw(Job(w))) /\ (Final(r) => Final(Job(w)))
    BY <2>1, <2>4 DEF Raw, Final
  <2> QED
    BY <1>1, <2>1, <2>3, <2>4, <2>5, TrackPockets
<1> QED
  BY <1>2, <1>3, <1>4, <1>5, <1>6 DEF Process

LEMMA PocketsKept ==
  ASSUME NEW a \in Int, NEW b \in Int, NEW c \in Int, NEW d \in Int, Budget(a, b, c, d),
         MinFit >= 3
  PROVE  PocketInv(a, b, c, d) /\ [Next]_vars => PocketInv(a, b, c, d)'
<1> SUFFICES ASSUME PocketInv(a, b, c, d), [Next]_vars
             PROVE  PocketInv(a, b, c, d)'
  OBVIOUS
<1>1. ASSUME NEW w \in Workers, Process(w) PROVE PocketInv(a, b, c, d)'
  BY <1>1, ProcessPockets
<1>2. ASSUME NEW w \in Workers, NEW f \in Frames, OnDet(w, f) \/ OnMasks(w, f)
      PROVE  PocketInv(a, b, c, d)'
  BY <1>2, StoresPockets
<1>3. CASE UNCHANGED vars
  <2>1. TypeOK'
    BY NextTypeOK DEF PocketInv
  <2>2. UNCHANGED <<film, work, corr, published>>
    BY <1>3 DEF vars
  <2> QED
    BY <2>1, <2>2 DEF PocketInv, JobOK, Err, At, Raw, Final, CorrOK, RightPockets
<1> QED
  BY <1>1, <1>2, <1>3 DEF Next

(* What is published of a tray is right pocket by pocket, for any films,    *)
(* threads and orders of messages, whichever corrections the threads smooth *)
(* and hand on or lose: within the error budget, neither a late depth image *)
(* nor the correction of another tray shifts the pockets.                   *)
THEOREM PocketsAreRight ==
  ASSUME ErrorBudget, MinFit >= 3
  PROVE  Spec => []RightPockets
<1>1. PICK a \in Int, b \in Int, c \in Int, d \in Int : Budget(a, b, c, d)
  BY DEF ErrorBudget
<1>2. Init => PocketInv(a, b, c, d)
  BY InitPockets
<1>3. PocketInv(a, b, c, d) /\ [Next]_vars => PocketInv(a, b, c, d)'
  BY <1>1, PocketsKept
<1>4. PocketInv(a, b, c, d) => RightPockets
  BY DEF PocketInv
<1> QED
  BY <1>2, <1>3, <1>4, PTL DEF Spec

-----------------------------------------------------------------------------
(* The ids.                                                                 *)

Known == 1 .. Len(objs)

(* Every track is that of one tray, and every id that of one track; the one *)
(* id that is not counted up yet is that of the tray a thread is at.        *)
Clear(lo, hi) ==
  /\ \A v, w \in Workers : Making(v) /\ Making(w) => v = w
  /\ \A n \in Known : objs[n].id <= nextId /\ \E tray \in Trays : Near(objs[n], tray, lo, hi)
  /\ \A m, n \in Known : objs[m].id = objs[n].id => m = n
  /\ \A n \in Known : objs[n].id = nextId =>
       \E w \in Workers : Going(w, "bump") /\ Near(objs[n], Job(w).tray, lo, hi)
  /\ \A w \in Workers : Going(w, "bump") => \E n \in Known : objs[n].id = nextId
  /\ \A p \in published : p.tray \in Trays
       /\ \E n \in Known : objs[n].id = p.id /\ Near(objs[n], p.tray, lo, hi)

(* The track that a thread is about to update is that of its tray.          *)
Chosen(lo, hi) ==
  \A w \in Workers : Going(w, "update") =>
    \E n \in Known : n = Min(Job(w).rest) /\ Near(objs[n], Job(w).tray, lo, hi)

IdInv(lo, hi) == overlap \/ (Clear(lo, hi) /\ Chosen(lo, hi))

(* What is near where one tray was is not where another is later.           *)
LEMMA OnlyOneNear ==
  ASSUME NEW lo \in Int, NEW hi \in Int, Apart(lo, hi), TypeOK,
         NEW s \in Trays, NEW t \in Trays, NEW f \in Nat, NEW g \in Nat,
         g <= f, f <= g + Len(film),
         NEW x \in Int, lo <= x - At(s, f), x - At(s, f) <= hi,
         NEW y \in Int, lo <= y - At(t, g), y - At(t, g) <= hi,
         x - y < IdGate, y - x < IdGate
  PROVE  s = t
<1> SUFFICES ASSUME s # t PROVE FALSE
  OBVIOUS
<1>1. f - g \in 0 .. Len(film) /\ film \in Films /\ V \in Nat
  BY FilmIs, VacancyAssumption DEF TypeOK
<1>2. PICK k \in Nat : k = f - g /\ k \in 0 .. Len(film)
  BY <1>1
<1>3. PICK a \in Int, b \in Int : a = Start[s] /\ b = Start[t]
  BY VacancyAssumption
<1>4. PICK p \in Int, q \in Int : p = V * g /\ q = V * k /\ V * f = p + q
  <2>1. f = g + k
    BY <1>1, <1>2
  <2>2. \A m, n, c \in Nat : c * (m + n) = c * m + c * n /\ c * m \in Int /\ c * n \in Int
    BY SMT
  <2> QED
    BY <1>1, <1>2, <2>1, <2>2
<1>5. At(s, f) = a + p + q /\ At(t, g) = b + p
  <2>1. a + (p + q) = a + p + q
    OBVIOUS
  <2> QED
    BY <1>3, <1>4, <2>1 DEF At
<1>6. a - b + q >= IdGate + (hi - lo) \/ b - a - q >= IdGate + (hi - lo)
  BY <1>1, <1>2, <1>3, <1>4 DEF Apart
<1>7. IdGate \in Nat
  BY VacancyAssumption
<1> QED
  BY <1>5, <1>6, <1>7

(* Nor earlier.                                                             *)
LEMMA EitherNear ==
  ASSUME NEW lo \in Int, NEW hi \in Int, Apart(lo, hi), TypeOK,
         NEW s \in Trays, NEW t \in Trays, NEW f \in Nat, NEW g \in Nat,
         f <= g + Len(film), g <= f + Len(film),
         NEW x \in Int, lo <= x - At(s, f), x - At(s, f) <= hi,
         NEW y \in Int, lo <= y - At(t, g), y - At(t, g) <= hi,
         x - y < IdGate, y - x < IdGate
  PROVE  s = t
<1>1. CASE g <= f
  BY <1>1, OnlyOneNear
<1>2. CASE f < g
  BY <1>2, OnlyOneNear
<1> QED
  BY <1>1, <1>2

(* No track is near two trays.                                              *)
LEMMA NearOne ==
  ASSUME NEW lo \in Int, NEW hi \in Int, Apart(lo, hi), TypeOK,
         NEW n \in Known, NEW s \in Trays, NEW t \in Trays,
         Near(objs[n], s, lo, hi), Near(objs[n], t, lo, hi)
  PROVE  s = t
<1>1. PICK g \in Frames, y \in Int : g = objs[n].stamp /\ y = objs[n].x
  BY ObjsAre DEF Known
<1>2. y - y < IdGate /\ g \in Nat /\ Len(film) \in Nat /\ g <= g + Len(film)
  BY ObjsAre, FilmIs, VacancyAssumption DEF TypeOK
<1> QED
  BY <1>1, <1>2, EitherNear DEF Near

(* What a thread takes a track to be near at the time of its frame.         *)
LEMMA Moved ==
  ASSUME NEW t \in Trays, NEW g \in Nat, NEW k \in Nat
  PROVE  At(t, g + k) = At(t, g) + V * k /\ At(t, g) \in Int /\ V * k \in Int
<1>1. Start[t] \in Int /\ V \in Nat
  BY VacancyAssumption
<1>2. \A a, m, n \in Nat : a * (m + n) = a * m + a * n /\ a * m \in Int /\ a * n \in Int
  BY SMT
<1>3. PICK p \in Int, q \in Int : p = V * g /\ q = V * k /\ V * (g + k) = p + q
  BY <1>1, <1>2
<1> QED
  BY <1>1, <1>3 DEF At

(* The trays that threads are at are where the threads take them to be.     *)
JobsNear(lo, hi) ==
  \A w \in Workers : Final(Job(w)) => lo <= Err(Job(w)) /\ Err(Job(w)) <= hi

(* A track that a thread takes for that of its tray is: although its stamp  *)
(* and its x may not have been read at the same time.                       *)
LEMMA FitsItsOwn ==
  ASSUME NEW lo \in Int, NEW hi \in Int, Apart(lo, hi), TypeOK, JobsNear(lo, hi),
         NEW n \in Known, NEW t \in Trays, Near(objs[n], t, lo, hi),
         NEW w \in Workers, Going(w, "place"), Job(w).assign, Fits(w, n)
  PROVE  t = Job(w).tray
<1>1. PICK g \in Frames, y \in Int : g = objs[n].stamp /\ y = objs[n].x
  BY ObjsAre DEF Known
<1>2. Job(w) \in Looking /\ Final(Job(w)) /\ Job(w).since < Job(w).frame
  <2>1. Job(w) \in Looking
    BY JobIs DEF Going, Steps
  <2>2. Sound(Job(w))
    BY DEF TypeOK, Job
  <2> QED
    BY <2>1, <2>2 DEF Going, Final, Sound
<1>3. PICK s \in Trays, f \in Frames, x \in Int, k \in Nat :
           s = Job(w).tray /\ f = Job(w).frame /\ x = Job(w).x /\ k = Job(w).since /\ k < f
  BY <1>2 DEF Looking
<1>4. /\ f \in Nat /\ g \in Nat /\ Len(film) \in Nat /\ f <= Len(film) /\ g <= Len(film)
  BY FilmIs DEF TypeOK
<1>5. lo <= x - At(s, f) /\ x - At(s, f) <= hi
  BY <1>2, <1>3 DEF JobsNear, Err
<1>6. PICK u \in Int, z \in Int : u = V * k /\ z = At(t, g) /\ At(t, g + k) = z + u
  BY <1>4, Moved
<1>7. lo <= (y + u) - At(t, g + k) /\ (y + u) - At(t, g + k) <= hi
  <2>1. lo <= y - z /\ y - z <= hi
    BY <1>1, <1>6 DEF Near
  <2> QED
    BY <1>6, <2>1
<1>8. y + u - x < IdGate /\ x - (y + u) < IdGate
  <2>1. Abs(y + u - x) < IdGate
    BY <1>1, <1>3, <1>6 DEF Fits
  <2> QED
    BY <2>1, VacancyAssumption DEF Abs
<1>9. PICK h \in Nat, v \in Int : h = g + k /\ v = y + u
  BY <1>1, <1>3, <1>4, <1>6
<1>10. f <= h + Len(film) /\ h <= f + Len(film)
  <2>1. PICK len \in Nat : len = Len(film)
    BY <1>4
  <2>2. f <= len /\ g <= len
    BY <1>4, <2>1
  <2>3. f <= h + len /\ h <= f + len
    BY <1>3, <1>4, <1>9, <2>2
  <2> QED
    BY <2>1, <2>3
<1>11. lo <= v - At(t, h) /\ v - At(t, h) <= hi /\ v - x < IdGate /\ x - v < IdGate
  BY <1>7, <1>8, <1>9
<1>12. s = t
  BY <1>3, <1>4, <1>5, <1>9, <1>10, <1>11, EitherNear
<1> QED
  BY <1>3, <1>12

LEMMA InitIds == ASSUME NEW lo, NEW hi, Init PROVE IdInv(lo, hi)
BY DEF Init, IdInv, Clear, Chosen, Known, Job, Idle, Making, Going

(* Steps that touch neither tracks nor ids; a thread that is brought to     *)
(* make a track is the only one.                                            *)
LEMMA ClearStays ==
  ASSUME NEW lo, NEW hi, Clear(lo, hi), film' = film, objs' = objs, nextId' = nextId,
         published' = published, NEW w \in Workers,
         \A v \in Workers : v # w => work'[v] = work[v],
         ~Going(w, "bump"), ~Going(w, "bump")',
         Making(w)' => Making(w) \/ \A v \in Workers \ {w} : ~Making(v)
  PROVE  Clear(lo, hi)'
<1>1. Known' = Known
  BY DEF Known
<1>2. \A v \in Workers : /\ v # w => (Making(v)' <=> Making(v))
                         /\ Going(v, "bump")' <=> Going(v, "bump")
                         /\ Going(v, "bump") => Job(v)' = Job(v)
  BY DEF Making, Going, Job
<1>3. \A u, v \in Workers : Making(u)' /\ Making(v)' => u = v
  BY <1>2 DEF Clear
<1>4. \A n \in Known' : objs'[n].id <= nextId' /\ \E tray \in Trays : Near(objs[n], tray, lo, hi)'
  BY <1>1 DEF Clear, Near, At
<1>5. \A m, n \in Known' : objs'[m].id = objs'[n].id => m = n
  BY <1>1 DEF Clear
<1>6. \A n \in Known' : objs'[n].id = nextId' =>
        \E v \in Workers : Going(v, "bump")' /\ Near(objs[n], Job(v).tray, lo, hi)'
  BY <1>1, <1>2 DEF Clear, Near, At
<1>7. \A v \in Workers : Going(v, "bump")' => \E n \in Known' : objs'[n].id = nextId'
  BY <1>1, <1>2 DEF Clear
<1>8. \A p \in published' : p.tray \in Trays
       /\ \E n \in Known' : objs'[n].id = p.id /\ Near(objs[n], p.tray, lo, hi)'
  BY <1>1 DEF Clear, Near, At
<1> QED
  BY <1>3, <1>4, <1>5, <1>6, <1>7, <1>8 DEF Clear

LEMMA ChosenStays ==
  ASSUME NEW lo, NEW hi, TypeOK, Chosen(lo, hi), Known \subseteq Known',
         \A n \in Known, t \in Trays : Near(objs[n], t, lo, hi) => Near(objs[n], t, lo, hi)',
         \A v \in Workers : Going(v, "update")' => Going(v, "update") /\ Job(v)' = Job(v),
         film' = film
  PROVE  Chosen(lo, hi)'
<1> SUFFICES ASSUME NEW v \in Workers, Going(v, "update")'
             PROVE  \E n \in Known' : n = Min(Job(v)'.rest)
                                      /\ Near(objs[n], Job(v).tray, lo, hi)'
  BY DEF Chosen
<1>1. Going(v, "update") /\ Job(v)' = Job(v)
  OBVIOUS
<1>2. PICK t \in Trays : t = Job(v).tray
  BY <1>1, JobIs DEF Going, Steps, Looking
<1>3. PICK n \in Known : n = Min(Job(v).rest) /\ Near(objs[n], t, lo, hi)
  BY <1>1, <1>2 DEF Chosen
<1>4. Near(objs[n], Job(v).tray, lo, hi)'
  <2>1. Near(objs[n], t, lo, hi)'
    BY <1>3
  <2>2. Job(v)'.tray = t
    BY <1>1, <1>2
  <2> QED
    BY <2>1, <2>2 DEF Near, At
<1> QED
  BY <1>1, <1>3, <1>4

LEMMA AheadElsewhere ==
  ASSUME NEW f, NEW g, NEW todo
  PROVE  Ahead(f, g, todo).at \in {"idle", "next"}
BY DEF Ahead, Idle

(* The steps by which a thread changes neither tracks nor ids.              *)
Watches(w) ==
  \/ Locate(w) \/ GetCorr(w) \/ SetCorr(w)
  \/ Search(w) \/ Look(w) \/ Place(w) \/ Prune(w)

LEMMA WatchAre ==
  ASSUME TypeOK, NEW w \in Workers, Watches(w)
  PROVE  /\ \A v \in Workers : v # w => work'[v] = work[v]
         /\ UNCHANGED <<film, runs, objs, tracks, nextId, published>>
         /\ work'[w].at \in Steps \ {"bump"} /\ work'[w].frame = Job(w).frame
         /\ Job(w).at \notin {"idle", "update", "bump"}
         /\ work'[w].at = "prune" =>
              \/ Prune(w)
              \/ /\ Job(w).at \in {"search", "look"} /\ Job(w).assign
                 /\ overlap' = (overlap \/ \E v \in Workers \ {w} : Making(v))
         /\ work'[w].at = "update" => Place(w)
<1>1. UNCHANGED <<film, runs, objs, tracks, nextId, published>>
  BY DEF Watches, Locate, GetCorr, SetCorr, Search, Look, Place, Prune, stores, ids
<1>2. Job(w).at \notin {"idle", "update", "bump"}
  BY DEF Watches, Locate, GetCorr, SetCorr, Search, Look, Place, Prune, Going
<1>3. ASSUME NEW r, work' = [work EXCEPT ![w] = r]
      PROVE  work'[w] = r /\ \A v \in Workers : v # w => work'[v] = work[v]
  BY <1>3 DEF TypeOK
<1>4. CASE Locate(w)
  <2>1. PICK tray, assign, x, dx : work' = [work EXCEPT ![w] = Seen(w, tray, assign, x, dx)]
    <3>1. PICK tray \in Trays, e \in MaskErrs, off \in Slack, O \in Looks, P \in Looks,
               late \in 0 .. Lag, x \in Int :
            LET fit == Fit(Points(O, P, V * late, off), e)
            IN /\ tray \in Job(w).todo /\ x = At(tray, Job(w).frame) + e
               /\ \/ /\ Believed(fit, e)
                     /\ \E dx \in Int : /\ dx = fit.x - e
                                       /\ work' = [work EXCEPT ![w] = Seen(w, tray, FALSE, x, dx)]
                  \/ work' = [work EXCEPT ![w] = Seen(w, tray, TRUE, x, 0)]
      BY <1>4, SeenAre, Zenon
    <3> QED
      BY <3>1
  <2>2. PICK r : r = Seen(w, tray, assign, x, dx)
    OBVIOUS
  <2>3. r.at = "search" /\ r.frame = Job(w).frame
    BY <2>2 DEF Seen
  <2> QED
    BY <1>1, <1>2, <1>3, <2>1, <2>2, <2>3 DEF Steps
<1>5. CASE GetCorr(w)
  <2>1. PICK job \in Looking, s \in Int : job = Job(w) /\ work' = [work EXCEPT ![w] = Smoothing(job, s)]
    BY <1>5, GetIs
  <2>2. PICK r : r = Smoothing(job, s)
    OBVIOUS
  <2>3. r.at = "set" /\ r.frame = Job(w).frame
    BY <2>1, <2>2 DEF Smoothing, Looking
  <2> QED
    BY <1>1, <1>2, <1>3, <2>1, <2>2, <2>3 DEF Steps
<1>6. CASE SetCorr(w)
  <2>1. PICK job \in Looking : job = Job(w) /\ work' = [work EXCEPT ![w] = Corrected(job)]
    BY <1>6, SetIs
  <2>2. PICK r : r = Corrected(job)
    OBVIOUS
  <2>3. r.at = "search" /\ r.frame = Job(w).frame
    BY <2>1, <2>2 DEF Corrected, Looking
  <2> QED
    BY <1>1, <1>2, <1>3, <2>1, <2>2, <2>3 DEF Steps
<1>7. CASE Search(w) \/ Look(w)
  <2>1. PICK job \in Looking, list \in SUBSET (1 .. Len(objs)) :
          /\ job = Job(w)
          /\ (job.at = "search" /\ list = tracks) \/ (job.at = "look" /\ list = job.rest)
          /\ ReadsOn(w, job, list)
    BY <1>7, ReadsIs
  <2>2. \/ \E s \in Nat : work' = [work EXCEPT ![w] = AtTrack(job, list, s)]
        \/ work' = [work EXCEPT ![w] = Keyless(job)]
        \/ /\ work' = [work EXCEPT ![w] = Pruning(job, tracks)] /\ job.assign
           /\ overlap' = (overlap \/ \E v \in Workers \ {w} : Making(v))
    BY <2>1 DEF ReadsOn
  <2>3. /\ \A s : AtTrack(job, list, s).at = "place" /\ AtTrack(job, list, s).frame = job.frame
        /\ Keyless(job).at = "get" /\ Keyless(job).frame = job.frame
        /\ Pruning(job, tracks).at = "prune" /\ Pruning(job, tracks).frame = job.frame
    BY DEF AtTrack, Keyless, Pruning, Looking
  <2>4. CASE \E s \in Nat : work' = [work EXCEPT ![w] = AtTrack(job, list, s)]
    <3>1. PICK s \in Nat : work' = [work EXCEPT ![w] = AtTrack(job, list, s)]
      BY <2>4
    <3>2. PICK r : r = AtTrack(job, list, s)
      OBVIOUS
    <3>3. r.at = "place" /\ r.frame = Job(w).frame
      BY <2>1, <2>3, <3>2
    <3>4. work' = [work EXCEPT ![w] = r]
      BY <3>1, <3>2
    <3> QED
      BY <1>1, <1>2, <1>3, <3>3, <3>4 DEF Steps
  <2>5. CASE work' = [work EXCEPT ![w] = Keyless(job)]
    BY <1>1, <1>2, <1>3, <2>1, <2>3, <2>5 DEF Steps
  <2>6. CASE work' = [work EXCEPT ![w] = Pruning(job, tracks)] /\ job.assign
             /\ overlap' = (overlap \/ \E v \in Workers \ {w} : Making(v))
    <3>1. PICK r : r = Pruning(job, tracks)
      OBVIOUS
    <3>2. r.at = "prune" /\ r.frame = Job(w).frame
      BY <2>1, <2>3, <3>1
    <3>3. work'[w] = r /\ \A v \in Workers : v # w => work'[v] = work[v]
      BY <1>3, <2>6, <3>1
    <3>4. Job(w).at \in {"search", "look"} /\ Job(w).assign
      BY <2>1, <2>6
    <3>5. work'[w].at \in Steps \ {"bump"} /\ work'[w].frame = Job(w).frame /\ work'[w].at # "update"
      BY <3>2, <3>3 DEF Steps
    <3>6. overlap' = (overlap \/ \E v \in Workers \ {w} : Making(v))
      BY <2>6
    <3> HIDE DEF Making
    <3> QED
      BY <1>1, <1>2, <3>3, <3>4, <3>5, <3>6
  <2> QED
    BY <2>2, <2>4, <2>5, <2>6
<1>8. CASE Place(w)
  <2>1. PICK job \in Looking, n \in 1 .. Len(objs) :
          /\ job = Job(w) /\ job.at = "place"
          /\ n = Min(job.rest) /\ n \in job.rest /\ \A m \in job.rest : n <= m
          /\ \/ ~Fits(w, n) /\ work' = [work EXCEPT ![w] = Further(job, n)]
             \/ Fits(w, n) /\ job.assign /\ work' = [work EXCEPT ![w] = Settled(job)]
             \/ Fits(w, n) /\ ~job.assign /\ work' = [work EXCEPT ![w] = Keyed(job, objs[n].id)]
    BY <1>8, PlaceIs, Zenon
  <2>2. PICK r : /\ work' = [work EXCEPT ![w] = r]
                 /\ r.at \in {"look", "update", "get"} /\ r.frame = job.frame
    <3>1. /\ Further(job, n).at = "look" /\ Further(job, n).frame = job.frame
          /\ Settled(job).at = "update" /\ Settled(job).frame = job.frame
          /\ \A id : Keyed(job, id).at = "get" /\ Keyed(job, id).frame = job.frame
      BY DEF Further, Settled, Keyed, Looking
    <3> QED
      BY <2>1, <3>1
  <2> QED
    BY <1>1, <1>2, <1>3, <1>8, <2>1, <2>2 DEF Steps
<1>9. CASE Prune(w)
  <2>1. PICK job \in Looking, n \in 1 .. Len(objs) :
          /\ job = Job(w) /\ job.at = "prune" /\ n \in job.rest
          /\ work' = [work EXCEPT ![w] = Sifted(job, n)]
    BY <1>9, PruneIs
  <2>2. PICK r : r = Sifted(job, n)
    OBVIOUS
  <2>3. r.at = "prune" /\ r.frame = job.frame
    BY <2>1, <2>2 DEF Sifted, Looking
  <2> QED
    BY <1>1, <1>2, <1>3, <1>9, <2>1, <2>2, <2>3 DEF Steps
<1> QED
  BY <1>4, <1>5, <1>6, <1>7, <1>8, <1>9 DEF Watches

LEMMA WatchClear ==
  ASSUME NEW lo, NEW hi, TypeOK, Clear(lo, hi), ~overlap', NEW w \in Workers, Watches(w)
  PROVE  Clear(lo, hi)'
<1>1. ~Going(w, "bump") /\ ~Going(w, "bump")'
  BY WatchAre DEF Going, Job
<1>2. Making(w)' => Making(w) \/ \A v \in Workers \ {w} : ~Making(v)
  <2> SUFFICES ASSUME Making(w)' PROVE Making(w) \/ \A v \in Workers \ {w} : ~Making(v)
    OBVIOUS
  <2>1. work'[w].at = "prune"
    BY <1>1 DEF Making, Going, Job
  <2>2. CASE Prune(w)
    BY <2>2 DEF Prune, Making
  <2>3. CASE overlap' = (overlap \/ \E v \in Workers \ {w} : Making(v))
    BY <2>3
  <2> QED
    BY <2>1, <2>2, <2>3, WatchAre
<1> QED
  BY <1>1, <1>2, WatchAre, ClearStays

(* A thread chooses the track of its tray.                                  *)
LEMMA WatchChosen ==
  ASSUME NEW lo \in Int, NEW hi \in Int, Apart(lo, hi), TypeOK, Clear(lo, hi), Chosen(lo, hi),
         JobsNear(lo, hi), NEW w \in Workers, Watches(w)
  PROVE  Chosen(lo, hi)'
<1>1. /\ \A v \in Workers : v # w => work'[v] = work[v]
      /\ UNCHANGED <<film, objs>>
      /\ work'[w].at = "update" => Place(w)
  BY WatchAre
<1>2. \A n, t : Near(objs[n], t, lo, hi)' <=> Near(objs[n], t, lo, hi)
  BY <1>1 DEF Near, At
<1>3. Known' = Known
  BY <1>1 DEF Known
<1>4. CASE ~Going(w, "update")'
  <2>1. \A v \in Workers : Going(v, "update")' => Going(v, "update") /\ Job(v)' = Job(v)
    BY <1>1, <1>4 DEF Going, Job
  <2> QED
    BY <1>1, <1>2, <1>3, <2>1, ChosenStays
<1>5. CASE Going(w, "update")'
  <2>1. PICK job \in Looking, n \in 1 .. Len(objs) :
          /\ job = Job(w) /\ job.at = "place"
          /\ n = Min(job.rest) /\ n \in job.rest /\ \A m \in job.rest : n <= m
          /\ \/ ~Fits(w, n) /\ work' = [work EXCEPT ![w] = Further(job, n)]
             \/ Fits(w, n) /\ job.assign /\ work' = [work EXCEPT ![w] = Settled(job)]
             \/ Fits(w, n) /\ ~job.assign /\ work' = [work EXCEPT ![w] = Keyed(job, objs[n].id)]
    BY <1>1, <1>5, PlaceIs, Zenon DEF Going, Job
  <2>2. Fits(w, n) /\ job.assign /\ work'[w] = Settled(job)
    <3>1. Further(job, n).at = "look" /\ \A id : Keyed(job, id).at = "get"
      BY DEF Further, Keyed, Looking
    <3>2. \A r : work' = [work EXCEPT ![w] = r] => work'[w] = r
      BY DEF TypeOK
    <3> QED
      BY <1>5, <2>1, <3>1, <3>2 DEF Going, Job
  <2>3. PICK t \in Trays : Near(objs[n], t, lo, hi)
    BY <2>1 DEF Clear, Known
  <2>4. t = Job(w).tray
    BY <2>1, <2>2, <2>3, FitsItsOwn DEF Known, Going
  <2>5. Job(w)'.rest = job.rest /\ Job(w)'.tray = t
    BY <2>1, <2>2, <2>4 DEF Job, Settled, Looking
  <2>6. Near(objs[n], Job(w).tray, lo, hi)'
    BY <1>1, <2>3, <2>5 DEF Near, At
  <2>7. \E m \in Known' : m = Min(Job(w)'.rest) /\ Near(objs[m], Job(w).tray, lo, hi)'
    BY <1>3, <2>1, <2>5, <2>6 DEF Known
  <2>8. ASSUME NEW v \in Workers, v # w, Going(v, "update")'
        PROVE  \E m \in Known' : m = Min(Job(v)'.rest) /\ Near(objs[m], Job(v).tray, lo, hi)'
    <3>1. Going(v, "update") /\ Job(v)' = Job(v)
      BY <1>1, <2>8 DEF Going, Job
    <3>2. PICK m \in Known : m = Min(Job(v).rest) /\ Near(objs[m], Job(v).tray, lo, hi)
      BY <3>1 DEF Chosen
    <3>3. Near(objs[m], Job(v).tray, lo, hi)'
      BY <1>1, <3>1, <3>2 DEF Near, At
    <3> QED
      BY <1>3, <3>1, <3>2, <3>3
  <2> QED
    BY <2>7, <2>8 DEF Chosen
<1> QED
  BY <1>4, <1>5

(* What becomes of the tracks when that of a tray is updated.               *)
LEMMA UpdateTracks ==
  ASSUME NEW lo \in Int, NEW hi \in Int, Apart(lo, hi), TypeOK, Chosen(lo, hi),
         JobsNear(lo, hi), NEW w \in Workers, Update(w)
  PROVE  \E n \in Known, s \in Trays, f \in Frames :
           /\ s = Job(w).tray /\ f = Job(w).frame /\ Job(w) \in Looking /\ Job(w).at = "update"
           /\ n = Min(Job(w).rest) /\ n \in Job(w).rest /\ \A m \in Job(w).rest : n <= m
           /\ Near(objs[n], s, lo, hi)
           /\ Publish(w, objs[n].id)
           /\ UNCHANGED <<film, runs, tracks, nextId, overlap>>
           /\ Known' = Known
           /\ \A m \in Known : /\ objs'[m].id = objs[m].id
                               /\ m # n => objs'[m] = objs[m]
           /\ objs'[n].stamp = f
           /\ \A m \in Known, t \in Trays :
                Near(objs[m], t, lo, hi)' <=> Near(objs[m], t, lo, hi)
<1>1. PICK job \in Looking, n \in 1 .. Len(objs) :
        /\ job = Job(w) /\ job.at = "update"
        /\ n = Min(job.rest) /\ n \in job.rest /\ \A m \in job.rest : n <= m
        /\ objs' = [objs EXCEPT ![n].x = job.x, ![n].stamp = job.frame]
        /\ Len(objs') = Len(objs)
        /\ \A m \in 1 .. Len(objs) :
             objs'[m] = IF m = n THEN [id |-> objs[n].id, x |-> job.x, stamp |-> job.frame]
                        ELSE objs[m]
        /\ Publish(w, objs[n].id)
        /\ UNCHANGED <<film, wire, stores, tracks, nextId, corr, overlap>>
  BY UpdateIs, Zenon
<1>2. PICK s \in Trays, f \in Frames, x \in Int : s = job.tray /\ f = job.frame /\ x = job.x
  BY DEF Looking
<1>3. Known' = Known /\ n \in Known /\ f \in Nat
  BY <1>1, ObjsAre DEF Known
<1>4. UNCHANGED <<film, runs, tracks, nextId, overlap>>
  BY <1>1 DEF stores
<1>5. lo <= x - At(s, f) /\ x - At(s, f) <= hi
  BY <1>1, <1>2 DEF JobsNear, Err, Final
<1>6. Near(objs[n], s, lo, hi)
  BY <1>1, <1>2 DEF Chosen, Going
<1>7. objs'[n].id = objs[n].id /\ objs'[n].x = x /\ objs'[n].stamp = f
  BY <1>1, <1>2
<1>8. \A m \in Known : objs'[m].id = objs[m].id /\ (m # n => objs'[m] = objs[m])
  BY <1>1, <1>7 DEF Known
<1>9. Near(objs[n], s, lo, hi)'
  BY <1>4, <1>5, <1>7 DEF Near, At
<1>10. ASSUME NEW t \in Trays, Near(objs[n], t, lo, hi)' PROVE t = s
  <2>1. lo <= x - At(t, f) /\ x - At(t, f) <= hi
    BY <1>7, <1>10 DEF Near, At
  <2>2. x - x < IdGate /\ Len(film) \in Nat /\ f <= f + Len(film)
    BY <1>3, FilmIs, VacancyAssumption DEF TypeOK
  <2> QED
    BY <1>3, <1>5, <2>1, <2>2, EitherNear
<1>11. \A t \in Trays : Near(objs[n], t, lo, hi) => t = s
  BY <1>3, <1>6, NearOne
<1>12. \A m \in Known, t \in Trays : Near(objs[m], t, lo, hi)' <=> Near(objs[m], t, lo, hi)
  <2> SUFFICES ASSUME NEW m \in Known, NEW t \in Trays
               PROVE  Near(objs[m], t, lo, hi)' <=> Near(objs[m], t, lo, hi)
    OBVIOUS
  <2>1. CASE m = n
    BY <1>6, <1>9, <1>10, <1>11, <2>1
  <2>2. CASE m # n
    BY <1>8, <2>2 DEF Near, At
  <2> QED
    BY <2>1, <2>2
<1>13. Job(w) \in Looking /\ Job(w).at = "update" /\ Publish(w, objs[n].id)
  BY <1>1
<1> QED
  BY <1>1, <1>2, <1>3, <1>4, <1>6, <1>7, <1>8, <1>12, <1>13

LEMMA UpdateClear ==
  ASSUME NEW lo \in Int, NEW hi \in Int, Apart(lo, hi), TypeOK, Clear(lo, hi), Chosen(lo, hi),
         JobsNear(lo, hi), NEW w \in Workers, Update(w)
  PROVE  Clear(lo, hi)' /\ Chosen(lo, hi)'
<1>1. PICK n \in Known, s \in Trays, f \in Frames :
        /\ s = Job(w).tray /\ f = Job(w).frame /\ Job(w) \in Looking /\ Job(w).at = "update"
        /\ n = Min(Job(w).rest) /\ n \in Job(w).rest /\ \A m \in Job(w).rest : n <= m
        /\ Near(objs[n], s, lo, hi)
        /\ Publish(w, objs[n].id)
        /\ UNCHANGED <<film, runs, tracks, nextId, overlap>>
        /\ Known' = Known
        /\ \A m \in Known : /\ objs'[m].id = objs[m].id
                            /\ m # n => objs'[m] = objs[m]
        /\ objs'[n].stamp = f
        /\ \A m \in Known, t \in Trays :
             Near(objs[m], t, lo, hi)' <=> Near(objs[m], t, lo, hi)
  BY UpdateTracks, Zenon
<1>2. /\ work'[w].at \in {"idle", "next"}
      /\ \A v \in Workers : v # w => work'[v] = work[v]
  BY <1>1, AheadElsewhere DEF Publish, TypeOK
<1>3. ~Making(w)' /\ ~Going(w, "bump")' /\ ~Going(w, "bump") /\ ~Going(w, "update")'
  BY <1>1, <1>2 DEF Job, Making, Going
<1>4. Chosen(lo, hi)'
  <2>1. \A v \in Workers : Going(v, "update")' => Going(v, "update") /\ Job(v)' = Job(v)
    BY <1>2, <1>3 DEF Going, Job
  <2> QED
    BY <1>1, <2>1, ChosenStays
<1>5. \A v \in Workers : Job(v).at = "bump" => Job(v).tray \in Trays
  BY JobIs DEF Steps, Looking
<1>6. \A u, v \in Workers : Making(u)' /\ Making(v)' => u = v
  BY <1>2, <1>3 DEF Clear, Making, Going, Job
<1>7. \A m \in Known' : objs'[m].id <= nextId' /\ \E t \in Trays : Near(objs[m], t, lo, hi)'
  BY <1>1 DEF Clear
<1>8. \A l, m \in Known' : objs'[l].id = objs'[m].id => l = m
  BY <1>1 DEF Clear
<1>9. ASSUME NEW m \in Known', objs'[m].id = nextId'
      PROVE  \E v \in Workers : Going(v, "bump")' /\ Near(objs[m], Job(v).tray, lo, hi)'
  <2>1. PICK v \in Workers : Going(v, "bump") /\ Near(objs[m], Job(v).tray, lo, hi)
    BY <1>1, <1>9 DEF Clear
  <2>2. v # w /\ work'[v] = work[v] /\ Job(v).tray \in Trays
    BY <1>2, <1>3, <1>5, <2>1 DEF Going
  <2>3. PICK t \in Trays : t = Job(v).tray
    BY <2>2
  <2>4. Near(objs[m], t, lo, hi)'
    BY <1>1, <2>1, <2>3
  <2>5. Near(objs[m], Job(v).tray, lo, hi)'
    BY <2>2, <2>3, <2>4 DEF Job, Near, At
  <2> QED
    BY <2>1, <2>2, <2>5 DEF Going, Job
<1>10. \A v \in Workers : Going(v, "bump")' => \E m \in Known' : objs'[m].id = nextId'
  BY <1>1, <1>2, <1>3 DEF Clear, Going, Job
<1>11. ASSUME NEW p \in published'
       PROVE  /\ p.tray \in Trays
              /\ \E m \in Known' : objs'[m].id = p.id /\ Near(objs[m], p.tray, lo, hi)'
  <2>1. CASE p \in published
    <3>1. PICK m \in Known, t \in Trays :
            t = p.tray /\ objs[m].id = p.id /\ Near(objs[m], t, lo, hi)
      BY <2>1 DEF Clear
    <3>2. Near(objs[m], t, lo, hi)'
      BY <1>1, <3>1
    <3> QED
      BY <1>1, <3>1, <3>2
  <2>2. CASE p \notin published
    <3>1. p.tray = s /\ p.id = objs[n].id
      BY <1>1, <1>11, <2>2 DEF Publish
    <3>2. Near(objs[n], s, lo, hi)'
      BY <1>1
    <3> QED
      BY <1>1, <3>1, <3>2
  <2> QED
    BY <2>1, <2>2
<1> QED
  BY <1>4, <1>6, <1>7, <1>8, <1>9, <1>10, <1>11 DEF Clear

(* It makes the track of its tray.                                          *)
LEMMA AppendClear ==
  ASSUME NEW lo \in Int, NEW hi \in Int, TypeOK, Clear(lo, hi), Chosen(lo, hi),
         JobsNear(lo, hi), NEW w \in Workers, AppendTrack(w)
  PROVE  Clear(lo, hi)' /\ Chosen(lo, hi)'
<1>1. Job(w) \in Looking /\ Job(w).at = "prune"
  BY JobIs DEF AppendTrack, Going, Steps
<1>2. PICK s \in Trays, f \in Frames, x \in Int :
           s = Job(w).tray /\ f = Job(w).frame /\ x = Job(w).x
  BY <1>1 DEF Looking
<1>3. lo <= x - At(s, f) /\ x - At(s, f) <= hi
  BY <1>1, <1>2 DEF JobsNear, Err, Final
<1>4. PICK k \in Nat : k = Len(objs) + 1 /\ k \notin Known
  BY ObjsAre DEF Known
<1>5. /\ objs' = Append(objs, [id |-> nextId, x |-> x, stamp |-> f])
      /\ work' = [work EXCEPT ![w].at = "bump"]
      /\ UNCHANGED <<film, nextId, published>>
  BY <1>2 DEF AppendTrack
<1>6. /\ Known' = Known \cup {k} /\ \A n \in Known : objs'[n] = objs[n]
      /\ objs'[k] = [id |-> nextId, x |-> x, stamp |-> f]
  <2>1. PICK o : o = [id |-> nextId, x |-> x, stamp |-> f]
    OBVIOUS
  <2>2. objs' = Append(objs, o) /\ objs \in Seq(Objs) /\ o \in Objs
    BY <1>5, <2>1, ObjsAre DEF Objs, TypeOK
  <2> HIDE DEF Objs
  <2>3. Len(objs') = k /\ objs'[k] = o /\ \A n \in 1 .. Len(objs) : objs'[n] = objs[n]
    BY <1>4, <2>2
  <2> QED
    BY <1>4, <2>1, <2>3, ObjsAre DEF Known
<1>7. Near(objs[k], s, lo, hi)' /\ objs'[k].id = nextId
  <2>1. objs'[k].id = nextId /\ objs'[k].x = x /\ objs'[k].stamp = f
    BY <1>6
  <2> QED
    BY <1>3, <1>5, <2>1 DEF Near, At
<1>8. \A n \in Known, t \in Trays : Near(objs[n], t, lo, hi) => Near(objs[n], t, lo, hi)'
  BY <1>5, <1>6 DEF Near, At
<1>9. \A v \in Workers : v # w => work'[v] = work[v]
  BY <1>5 DEF TypeOK
<1>10. work'[w].at = "bump" /\ work'[w].tray = s
  BY <1>1, <1>2, <1>5 DEF TypeOK, Job, Looking
<1>11. \A v \in Workers : v # w => ~Making(v) /\ ~Going(v, "bump")
  <2>1. Making(w)
    BY <1>1 DEF Making, Going
  <2> QED
    BY <2>1 DEF Clear, Making, Going
<1>12. \A v \in Workers : v # w => ~Making(v)' /\ ~Going(v, "bump")'
  BY <1>9, <1>11 DEF Making, Going, Job
<1>13. \A n \in Known : objs[n].id <= nextId /\ objs[n].id # nextId
  <2>1. ~Going(w, "bump")
    BY <1>1 DEF Going
  <2> QED
    BY <1>11, <2>1 DEF Clear
<1>14. \A u, v \in Workers : Making(u)' /\ Making(v)' => u = v
  BY <1>12
<1>15. \A n \in Known' : objs'[n].id <= nextId' /\ \E t \in Trays : Near(objs[n], t, lo, hi)'
  <2>1. nextId <= nextId
    BY DEF TypeOK
  <2>2. \A n \in Known : \E t \in Trays : Near(objs[n], t, lo, hi)'
    BY <1>8 DEF Clear
  <2>3. \A n \in Known' : objs'[n].id <= nextId'
    BY <1>5, <1>6, <1>7, <1>13, <2>1
  <2>4. \A n \in Known' : \E t \in Trays : Near(objs[n], t, lo, hi)'
    BY <1>6, <1>7, <2>2
  <2> QED
    BY <2>3, <2>4
<1>16. \A m, n \in Known' : objs'[m].id = objs'[n].id => m = n
  BY <1>6, <1>7, <1>13 DEF Clear
<1>17. ASSUME NEW n \in Known', objs'[n].id = nextId'
       PROVE  \E v \in Workers : Going(v, "bump")' /\ Near(objs[n], Job(v).tray, lo, hi)'
  <2>1. n = k
    BY <1>5, <1>6, <1>13, <1>17
  <2>2. Going(w, "bump")'
    BY <1>10 DEF Going, Job
  <2>3. Near(objs[n], Job(w).tray, lo, hi)'
    BY <1>7, <1>10, <2>1 DEF Job, Near, At
  <2> QED
    BY <2>2, <2>3
<1>18. \A v \in Workers : Going(v, "bump")' => \E n \in Known' : objs'[n].id = nextId'
  BY <1>5, <1>6, <1>7
<1>19. ASSUME NEW p \in published'
       PROVE  /\ p.tray \in Trays
              /\ \E n \in Known' : objs'[n].id = p.id /\ Near(objs[n], p.tray, lo, hi)'
  <2>1. PICK n \in Known, t \in Trays : t = p.tray /\ objs[n].id = p.id /\ Near(objs[n], t, lo, hi)
    BY <1>5, <1>19 DEF Clear
  <2>2. Near(objs[n], t, lo, hi)'
    BY <1>8, <2>1
  <2> QED
    BY <1>6, <2>1, <2>2
<1>20. Chosen(lo, hi)'
  <2>1. \A v \in Workers : Going(v, "update")' => Going(v, "update") /\ Job(v)' = Job(v)
    BY <1>9, <1>10 DEF Going, Job
  <2> QED
    BY <1>5, <1>6, <1>8, <2>1, ChosenStays
<1> QED
  BY <1>14, <1>15, <1>16, <1>17, <1>18, <1>19, <1>20 DEF Clear

(* It has told the id of its tray and counts up.                            *)
LEMMA BumpClear ==
  ASSUME NEW lo \in Int, NEW hi \in Int, TypeOK, Clear(lo, hi), Chosen(lo, hi),
         NEW w \in Workers, Bump(w)
  PROVE  Clear(lo, hi)' /\ Chosen(lo, hi)'
<1>1. Job(w) \in Looking /\ Going(w, "bump")
  BY JobIs DEF Bump, Going, Steps
<1>2. /\ UNCHANGED <<film, objs>> /\ nextId' = nextId + 1 /\ Publish(w, nextId) /\ nextId \in Nat
  BY DEF Bump, TypeOK
<1>3. Known' = Known
  BY <1>2 DEF Known
<1>4. /\ \A v \in Workers : v # w => work'[v] = work[v]
      /\ work'[w].at \in {"idle", "next"}
  BY <1>2, AheadElsewhere DEF Publish, TypeOK
<1>5. \A v \in Workers : v # w => ~Making(v) /\ ~Going(v, "bump")
  <2>1. Making(w)
    BY <1>1 DEF Making, Going
  <2> QED
    BY <2>1 DEF Clear, Making, Going
<1>6. \A v \in Workers : ~Making(v)' /\ ~Going(v, "bump")'
  <2>1. ~Making(w)' /\ ~Going(w, "bump")'
    BY <1>4 DEF Making, Going, Job
  <2>2. \A v \in Workers : v # w => ~Making(v)' /\ ~Going(v, "bump")'
    BY <1>4, <1>5 DEF Making, Going, Job
  <2> QED
    BY <2>1, <2>2
<1>7. PICK n \in Known : objs[n].id = nextId
  BY <1>1 DEF Clear
<1>8. Near(objs[n], Job(w).tray, lo, hi)
  BY <1>5, <1>7 DEF Clear
<1>9. \A m \in Known : objs'[m].id <= nextId' /\ objs'[m].id # nextId'
  <2>1. \A m \in Known : objs[m].id \in Nat /\ objs[m].id <= nextId
    BY ObjsAre DEF Known, Clear
  <2> QED
    BY <1>2, <2>1
<1>10. \A m \in Known' : objs'[m].id <= nextId' /\ \E t \in Trays : Near(objs[m], t, lo, hi)'
  BY <1>2, <1>3, <1>9 DEF Clear, Near, At
<1>11. \A l, m \in Known' : objs'[l].id = objs'[m].id => l = m
  BY <1>2, <1>3 DEF Clear
<1>12. ASSUME NEW p \in published'
       PROVE  /\ p.tray \in Trays
              /\ \E m \in Known' : objs'[m].id = p.id /\ Near(objs[m], p.tray, lo, hi)'
  <2>1. CASE p \in published
    BY <1>2, <1>3, <2>1 DEF Clear, Near, At
  <2>2. CASE p \notin published
    <3>1. p.tray = Job(w).tray /\ p.id = nextId /\ Job(w).tray \in Trays
      BY <1>1, <1>2, <1>12, <2>2 DEF Publish, Looking
    <3>2. Near(objs[n], p.tray, lo, hi)'
      BY <1>2, <1>8, <3>1 DEF Near, At
    <3> QED
      BY <1>2, <1>3, <1>7, <3>1, <3>2
  <2> QED
    BY <2>1, <2>2
<1>13. Chosen(lo, hi)'
  <2>1. \A v \in Workers : Going(v, "update")' => Going(v, "update") /\ Job(v)' = Job(v)
    BY <1>4 DEF Going, Job
  <2>2. \A m, t : Near(objs[m], t, lo, hi)' <=> Near(objs[m], t, lo, hi)
    BY <1>2 DEF Near, At
  <2> QED
    BY <1>2, <1>3, <2>1, <2>2, ChosenStays
<1> QED
  BY <1>3, <1>6, <1>9, <1>10, <1>11, <1>12, <1>13 DEF Clear

LEMMA StoresClear ==
  ASSUME NEW lo, NEW hi, TypeOK, Clear(lo, hi), Chosen(lo, hi), NEW w \in Workers,
         NEW f \in Frames, OnDet(w, f) \/ OnMasks(w, f)
  PROVE  Clear(lo, hi)' /\ Chosen(lo, hi)'
<1>1. UNCHANGED <<film, objs, nextId, published>> /\ work[w] = Idle
  BY DEF OnDet, OnMasks, ids, Takes
<1>2. /\ \A v \in Workers : v # w => work'[v] = work[v]
      /\ work'[w].at \in {"idle", "next"}
  <2>1. CASE work' = work
    BY <1>1, <2>1 DEF Idle
  <2>2. CASE Begin(w, f)
    <3>1. PICK g \in Frames : work' = [work EXCEPT ![w] = Ahead(f, g, film[f].whole)]
      BY <2>2, BeginIs
    <3> QED
      BY <3>1, AheadElsewhere DEF TypeOK
  <2> QED
    BY <2>1, <2>2 DEF OnDet, OnMasks
<1>3. ~Making(w)' /\ ~Going(w, "bump")' /\ ~Going(w, "bump") /\ ~Going(w, "update")'
  BY <1>1, <1>2 DEF Making, Going, Job, Idle
<1>4. Clear(lo, hi)'
  BY <1>1, <1>2, <1>3, ClearStays
<1>5. \A v \in Workers : Going(v, "update")' => Going(v, "update") /\ Job(v)' = Job(v)
  BY <1>2, <1>3 DEF Going, Job
<1>6. Known' = Known /\ \A n, t : Near(objs[n], t, lo, hi)' <=> Near(objs[n], t, lo, hi)
  BY <1>1 DEF Near, At, Known
<1> QED
  BY <1>1, <1>4, <1>5, <1>6, ChosenStays

LEMMA OverlapStays == [Next]_vars => (overlap => overlap')
<1>1. ASSUME NEW w \in Workers, Process(w), overlap
      PROVE  overlap'
  BY <1>1 DEF Process, Locate, GetCorr, SetCorr, Search, Look, Reads, Place, Update, Prune,
              AppendTrack, Bump
<1>2. ASSUME NEW w \in Workers, NEW f \in Frames, OnDet(w, f) \/ OnMasks(w, f), overlap
      PROVE  overlap'
  BY <1>2 DEF OnDet, OnMasks
<1> QED
  BY <1>1, <1>2 DEF Next, vars

LEMMA IdsKept ==
  ASSUME NEW lo \in Int, NEW hi \in Int, Apart(lo, hi), TypeOK, JobsNear(lo, hi),
         IdInv(lo, hi), [Next]_vars
  PROVE  IdInv(lo, hi)'
<1> SUFFICES ASSUME ~overlap'
             PROVE  Clear(lo, hi)' /\ Chosen(lo, hi)'
  BY DEF IdInv
<1>1. Clear(lo, hi) /\ Chosen(lo, hi)
  BY OverlapStays DEF IdInv
<1>2. ASSUME NEW w \in Workers, Process(w)
      PROVE  Clear(lo, hi)' /\ Chosen(lo, hi)'
  <2>1. Watches(w) \/ Update(w) \/ AppendTrack(w) \/ Bump(w)
    BY <1>2 DEF Process, Watches
  <2>2. CASE Watches(w)
    BY <1>1, <2>2, WatchClear, WatchChosen
  <2> QED
    BY <1>1, <2>1, <2>2, UpdateClear, AppendClear, BumpClear
<1>3. ASSUME NEW w \in Workers, NEW f \in Frames, OnDet(w, f) \/ OnMasks(w, f)
      PROVE  Clear(lo, hi)' /\ Chosen(lo, hi)'
  BY <1>1, <1>3, StoresClear
<1>4. CASE UNCHANGED vars
  BY <1>1, <1>4 DEF vars, ids, Clear, Chosen, Near, At, Known, Making, Going, Job
<1> QED
  BY <1>2, <1>3, <1>4 DEF Next

LEMMA OneTray ==
  ASSUME NEW lo \in Int, NEW hi \in Int, Apart(lo, hi), TypeOK, IdInv(lo, hi)
  PROVE  overlap \/ OneTrayPerId
<1> SUFFICES ASSUME ~overlap, NEW p \in published, NEW q \in published, p.id = q.id
             PROVE  p.tray = q.tray
  BY DEF OneTrayPerId
<1>1. PICK m \in Known, s \in Trays : s = p.tray /\ objs[m].id = p.id /\ Near(objs[m], s, lo, hi)
  BY DEF IdInv, Clear
<1>2. PICK n \in Known, t \in Trays : t = q.tray /\ objs[n].id = q.id /\ Near(objs[n], t, lo, hi)
  BY DEF IdInv, Clear
<1>3. m = n
  BY <1>1, <1>2 DEF IdInv, Clear
<1> QED
  BY <1>1, <1>2, <1>3, NearOne

(* What the invariant of the pockets says of the ids.                       *)
LEMMA PocketsNear ==
  ASSUME NEW a \in Int, NEW b \in Int, NEW c \in Int, NEW d \in Int, PocketInv(a, b, c, d)
  PROVE  TypeOK /\ JobsNear(a + c - b, b + d - a)
BY DEF PocketInv, JobsNear, JobOK, Job

(* Within the error budget, and if trays lie far enough apart for it, no id *)
(* names two trays unless two tracks were made at the same time: although   *)
(* tracks, list and next id are changed without a lock, a track may change  *)
(* between the reads of it and before it is updated, frames overtake each   *)
(* other, and a track is matched by its place alone.                        *)
THEOREM NoIdNamesTwoTrays ==
  ASSUME NEW a \in Int, NEW b \in Int, NEW c \in Int, NEW d \in Int, Budget(a, b, c, d),
         MinFit >= 3, Apart(a + c - b, b + d - a)
  PROVE  Spec => [](overlap \/ OneTrayPerId)
<1>1. PICK lo \in Int, hi \in Int : lo = a + c - b /\ hi = b + d - a
  OBVIOUS
<1>2. Apart(lo, hi)
  BY <1>1
<1>3. PocketInv(a, b, c, d) => TypeOK /\ JobsNear(lo, hi)
  BY <1>1, PocketsNear
<1>4. Init => PocketInv(a, b, c, d) /\ IdInv(lo, hi)
  BY InitPockets, InitIds
<1>5. PocketInv(a, b, c, d) /\ [Next]_vars => PocketInv(a, b, c, d)'
  BY PocketsKept
<1>6. PocketInv(a, b, c, d) /\ IdInv(lo, hi) /\ [Next]_vars => IdInv(lo, hi)'
  BY <1>2, <1>3, IdsKept
<1>7. IdInv(lo, hi) /\ PocketInv(a, b, c, d) => overlap \/ OneTrayPerId
  BY <1>2, <1>3, OneTray
<1> QED
  BY <1>4, <1>5, <1>6, <1>7, PTL DEF Spec

-----------------------------------------------------------------------------
(* A tray keeps its id.                                                     *)

(* The frames that threads are at, and those of tracks and tray states.     *)
Begun(f) == runs[f] > 0
BegunInv ==
  /\ \A w \in Workers : Job(w).at # "idle" => Begun(Job(w).frame)
  /\ \A v, w \in Workers :
       Job(v).at # "idle" /\ Job(w).at # "idle" /\ Job(v).frame = Job(w).frame => v = w
  /\ \A n \in Known : Begun(objs[n].stamp)
  /\ \A p \in published : p.frame \in Frames /\ Begun(p.frame)

LEMMA AheadFrame ==
  ASSUME NEW f, NEW d, NEW todo
  PROVE  Ahead(f, d, todo).at = "idle" \/ Ahead(f, d, todo).frame = f
BY DEF Ahead, Idle

(* What a thread changes of tracks and tray states is of its frame, and     *)
(* that it stays with.                                                      *)
OfItsFrame(w) ==
  /\ Job(w).at # "idle" /\ (work'[w].at = "idle" \/ work'[w].frame = Job(w).frame)
  /\ \A v \in Workers : v # w => work'[v] = work[v]
  /\ UNCHANGED <<film, runs>>
  /\ \A n \in Known' : \/ n \in Known /\ objs'[n].stamp = objs[n].stamp
                       \/ objs'[n].stamp = Job(w).frame
  /\ \A p \in published' : p \in published \/ p.frame = Job(w).frame

LEMMA PublishOf ==
  ASSUME TypeOK, NEW w \in Workers, NEW id, Publish(w, id)
  PROVE  /\ work'[w].at = "idle" \/ work'[w].frame = Job(w).frame
         /\ \A v \in Workers : v # w => work'[v] = work[v]
         /\ \A p \in published' : p \in published \/ p.frame = Job(w).frame
<1>1. PICK r : r = Ahead(Job(w).frame, Job(w).depth, Job(w).todo)
  OBVIOUS
<1>2. r.at = "idle" \/ r.frame = Job(w).frame
  BY <1>1, AheadFrame
<1>3. work' = [work EXCEPT ![w] = r]
  BY <1>1 DEF Publish
<1>4. work'[w] = r /\ \A v \in Workers : v # w => work'[v] = work[v]
  BY <1>3 DEF TypeOK
<1>5. \A p \in published' : p \in published \/ p.frame = Job(w).frame
  BY DEF Publish
<1> QED
  BY <1>2, <1>4, <1>5

LEMMA UpdateOf ==
  ASSUME TypeOK, NEW w \in Workers, Update(w)
  PROVE  OfItsFrame(w)
<1>1. PICK job \in Looking, n \in 1 .. Len(objs) :
        /\ job = Job(w) /\ job.at = "update"
        /\ n = Min(job.rest) /\ n \in job.rest /\ \A m \in job.rest : n <= m
        /\ objs' = [objs EXCEPT ![n].x = job.x, ![n].stamp = job.frame]
        /\ Len(objs') = Len(objs)
        /\ \A m \in 1 .. Len(objs) :
             objs'[m] = IF m = n THEN [id |-> objs[n].id, x |-> job.x, stamp |-> job.frame]
                        ELSE objs[m]
        /\ Publish(w, objs[n].id)
        /\ UNCHANGED <<film, wire, stores, tracks, nextId, corr, overlap>>
  BY UpdateIs, Zenon
<1>2. \A m \in Known' : m \in Known /\ (objs'[m].stamp = objs[m].stamp \/ objs'[m].stamp = job.frame)
  BY <1>1 DEF Known
<1>3. UNCHANGED <<film, runs>>
  BY <1>1 DEF stores
<1>4. /\ work'[w].at = "idle" \/ work'[w].frame = Job(w).frame
      /\ \A v \in Workers : v # w => work'[v] = work[v]
      /\ \A p \in published' : p \in published \/ p.frame = Job(w).frame
  BY <1>1, PublishOf
<1> QED
  BY <1>1, <1>2, <1>3, <1>4 DEF OfItsFrame

LEMMA AppendOf ==
  ASSUME TypeOK, NEW w \in Workers, AppendTrack(w)
  PROVE  OfItsFrame(w)
<1>1. Job(w) \in Looking /\ Job(w).at = "prune"
  BY JobIs DEF AppendTrack, Going, Steps
<1>2. PICK f \in Frames : f = Job(w).frame
  BY <1>1 DEF Looking
<1>3. PICK o : /\ o = [id |-> nextId, x |-> Job(w).x, stamp |-> f]
               /\ objs' = Append(objs, o) /\ o.stamp = f /\ UNCHANGED <<film, runs, published>>
  BY <1>2 DEF AppendTrack, stores
<1>4. work' = [work EXCEPT ![w].at = "bump"]
  BY DEF AppendTrack
<1>5. work'[w].frame = f /\ \A v \in Workers : v # w => work'[v] = work[v]
  BY <1>1, <1>2, <1>4 DEF TypeOK, Job, Looking
<1>6. PICK k \in Nat : k = Len(objs)
  BY ObjsAre
<1>7. Len(objs') = k + 1 /\ (\A n \in 1 .. k : objs'[n] = objs[n]) /\ objs'[k + 1] = o
  <2>1. objs \in Seq(Objs) /\ o \in Objs
    BY <1>1, <1>2, <1>3, ObjsAre DEF Objs, Looking, TypeOK
  <2> HIDE DEF Objs
  <2> QED
    BY <1>3, <1>6, <2>1
<1>8. \A n \in Known' : n \in Known \/ n = k + 1
  BY <1>6, <1>7 DEF Known
<1>9. \A n \in Known : objs'[n] = objs[n]
  BY <1>6, <1>7 DEF Known
<1> QED
  BY <1>1, <1>2, <1>3, <1>5, <1>7, <1>8, <1>9 DEF OfItsFrame

LEMMA ProcessOf ==
  ASSUME TypeOK, NEW w \in Workers, Process(w)
  PROVE  OfItsFrame(w)
<1>1. CASE Watches(w)
  <2>1. Known' = Known /\ UNCHANGED <<film, runs, objs, published>>
    BY <1>1, WatchAre DEF Known
  <2> QED
    BY <1>1, <2>1, WatchAre DEF OfItsFrame
<1>2. CASE Bump(w)
  <2>1. UNCHANGED <<film, runs, objs>> /\ Publish(w, nextId) /\ Job(w).at = "bump"
    BY <1>2 DEF Bump, stores, Going
  <2>2. Known' = Known
    BY <2>1 DEF Known
  <2> QED
    BY <2>1, <2>2, PublishOf DEF OfItsFrame
<1> QED
  BY <1>1, <1>2, UpdateOf, AppendOf DEF Process, Watches

LEMMA InitBegun == Init => BegunInv
BY DEF Init, BegunInv, Job, Idle, Known

LEMMA ProcessBegun ==
  ASSUME TypeOK, BegunInv, NEW w \in Workers, Process(w)
  PROVE  BegunInv'
<1>1. OfItsFrame(w)
  BY ProcessOf
<1>2. Begun(Job(w).frame) /\ Job(w).at # "idle"
  BY <1>1 DEF BegunInv, OfItsFrame
<1>3. \A f : Begun(f)' <=> Begun(f)
  BY <1>1 DEF Begun, OfItsFrame
<1>4. \A v \in Workers : work'[v].at # "idle" => Job(v).at # "idle" /\ work'[v].frame = Job(v).frame
  BY <1>1 DEF Job, OfItsFrame
<1>5. \A v \in Workers : (Job(v).at # "idle" => Begun(Job(v).frame))'
  BY <1>3, <1>4 DEF BegunInv, Job
<1>6. \A u, v \in Workers :
        (Job(u).at # "idle" /\ Job(v).at # "idle" /\ Job(u).frame = Job(v).frame => u = v)'
  BY <1>4 DEF BegunInv, Job
<1>7. \A n \in Known' : Begun(objs[n].stamp)'
  BY <1>1, <1>2, <1>3 DEF BegunInv, OfItsFrame
<1>8. \A p \in published' : p.frame \in Frames' /\ Begun(p.frame)'
  <2>1. Job(w).frame \in Frames
    BY <1>2 DEF Job, TypeOK, Idle, Pending, Looking
  <2> QED
    BY <1>1, <1>2, <1>3, <2>1 DEF BegunInv, Frames, OfItsFrame
<1> QED
  BY <1>5, <1>6, <1>7, <1>8 DEF BegunInv

(* A frame that begins is begun by one thread.                              *)
LEMMA StoresBegun ==
  ASSUME TypeOK, IInv, IInv', BegunInv, NEW w \in Workers, NEW f \in Frames,
         OnDet(w, f) \/ OnMasks(w, f)
  PROVE  BegunInv'
<1>1. UNCHANGED <<film, objs, published>> /\ work[w] = Idle
  BY DEF OnDet, OnMasks, ids, Takes
<1>2. runs \in [Frames -> Nat] /\ Known' = Known
  BY <1>1 DEF TypeOK, Known
<1>3. CASE UNCHANGED <<runs, work>>
  BY <1>1, <1>2, <1>3 DEF BegunInv, Begun, Job, Frames
<1>4. CASE Begin(w, f)
  <2>1. PICK g \in Frames : /\ runs' = [runs EXCEPT ![f] = runs[f] + 1]
                            /\ work' = [work EXCEPT ![w] = Ahead(f, g, film[f].whole)]
    BY <1>4, BeginIs
  <2>2. runs'[f] = runs[f] + 1 /\ \A h : Begun(h) /\ h \in Frames => runs'[h] > 0
    BY <1>2, <2>1 DEF Begun
  <2>3. runs'[f] <= 1 /\ ~Begun(f) /\ runs'[f] > 0
    <3>1. runs'[f] <= 1
      BY <1>1 DEF IInv, Pairing, Frames
    <3> QED
      BY <1>2, <2>2, <3>1 DEF Begun
  <2>4. /\ \A v \in Workers : v # w => work'[v] = work[v]
        /\ work'[w].at = "idle" \/ work'[w].frame = f
    BY <2>1, AheadFrame DEF TypeOK
  <2>5. \A v \in Workers : Job(v).at # "idle" => Job(v).frame \in Frames /\ Job(v).frame # f
    <3>1. \A v \in Workers : Job(v).at # "idle" => Job(v) \in Pending \cup Looking
      BY DEF Job, TypeOK, Idle
    <3> QED
      BY <2>3, <3>1 DEF BegunInv, Pending, Looking
  <2>6. \A v \in Workers : (Job(v).at # "idle" => Begun(Job(v).frame))'
    BY <2>2, <2>3, <2>4, <2>5 DEF BegunInv, Begun, Job
  <2>7. \A u, v \in Workers :
          (Job(u).at # "idle" /\ Job(v).at # "idle" /\ Job(u).frame = Job(v).frame => u = v)'
    BY <2>4, <2>5 DEF BegunInv, Job
  <2>8. \A n \in Known' : Begun(objs[n].stamp)'
    BY <1>1, <1>2, <2>2, ObjsAre DEF BegunInv, Begun, Known
  <2>9. \A p \in published' : p.frame \in Frames' /\ Begun(p.frame)'
    BY <1>1, <2>2 DEF BegunInv, Begun, Frames
  <2> QED
    BY <2>6, <2>7, <2>8, <2>9 DEF BegunInv
<1> QED
  BY <1>3, <1>4 DEF OnDet, OnMasks

(* As long as what is published is published in turn, a tray keeps its id.  *)
InTurn == \A r \in published : ~r.late
Overtaken(f) == \E g \in Frames : g > f /\ Begun(g)
Recent(p) == \A f \in Frames : Begun(f) => f < p.frame + Horizon

Mine(n, t, lo, hi) == Near(objs[n], t, lo, hi)
MovedOn(n, w) == objs[n].stamp > Job(w).frame

(* The thread that is about to publish the id of a new track will do so too *)
(* late.                                                                    *)
Belated(w) == Going(w, "bump") /\ Overtaken(Job(w).frame)

(* Such a thread may have dropped the track of a tray with the others.      *)
Lost(t, lo, hi) ==
  /\ \E w \in Workers : Belated(w)
  /\ \A n \in tracks : ~Mine(n, t, lo, hi)

(* A thread that looks for the track of its tray still has it before it,    *)
(* unless a later frame has moved that on or it was made meanwhile.         *)
Walking(w) == Going(w, "update") \/ (Job(w).at \in {"look", "place"} /\ Job(w).assign)
JustMade(n, w) == objs[n].id = nextId /\ \A k \in Job(w).rest : k < n
Seeks(w, lo, hi) ==
  \A n \in tracks : Mine(n, Job(w).tray, lo, hi) =>
    n \in Job(w).rest \/ MovedOn(n, w) \/ JustMade(n, w)

(* A track it has before it is in the list, or was dropped meanwhile.       *)
Dropped(n, t, lo, hi) ==
  Lost(t, lo, hi) /\ \A p \in published : p.tray = t /\ Recent(p) => p.id = objs[n].id
Holds(w, lo, hi) ==
  \A n \in Job(w).rest : Mine(n, Job(w).tray, lo, hi) =>
    n \in tracks \/ Overtaken(Job(w).frame) \/ Dropped(n, Job(w).tray, lo, hi)

(* The stamp that it read is still that of the track.                       *)
Steady(w) ==
  \E n \in Known : /\ n = Min(Job(w).rest)
                   /\ MovedOn(n, w) \/ Job(w).since = Passed(Job(w).frame, objs[n].stamp)

(* A thread that makes a track found none of its tray, unless a later frame *)
(* had moved that on, and then keeps it.                                    *)
Left(w) == Job(w).kept \cup Job(w).rest
Unfound(w, lo, hi) ==
  \A n \in tracks : Mine(n, Job(w).tray, lo, hi) => MovedOn(n, w) /\ n \in Left(w)

(* What it does not keep is old, unless a later frame found it since.       *)
KeepsFresh(w) ==
  /\ Left(w) \subseteq tracks
  /\ \A n \in tracks \ Left(w) :
       Overtaken(Job(w).frame) \/ Job(w).frame - objs[n].stamp >= Horizon

Made(w, lo, hi) ==
  \E n \in tracks : /\ objs[n].id = nextId /\ Mine(n, Job(w).tray, lo, hi)
                    /\ Job(w).frame <= objs[n].stamp

WorkerInv(w, lo, hi) ==
  /\ Walking(w) => Seeks(w, lo, hi) /\ Holds(w, lo, hi)
  /\ Going(w, "place") /\ Job(w).assign => Steady(w)
  /\ Going(w, "prune") => Unfound(w, lo, hi) /\ KeepsFresh(w)
  /\ Going(w, "bump") => Made(w, lo, hi)

(* A tray has one track, unless one was made too late.                      *)
Once(lo, hi) ==
  \A t \in Trays, m, n \in tracks :
    m < n /\ Mine(m, t, lo, hi) /\ Mine(n, t, lo, hi) => \E w \in Workers : Belated(w)

(* The first track of the tray of p has the id that was published.          *)
Named(n, p, lo, hi) ==
  /\ objs[n].id = p.id /\ Mine(n, p.tray, lo, hi) /\ p.frame <= objs[n].stamp
  /\ \A m \in tracks : Mine(m, p.tray, lo, hi) => n <= m
Told(p, lo, hi) == (\E n \in tracks : Named(n, p, lo, hi)) \/ Lost(p.tray, lo, hi)

SameIds ==
  \A p, q \in published : p.tray = q.tray /\ Abs(p.frame - q.frame) < Horizon => p.id = q.id

TrackInv(lo, hi) ==
  /\ \A w \in Workers : WorkerInv(w, lo, hi)
  /\ Once(lo, hi)
  /\ \A p \in published : Recent(p) => Told(p, lo, hi)
  /\ SameIds

KeepInv(lo, hi) == overlap \/ ~InTurn \/ TrackInv(lo, hi)

LEMMA InitTracks == ASSUME NEW lo, NEW hi, Init PROVE KeepInv(lo, hi)
BY DEF Init, KeepInv, TrackInv, WorkerInv, Walking, Once, SameIds, Job, Going, Idle

(* What does not concern a thread leaves it as it is.                       *)
LEMMA WorkerStays ==
  ASSUME NEW lo, NEW hi, NEW v \in Workers, WorkerInv(v, lo, hi), work'[v] = work[v],
         UNCHANGED <<film, objs, tracks, nextId, published>>,
         \A f \in Frames : Begun(f) => Begun(f)',
         \A u \in Workers : Belated(u) => Belated(u)'
  PROVE  WorkerInv(v, lo, hi)'
<1>1. \A n, t : Mine(n, t, lo, hi)' <=> Mine(n, t, lo, hi)
  BY DEF Mine, Near, At
<1>2. /\ Frames' = Frames /\ \A f : Overtaken(f) => Overtaken(f)'
      /\ \A p : Recent(p)' => Recent(p)
  BY DEF Overtaken, Recent, Frames
<1>3. Job(v)' = Job(v) /\ Known' = Known
  BY DEF Job, Known
<1>4. \A at : Going(v, at)' <=> Going(v, at)
  BY <1>3 DEF Going
<1>5. \A n : /\ MovedOn(n, v)' <=> MovedOn(n, v)
             /\ JustMade(n, v)' <=> JustMade(n, v)
  BY <1>3 DEF MovedOn, JustMade
<1>6. \A n, t : Dropped(n, t, lo, hi) => Dropped(n, t, lo, hi)'
  BY <1>1, <1>2 DEF Dropped, Lost
<1>7. (Walking(v) => Seeks(v, lo, hi) /\ Holds(v, lo, hi))'
  <2>1. Walking(v)' <=> Walking(v)
    BY <1>3, <1>4 DEF Walking
  <2>2. Seeks(v, lo, hi) => Seeks(v, lo, hi)'
    BY <1>1, <1>3, <1>5 DEF Seeks
  <2>3. Holds(v, lo, hi) => Holds(v, lo, hi)'
    BY <1>1, <1>2, <1>3, <1>6 DEF Holds
  <2> QED
    BY <2>1, <2>2, <2>3 DEF WorkerInv
<1>8. (Going(v, "place") /\ Job(v).assign => Steady(v))'
  BY <1>3, <1>4, <1>5 DEF WorkerInv, Steady
<1>9. (Going(v, "prune") => Unfound(v, lo, hi) /\ KeepsFresh(v))'
  <2>1. Left(v)' = Left(v)
    BY <1>3 DEF Left
  <2>2. Unfound(v, lo, hi) => Unfound(v, lo, hi)'
    BY <1>1, <1>3, <1>5, <2>1 DEF Unfound
  <2>3. KeepsFresh(v) => KeepsFresh(v)'
    BY <1>2, <1>3, <2>1 DEF KeepsFresh
  <2> QED
    BY <1>4, <2>2, <2>3 DEF WorkerInv
<1>10. (Going(v, "bump") => Made(v, lo, hi))'
  BY <1>1, <1>3, <1>4 DEF WorkerInv, Made
<1> QED
  BY <1>7, <1>8, <1>9, <1>10 DEF WorkerInv

(* Steps that touch neither tracks nor tray states, by a thread that is not *)
(* about to publish the id of a new track.                                  *)
LEMMA TracksStay ==
  ASSUME NEW lo, NEW hi, TrackInv(lo, hi), UNCHANGED <<film, objs, tracks, nextId, published>>,
         \A f \in Frames : Begun(f) => Begun(f)',
         NEW w \in Workers, \A v \in Workers : v # w => work'[v] = work[v],
         ~Going(w, "bump"), WorkerInv(w, lo, hi)'
  PROVE  TrackInv(lo, hi)'
<1>1. \A n, t : Mine(n, t, lo, hi)' <=> Mine(n, t, lo, hi)
  BY DEF Mine, Near, At
<1>2. /\ Frames' = Frames /\ \A f : Overtaken(f) => Overtaken(f)'
      /\ \A p : Recent(p)' => Recent(p)
  BY DEF Overtaken, Recent, Frames
<1>3. \A u \in Workers : Belated(u) => Belated(u)'
  BY <1>2 DEF Belated, Going, Job
<1>4. \A v \in Workers : WorkerInv(v, lo, hi)'
  BY <1>3, WorkerStays DEF TrackInv
<1>5. Once(lo, hi)'
  BY <1>1, <1>3 DEF TrackInv, Once
<1>6. \A p : Told(p, lo, hi) => Told(p, lo, hi)'
  BY <1>1, <1>3 DEF Told, Named, Lost
<1>7. SameIds'
  BY DEF TrackInv, SameIds
<1> QED
  BY <1>2, <1>4, <1>5, <1>6, <1>7 DEF TrackInv

(* A thread that neither looks for a track nor makes one.                   *)
LEMMA ElsewhereFine ==
  ASSUME NEW lo, NEW hi, NEW w \in Workers,
         work'[w].at \notin {"look", "place", "update", "prune", "bump"}
  PROVE  WorkerInv(w, lo, hi)'
BY DEF WorkerInv, Walking, Going, Job

(* The threads that make no track make room for one.                        *)
LEMMA NoneMade ==
  ASSUME NEW lo, NEW hi, Clear(lo, hi), TypeOK, \A v \in Workers : ~Going(v, "bump"),
         NEW n \in tracks
  PROVE  objs[n].id # nextId
BY ObjsAre DEF Clear, Known

LEMMA ReadsKeeps ==
  ASSUME NEW lo, NEW hi, TypeOK, Clear(lo, hi), TrackInv(lo, hi), ~overlap',
         NEW w \in Workers, Search(w) \/ Look(w)
  PROVE  WorkerInv(w, lo, hi)'
<1>1. PICK job \in Looking, list \in SUBSET (1 .. Len(objs)) :
        /\ job = Job(w)
        /\ (job.at = "search" /\ list = tracks) \/ (job.at = "look" /\ list = job.rest)
        /\ ReadsOn(w, job, list)
  BY ReadsIs
<1>2. UNCHANGED <<film, runs, objs, tracks, nextId, published>>
  BY DEF Search, Look, stores, ids
<1>3. ASSUME NEW r, work' = [work EXCEPT ![w] = r]
      PROVE  Job(w)' = r /\ \A v \in Workers : v # w => work'[v] = work[v]
  BY <1>3 DEF TypeOK, Job
<1>4. \A n, t : Mine(n, t, lo, hi)' <=> Mine(n, t, lo, hi)
  BY <1>2 DEF Mine, Near, At
<1>5. ~Belated(w)
  BY <1>1 DEF Belated, Going
<1>6. /\ \A f : Overtaken(f)' <=> Overtaken(f)
      /\ \A p : Recent(p)' <=> Recent(p)
  BY <1>2 DEF Overtaken, Recent, Begun, Frames
(* What the thread knows of the list it walks through.                      *)
<1>7. ASSUME job.assign
      PROVE  /\ \A n \in tracks : Mine(n, job.tray, lo, hi) =>
                  \/ n \in list \/ objs[n].stamp > job.frame
                  \/ objs[n].id = nextId /\ \A k \in list : k < n
             /\ \A n \in list : Mine(n, job.tray, lo, hi) =>
                  n \in tracks \/ Overtaken(job.frame) \/ Dropped(n, job.tray, lo, hi)
  <2>1. CASE job.at = "search" /\ list = tracks
    BY <2>1
  <2>2. CASE job.at = "look" /\ list = job.rest
    <3>1. Seeks(w, lo, hi) /\ Holds(w, lo, hi)
      BY <1>1, <1>7, <2>2 DEF TrackInv, WorkerInv, Walking
    <3> QED
      BY <1>1, <2>2, <3>1 DEF Seeks, Holds, MovedOn, JustMade
  <2> QED
    BY <1>1, <2>1, <2>2
<1>8. ASSUME list # {}, Min(list) \in list, NEW s \in Nat,
             s = Passed(job.frame, objs[Min(list)].stamp),
             work' = [work EXCEPT ![w] = AtTrack(job, list, s)]
      PROVE  WorkerInv(w, lo, hi)'
  <2>1. PICK r : r = AtTrack(job, list, s)
    OBVIOUS
  <2>2. /\ r.at = "place" /\ r.rest = list /\ r.since = s /\ r.tray = job.tray
        /\ r.frame = job.frame /\ r.assign = job.assign
    BY <2>1 DEF AtTrack, Looking
  <2>3. Job(w)' = r /\ \A v \in Workers : v # w => work'[v] = work[v]
    BY <1>3, <1>8, <2>1
  <2>4. \A v \in Workers : Belated(v) => Belated(v)'
    BY <1>5, <1>6, <2>3 DEF Belated, Going, Job
  <2>5. \A n, t : Dropped(n, t, lo, hi) => Dropped(n, t, lo, hi)'
    BY <1>2, <1>4, <1>6, <2>4 DEF Dropped, Lost
  <2>6. job.assign => Seeks(w, lo, hi)'
    BY <1>2, <1>4, <1>7, <2>2, <2>3 DEF Seeks, MovedOn, JustMade
  <2>7. job.assign => Holds(w, lo, hi)'
    BY <1>2, <1>4, <1>6, <1>7, <2>2, <2>3, <2>5 DEF Holds
  <2>8. Steady(w)'
    <3>1. Min(list) \in Known'
      BY <1>2, <1>8 DEF Known
    <3> QED
      BY <1>2, <1>8, <2>2, <2>3, <3>1 DEF Steady
  <2> QED
    BY <2>2, <2>3, <2>6, <2>7, <2>8 DEF WorkerInv, Walking, Going
<1>9. ASSUME work' = [work EXCEPT ![w] = Keyless(job)]
      PROVE  WorkerInv(w, lo, hi)'
  <2>1. Keyless(job).at = "get"
    BY DEF Keyless, Looking
  <2> QED
    BY <1>3, <1>9, <2>1, ElsewhereFine DEF Job
<1>10. ASSUME list = {}, job.assign, \A v \in Workers \ {w} : ~Making(v),
              work' = [work EXCEPT ![w] = Pruning(job, tracks)]
       PROVE  WorkerInv(w, lo, hi)'
  <2>1. PICK r : r = Pruning(job, tracks)
    OBVIOUS
  <2>2. r.at = "prune" /\ r.rest = tracks /\ r.kept = {} /\ r.tray = job.tray /\ r.frame = job.frame
    BY <2>1 DEF Pruning, Looking
  <2>3. Job(w)' = r
    BY <1>3, <1>10, <2>1
  <2>4. \A v \in Workers : ~Going(v, "bump")
    BY <1>1, <1>10 DEF Making, Going
  <2>5. \A n \in tracks : Mine(n, job.tray, lo, hi) => objs[n].stamp > job.frame
    BY <1>7, <1>10, <2>4, NoneMade
  <2>6. Left(w)' = tracks
    BY <2>2, <2>3 DEF Left
  <2>7. Unfound(w, lo, hi)'
    BY <1>2, <1>4, <2>2, <2>3, <2>5, <2>6 DEF Unfound, MovedOn
  <2>8. KeepsFresh(w)'
    BY <1>2, <2>6 DEF KeepsFresh
  <2> QED
    BY <2>2, <2>3, <2>7, <2>8 DEF WorkerInv, Walking, Going
<1>11. \/ /\ list # {} /\ Min(list) \in list
          /\ \E s \in Nat :
               /\ s = Passed(job.frame, objs[Min(list)].stamp)
               /\ work' = [work EXCEPT ![w] = AtTrack(job, list, s)]
       \/ work' = [work EXCEPT ![w] = Keyless(job)]
       \/ /\ list = {} /\ job.assign /\ \A v \in Workers \ {w} : ~Making(v)
          /\ work' = [work EXCEPT ![w] = Pruning(job, tracks)]
  BY <1>1 DEF ReadsOn
<1> QED
  BY <1>8, <1>9, <1>10, <1>11

(* A track of its tray fits, if no later frame has moved it on.             *)
LEMMA FitsIfMine ==
  ASSUME NEW lo \in Int, NEW hi \in Int, hi - lo < IdGate, TypeOK, JobsNear(lo, hi),
         NEW w \in Workers, Going(w, "place"), Job(w).assign,
         NEW n \in Known, Mine(n, Job(w).tray, lo, hi), ~MovedOn(n, w),
         Job(w).since = Passed(Job(w).frame, objs[n].stamp)
  PROVE  Fits(w, n)
<1>1. PICK s \in Trays, f \in Frames, x \in Int, k \in Nat :
           s = Job(w).tray /\ f = Job(w).frame /\ x = Job(w).x /\ k = Job(w).since
  BY JobIs DEF Going, Steps, Looking
<1>2. PICK y \in Int, g \in Frames : y = objs[n].x /\ g = objs[n].stamp
  BY ObjsAre DEF Known
<1>3. f \in Nat /\ g \in Nat /\ g <= f
  BY <1>1, <1>2, ObjsAre DEF MovedOn
<1>4. k = f - g /\ f = g + k
  BY <1>1, <1>2, <1>3 DEF Passed
<1>5. PICK u \in Int, z \in Int : u = V * k /\ z = At(s, g) /\ At(s, f) = z + u
  BY <1>1, <1>3, <1>4, Moved
<1>6. lo <= x - (z + u) /\ x - (z + u) <= hi
  BY <1>1, <1>5 DEF JobsNear, Err, Final, Going
<1>7. lo <= y - z /\ y - z <= hi
  BY <1>1, <1>2, <1>5 DEF Near, Mine
<1>8. Abs(y + u - x) < IdGate
  <2>1. IdGate \in Int
    BY VacancyAssumption
  <2>2. y + u - x < IdGate /\ x - (y + u) < IdGate /\ y + u - x \in Int
    BY <1>6, <1>7, <2>1
  <2> QED
    BY <2>1, <2>2 DEF Abs
<1> QED
  BY <1>1, <1>2, <1>5, <1>8 DEF Fits

LEMMA PlaceKeeps ==
  ASSUME NEW lo \in Int, NEW hi \in Int, hi - lo < IdGate, TypeOK, JobsNear(lo, hi),
         TrackInv(lo, hi), NEW w \in Workers, Place(w)
  PROVE  WorkerInv(w, lo, hi)'
<1>1. PICK job \in Looking, n \in 1 .. Len(objs) :
        /\ job = Job(w) /\ job.at = "place"
        /\ n = Min(job.rest) /\ n \in job.rest /\ \A m \in job.rest : n <= m
        /\ \/ ~Fits(w, n) /\ work' = [work EXCEPT ![w] = Further(job, n)]
           \/ Fits(w, n) /\ job.assign /\ work' = [work EXCEPT ![w] = Settled(job)]
           \/ Fits(w, n) /\ ~job.assign /\ work' = [work EXCEPT ![w] = Keyed(job, objs[n].id)]
  BY PlaceIs, Zenon
<1>2. UNCHANGED <<film, runs, objs, tracks, nextId, published>>
  BY DEF Place, stores, ids
<1>3. ASSUME NEW r, work' = [work EXCEPT ![w] = r]
      PROVE  Job(w)' = r /\ \A v \in Workers : v # w => work'[v] = work[v]
  BY <1>3 DEF TypeOK, Job
<1>4. \A m, t : Mine(m, t, lo, hi)' <=> Mine(m, t, lo, hi)
  BY <1>2 DEF Mine, Near, At
<1>5. ~Belated(w) /\ Going(w, "place")
  BY <1>1 DEF Belated, Going
<1>6. /\ \A f : Overtaken(f)' <=> Overtaken(f)
      /\ \A p : Recent(p)' <=> Recent(p)
  BY <1>2 DEF Overtaken, Recent, Begun, Frames
<1>7. ASSUME \A v \in Workers : v # w => work'[v] = work[v]
      PROVE  \A m, t : Dropped(m, t, lo, hi) => Dropped(m, t, lo, hi)'
  <2>1. \A v \in Workers : Belated(v) => Belated(v)'
    BY <1>5, <1>6, <1>7 DEF Belated, Going, Job
  <2> QED
    BY <1>2, <1>4, <1>6, <2>1 DEF Dropped, Lost
<1>8. ASSUME NEW r, work' = [work EXCEPT ![w] = r], job.assign, r.tray = job.tray,
             r.frame = job.frame,
             \/ r.at = "update" /\ r.rest = job.rest
             \/ r.at = "look" /\ r.rest = job.rest \ {n} /\ ~Fits(w, n)
      PROVE  Seeks(w, lo, hi)' /\ Holds(w, lo, hi)'
  <2>1. Seeks(w, lo, hi) /\ Holds(w, lo, hi) /\ Steady(w)
    BY <1>1, <1>5, <1>8 DEF TrackInv, WorkerInv, Walking
  <2>2. Job(w)' = r /\ \A m, t : Dropped(m, t, lo, hi) => Dropped(m, t, lo, hi)'
    BY <1>3, <1>7, <1>8
  <2>3. Holds(w, lo, hi)'
    BY <1>1, <1>2, <1>4, <1>6, <1>8, <2>1, <2>2 DEF Holds
  <2>4. ASSUME NEW m \in tracks, Mine(m, job.tray, lo, hi)
        PROVE  \/ m \in r.rest \/ objs[m].stamp > job.frame
               \/ objs[m].id = nextId /\ \A k \in r.rest : k < m
    <3>1. \/ m \in job.rest \/ objs[m].stamp > job.frame
          \/ objs[m].id = nextId /\ \A k \in job.rest : k < m
      BY <1>1, <2>1, <2>4 DEF Seeks, MovedOn, JustMade
    <3>2. CASE m = n /\ ~Fits(w, n)
      <4>1. n \in Known /\ (MovedOn(n, w) \/ job.since = Passed(job.frame, objs[n].stamp))
        BY <1>1, <2>1 DEF Steady
      <4>2. MovedOn(n, w)
        BY <1>1, <1>5, <1>8, <2>4, <3>2, <4>1, FitsIfMine
      <4> QED
        BY <1>1, <3>2, <4>2 DEF MovedOn
    <3> QED
      BY <1>8, <3>1, <3>2
  <2>5. Seeks(w, lo, hi)'
    BY <1>2, <1>4, <1>8, <2>2, <2>4 DEF Seeks, MovedOn, JustMade
  <2> QED
    BY <2>3, <2>5
<1>9. CASE ~Fits(w, n) /\ work' = [work EXCEPT ![w] = Further(job, n)]
  <2>1. PICK r : r = Further(job, n)
    OBVIOUS
  <2>2. /\ r.at = "look" /\ r.rest = job.rest \ {n} /\ r.tray = job.tray
        /\ r.frame = job.frame /\ r.assign = job.assign
    BY <2>1 DEF Further, Looking
  <2>3. Job(w)' = r
    BY <1>3, <1>9, <2>1
  <2>4. job.assign => Seeks(w, lo, hi)' /\ Holds(w, lo, hi)'
    BY <1>8, <1>9, <2>1, <2>2
  <2> QED
    BY <2>2, <2>3, <2>4 DEF WorkerInv, Walking, Going
<1>10. CASE job.assign /\ work' = [work EXCEPT ![w] = Settled(job)]
  <2>1. PICK r : r = Settled(job)
    OBVIOUS
  <2>2. r.at = "update" /\ r.rest = job.rest /\ r.tray = job.tray /\ r.frame = job.frame
    BY <2>1 DEF Settled, Looking
  <2>3. Job(w)' = r
    BY <1>3, <1>10, <2>1
  <2>4. work' = [work EXCEPT ![w] = r]
    BY <1>10, <2>1
  <2>5. Seeks(w, lo, hi)' /\ Holds(w, lo, hi)'
    <3>1. job.assign
      BY <1>10
    <3> QED
      BY <1>8, <2>2, <2>4, <3>1, Zenon
  <2> QED
    BY <2>2, <2>3, <2>5 DEF WorkerInv, Walking, Going
<1>11. CASE work' = [work EXCEPT ![w] = Keyed(job, objs[n].id)]
  <2>1. Keyed(job, objs[n].id).at = "get"
    BY DEF Keyed, Looking
  <2> QED
    BY <1>3, <1>11, <2>1, ElsewhereFine DEF Job
<1> QED
  BY <1>1, <1>9, <1>10, <1>11

(* What it will not keep is old.                                            *)
LEMMA PruneKeeps ==
  ASSUME NEW lo, NEW hi, TypeOK, TrackInv(lo, hi), NEW w \in Workers, Prune(w)
  PROVE  WorkerInv(w, lo, hi)'
<1>1. PICK job \in Looking, n \in 1 .. Len(objs) :
        /\ job = Job(w) /\ job.at = "prune" /\ n \in job.rest
        /\ work' = [work EXCEPT ![w] = Sifted(job, n)]
  BY PruneIs
<1>2. UNCHANGED <<film, runs, objs, tracks, nextId, published>>
  BY DEF Prune, stores, ids
<1>3. PICK r : r = Sifted(job, n)
  OBVIOUS
<1>4. /\ r.at = "prune" /\ r.tray = job.tray /\ r.frame = job.frame
      /\ r.rest = job.rest \ {n} /\ r.kept = job.kept \cup {m \in {n} : Young(job, m)}
  <2>1. PICK recent : recent = {m \in {n} : Young(job, m)}
    OBVIOUS
  <2>2. r = [job EXCEPT !.rest = job.rest \ {n}, !.kept = job.kept \cup recent]
    BY <1>3, <2>1 DEF Sifted
  <2>3. r.kept = job.kept \cup recent /\ r.rest = job.rest \ {n}
    BY <2>2 DEF Looking
  <2>4. r.at = "prune" /\ r.tray = job.tray /\ r.frame = job.frame
    BY <1>1, <2>2 DEF Looking
  <2> QED
    BY <2>1, <2>3, <2>4
<1>5. Job(w)' = r
  BY <1>1, <1>3 DEF TypeOK, Job
<1>6. \A m, t : Mine(m, t, lo, hi)' <=> Mine(m, t, lo, hi)
  BY <1>2 DEF Mine, Near, At
<1>7. \A f : Overtaken(f)' <=> Overtaken(f)
  BY <1>2 DEF Overtaken, Begun, Frames
<1>8. Unfound(w, lo, hi) /\ KeepsFresh(w)
  BY <1>1 DEF TrackInv, WorkerInv, Going
<1>9. PICK K, L : K = job.kept \cup job.rest /\ L = r.kept \cup r.rest
  OBVIOUS
<1>10. L = IF Young(job, n) THEN K ELSE K \ ({n} \ job.kept)
  BY <1>1, <1>4, <1>9
<1>11. L \subseteq K /\ \A m \in K \ L : m = n /\ ~Young(job, n)
  BY <1>10
<1>12. Left(w) = K /\ Left(w)' = L
  BY <1>1, <1>5, <1>9 DEF Left
<1>13. PICK f \in Nat, g \in Nat : f = job.frame /\ g = objs[n].stamp
  BY ObjsAre DEF Looking
<1>14. Young(job, n) <=> f - g < Horizon
  BY <1>13 DEF Young
<1>15. Unfound(w, lo, hi)'
  <2>1. ASSUME NEW m \in tracks, Mine(m, job.tray, lo, hi)
        PROVE  objs[m].stamp > job.frame /\ m \in L
    <3>1. objs[m].stamp > job.frame /\ m \in K
      BY <1>1, <1>8, <1>12, <2>1 DEF Unfound, MovedOn
    <3>2. m = n => Young(job, n)
      BY <1>13, <1>14, <3>1, VacancyAssumption
    <3> QED
      BY <1>11, <3>1, <3>2
  <2> QED
    BY <1>2, <1>4, <1>5, <1>6, <1>12, <2>1 DEF Unfound, MovedOn
<1>16. KeepsFresh(w)'
  <2>1. ASSUME NEW m \in tracks \ L
        PROVE  Overtaken(f) \/ f - objs[m].stamp >= Horizon
    <3>1. CASE m \in K
      BY <1>11, <1>13, <1>14, <3>1, VacancyAssumption
    <3>2. CASE m \notin K
      BY <1>1, <1>8, <1>12, <1>13, <3>2 DEF KeepsFresh
    <3> QED
      BY <3>1, <3>2
  <2>2. L \subseteq tracks
    BY <1>8, <1>11, <1>12 DEF KeepsFresh
  <2> QED
    BY <1>2, <1>4, <1>5, <1>7, <1>12, <1>13, <2>1, <2>2 DEF KeepsFresh
<1> QED
  BY <1>4, <1>5, <1>15, <1>16 DEF WorkerInv, Walking, Going

(* Who publishes in turn is at the latest frame, and the others are not.    *)
LEMMA PublishesLatest ==
  ASSUME TypeOK, BegunInv, NEW w \in Workers, NEW id, Publish(w, id), InTurn',
         UNCHANGED <<film, runs>>, Job(w).at \in Steps
  PROVE  /\ ~Overtaken(Job(w).frame) /\ Begun(Job(w).frame)
         /\ \A f \in Frames : Begun(f) => f <= Job(w).frame
         /\ \A v \in Workers : v # w /\ Job(v).at \in Steps =>
              Job(v).frame < Job(w).frame /\ Overtaken(Job(v).frame)
<1>1. PICK r : r \in published' /\ r.late = \E f \in Frames : f > Job(w).frame /\ runs[f] > 0
  <2> DEFINE r == [tray |-> Job(w).tray, frame |-> Job(w).frame, depth |-> Job(w).depth,
                   late |-> \E f \in Frames : f > Job(w).frame /\ runs[f] > 0,
                   id |-> id, occupied |-> Occupied(w)]
  <2>1. r \in published'
    BY DEF Publish
  <2>2. r.late = \E f \in Frames : f > Job(w).frame /\ runs[f] > 0
    OBVIOUS
  <2> QED
    BY <2>1, <2>2
<1>2. ~r.late
  BY <1>1 DEF InTurn
<1>3. ~Overtaken(Job(w).frame)
  BY <1>1, <1>2 DEF Overtaken, Begun
<1>4. Job(w).frame \in Frames /\ Frames \subseteq Nat
  BY JobIs, ObjsAre DEF Looking
<1>5. \A f \in Frames : Begun(f) => f <= Job(w).frame
  <2> SUFFICES ASSUME NEW f \in Frames, Begun(f)
               PROVE  f <= Job(w).frame
    OBVIOUS
  <2>1. ~(f > Job(w).frame)
    BY <1>3 DEF Overtaken
  <2>2. PICK g \in Nat, h \in Nat : g = f /\ h = Job(w).frame
    BY <1>4
  <2> QED
    BY <2>1, <2>2
<1>6. Begun(Job(w).frame)
  BY DEF BegunInv, Steps
<1>7. ASSUME NEW v \in Workers, v # w, Job(v).at \in Steps
      PROVE  Job(v).frame < Job(w).frame /\ Overtaken(Job(v).frame)
  <2>1. Job(v).frame \in Frames
    BY <1>7, JobIs DEF Looking
  <2>2. Begun(Job(v).frame) /\ Job(v).frame # Job(w).frame
    BY <1>7 DEF BegunInv, Steps
  <2>3. Job(v).frame < Job(w).frame
    <3>1. PICK g \in Nat, h \in Nat : g = Job(v).frame /\ h = Job(w).frame
      BY <1>4, <2>1
    <3>2. g <= h /\ g # h
      BY <1>5, <2>1, <2>2, <3>1
    <3> QED
      BY <3>1, <3>2
  <2> QED
    BY <1>4, <1>6, <2>3 DEF Overtaken
<1> QED
  BY <1>3, <1>5, <1>6, <1>7

LEMMA StampsBegun ==
  ASSUME TypeOK, BegunInv, NEW n \in Known
  PROVE  n \in Nat /\ objs[n].stamp \in Frames /\ Begun(objs[n].stamp) /\ objs[n].stamp \in Nat
BY ObjsAre DEF BegunInv, Known

(* A track that is updated in turn is moved on for all the other threads.   *)
LEMMA UpdateLeaves ==
  ASSUME NEW lo, NEW hi, TypeOK, NEW v \in Workers, WorkerInv(v, lo, hi), work'[v] = work[v],
         NEW n \in Known, NEW f \in Nat, objs'[n].stamp = f,
         \A m \in Known : objs[m].stamp \in Nat /\ objs[m].stamp <= f,
         \A m \in Known : objs'[m].id = objs[m].id /\ (m # n => objs'[m] = objs[m]),
         \A m \in Known, t \in Trays : Mine(m, t, lo, hi)' <=> Mine(m, t, lo, hi),
         UNCHANGED <<film, runs, tracks, nextId>>, Known' = Known,
         Job(v).at \in Steps => Job(v).frame < f /\ Overtaken(Job(v).frame)
  PROVE  WorkerInv(v, lo, hi)'
<1> SUFFICES ASSUME Job(v).at \in Steps
             PROVE  WorkerInv(v, lo, hi)'
  BY DEF WorkerInv, Walking, Going, Steps, Job
<1>1. PICK s \in Trays, g \in Nat : s = Job(v).tray /\ g = Job(v).frame /\ g < f
  BY JobIs, ObjsAre DEF Looking
<1>2. Job(v)' = Job(v)
  BY DEF Job
<1>3. Overtaken(g) /\ Overtaken(g)'
  BY <1>1 DEF Overtaken, Begun, Frames
<1>4. tracks \subseteq Known /\ Job(v).rest \subseteq Known
  BY ObjsAre, JobIs DEF Known, Looking
<1>5. \A m \in Known : MovedOn(m, v) => MovedOn(m, v)'
  <2> SUFFICES ASSUME NEW m \in Known, objs[m].stamp > g
               PROVE  objs'[m].stamp > g
    BY <1>1, <1>2 DEF MovedOn
  <2>1. objs'[m].stamp = f \/ objs'[m].stamp = objs[m].stamp
    OBVIOUS
  <2> QED
    BY <1>1, <2>1
<1>6. MovedOn(n, v)'
  BY <1>1, <1>2 DEF MovedOn
<1>7. Walking(v) => Seeks(v, lo, hi)'
  <2>1. ASSUME Seeks(v, lo, hi), NEW m \in tracks, Mine(m, s, lo, hi)
        PROVE  m \in Job(v).rest \/ MovedOn(m, v)' \/ JustMade(m, v)'
    <3>1. m \in Job(v).rest \/ MovedOn(m, v) \/ JustMade(m, v)
      BY <1>1, <2>1 DEF Seeks
    <3>2. JustMade(m, v) => JustMade(m, v)'
      BY <1>2, <1>4 DEF JustMade
    <3> QED
      BY <1>4, <1>5, <3>1, <3>2
  <2>2. \A m \in tracks : Mine(m, s, lo, hi)' => Mine(m, s, lo, hi)
    BY <1>4
  <2> QED
    BY <1>1, <1>2, <2>1, <2>2 DEF Seeks, WorkerInv
<1>8. Holds(v, lo, hi)'
  BY <1>1, <1>2, <1>3 DEF Holds
<1>9. Steady(v) => Steady(v)'
  <2> SUFFICES ASSUME Steady(v) PROVE Steady(v)'
    OBVIOUS
  <2>1. PICK m \in Known : /\ m = Min(Job(v).rest)
                           /\ MovedOn(m, v) \/ Job(v).since = Passed(Job(v).frame, objs[m].stamp)
    BY DEF Steady
  <2>2. MovedOn(m, v)' \/ Job(v).since = Passed(Job(v).frame, objs'[m].stamp)
    BY <1>5, <1>6, <2>1
  <2> QED
    BY <1>2, <2>1, <2>2 DEF Steady
<1>10. Unfound(v, lo, hi) => Unfound(v, lo, hi)'
  <2> SUFFICES ASSUME Unfound(v, lo, hi), NEW m \in tracks, Mine(m, s, lo, hi)'
               PROVE  MovedOn(m, v)' /\ m \in Left(v)
    BY <1>1, <1>2 DEF Unfound, Left
  <2>1. Mine(m, Job(v).tray, lo, hi)
    BY <1>1, <1>4
  <2> QED
    BY <1>4, <1>5, <2>1 DEF Unfound
<1>11. KeepsFresh(v) => KeepsFresh(v)'
  BY <1>1, <1>2, <1>3 DEF KeepsFresh, Left
<1>12. Made(v, lo, hi) => Made(v, lo, hi)'
  <2> SUFFICES ASSUME Made(v, lo, hi) PROVE Made(v, lo, hi)'
    OBVIOUS
  <2>1. PICK m \in tracks : objs[m].id = nextId /\ Mine(m, s, lo, hi) /\ g <= objs[m].stamp
    BY <1>1 DEF Made
  <2>2. objs'[m].stamp = f \/ objs'[m].stamp = objs[m].stamp
    BY <1>4
  <2>3. g <= objs'[m].stamp
    BY <1>1, <2>1, <2>2
  <2>4. objs'[m].id = nextId /\ Mine(m, s, lo, hi)'
    BY <1>4, <2>1
  <2> QED
    BY <1>1, <1>2, <2>3, <2>4 DEF Made
<1>13. (\A at : Going(v, at)' <=> Going(v, at)) /\ (Walking(v)' <=> Walking(v))
  BY <1>2 DEF Going, Walking
<1> QED
  BY <1>2, <1>7, <1>8, <1>9, <1>10, <1>11, <1>12, <1>13 DEF WorkerInv

(* What is told of a tray is still told, if the tracks keep ids and trays   *)
(* and none is moved back.                                                  *)
LEMMA ToldStays ==
  ASSUME NEW lo, NEW hi, NEW p, p.tray \in Trays, Told(p, lo, hi), tracks' = tracks,
         \A n \in tracks : objs'[n].id = objs[n].id,
         \A n \in tracks : p.frame <= objs[n].stamp => p.frame <= objs'[n].stamp,
         \A n \in tracks, t \in Trays : Mine(n, t, lo, hi)' <=> Mine(n, t, lo, hi),
         \A v \in Workers : Belated(v) => Belated(v)'
  PROVE  Told(p, lo, hi)'
<1>1. PICK t \in Trays : t = p.tray
  OBVIOUS
<1>2. CASE \E n \in tracks : Named(n, p, lo, hi)
  <2>1. PICK n \in tracks : Named(n, p, lo, hi)
    BY <1>2
  <2>2. Named(n, p, lo, hi)'
    BY <1>1, <2>1 DEF Named
  <2> QED
    BY <2>2 DEF Told
<1>3. CASE Lost(p.tray, lo, hi)
  BY <1>1, <1>3 DEF Lost, Told
<1> QED
  BY <1>2, <1>3 DEF Told

(* The id that is published is the one published before.                    *)
LEMMA SameIdsStay ==
  ASSUME TypeOK, BegunInv, SameIds, NEW s, NEW f \in Nat, NEW id,
         \A p \in published' \ published : p.tray = s /\ p.frame = f /\ p.id = id,
         \A g \in Frames : Begun(g) => g <= f,
         \A p \in published : p.tray = s /\ Recent(p) => p.id = id
  PROVE  SameIds'
<1>1. \A p \in published : p.frame \in Nat /\ p.frame <= f
  BY ObjsAre DEF BegunInv
<1>2. ASSUME NEW p \in published, p.tray = s, Abs(p.frame - f) < Horizon
      PROVE  p.id = id
  <2>1. PICK h \in Nat : h = p.frame /\ h <= f
    BY <1>1
  <2>2. f < h + Horizon
    BY <1>2, <2>1, VacancyAssumption DEF Abs
  <2>3. \A g \in Frames : Begun(g) => g \in Nat /\ g <= f
    BY ObjsAre
  <2>4. Recent(p)
    BY <2>1, <2>2, <2>3, VacancyAssumption DEF Recent
  <2> QED
    BY <1>2, <2>4
<1>3. \A p \in published : Abs(f - p.frame) = Abs(p.frame - f)
  BY <1>1 DEF Abs
<1> SUFFICES ASSUME NEW p \in published', NEW q \in published',
                    p.tray = q.tray, Abs(p.frame - q.frame) < Horizon
             PROVE  p.id = q.id
  BY DEF SameIds
<1>4. CASE p \in published /\ q \in published
  BY <1>4 DEF SameIds
<1>5. CASE p \in published /\ q \notin published
  <2>1. q.tray = s /\ q.frame = f /\ q.id = id
    BY <1>5
  <2> QED
    BY <1>2, <1>5, <2>1
<1>6. CASE p \notin published /\ q \in published
  <2>1. p.tray = s /\ p.frame = f /\ p.id = id
    BY <1>6
  <2> QED
    BY <1>2, <1>3, <1>6, <2>1
<1>7. CASE p \notin published /\ q \notin published
  BY <1>7
<1> QED
  BY <1>4, <1>5, <1>6, <1>7

(* It publishes in turn: then the track found is that of the id published   *)
(* before.                                                                  *)
LEMMA UpdateKeeps ==
  ASSUME NEW lo \in Int, NEW hi \in Int, Apart(lo, hi), TypeOK, Clear(lo, hi), Chosen(lo, hi),
         JobsNear(lo, hi), BegunInv, TrackInv(lo, hi), InTurn', NEW w \in Workers, Update(w)
  PROVE  TrackInv(lo, hi)'
<1>1. PICK n \in Known, s \in Trays, f \in Frames :
        /\ s = Job(w).tray /\ f = Job(w).frame /\ Job(w) \in Looking /\ Job(w).at = "update"
        /\ n = Min(Job(w).rest) /\ n \in Job(w).rest /\ \A m \in Job(w).rest : n <= m
        /\ Near(objs[n], s, lo, hi)
        /\ Publish(w, objs[n].id)
        /\ UNCHANGED <<film, runs, tracks, nextId, overlap>>
        /\ Known' = Known
        /\ \A m \in Known : /\ objs'[m].id = objs[m].id
                            /\ m # n => objs'[m] = objs[m]
        /\ objs'[n].stamp = f
        /\ \A m \in Known, t \in Trays :
             Near(objs[m], t, lo, hi)' <=> Near(objs[m], t, lo, hi)
  BY UpdateTracks, Zenon
<1>2. /\ ~Overtaken(f) /\ Begun(f) /\ \A g \in Frames : Begun(g) => g <= f
      /\ \A v \in Workers : v # w /\ Job(v).at \in Steps =>
           Job(v).frame < f /\ Overtaken(Job(v).frame)
  BY <1>1, PublishesLatest DEF Steps
<1>3. /\ f \in Nat /\ tracks \subseteq Known /\ Known \subseteq Nat
      /\ \A m \in Known : objs[m].stamp \in Nat /\ objs[m].stamp <= f
  <2>1. \A m \in Known : m \in Nat /\ objs[m].stamp \in Frames
                         /\ Begun(objs[m].stamp) /\ objs[m].stamp \in Nat
    BY StampsBegun
  <2> QED
    BY <1>1, <1>2, <2>1, ObjsAre DEF Known
<1>4. /\ \A v \in Workers : v # w => work'[v] = work[v]
      /\ work'[w].at \in {"idle", "next"}
  BY <1>1, AheadElsewhere DEF Publish, TypeOK
<1>5. \A m \in Known, t \in Trays : Mine(m, t, lo, hi)' <=> Mine(m, t, lo, hi)
  BY <1>1 DEF Mine
<1>6. /\ \A g : Overtaken(g)' <=> Overtaken(g)
      /\ \A p : Recent(p)' <=> Recent(p)
  BY <1>1 DEF Begun, Overtaken, Recent, Frames
<1>7. \A v \in Workers : Belated(v) => Belated(v)'
  BY <1>1, <1>4, <1>6 DEF Belated, Going, Job
<1>8. \A v \in Workers : WorkerInv(v, lo, hi)'
  <2>1. WorkerInv(w, lo, hi)'
    BY <1>4, ElsewhereFine
  <2>2. ASSUME NEW v \in Workers, v # w
        PROVE  WorkerInv(v, lo, hi)'
    <3>1. WorkerInv(v, lo, hi) /\ work'[v] = work[v]
      BY <1>4, <2>2 DEF TrackInv
    <3> QED
      BY <1>1, <1>2, <1>3, <1>5, <2>2, <3>1, UpdateLeaves
  <2> QED
    BY <2>1, <2>2
<1>9. Once(lo, hi)'
  BY <1>1, <1>3, <1>5, <1>7 DEF TrackInv, Once
<1>10. ASSUME NEW p \in published, Recent(p)
       PROVE  Told(p, lo, hi)'
  <2>1. p.tray \in Trays /\ Told(p, lo, hi) /\ p.frame \in Nat /\ p.frame <= f
    BY <1>2, <1>3, <1>10, ObjsAre DEF TrackInv, Clear, BegunInv
  <2>2. \A m \in Known : objs'[m].stamp = f \/ objs'[m].stamp = objs[m].stamp
    BY <1>1
  <2>3. \A m \in tracks : p.frame <= objs[m].stamp => p.frame <= objs'[m].stamp
    BY <1>3, <2>1, <2>2
  <2> QED
    BY <1>1, <1>3, <1>5, <1>7, <2>1, <2>3, ToldStays
<1>11. Seeks(w, lo, hi) /\ Holds(w, lo, hi)
  BY <1>1 DEF TrackInv, WorkerInv, Walking, Going
<1>12. Mine(n, s, lo, hi) /\ Mine(n, s, lo, hi)'
  BY <1>1 DEF Mine
(* The track is in the list, and then the first of its tray, or dropped.    *)
<1>13. \/ n \in tracks /\ \A m \in tracks : Mine(m, s, lo, hi) => n <= m
       \/ n \notin tracks /\ Dropped(n, s, lo, hi)
  <2>1. CASE n \in tracks
    <3> SUFFICES ASSUME NEW m \in tracks, Mine(m, s, lo, hi)
                 PROVE  n <= m
      BY <2>1
    <3>1. m \in Job(w).rest \/ MovedOn(m, w) \/ JustMade(m, w)
      BY <1>1, <1>11 DEF Seeks
    <3>2. ~MovedOn(m, w)
      BY <1>1, <1>3 DEF MovedOn
    <3>3. JustMade(m, w) => n <= m
      BY <1>1, <1>3 DEF JustMade
    <3> QED
      BY <1>1, <3>1, <3>2, <3>3
  <2>2. CASE n \notin tracks
    BY <1>1, <1>2, <1>11, <1>12, <2>2 DEF Holds
  <2> QED
    BY <2>1, <2>2
<1>14. ASSUME NEW p, p \in published' \ published
       PROVE  p.tray = s /\ p.frame = f /\ p.id = objs[n].id /\ Told(p, lo, hi)'
  <2>1. p.tray = s /\ p.frame = f /\ p.id = objs[n].id
    BY <1>1, <1>14 DEF Publish
  <2>2. CASE n \in tracks /\ \A m \in tracks : Mine(m, s, lo, hi) => n <= m
    <3>1. objs'[n].id = p.id /\ p.frame <= objs'[n].stamp
      BY <1>1, <1>3, <2>1
    <3>2. \A m \in tracks' : Mine(m, s, lo, hi)' => n <= m
      BY <1>1, <1>3, <1>5, <2>2
    <3>3. Named(n, p, lo, hi)'
      BY <1>12, <2>1, <3>1, <3>2 DEF Named
    <3> QED
      BY <1>1, <2>1, <2>2, <3>3 DEF Told
  <2>3. CASE Dropped(n, s, lo, hi)
    <3>1. Lost(s, lo, hi)'
      BY <1>1, <1>3, <1>5, <1>7, <2>3 DEF Dropped, Lost
    <3> QED
      BY <2>1, <3>1 DEF Told
  <2> QED
    BY <1>13, <2>1, <2>2, <2>3
<1>15. ASSUME NEW p \in published, p.tray = s, Recent(p)
       PROVE  p.id = objs[n].id
  <2>1. CASE n \in tracks /\ \A m \in tracks : Mine(m, s, lo, hi) => n <= m
    <3>1. PICK m \in tracks : Named(m, p, lo, hi)
      BY <1>12, <1>15, <2>1 DEF TrackInv, Told, Lost
    <3>2. m <= n /\ n <= m
      BY <1>12, <1>15, <2>1, <3>1 DEF Named
    <3>3. m = n
      BY <1>3, <3>2
    <3> QED
      BY <3>1, <3>3 DEF Named
  <2>2. CASE Dropped(n, s, lo, hi)
    BY <1>15, <2>2 DEF Dropped
  <2> QED
    BY <1>13, <2>1, <2>2
<1>16. SameIds'
  <2>1. PICK id : id = objs[n].id
    OBVIOUS
  <2> QED
    BY <1>2, <1>3, <1>14, <1>15, <2>1, SameIdsStay DEF TrackInv
<1>17. \A p \in published' : Recent(p)' => Told(p, lo, hi)'
  BY <1>6, <1>10, <1>14
<1> QED
  BY <1>8, <1>9, <1>16, <1>17 DEF TrackInv

(* With one thread alone at a new track, no id of a track is still to come  *)
(* from another.                                                            *)
LEMMA AloneTracks ==
  ASSUME NEW lo, NEW hi, TypeOK, TrackInv(lo, hi), \A v \in Workers : ~Belated(v)
  PROVE  /\ \A t \in Trays, m, n \in tracks : Mine(m, t, lo, hi) /\ Mine(n, t, lo, hi) => m = n
         /\ \A p \in published : Recent(p) => \E n \in tracks : Named(n, p, lo, hi)
<1>1. ASSUME NEW t \in Trays, NEW m \in tracks, NEW n \in tracks,
             Mine(m, t, lo, hi), Mine(n, t, lo, hi)
      PROVE  m = n
  <2>1. m \in Nat /\ n \in Nat
    BY ObjsAre
  <2>2. ~(m < n) /\ ~(n < m)
    BY <1>1 DEF TrackInv, Once
  <2> QED
    BY <2>1, <2>2
<1>2. \A p \in published : Recent(p) => \E n \in tracks : Named(n, p, lo, hi)
  BY DEF TrackInv, Told, Lost
<1> QED
  BY <1>1, <1>2

LEMMA OthersIdle ==
  ASSUME NEW lo, NEW hi, Clear(lo, hi), NEW w \in Workers, Making(w)
  PROVE  \A v \in Workers \ {w} : ~Making(v)
BY DEF Clear

LEMMA AppendIs ==
  ASSUME NEW lo \in Int, NEW hi \in Int, Apart(lo, hi), TypeOK, JobsNear(lo, hi),
         NEW w \in Workers, AppendTrack(w)
  PROVE  \E k \in Nat, s \in Trays, f \in Frames :
           /\ s = Job(w).tray /\ f = Job(w).frame /\ f \in Nat
           /\ UNCHANGED <<film, runs, nextId, published>>
           /\ \A n \in Known : n < k
           /\ k \in Known' /\ Known \subseteq Known'
           /\ tracks' = Left(w) \cup {k}
           /\ objs'[k].id = nextId /\ objs'[k].stamp = f
           /\ \A n \in Known : objs'[n] = objs[n]
           /\ \A t \in Trays : Mine(k, t, lo, hi)' <=> t = s
           /\ \A v \in Workers : v # w => work'[v] = work[v]
           /\ work'[w].at = "bump" /\ work'[w].tray = s /\ work'[w].frame = f
<1>1. Job(w) \in Looking /\ Job(w).at = "prune" /\ Job(w).rest = {}
  BY JobIs DEF AppendTrack, Going, Steps
<1>2. PICK s \in Trays, f \in Frames, x \in Int :
           s = Job(w).tray /\ f = Job(w).frame /\ x = Job(w).x
  BY <1>1 DEF Looking
<1>3. lo <= x - At(s, f) /\ x - At(s, f) <= hi
  BY <1>1, <1>2 DEF JobsNear, Err, Final
<1>4. PICK k \in Nat : k = Len(objs) + 1
  BY ObjsAre
<1>5. /\ objs' = Append(objs, [id |-> nextId, x |-> x, stamp |-> f])
      /\ tracks' = Left(w) \cup {k}
      /\ work' = [work EXCEPT ![w].at = "bump"]
      /\ UNCHANGED <<film, runs, nextId, published>>
  BY <1>1, <1>2, <1>4 DEF AppendTrack, stores, Left
<1>6. /\ \A n \in Known : objs'[n] = objs[n]
      /\ objs'[k] = [id |-> nextId, x |-> x, stamp |-> f]
      /\ k \in Known' /\ Known \subseteq Known'
  <2>1. PICK o : o = [id |-> nextId, x |-> x, stamp |-> f]
    OBVIOUS
  <2>2. objs' = Append(objs, o) /\ objs \in Seq(Objs) /\ o \in Objs
    BY <1>5, <2>1, ObjsAre DEF Objs, TypeOK
  <2> HIDE DEF Objs
  <2>3. objs'[k] = o /\ Len(objs') = k /\ \A n \in 1 .. Len(objs) : objs'[n] = objs[n]
    BY <1>4, <2>2
  <2> QED
    BY <1>4, <2>1, <2>3, ObjsAre DEF Known
<1>7. objs'[k].id = nextId /\ objs'[k].x = x /\ objs'[k].stamp = f
  BY <1>6
<1>8. \A n \in Known : n < k
  BY <1>4, ObjsAre DEF Known
<1>9. ASSUME NEW t \in Trays, Mine(k, t, lo, hi)'
      PROVE  t = s
  <2>1. lo <= x - At(t, f) /\ x - At(t, f) <= hi
    BY <1>5, <1>7, <1>9 DEF Mine, Near, At
  <2>2. x - x < IdGate /\ f \in Nat /\ Len(film) \in Nat /\ f <= f + Len(film)
    BY ObjsAre, FilmIs, VacancyAssumption DEF TypeOK
  <2> QED
    BY <1>3, <2>1, <2>2, EitherNear
<1>10. Mine(k, s, lo, hi)'
  BY <1>3, <1>5, <1>7 DEF Mine, Near, At
<1>11. /\ \A v \in Workers : v # w => work'[v] = work[v]
       /\ work'[w].at = "bump" /\ work'[w].tray = s /\ work'[w].frame = f
  BY <1>1, <1>2, <1>5 DEF TypeOK, Job, Looking
<1>12. f \in Nat
  BY ObjsAre
<1> QED
  BY <1>2, <1>5, <1>6, <1>7, <1>8, <1>9, <1>10, <1>11, <1>12

(* A thread that looks for its tray's track has passed the new one by, and  *)
(* may hold one that is dropped with the others.                            *)
LEMMA AppendLeaves ==
  ASSUME NEW lo \in Int, NEW hi \in Int, Apart(lo, hi), TypeOK, Clear(lo, hi),
         JobsNear(lo, hi), BegunInv, TrackInv(lo, hi), NEW w \in Workers, AppendTrack(w),
         NEW v \in Workers, v # w
  PROVE  WorkerInv(v, lo, hi)'
<1>1. PICK k \in Nat, s \in Trays, f \in Frames :
        /\ s = Job(w).tray /\ f = Job(w).frame /\ f \in Nat
        /\ UNCHANGED <<film, runs, nextId, published>>
        /\ \A n \in Known : n < k
        /\ k \in Known' /\ Known \subseteq Known'
        /\ tracks' = Left(w) \cup {k}
        /\ objs'[k].id = nextId /\ objs'[k].stamp = f
        /\ \A n \in Known : objs'[n] = objs[n]
        /\ \A t \in Trays : Mine(k, t, lo, hi)' <=> t = s
        /\ \A u \in Workers : u # w => work'[u] = work[u]
        /\ work'[w].at = "bump" /\ work'[w].tray = s /\ work'[w].frame = f
  BY AppendIs, Zenon
<1>2. Going(w, "prune") /\ Making(w) /\ Job(w).at \in Steps
  BY DEF AppendTrack, Going, Making, Steps
<1>3. \A u \in Workers \ {w} : ~Making(u)
  BY <1>2, OthersIdle
<1>4. \A u \in Workers : ~Belated(u)
  BY <1>2, <1>3 DEF Making, Going, Belated
<1>5. /\ \A t \in Trays, m, n \in tracks : Mine(m, t, lo, hi) /\ Mine(n, t, lo, hi) => m = n
      /\ \A p \in published : Recent(p) => \E n \in tracks : Named(n, p, lo, hi)
  BY <1>4, AloneTracks
<1>6. Unfound(w, lo, hi) /\ Left(w) \subseteq tracks
  BY <1>2 DEF TrackInv, WorkerInv, KeepsFresh
<1>7. /\ Job(v)' = Job(v) /\ ~Making(v)' /\ ~Making(v)
      /\ WorkerInv(v, lo, hi)
  BY <1>1, <1>3 DEF Job, Making, Going, TrackInv
<1>8. tracks \subseteq Known /\ Known \subseteq Nat
  BY ObjsAre DEF Known
<1>9. \A t : \A n \in Known : Mine(n, t, lo, hi)' <=> Mine(n, t, lo, hi)
  BY <1>1 DEF Mine, Near, At
<1>10. /\ \A g : Overtaken(g)' <=> Overtaken(g)
       /\ \A p : Recent(p)' <=> Recent(p)
  BY <1>1 DEF Overtaken, Recent, Begun, Frames
<1>11. Walking(v) => Job(v) \in Looking /\ Job(v).at \in Steps
  BY JobIs DEF Walking, Going, Steps
<1>12. Walking(v) => Seeks(v, lo, hi)'
  <2> SUFFICES ASSUME Walking(v), NEW m \in tracks', Mine(m, Job(v).tray, lo, hi)'
               PROVE  m \in Job(v).rest \/ MovedOn(m, v)' \/ JustMade(m, v)'
    BY <1>7 DEF Seeks
  <2>1. CASE m = k
    <3>1. Job(v).rest \subseteq Known
      BY <1>11 DEF Looking, Known
    <3> QED
      BY <1>1, <1>7, <2>1, <3>1 DEF JustMade
  <2>2. CASE m # k
    <3>1. m \in tracks /\ m \in Known
      BY <1>1, <1>6, <1>8, <2>2
    <3>2. m \in Job(v).rest \/ MovedOn(m, v) \/ JustMade(m, v)
      BY <1>7, <1>9, <3>1 DEF WorkerInv, Seeks
    <3> QED
      BY <1>1, <1>7, <3>1, <3>2 DEF MovedOn, JustMade
  <2> QED
    BY <2>1, <2>2
<1>13. Walking(v) => Holds(v, lo, hi)'
  <2> SUFFICES ASSUME Walking(v), NEW n \in Job(v).rest, Mine(n, Job(v).tray, lo, hi)'
               PROVE  n \in tracks' \/ Overtaken(Job(v).frame)' \/ Dropped(n, Job(v).tray, lo, hi)'
    BY <1>7 DEF Holds
  <2>1. PICK t \in Trays, g \in Frames : t = Job(v).tray /\ g = Job(v).frame /\ g \in Nat
    BY <1>11, ObjsAre DEF Looking
  <2>2. n \in Known /\ Mine(n, t, lo, hi)
    BY <1>7, <1>9, <1>11, <2>1 DEF Looking, Known
  <2>3. n \in tracks \/ Overtaken(g)
    BY <1>4, <1>7, <2>1, <2>2 DEF WorkerInv, Holds, Dropped, Lost
  <2>4. CASE n \in Left(w)
    BY <1>1, <2>4
  <2>5. CASE Overtaken(g)
    BY <1>7, <1>10, <2>1, <2>5
  <2>6. CASE n \in tracks \ Left(w) /\ ~Overtaken(g)
    <3>1. Overtaken(f)
      <4>1. Begun(f) /\ Begun(g) /\ f # g
        BY <1>1, <1>2, <1>11, <2>1 DEF BegunInv, Steps
      <4>2. ~(f > g)
        BY <2>6, <4>1 DEF Overtaken
      <4>3. g > f
        BY <1>1, <2>1, <4>1, <4>2
      <4> QED
        BY <4>1, <4>3 DEF Overtaken
    <3>2. Belated(w)'
      BY <1>1, <1>10, <3>1 DEF Belated, Going, Job
    <3>3. t # s
      BY <1>1, <1>6, <2>2, <2>6 DEF Unfound
    <3>4. \A m \in tracks' : ~Mine(m, t, lo, hi)'
      <4> SUFFICES ASSUME NEW m \in tracks', Mine(m, t, lo, hi)'
                   PROVE  FALSE
        OBVIOUS
      <4>1. m # k
        BY <1>1, <3>3
      <4>2. m \in Left(w) /\ m \in tracks /\ m \in Known
        BY <1>1, <1>6, <1>8, <4>1
      <4>3. m = n
        BY <1>5, <1>9, <2>2, <2>6, <4>2
      <4> QED
        BY <2>6, <4>2, <4>3
    <3>5. ASSUME NEW p \in published, p.tray = t, Recent(p)
          PROVE  p.id = objs'[n].id
      <4>1. PICK m \in tracks : Named(m, p, lo, hi)
        BY <1>5, <3>5
      <4>2. m = n
        BY <1>5, <2>2, <2>6, <3>5, <4>1 DEF Named
      <4> QED
        BY <1>1, <2>2, <4>1, <4>2 DEF Named
    <3> QED
      BY <1>1, <1>7, <1>10, <2>1, <3>2, <3>4, <3>5 DEF Dropped, Lost
  <2> QED
    BY <2>3, <2>4, <2>5, <2>6
<1>14. Steady(v) => Steady(v)'
  <2> SUFFICES ASSUME Steady(v) PROVE Steady(v)'
    OBVIOUS
  <2>1. PICK m \in Known : /\ m = Min(Job(v).rest)
                           /\ MovedOn(m, v) \/ Job(v).since = Passed(Job(v).frame, objs[m].stamp)
    BY DEF Steady
  <2>2. MovedOn(m, v)' \/ Job(v).since = Passed(Job(v).frame, objs'[m].stamp)
    BY <1>1, <1>7, <2>1 DEF MovedOn
  <2> QED
    BY <1>1, <1>7, <2>1, <2>2 DEF Steady
<1>15. (\A at : Going(v, at)' <=> Going(v, at)) /\ (Walking(v)' <=> Walking(v))
  BY <1>7 DEF Going, Walking
<1>16. ~Going(v, "prune") /\ ~Going(v, "bump")
  BY <1>7 DEF Making
<1> QED
  BY <1>7, <1>12, <1>13, <1>14, <1>15, <1>16 DEF WorkerInv

(* The new track is the first of its tray and the only one, or a later      *)
(* frame began meanwhile.                                                   *)
LEMMA AppendKeeps ==
  ASSUME NEW lo \in Int, NEW hi \in Int, Apart(lo, hi), TypeOK, Clear(lo, hi),
         JobsNear(lo, hi), BegunInv, TrackInv(lo, hi), NEW w \in Workers, AppendTrack(w)
  PROVE  TrackInv(lo, hi)'
<1>1. PICK k \in Nat, s \in Trays, f \in Frames :
        /\ s = Job(w).tray /\ f = Job(w).frame /\ f \in Nat
        /\ UNCHANGED <<film, runs, nextId, published>>
        /\ \A n \in Known : n < k
        /\ k \in Known' /\ Known \subseteq Known'
        /\ tracks' = Left(w) \cup {k}
        /\ objs'[k].id = nextId /\ objs'[k].stamp = f
        /\ \A n \in Known : objs'[n] = objs[n]
        /\ \A t \in Trays : Mine(k, t, lo, hi)' <=> t = s
        /\ \A v \in Workers : v # w => work'[v] = work[v]
        /\ work'[w].at = "bump" /\ work'[w].tray = s /\ work'[w].frame = f
  BY AppendIs, Zenon
<1>2. Going(w, "prune") /\ Making(w) /\ Job(w).at \in Steps
  BY DEF AppendTrack, Going, Making, Steps
<1>3. \A v \in Workers : ~Belated(v)
  <2>1. \A v \in Workers \ {w} : ~Making(v)
    BY <1>2, OthersIdle
  <2> QED
    BY <1>2, <2>1 DEF Making, Going, Belated
<1>4. /\ \A t \in Trays, m, n \in tracks : Mine(m, t, lo, hi) /\ Mine(n, t, lo, hi) => m = n
      /\ \A p \in published : Recent(p) => \E n \in tracks : Named(n, p, lo, hi)
  BY <1>3, AloneTracks
<1>5. Unfound(w, lo, hi) /\ KeepsFresh(w) /\ Left(w) \subseteq tracks
  BY <1>2 DEF TrackInv, WorkerInv, KeepsFresh
<1>6. \A n \in tracks : /\ n \in Known /\ n \in Nat /\ n < k /\ objs[n].stamp \in Frames
                        /\ Begun(objs[n].stamp) /\ objs[n].stamp \in Nat /\ objs'[n] = objs[n]
  <2>1. tracks \subseteq Known
    BY ObjsAre DEF Known
  <2> QED
    BY <1>1, <2>1, StampsBegun
<1>7. \A t : \A n \in tracks : Mine(n, t, lo, hi)' <=> Mine(n, t, lo, hi)
  BY <1>1, <1>6 DEF Mine, Near, At
<1>8. Job(w)'.at = "bump" /\ Job(w)'.tray = s /\ Job(w)'.frame = f
  BY <1>1 DEF Job
<1>9. Overtaken(f) => Belated(w)'
  <2>1. Overtaken(f) => Overtaken(f)'
    BY <1>1 DEF Overtaken, Begun, Frames
  <2> QED
    BY <1>8, <2>1 DEF Belated, Going
<1>10. ASSUME NEW n \in tracks, Mine(n, s, lo, hi)
       PROVE  n \in Left(w) /\ Overtaken(f)
  <2>1. n \in Left(w) /\ objs[n].stamp > f
    BY <1>1, <1>5, <1>10 DEF Unfound, MovedOn
  <2> QED
    BY <1>6, <2>1 DEF Overtaken
<1>11. \A v \in Workers : WorkerInv(v, lo, hi)'
  <2>1. Made(w, lo, hi)'
    <3>1. k \in tracks' /\ Mine(k, s, lo, hi)' /\ f <= f /\ objs'[k].id = nextId'
      BY <1>1
    <3> QED
      BY <1>1, <1>8, <3>1 DEF Made
  <2>2. WorkerInv(w, lo, hi)'
    BY <1>8, <2>1 DEF WorkerInv, Walking, Going
  <2> QED
    BY <2>2, AppendLeaves
<1>12. ASSUME NEW t \in Trays, NEW m \in tracks', NEW n \in tracks',
              m < n, Mine(m, t, lo, hi)', Mine(n, t, lo, hi)'
       PROVE  \E v \in Workers : Belated(v)'
  <2>1. m \in tracks
    <3>1. CASE m = k /\ n = k
      BY <1>12, <3>1
    <3>2. CASE m = k /\ n # k
      <4>1. n \in tracks /\ n < k /\ n \in Nat
        BY <1>1, <1>5, <1>6, <3>2
      <4> QED
        BY <1>12, <3>2, <4>1
    <3> QED
      BY <1>1, <1>5, <3>1, <3>2
  <2>2. Mine(m, t, lo, hi)
    BY <1>7, <1>12, <2>1
  <2>3. CASE n = k
    BY <1>1, <1>9, <1>10, <1>12, <2>1, <2>2, <2>3
  <2>4. CASE n # k
    <3>1. n \in tracks
      BY <1>1, <1>5, <2>4
    <3>2. m = n
      BY <1>4, <1>7, <1>12, <2>1, <2>2, <3>1
    <3> QED
      BY <1>6, <1>12, <3>1, <3>2
  <2> QED
    BY <2>3, <2>4
<1>13. ASSUME NEW p \in published, Recent(p)
       PROVE  Told(p, lo, hi)'
  <2>1. PICK n \in tracks : Named(n, p, lo, hi)
    BY <1>4, <1>13
  <2>2. PICK t \in Trays : t = p.tray
    BY <1>13 DEF Clear
  <2>3. Mine(n, t, lo, hi) /\ objs[n].id = p.id /\ p.frame <= objs[n].stamp
    BY <2>1, <2>2 DEF Named
  <2>4. \A m \in tracks : Mine(m, t, lo, hi) => m = n
    BY <1>4, <2>3
  <2>5. CASE n \in Left(w)
    <3>1. objs'[n].id = p.id /\ Mine(n, p.tray, lo, hi)' /\ p.frame <= objs'[n].stamp
      BY <1>6, <1>7, <2>2, <2>3
    <3>2. \A m \in tracks' : Mine(m, p.tray, lo, hi)' => n <= m
      <4> SUFFICES ASSUME NEW m \in tracks', Mine(m, t, lo, hi)'
                   PROVE  n <= m
        BY <2>2
      <4>1. CASE m = k
        BY <1>6, <4>1
      <4>2. CASE m # k
        <5>1. m \in tracks
          BY <1>1, <1>5, <4>2
        <5>2. m = n
          BY <1>7, <2>4, <5>1
        <5> QED
          BY <1>6, <5>2
      <4> QED
        BY <4>1, <4>2
    <3>3. n \in tracks'
      BY <1>1, <2>5
    <3> QED
      BY <3>1, <3>2, <3>3 DEF Named, Told
  <2>6. CASE n \notin Left(w)
    <3>1. Overtaken(f)
      <4>1. Begun(f) /\ p.frame \in Nat
        <5>1. Begun(f)
          BY <1>1, <1>2 DEF BegunInv, Steps
        <5> QED
          BY <5>1, ObjsAre DEF BegunInv
      <4>2. f < p.frame + Horizon
        BY <1>13, <4>1 DEF Recent
      <4>3. ~(f - objs[n].stamp >= Horizon)
        BY <1>1, <1>6, <2>3, <4>1, <4>2, VacancyAssumption
      <4> QED
        BY <1>1, <1>5, <2>6, <4>3 DEF KeepsFresh
    <3>2. \A m \in tracks' : ~Mine(m, t, lo, hi)'
      <4> SUFFICES ASSUME NEW m \in tracks', Mine(m, t, lo, hi)'
                   PROVE  FALSE
        OBVIOUS
      <4>1. CASE m = k
        BY <1>1, <1>10, <2>3, <2>6, <4>1
      <4>2. CASE m # k
        <5>1. m \in tracks /\ m \in Left(w)
          BY <1>1, <1>5, <4>2
        <5>2. m = n
          BY <1>7, <2>4, <5>1
        <5> QED
          BY <2>6, <5>1, <5>2
      <4> QED
        BY <4>1, <4>2
    <3> QED
      BY <1>9, <2>2, <3>1, <3>2 DEF Lost, Told
  <2> QED
    BY <2>5, <2>6
<1>14. \A p \in published' : Recent(p)' => Told(p, lo, hi)'
  <2>1. \A p : Recent(p)' <=> Recent(p)
    BY <1>1 DEF Recent, Begun, Frames
  <2> QED
    BY <1>1, <1>13, <2>1
<1>15. SameIds'
  BY <1>1 DEF TrackInv, SameIds
<1> QED
  BY <1>11, <1>12, <1>14, <1>15 DEF TrackInv, Once

(* The new track is of a later frame than that of any other thread.         *)
LEMMA BumpLeaves ==
  ASSUME NEW lo, NEW hi, TypeOK, Clear(lo, hi), NEW v \in Workers, WorkerInv(v, lo, hi),
         work'[v] = work[v], UNCHANGED <<film, runs, objs, tracks>>,
         NEW n \in tracks, objs[n].id = nextId, NEW f \in Nat, f <= objs[n].stamp,
         Job(v).at \in Steps => Job(v).frame < f /\ Overtaken(Job(v).frame), ~Making(v)
  PROVE  WorkerInv(v, lo, hi)'
<1>1. Job(v)' = Job(v) /\ Known' = Known
  BY DEF Job, Known
<1>2. \A m, t : Mine(m, t, lo, hi)' <=> Mine(m, t, lo, hi)
  BY DEF Mine, Near, At
<1>3. \A g : Overtaken(g)' <=> Overtaken(g)
  BY DEF Overtaken, Begun, Frames
<1>4. \A m : MovedOn(m, v)' <=> MovedOn(m, v)
  BY <1>1 DEF MovedOn
<1>5. Walking(v) => Seeks(v, lo, hi)' /\ Holds(v, lo, hi)'
  <2> SUFFICES ASSUME Walking(v) PROVE Seeks(v, lo, hi)' /\ Holds(v, lo, hi)'
    OBVIOUS
  <2>1. PICK g \in Nat : g = Job(v).frame /\ g < f /\ Overtaken(g)
    BY JobIs, ObjsAre DEF Walking, Going, Steps, Looking
  <2>2. ASSUME NEW m \in tracks, JustMade(m, v)
        PROVE  MovedOn(m, v)
    <3>1. m \in Known /\ n \in Known /\ objs[n].stamp \in Nat
      BY ObjsAre DEF Known
    <3>2. m = n
      BY <2>2, <3>1 DEF JustMade, Clear
    <3> QED
      BY <2>1, <3>1, <3>2 DEF MovedOn
  <2>3. Seeks(v, lo, hi)'
    BY <1>1, <1>2, <1>4, <2>2 DEF WorkerInv, Seeks
  <2>4. Holds(v, lo, hi)'
    BY <1>1, <1>3, <2>1 DEF Holds
  <2> QED
    BY <2>3, <2>4
<1>6. Steady(v) => Steady(v)'
  BY <1>1, <1>4 DEF Steady
<1>7. (\A at : Going(v, at)' <=> Going(v, at)) /\ (Walking(v)' <=> Walking(v))
  BY <1>1 DEF Going, Walking
<1> QED
  BY <1>1, <1>5, <1>6, <1>7 DEF WorkerInv, Making

(* It publishes in turn: no other thread had a later frame to find the tray *)
(* in, and the id is that of the only track of the tray.                    *)
LEMMA BumpKeeps ==
  ASSUME NEW lo, NEW hi, TypeOK, Clear(lo, hi), BegunInv, TrackInv(lo, hi), InTurn',
         NEW w \in Workers, Bump(w)
  PROVE  TrackInv(lo, hi)'
<1>1. PICK s \in Trays, f \in Frames : s = Job(w).tray /\ f = Job(w).frame /\ f \in Nat
  BY JobIs, ObjsAre DEF Bump, Going, Steps, Looking
<1>2. Job(w).at = "bump" /\ Going(w, "bump") /\ Making(w) /\ Job(w).at \in Steps
  BY DEF Bump, Going, Making, Steps
<1>3. UNCHANGED <<film, runs, objs, tracks>> /\ Publish(w, nextId)
  BY DEF Bump, stores
<1>4. /\ ~Overtaken(f) /\ \A g \in Frames : Begun(g) => g <= f
      /\ \A v \in Workers : v # w /\ Job(v).at \in Steps =>
           Job(v).frame < f /\ Overtaken(Job(v).frame)
  BY <1>1, <1>2, <1>3, PublishesLatest
<1>5. /\ \A v \in Workers : v # w => work'[v] = work[v]
      /\ work'[w].at \in {"idle", "next"}
  BY <1>3, AheadElsewhere DEF Publish, TypeOK
<1>6. \A v \in Workers \ {w} : ~Making(v)
  BY <1>2, OthersIdle
<1>7. \A v \in Workers : ~Belated(v)
  <2>1. ~Belated(w)
    BY <1>1, <1>4 DEF Belated
  <2> QED
    BY <1>6, <2>1 DEF Belated, Going, Making
<1>8. /\ \A t \in Trays, m, n \in tracks : Mine(m, t, lo, hi) /\ Mine(n, t, lo, hi) => m = n
      /\ \A p \in published : Recent(p) => \E n \in tracks : Named(n, p, lo, hi)
  BY <1>7, AloneTracks
<1>9. \A n, t : Mine(n, t, lo, hi)' <=> Mine(n, t, lo, hi)
  BY <1>3 DEF Mine, Near, At
<1>10. PICK n \in tracks : objs[n].id = nextId /\ Mine(n, s, lo, hi) /\ f <= objs[n].stamp
  BY <1>1, <1>2 DEF TrackInv, WorkerInv, Made
<1>11. \A m \in tracks : Mine(m, s, lo, hi) => m = n
  BY <1>8, <1>10
<1>12. \A p : Recent(p)' <=> Recent(p)
  BY <1>3 DEF Recent, Begun, Frames
<1>13. \A m, p : Named(m, p, lo, hi)' <=> Named(m, p, lo, hi)
  BY <1>3, <1>9 DEF Named
<1>14. ASSUME NEW p, p \in published' \ published
       PROVE  p.tray = s /\ p.frame = f /\ p.id = nextId /\ Named(n, p, lo, hi)
  <2>1. p.tray = s /\ p.frame = f /\ p.id = nextId
    BY <1>1, <1>3, <1>14 DEF Publish
  <2>2. n \in Nat /\ n <= n
    BY ObjsAre
  <2> QED
    BY <1>10, <1>11, <2>1, <2>2 DEF Named
<1>15. \A p \in published' : Recent(p)' => Told(p, lo, hi)'
  <2> SUFFICES ASSUME NEW p \in published', Recent(p)
               PROVE  \E m \in tracks : Named(m, p, lo, hi)
    BY <1>3, <1>12, <1>13 DEF Told
  <2>1. CASE p \in published
    BY <1>8, <2>1
  <2>2. CASE p \notin published
    BY <1>14, <2>2
  <2> QED
    BY <2>1, <2>2
<1>16. ASSUME NEW p \in published, p.tray = s, Recent(p)
       PROVE  p.id = nextId
  <2>1. PICK m \in tracks : Named(m, p, lo, hi)
    BY <1>8, <1>16
  <2>2. m = n
    BY <1>11, <1>16, <2>1 DEF Named
  <2> QED
    BY <1>10, <2>1, <2>2 DEF Named
<1>17. SameIds'
  BY <1>1, <1>4, <1>14, <1>16, SameIdsStay DEF TrackInv
<1>18. Once(lo, hi)'
  BY <1>3, <1>7, <1>9 DEF TrackInv, Once
<1>19. \A v \in Workers : WorkerInv(v, lo, hi)'
  <2>1. WorkerInv(w, lo, hi)'
    BY <1>5, ElsewhereFine
  <2>2. ASSUME NEW v \in Workers, v # w
        PROVE  WorkerInv(v, lo, hi)'
    <3>1. WorkerInv(v, lo, hi) /\ work'[v] = work[v] /\ ~Making(v)
      BY <1>5, <1>6, <2>2 DEF TrackInv
    <3> QED
      BY <1>1, <1>3, <1>4, <1>10, <2>2, <3>1, BumpLeaves
  <2> QED
    BY <2>1, <2>2
<1> QED
  BY <1>15, <1>17, <1>18, <1>19 DEF TrackInv

(* The steps before a track is looked for.                                  *)
LEMMA LocatesElsewhere ==
  ASSUME TypeOK, NEW w \in Workers, Locate(w) \/ GetCorr(w) \/ SetCorr(w)
  PROVE  work'[w].at \in {"search", "set"}
<1>1. ASSUME NEW r, work' = [work EXCEPT ![w] = r]
      PROVE  work'[w] = r
  BY <1>1 DEF TypeOK
<1>2. CASE Locate(w)
  <2>1. PICK tray, assign, x, dx : work' = [work EXCEPT ![w] = Seen(w, tray, assign, x, dx)]
    <3>1. PICK tray \in Trays, e \in MaskErrs, off \in Slack, O \in Looks, P \in Looks,
               late \in 0 .. Lag, x \in Int :
            LET fit == Fit(Points(O, P, V * late, off), e)
            IN /\ tray \in Job(w).todo /\ x = At(tray, Job(w).frame) + e
               /\ \/ /\ Believed(fit, e)
                     /\ \E dx \in Int : /\ dx = fit.x - e
                                       /\ work' = [work EXCEPT ![w] = Seen(w, tray, FALSE, x, dx)]
                  \/ work' = [work EXCEPT ![w] = Seen(w, tray, TRUE, x, 0)]
      BY <1>2, SeenAre, Zenon
    <3> QED
      BY <3>1
  <2>2. PICK r : r = Seen(w, tray, assign, x, dx)
    OBVIOUS
  <2>3. r.at = "search"
    BY <2>2 DEF Seen
  <2> QED
    BY <1>1, <2>1, <2>2, <2>3
<1>3. CASE GetCorr(w)
  <2>1. PICK job \in Looking, c \in Int : work' = [work EXCEPT ![w] = Smoothing(job, c)]
    BY <1>3, GetIs
  <2>2. PICK r : r = Smoothing(job, c)
    OBVIOUS
  <2>3. r.at = "set"
    BY <2>2 DEF Smoothing, Looking
  <2> QED
    BY <1>1, <2>1, <2>2, <2>3
<1>4. CASE SetCorr(w)
  <2>1. PICK job \in Looking : work' = [work EXCEPT ![w] = Corrected(job)]
    BY <1>4, SetIs
  <2>2. PICK r : r = Corrected(job)
    OBVIOUS
  <2>3. r.at = "search"
    BY <2>2 DEF Corrected, Looking
  <2> QED
    BY <1>1, <2>1, <2>2, <2>3
<1> QED
  BY <1>2, <1>3, <1>4

(* A thread that only watches.                                              *)
LEMMA WatchKeeps ==
  ASSUME NEW lo \in Int, NEW hi \in Int, hi - lo < IdGate, TypeOK, JobsNear(lo, hi),
         Clear(lo, hi), TrackInv(lo, hi), ~overlap', NEW w \in Workers, Watches(w)
  PROVE  TrackInv(lo, hi)'
<1>1. /\ UNCHANGED <<film, objs, tracks, nextId, published>>
      /\ \A v \in Workers : v # w => work'[v] = work[v]
      /\ ~Going(w, "bump")
  BY WatchAre DEF Going
<1>2. \A f \in Frames : Begun(f) => Begun(f)'
  BY WatchAre DEF Begun
<1>3. WorkerInv(w, lo, hi)'
  <2>1. CASE Locate(w) \/ GetCorr(w) \/ SetCorr(w)
    <3>1. work'[w].at \notin {"look", "place", "update", "prune", "bump"}
      BY <2>1, LocatesElsewhere
    <3> QED
      BY <3>1, ElsewhereFine
  <2> QED
    BY <2>1, ReadsKeeps, PlaceKeeps, PruneKeeps DEF Watches
<1> QED
  BY <1>1, <1>2, <1>3, TracksStay

(* A thread that takes a message.                                           *)
LEMMA StoresKeep ==
  ASSUME NEW lo, NEW hi, TypeOK, TrackInv(lo, hi), NEW w \in Workers, NEW f \in Frames,
         OnDet(w, f) \/ OnMasks(w, f)
  PROVE  TrackInv(lo, hi)'
<1>1. UNCHANGED <<film, objs, tracks, nextId, published>> /\ work[w] = Idle
  BY DEF OnDet, OnMasks, ids, Takes
<1>2. ~Going(w, "bump")
  BY <1>1 DEF Going, Job, Idle
<1>3. /\ \A h \in Frames : Begun(h) => Begun(h)'
      /\ \A v \in Workers : v # w => work'[v] = work[v]
      /\ work'[w].at \in {"idle", "next"}
  <2>1. CASE UNCHANGED <<runs, work>>
    BY <1>1, <2>1 DEF Begun, Idle
  <2>2. CASE Begin(w, f)
    <3>1. PICK g \in Frames : /\ runs' = [runs EXCEPT ![f] = runs[f] + 1]
                              /\ work' = [work EXCEPT ![w] = Ahead(f, g, film[f].whole)]
      BY <2>2, BeginIs
    <3>2. \A h \in Frames : Begun(h) => Begun(h)'
      <4>1. runs \in [Frames -> Nat]
        BY DEF TypeOK
      <4> QED
        BY <3>1, <4>1 DEF Begun
    <3> QED
      BY <3>1, <3>2, AheadElsewhere DEF TypeOK
  <2> QED
    BY <2>1, <2>2 DEF OnDet, OnMasks
<1>4. WorkerInv(w, lo, hi)'
  BY <1>3, ElsewhereFine
<1> QED
  BY <1>1, <1>2, <1>3, <1>4, TracksStay

LEMMA PublishedStays == [Next]_vars => (InTurn' => InTurn)
<1>1. [Next]_vars => published \subseteq published'
  <2>1. ASSUME NEW w \in Workers, Process(w)
        PROVE  published \subseteq published'
    BY <2>1 DEF Process, Locate, GetCorr, SetCorr, Search, Look, Reads, Place, Update, Prune,
                AppendTrack, Bump, Publish
  <2>2. ASSUME NEW w \in Workers, NEW f \in Frames, OnDet(w, f) \/ OnMasks(w, f)
        PROVE  published \subseteq published'
    BY <2>2 DEF OnDet, OnMasks
  <2> QED
    BY <2>1, <2>2 DEF Next, vars
<1> QED
  BY <1>1 DEF InTurn

LEMMA BegunKept ==
  ASSUME TypeOK, IInv, BegunInv, [Next]_vars
  PROVE  BegunInv'
<1>1. CASE UNCHANGED vars
  BY <1>1 DEF vars, stores, ids, BegunInv, Begun, Job, Known, Frames
<1> QED
  BY <1>1, NextIInv, ProcessBegun, StoresBegun DEF Next

LEMMA TracksKept ==
  ASSUME NEW lo \in Int, NEW hi \in Int, Apart(lo, hi), hi - lo < IdGate, TypeOK,
         JobsNear(lo, hi), IdInv(lo, hi), BegunInv, KeepInv(lo, hi), [Next]_vars
  PROVE  KeepInv(lo, hi)'
<1> SUFFICES ASSUME ~overlap', InTurn'
             PROVE  TrackInv(lo, hi)'
  BY DEF KeepInv
<1>1. TrackInv(lo, hi) /\ Clear(lo, hi) /\ Chosen(lo, hi)
  BY OverlapStays, PublishedStays DEF KeepInv, IdInv
<1>2. ASSUME NEW w \in Workers, Watches(w)
      PROVE  TrackInv(lo, hi)'
  BY <1>1, <1>2, WatchKeeps
<1>3. ASSUME NEW w \in Workers, Update(w)
      PROVE  TrackInv(lo, hi)'
  BY <1>1, <1>3, UpdateKeeps
<1>4. ASSUME NEW w \in Workers, AppendTrack(w)
      PROVE  TrackInv(lo, hi)'
  BY <1>1, <1>4, AppendKeeps
<1>5. ASSUME NEW w \in Workers, Bump(w)
      PROVE  TrackInv(lo, hi)'
  BY <1>1, <1>5, BumpKeeps
<1>6. ASSUME NEW w \in Workers, NEW f \in Frames, OnDet(w, f) \/ OnMasks(w, f)
      PROVE  TrackInv(lo, hi)'
  BY <1>1, <1>6, StoresKeep
<1>7. CASE UNCHANGED vars
  <2>1. UNCHANGED <<film, runs, objs, tracks, nextId, published, work>>
    BY <1>7 DEF vars, stores, ids
  <2>2. /\ \A f \in Frames : Begun(f) => Begun(f)'
        /\ \A u \in Workers : Belated(u)' <=> Belated(u)
    BY <2>1 DEF Begun, Belated, Going, Job, Overtaken, Frames
  <2>3. \A w \in Workers : WorkerInv(w, lo, hi)'
    BY <1>1, <2>1, <2>2, WorkerStays DEF TrackInv
  <2>4. \A n, t : Mine(n, t, lo, hi)' <=> Mine(n, t, lo, hi)
    BY <2>1 DEF Mine, Near, At
  <2>5. Once(lo, hi)'
    BY <1>1, <2>1, <2>2, <2>4 DEF TrackInv, Once
  <2>6. \A p : (Recent(p)' <=> Recent(p)) /\ (Told(p, lo, hi) => Told(p, lo, hi)')
    BY <2>1, <2>2, <2>4 DEF Told, Named, Lost, Recent, Begun, Frames
  <2>7. SameIds'
    BY <1>1, <2>1 DEF TrackInv, SameIds
  <2> QED
    BY <1>1, <2>1, <2>3, <2>5, <2>6, <2>7 DEF TrackInv
<1> QED
  BY <1>2, <1>3, <1>4, <1>5, <1>6, <1>7 DEF Next, Process, Watches

LEMMA KeepsIds ==
  ASSUME NEW lo, NEW hi, KeepInv(lo, hi)
  PROVE  overlap \/ KeepsItsId
BY DEF KeepInv, TrackInv, SameIds, InTurn, KeepsItsId

(* An id names one tray and the tray keeps it, unless two tracks were made  *)
(* at the same time or a frame got ahead of an earlier one.  Enough for it  *)
(* is the error budget, that trays lie far enough apart for it, and that    *)
(* the errors of a tray differ by less than the gate: whatever the films    *)
(* and the threads, although the list made without the old tracks may       *)
(* replace one that others have moved on, a track may change between the    *)
(* reads of it, and the next id is counted up after the track was made.     *)
THEOREM TraysKeepTheirIds ==
  ASSUME NEW a \in Int, NEW b \in Int, NEW c \in Int, NEW d \in Int, Budget(a, b, c, d),
         MinFit >= 3, Apart(a + c - b, b + d - a), (b + d - a) - (a + c - b) < IdGate
  PROVE  Spec => []TrayIds
<1>1. PICK lo \in Int, hi \in Int : lo = a + c - b /\ hi = b + d - a
  OBVIOUS
<1>2. Apart(lo, hi) /\ hi - lo < IdGate
  BY <1>1
<1>3. PocketInv(a, b, c, d) => TypeOK /\ JobsNear(lo, hi)
  BY <1>1, PocketsNear
<1> DEFINE I == PocketInv(a, b, c, d) /\ IdInv(lo, hi) /\ IInv /\ BegunInv /\ KeepInv(lo, hi)
<1>4. Init => I
  BY InitPockets, InitIds, InitIInv, InitBegun, InitTracks
<1>5. I /\ [Next]_vars => I'
  <2> SUFFICES ASSUME I, [Next]_vars
               PROVE  I'
    OBVIOUS
  <2>1. TypeOK /\ JobsNear(lo, hi)
    BY <1>3
  <2>2. PocketInv(a, b, c, d)' /\ IInv' /\ BegunInv' /\ IdInv(lo, hi)'
    BY <1>2, <2>1, PocketsKept, NextIInv, BegunKept, IdsKept
  <2>3. KeepInv(lo, hi)'
    BY <1>2, <2>1, TracksKept
  <2> QED
    BY <2>2, <2>3
<1>6. I => TrayIds
  BY <1>2, <1>3, OneTray, KeepsIds DEF TrayIds
<1> HIDE DEF I
<1> QED
  BY <1>4, <1>5, <1>6, PTL DEF Spec
=============================================================================

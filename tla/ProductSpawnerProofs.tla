------------------------ MODULE ProductSpawnerProofs ------------------------
(***************************************************************************)
(* Proofs about the spawner, for any number of models, any lengths and any *)
(* limits: its types, that trays lie apart, that the belt is not crowded,  *)
(* and that nothing is taken from it before its end.                       *)
(***************************************************************************)
EXTENDS ProductSpawner, FiniteSetTheorems, TLAPS

(* The name a request to create is under way for.                           *)
Coming(n) == pc = "create" /\ n = job.name

(* The requests there can be, with c models counted.                        *)
Creates(c) == [do : {"create"}, name : 1 .. c, at : {0, End}]
Removes(c) == [do : {"remove"}, name : 1 .. c, at : {0}]

(* Nothing is known of a model that was not counted, and nothing remembered *)
(* of the one that is being created.                                        *)
Counted ==
  /\ \A n \in DOMAIN world \cup DOMAIN poses \cup DOMAIN msg \cup DOMAIN snapshot \cup todo :
       n <= counter
  /\ \A r \in pending : r \in Creates(counter) \cup Removes(counter)
  /\ pc = "remove" => job \in Removes(counter)
  /\ pc = "create" => /\ job \in Creates(counter) /\ job.name = counter
                      /\ job.name \notin DOMAIN poses

TypeInv == TypeOK /\ Counted

-----------------------------------------------------------------------------
(* What keeps trays apart, while none was given up.                         *)

LengthOf(n) == TrayLength(TrayModel(n))

(* A tray on the belt has not reached its end.                              *)
OnBelt(n) == n \in DOMAIN world /\ world[n] < End

LastOK ==
  /\ counter > 0 => lastModel = TrayModel(counter)
  /\ pc \notin {"serve", "product"} /\ asked = 0
  /\ pc = "create" => job.at = 0

(* What is remembered of a tray is where it was; and every tray on the belt *)
(* is remembered, from when it was created on.                              *)
Older(f) == \A n \in DOMAIN f \cap DOMAIN world : f[n] <= world[n]
SeenOK ==
  /\ Older(poses) /\ Older(msg) /\ Older(snapshot)
  /\ \A n \in DOMAIN world :
       world[n] < End =>
         /\ n \in DOMAIN poses \/ Coming(n)
         /\ pc \in {"recycle", "remove", "tray"} => n \in DOMAIN snapshot
  /\ \A n \in DOMAIN msg \cup DOMAIN snapshot : Coming(n) => n \in DOMAIN world

(* Nothing but what has left the belt is removed, and only the tray of the  *)
(* present request may still come.                                          *)
Leaving(n) == ~OnBelt(n) /\ ~Coming(n)
OpenOK ==
  /\ \A r \in pending : IF r.do = "create" THEN Coming(r.name) /\ r.at = 0 ELSE Leaving(r.name)
  /\ \A n \in todo : Leaving(n)
  /\ pc = "remove" => Leaving(job.name)

(* The tray to come has room, and none between two on the belt is missing.  *)
Room ==
  \A n \in DOMAIN world :
    pc = "create" /\ n # job.name /\ world[n] < End
      => 2 * world[n] >= LengthOf(n) + LengthOf(job.name) + 2 * Gap
NoneMissing ==
  \A n \in DOMAIN world : \A m \in 1 .. counter :
    n < m /\ world[n] < End => m \in DOMAIN world \/ Coming(m)

Trays == kind = "tray" /\ gaveUp = {}
TrayInv == Trays => LastOK /\ SeenOK /\ OpenOK /\ Room /\ NoneMissing /\ TraysKeepGap

-----------------------------------------------------------------------------
(* What keeps the belt from being crowded, while all is answered.           *)

CrowdInv ==
  /\ pc \in {"product", "tray"} => pc = kind
  /\ pc = "serve" \/ asked > 0 => trouble
  /\ ~trouble => /\ pending = {} /\ DOMAIN world \subseteq DOMAIN poses
                 /\ pc \in {"recycle", "remove", "product", "tray"} => DOMAIN world \subseteq DOMAIN snapshot
                 /\ Cardinality(DOMAIN world) <= MaxAlive[kind]
                 /\ pc = "create" => Cardinality(DOMAIN world) < MaxAlive[kind]

-----------------------------------------------------------------------------
(* Maps from names to places.                                               *)

LEMMA UpdatedFacts ==
  ASSUME NEW f, NEW g
  PROVE  /\ DOMAIN Updated(f, g) = DOMAIN f \cup DOMAIN g
         /\ \A n \in DOMAIN f : Updated(f, g)[n] = f[n]
         /\ \A n \in DOMAIN g \ DOMAIN f : Updated(f, g)[n] = g[n]
BY DEF Updated

LEMMA OnlyFacts ==
  ASSUME NEW n, NEW x
  PROVE  DOMAIN Only(n, x) = {n} /\ Only(n, x)[n] = x
BY DEF Only

LEMMA WithFacts ==
  ASSUME NEW f, NEW n, NEW x
  PROVE  /\ DOMAIN With(f, n, x) = DOMAIN f \cup {n}
         /\ With(f, n, x)[n] = x
         /\ \A m \in DOMAIN f : m # n => With(f, n, x)[m] = f[m]
<1>1. DOMAIN Only(n, x) = {n} /\ Only(n, x)[n] = x
  BY OnlyFacts
<1>2. /\ DOMAIN With(f, n, x) = DOMAIN Only(n, x) \cup DOMAIN f
      /\ \A m \in DOMAIN Only(n, x) : With(f, n, x)[m] = Only(n, x)[m]
      /\ \A m \in DOMAIN f \ DOMAIN Only(n, x) : With(f, n, x)[m] = f[m]
  BY UpdatedFacts, Zenon DEF With
<1> QED
  BY <1>1, <1>2

LEMMA WithoutFacts ==
  ASSUME NEW f, NEW n
  PROVE  /\ DOMAIN Without(f, n) = DOMAIN f \ {n}
         /\ \A m \in DOMAIN f \ {n} : Without(f, n)[m] = f[m]
BY DEF Without

LEMMA PlacedFacts ==
  ASSUME NEW f
  PROVE  f \in Placed <=> f \in [DOMAIN f -> 0 .. End] /\ DOMAIN f \subseteq Names
BY DEF Placed

LEMMA PlacedMaps ==
  ASSUME NEW f \in Placed, NEW g \in Placed, NEW n \in Names, NEW x \in 0 .. End
  PROVE  /\ Updated(f, g) \in Placed /\ Without(f, n) \in Placed
         /\ Only(n, x) \in Placed /\ With(f, n, x) \in Placed
<1>1. /\ f \in [DOMAIN f -> 0 .. End] /\ DOMAIN f \subseteq Names
      /\ g \in [DOMAIN g -> 0 .. End] /\ DOMAIN g \subseteq Names
  BY PlacedFacts
<1>2. Updated(f, g) \in [DOMAIN f \cup DOMAIN g -> 0 .. End]
  BY <1>1 DEF Updated
<1>3. Without(f, n) \in [DOMAIN f \ {n} -> 0 .. End]
  BY <1>1 DEF Without
<1>4. Only(n, x) \in [{n} -> 0 .. End]
  BY DEF Only
<1>5. With(f, n, x) \in [DOMAIN f \cup {n} -> 0 .. End]
  BY <1>1 DEF With, Updated, Only
<1>6. \A h : \A S \in SUBSET Names : h \in [S -> 0 .. End] => h \in Placed
  BY DEF Placed
<1>7. {DOMAIN f \cup DOMAIN g, DOMAIN f \ {n}, {n}, DOMAIN f \cup {n}} \subseteq SUBSET Names
  BY <1>1
<1> QED
  BY <1>2, <1>3, <1>4, <1>5, <1>6, <1>7, Zenon

-----------------------------------------------------------------------------
(* Requests.                                                                *)

LEMMA RequestFacts ==
  ASSUME NEW c \in Nat, NEW r \in Creates(c) \cup Removes(c), c <= MaxCount
  PROVE  /\ r.do \in {"create", "remove"} /\ r.name \in 1 .. c /\ r.name \in Names
         /\ r.at \in {0, End} /\ r.at \in 0 .. End
         /\ r \in Creates(c) <=> r.do = "create"
         /\ \A d \in Nat : c <= d => r \in Creates(d) \cup Removes(d)
BY SpawnerAssumption DEF Creates, Removes, Names

(* What carrying a request out does to the world.                           *)
LEMMA ExecutedFacts ==
  ASSUME NEW r, r.do \in {"create", "remove"}
  PROVE  /\ r.do = "create" /\ r.name \notin DOMAIN world => Executed(r) = With(world, r.name, r.at)
         /\ r.do = "remove" /\ r.name \in DOMAIN world => Executed(r) = Without(world, r.name)
         /\ (r.do = "create") # (r.name \notin DOMAIN world) => Executed(r) = world
         /\ Possible(r) <=> ((r.do = "create") <=> (r.name \notin DOMAIN world))
BY DEF Executed, Possible

(* A call is answered, with nothing else open; or it stays open.            *)
LEMMA CallFacts ==
  ASSUME NEW r, NEW ok, Call(r, ok)
  PROVE  \/ pending = {} /\ pending' = {} /\ ok = Possible(r) /\ world' = Executed(r)
         \/ ok = FALSE /\ pending' = pending \cup {r} /\ world' = world
BY DEF Call, Answered, TimedOut

-----------------------------------------------------------------------------
(* Types.                                                                   *)

BookType ==
  /\ kind \in {"product", "tray"}
  /\ counter \in 0 .. MaxCount /\ lastModel \in DOMAIN Length \cup {"none"}
  /\ early \in BOOLEAN /\ again \in BOOLEAN /\ trouble \in BOOLEAN
  /\ pc \in {"idle", "recycle", "remove", "create", "serve", "product", "tray"}
  /\ todo \subseteq Names /\ gaveUp \subseteq Names
  /\ asked \in 0 .. MaxAsked /\ served \in 0 .. MaxAsked
MapType == world \in Placed /\ poses \in Placed /\ msg \in Placed /\ snapshot \in Placed

LEMMA TypeParts == TypeInv <=> BookType /\ MapType /\ Counted
<1>1. TypeOK => BookType /\ MapType
  BY Zenon DEF TypeOK, BookType, MapType
<1>2. ASSUME BookType, MapType, Counted PROVE TypeOK
  <2>1. counter \in Nat /\ counter <= MaxCount /\ DOMAIN world \subseteq Names
    BY <1>2, PlacedFacts, SpawnerAssumption DEF BookType, MapType
  <2>2. DOMAIN world \subseteq 1 .. counter
    BY <1>2, <2>1, SpawnerAssumption DEF Counted, Names
  <2>3. \A r \in pending : r.do \in {"create", "remove"} /\ r.name \in Names /\ r.at \in {0, End}
    BY <1>2, <2>1, RequestFacts DEF Counted
  <2> QED
    BY <1>2, <2>2, <2>3, Zenon DEF TypeOK, BookType, MapType
<1> QED
  BY <1>1, <1>2, Zenon DEF TypeInv

LEMMA TypePartsNext ==
  ASSUME BookType', MapType', Counted'
  PROVE  TypeInv'
BY TypeParts, PTL

(* The initial state.                                                       *)
LEMMA InitType == Init => TypeInv
<1> SUFFICES ASSUME Init PROVE TypeInv
  OBVIOUS
<1>1. Empty \in Placed /\ DOMAIN Empty = {}
  <2>1. Empty \in [{} -> 0 .. End] /\ DOMAIN Empty = {}
    BY DEF Empty
  <2> QED
    BY <2>1 DEF Placed
<1>2. BookType
  <2>1. 0 \in 0 .. MaxCount /\ 0 \in 0 .. MaxAsked
    BY SpawnerAssumption
  <2> QED
    BY <2>1, Zenon DEF Init, BookType
<1>3. MapType
  BY <1>1, Zenon DEF Init, MapType
<1>4. Counted
  BY <1>1 DEF Init, Counted
<1> QED
  BY <1>2, <1>3, <1>4, TypeParts

(* A model of the list comes each time.                                     *)
LEMMA ModelFacts ==
  ASSUME NEW c \in Nat
  PROVE  /\ TrayModel(c) \in DOMAIN Length
         /\ TrayLength(TrayModel(c)) \in Nat \ {0}
<1>1. Models \in Seq(DOMAIN Length) /\ Len(Models) \in Nat /\ Len(Models) > 0
  BY SpawnerAssumption
<1>2. (c - 1) % Len(Models) \in 0 .. Len(Models) - 1
  BY <1>1
<1>3. ((c - 1) % Len(Models)) + 1 \in 1 .. Len(Models)
  BY <1>1, <1>2
<1>4. TrayModel(c) \in DOMAIN Length
  BY <1>1, <1>3 DEF TrayModel
<1> QED
  BY <1>4, SpawnerAssumption DEF TrayLength

(* The steps that make no request and spawn nothing.                        *)
LEMMA StillType ==
  ASSUME TypeInv,
         \/ OnPoses \/ Tick \/ RecycleNext \/ TickEnds \/ OnSpawnSrv \/ Due
         \/ Move \/ SendPoses
  PROVE  TypeInv'
<1>1. BookType /\ MapType /\ Counted
  BY TypeParts
<1>2. /\ pending' = pending /\ counter' = counter /\ gaveUp' = gaveUp /\ kind' = kind
      /\ lastModel' = lastModel /\ again' = again
      /\ DOMAIN world' = DOMAIN world
  BY Zenon DEF OnPoses, Tick, RecycleNext, TickEnds, OnSpawnSrv, Due, Move, SendPoses, books,
               gazebo, handler, history
<1>3. /\ pc' \in {"idle", "recycle", "remove", "serve", "product", "tray"} \/ pc' = pc
      /\ early' \in BOOLEAN /\ trouble' \in BOOLEAN
      /\ asked' \in 0 .. MaxAsked /\ served' \in 0 .. MaxAsked
  <2>1. /\ early \in BOOLEAN /\ trouble \in BOOLEAN /\ kind \in {"product", "tray"}
        /\ asked \in 0 .. MaxAsked /\ served \in 0 .. MaxAsked
    BY <1>1 DEF BookType
  <2>2. ASSUME OnPoses \/ Tick \/ RecycleNext \/ TickEnds
        PROVE  /\ pc' \in {"idle", "recycle", "remove", kind} /\ early' = early
               /\ trouble' = trouble /\ asked' = asked /\ served' = served
    BY <2>2 DEF OnPoses, Tick, RecycleNext, TickEnds, books, handler, history
  <2>3. CASE OnSpawnSrv
    <3>1. PICK c \in 1 .. MaxAsked - served : asked' = c /\ served' = served + c
      BY <2>3 DEF OnSpawnSrv
    <3>2. pc' = "serve" /\ trouble' = TRUE /\ early' = early
      BY <2>3 DEF OnSpawnSrv, books
    <3> QED
      BY <2>1, <3>1, <3>2, SpawnerAssumption
  <2>4. ASSUME Due \/ Move \/ SendPoses
        PROVE  /\ pc' = pc /\ (early' = early \/ early' = FALSE)
               /\ trouble' = trouble /\ asked' = asked /\ served' = served
    BY <2>4, Zenon DEF Due, Move, SendPoses, books, handler, history
  <2> QED
    BY <2>1, <2>2, <2>3, <2>4
<1>4. todo' \subseteq todo \/ (todo' \subseteq DOMAIN poses)
  BY DEF OnPoses, Tick, RecycleNext, TickEnds, OnSpawnSrv, Due, Move, SendPoses, handler
<1>5. MapType'
  <2>1. world' \in Placed
    <3>1. CASE Move
      <4>1. world \in [DOMAIN world -> 0 .. End] /\ DOMAIN world \subseteq Names
        BY <1>1, PlacedFacts DEF MapType
      <4>2. world' \in [DOMAIN world -> 0 .. End]
        BY <3>1, <4>1, SpawnerAssumption DEF Move
      <4> QED
        BY <4>1, <4>2 DEF Placed
    <3>2. CASE ~Move
      BY <1>1, <3>2 DEF OnPoses, Tick, RecycleNext, TickEnds, OnSpawnSrv, Due, SendPoses, gazebo,
                        MapType
    <3> QED
      BY <3>1, <3>2
  <2>2. \A f \in Placed, g \in Placed : Updated(f, g) \in Placed
    <3> SUFFICES ASSUME NEW f \in Placed, NEW g \in Placed PROVE Updated(f, g) \in Placed
      OBVIOUS
    <3>1. /\ f \in [DOMAIN f -> 0 .. End] /\ DOMAIN f \subseteq Names
          /\ g \in [DOMAIN g -> 0 .. End] /\ DOMAIN g \subseteq Names
      BY PlacedFacts
    <3>2. Updated(f, g) \in [DOMAIN f \cup DOMAIN g -> 0 .. End]
      BY <3>1 DEF Updated
    <3> QED
      BY <3>1, <3>2 DEF Placed
  <2>3. Empty \in Placed
    BY DEF Empty, Placed
  <2>4. poses' \in Placed /\ msg' \in Placed /\ snapshot' \in Placed
    BY <1>1, <2>2, <2>3, Zenon DEF OnPoses, Tick, RecycleNext, TickEnds, OnSpawnSrv, Due, Move,
       SendPoses, books, handler, MapType
  <2> QED
    BY <2>1, <2>4 DEF MapType
<1>6. BookType'
  <2>1. todo' \subseteq Names
    BY <1>1, <1>4, PlacedFacts DEF BookType, MapType
  <2> QED
    BY <1>1, <1>2, <1>3, <2>1, Zenon DEF BookType
<1>7. Counted'
  <2>1. \A n \in DOMAIN world' \cup DOMAIN poses' \cup DOMAIN msg' \cup DOMAIN snapshot' \cup todo' :
          n <= counter'
    <3>1. /\ DOMAIN poses' \subseteq DOMAIN msg \cup DOMAIN poses
          /\ DOMAIN msg' \subseteq DOMAIN msg \cup DOMAIN world
          /\ DOMAIN snapshot' \subseteq DOMAIN poses \cup DOMAIN snapshot
      BY UpdatedFacts DEF OnPoses, Tick, RecycleNext, TickEnds, OnSpawnSrv, Due, Move, SendPoses,
         books, handler, Empty
    <3> QED
      BY <1>1, <1>2, <1>4, <3>1 DEF Counted
  <2>2. pc' = "remove" => job' \in Removes(counter)
    <3>1. CASE RecycleNext
      <4>1. ASSUME NEW n \in todo, job' = Remove(n) PROVE job' \in Removes(counter)
        <5>1. n \in 1 .. counter
          BY <1>1, SpawnerAssumption DEF BookType, Counted, Names
        <5> QED
          BY <4>1, <5>1 DEF Remove, Removes
      <4> QED
        BY <1>1, <3>1, <4>1 DEF RecycleNext, BookType
    <3>2. CASE ~RecycleNext
      BY <1>1, <3>2 DEF OnPoses, Tick, TickEnds, OnSpawnSrv, Due, Move, SendPoses, handler,
                        Counted
    <3> QED
      BY <3>1, <3>2
  <2>3. pc' = "create" => pc = "create" /\ job' = job /\ poses' = poses
    BY <1>1 DEF OnPoses, Tick, RecycleNext, TickEnds, OnSpawnSrv, Due, Move, SendPoses, books, handler,
                BookType
  <2> QED
    BY <1>1, <1>2, <2>1, <2>2, <2>3, Zenon DEF Counted
<1> QED
  BY <1>5, <1>6, <1>7, TypePartsNext

(* The steps that begin a request to create, or find that none may.         *)
LEMMA SpawnType ==
  ASSUME TypeInv, TickProduct \/ TickTray \/ ServeNext
  PROVE  TypeInv'
<1>1. BookType /\ MapType /\ Counted /\ counter \in Nat
  BY TypeParts, SpawnerAssumption DEF BookType
<1>2. /\ UNCHANGED <<kind, world, pending, poses, msg, snapshot, todo, again, served, gaveUp, trouble>>
      /\ early' = early \/ early' = TRUE
      /\ lastModel' \in {lastModel, TrayModel(counter + 1)}
      /\ \/ pc' = "idle" /\ counter' = counter
         \/ \E at \in {0, End} : Spawn(at) /\ counter < MaxCount
  BY Zenon DEF TickProduct, TickTray, ServeNext, gazebo, history
<1>3. asked' \in 0 .. MaxAsked
  <2>1. CASE ServeNext
    BY <1>1, <2>1, SpawnerAssumption DEF ServeNext, BookType
  <2>2. CASE TickProduct \/ TickTray
    BY <1>1, <2>2, Zenon DEF TickProduct, TickTray, BookType
  <2> QED
    BY <2>1, <2>2
<1>4. /\ counter' \in 0 .. MaxCount /\ counter <= counter' /\ pc' \in {"idle", "create"}
      /\ lastModel' \in DOMAIN Length \cup {"none"}
  <2>1. TrayModel(counter + 1) \in DOMAIN Length
    BY <1>1, ModelFacts
  <2>2. lastModel' \in DOMAIN Length \cup {"none"}
    BY <1>1, <1>2, <2>1 DEF BookType
  <2>3. /\ counter' \in {counter, counter + 1} /\ pc' \in {"idle", "create"}
        /\ counter' = counter + 1 => counter < MaxCount
    BY <1>1, <1>2 DEF Spawn
  <2> QED
    BY <1>1, <2>2, <2>3, SpawnerAssumption DEF BookType
<1>5. BookType' /\ MapType'
  BY <1>1, <1>2, <1>3, <1>4, Zenon DEF BookType, MapType
<1>6. Counted'
  <2>1. \A n \in DOMAIN world' \cup DOMAIN poses' \cup DOMAIN msg' \cup DOMAIN snapshot' \cup todo' :
          n <= counter'
    BY <1>1, <1>2, <1>4, PlacedFacts, SpawnerAssumption DEF Counted, MapType, BookType, Names
  <2>2. \A r \in pending' : r \in Creates(counter') \cup Removes(counter')
    BY <1>1, <1>2, <1>4, RequestFacts, SpawnerAssumption DEF Counted, BookType
  <2>3. pc' = "create" => /\ job' \in Creates(counter') /\ job'.name = counter'
                          /\ job'.name \notin DOMAIN poses'
    <3>1. SUFFICES ASSUME NEW at \in {0, End}, Spawn(at)
                   PROVE  /\ job' \in Creates(counter') /\ job'.name = counter'
                          /\ job'.name \notin DOMAIN poses'
      BY <1>2
    <3>2. job' = Create(counter + 1, at) /\ counter' = counter + 1
      BY <3>1 DEF Spawn
    <3>3. job' \in Creates(counter') /\ job'.name = counter'
      BY <1>1, <3>2 DEF Create, Creates
    <3>4. counter + 1 \notin DOMAIN poses
      BY <1>1 DEF Counted
    <3> QED
      BY <1>2, <3>2, <3>3, <3>4
  <2> QED
    BY <1>4, <2>1, <2>2, <2>3 DEF Counted
<1> QED
  BY <1>5, <1>6, TypePartsNext

(* The world after a request is one of models that were counted.            *)
LEMMA ExecutedType ==
  ASSUME TypeInv, NEW r \in Creates(counter) \cup Removes(counter)
  PROVE  Executed(r) \in Placed /\ \A n \in DOMAIN Executed(r) : n <= counter
<1>1. /\ MapType /\ Counted /\ counter \in Nat /\ counter <= MaxCount
  BY TypeParts, SpawnerAssumption DEF BookType
<1>2. r.do \in {"create", "remove"} /\ r.name \in Names /\ r.name <= counter /\ r.at \in 0 .. End
  BY <1>1, RequestFacts
<1>3. /\ With(world, r.name, r.at) \in Placed /\ Without(world, r.name) \in Placed
      /\ DOMAIN With(world, r.name, r.at) = DOMAIN world \cup {r.name}
      /\ DOMAIN Without(world, r.name) = DOMAIN world \ {r.name}
  <2>1. With(world, r.name, r.at) \in Placed /\ Without(world, r.name) \in Placed
    BY <1>1, <1>2, PlacedMaps, Zenon DEF MapType
  <2>2. DOMAIN With(world, r.name, r.at) = DOMAIN world \cup {r.name}
    <3>1. \A n, x : DOMAIN With(world, n, x) = DOMAIN world \cup {n}
      BY WithFacts
    <3> QED
      BY <3>1
  <2>3. DOMAIN Without(world, r.name) = DOMAIN world \ {r.name}
    BY WithoutFacts
  <2> QED
    BY <2>1, <2>2, <2>3
<1>4. Executed(r) \in {world, With(world, r.name, r.at), Without(world, r.name)}
  BY <1>2, ExecutedFacts
<1> QED
  BY <1>1, <1>2, <1>3, <1>4 DEF MapType, Counted

(* The requests, answered, not answered, or settled late.                   *)
LEMMA RequestType ==
  ASSUME TypeInv, Request \/ SettleLate
  PROVE  TypeInv'
<1>1. BookType /\ MapType /\ Counted /\ counter \in Nat /\ counter <= MaxCount
  BY TypeParts, SpawnerAssumption DEF BookType
<1>2. ASSUME NEW ok \in BOOLEAN, IgnRemove(ok) \/ IgnCreated(ok) \/ IgnCreateFails(ok)
      PROVE  /\ job \in Creates(counter) \cup Removes(counter) /\ Call(job, ok)
             /\ pc \in {"create", "remove"} /\ (pc = "create" <=> ~IgnRemove(ok))
             /\ UNCHANGED <<kind, counter, lastModel, msg, snapshot, todo, asked, served>>
             /\ pc' \in {"recycle", "idle", "serve"} \/ (pc' = pc /\ job' = job /\ poses' = poses)
             /\ (early' = early \/ early' = (early \/ kind = "tray"))
             /\ again' \in BOOLEAN /\ trouble' = (trouble \/ ~ok)
             /\ gaveUp' \in {gaveUp, gaveUp \cup {job.name}}
             /\ poses' \in {poses, Without(poses, job.name), Updated(poses, Only(job.name, job.at))}
  <2>1. CASE IgnRemove(ok)
    BY <1>1, <2>1 DEF IgnRemove, IgnCreated, IgnCreateFails, Outcome, Counted
  <2>2. CASE IgnCreated(ok)
    BY <1>1, <2>2 DEF IgnRemove, IgnCreated, Outcome, AfterCreate, Counted
  <2>3. CASE IgnCreateFails(ok)
    BY <1>1, <2>3 DEF IgnRemove, IgnCreateFails, Outcome, AfterCreate, books, Counted
  <2> QED
    BY <1>2, <2>1, <2>2, <2>3
<1>3. CASE Request
  <2>1. PICK ok \in BOOLEAN : IgnRemove(ok) \/ IgnCreated(ok) \/ IgnCreateFails(ok)
    BY <1>3 DEF Request
  <2>2. job.name \in Names /\ job.name <= counter /\ job.at \in 0 .. End
    BY <1>1, <1>2, <2>1, RequestFacts
  <2>3. world' \in {world, Executed(job)} /\ \A r \in pending' : r \in pending \cup {job}
    BY <1>2, <2>1, CallFacts
  <2>4. poses' \in Placed /\ DOMAIN poses' \subseteq DOMAIN poses \cup {job.name}
    <3>1. Only(job.name, job.at) \in Placed
      BY <1>1, <2>2, PlacedMaps DEF MapType
    <3>2. Updated(poses, Only(job.name, job.at)) \in Placed /\ Without(poses, job.name) \in Placed
      BY <1>1, <2>2, <3>1, PlacedMaps DEF MapType
    <3>3. /\ DOMAIN Updated(poses, Only(job.name, job.at)) = DOMAIN poses \cup {job.name}
          /\ DOMAIN Without(poses, job.name) = DOMAIN poses \ {job.name}
      <4>1. DOMAIN Only(job.name, job.at) = {job.name}
        BY OnlyFacts
      <4>2. \A f : DOMAIN Updated(poses, f) = DOMAIN poses \cup DOMAIN f
        BY UpdatedFacts
      <4> QED
        BY <4>1, <4>2, WithoutFacts
    <3>4. poses' \in {poses, Without(poses, job.name), Updated(poses, Only(job.name, job.at))}
      BY <1>2, <2>1
    <3> QED
      BY <1>1, <3>2, <3>3, <3>4 DEF MapType
  <2>5. BookType'
    <3>1. gaveUp' \subseteq Names /\ pc' \in {"recycle", "idle", "serve", pc}
      BY <1>1, <1>2, <2>1, <2>2 DEF BookType
    <3>2. (early \/ kind = "tray") \in BOOLEAN /\ (trouble \/ ~ok) \in BOOLEAN
      OBVIOUS
    <3> QED
      BY <1>1, <1>2, <2>1, <3>1, <3>2, Zenon DEF BookType
  <2>6. MapType'
    BY <1>1, <1>2, <2>1, <2>3, <2>4, ExecutedType DEF MapType
  <2>7. Counted'
    <3>1. \A n \in DOMAIN world' : n <= counter
      BY <1>1, <1>2, <2>1, <2>3, ExecutedType DEF Counted
    <3>2. \A r \in pending' : r \in Creates(counter) \cup Removes(counter)
      BY <1>1, <1>2, <2>1, <2>3 DEF Counted
    <3>3. /\ pc' = "remove" => job' \in Removes(counter)
          /\ pc' = "create" => /\ job' \in Creates(counter) /\ job'.name = counter
                               /\ job'.name \notin DOMAIN poses'
      BY <1>1, <1>2, <2>1 DEF Counted
    <3> QED
      BY <1>1, <1>2, <2>1, <2>2, <2>4, <3>1, <3>2, <3>3 DEF Counted
  <2> QED
    BY <2>5, <2>6, <2>7, TypePartsNext
<1>4. CASE SettleLate
  <2>1. PICK r \in pending : Settle(r)
    BY <1>4 DEF SettleLate
  <2>2. /\ world' \in {world, Executed(r)} /\ pending' \subseteq pending
        /\ r \in Creates(counter) \cup Removes(counter)
        /\ UNCHANGED <<kind, poses, msg, snapshot, todo, counter, lastModel, early, pc, job, again,
                       asked, served, gaveUp, trouble>>
    BY <1>1, <1>4, <2>1 DEF SettleLate, Settle, Counted, books, handler, history
  <2>3. MapType' /\ BookType'
    <3>1. world' \in Placed
      BY <1>1, <2>2, ExecutedType DEF MapType
    <3> QED
      BY <1>1, <2>2, <3>1, Zenon DEF MapType, BookType
  <2>4. Counted'
    <3>1. \A n \in DOMAIN world' : n <= counter
      BY <1>1, <2>2, ExecutedType DEF Counted
    <3>2. /\ \A n \in DOMAIN poses' \cup DOMAIN msg' \cup DOMAIN snapshot' \cup todo' : n <= counter
          /\ \A q \in pending' : q \in Creates(counter) \cup Removes(counter)
      BY <1>1, <2>2 DEF Counted
    <3> QED
      BY <1>1, <2>2, <3>1, <3>2 DEF Counted
  <2> QED
    BY <2>3, <2>4, TypePartsNext
<1> QED
  BY <1>3, <1>4

LEMMA NextType == TypeInv /\ [Next]_vars => TypeInv'
<1> SUFFICES ASSUME TypeInv, [Next]_vars PROVE TypeInv'
  OBVIOUS
<1>1. CASE UNCHANGED vars
  <2>1. UNCHANGED <<kind, world, pending, poses, msg, snapshot, todo, counter, lastModel, early, pc,
                    job, again, asked, served, gaveUp, trouble>>
    BY <1>1, Zenon DEF vars, gazebo, books, handler, history
  <2> QED
    BY <2>1, Zenon DEF TypeInv, TypeOK, Counted
<1> QED
  BY <1>1, StillType, SpawnType, RequestType DEF Next, Going

(* Whatever is answered, not answered or settled late, in whatever order:   *)
(* every variable keeps its type, and there is no model that the node did   *)
(* not count (spawn_product, spawn_tray, ign_create).                       *)
THEOREM TypeCorrect == Spec => []TypeOK
<1>1. TypeInv => TypeOK
  BY DEF TypeInv
<1> QED
  BY <1>1, InitType, NextType, PTL DEF Spec

-----------------------------------------------------------------------------
(* The belt is not crowded.                                                 *)

LEMMA Finite ==
  ASSUME TypeInv
  PROVE  /\ IsFiniteSet(DOMAIN world) /\ IsFiniteSet(DOMAIN snapshot)
         /\ Cardinality(DOMAIN world) \in Nat /\ Cardinality(DOMAIN snapshot) \in Nat
         /\ kind \in {"product", "tray"} /\ MaxAlive[kind] \in Nat /\ MaxAlive[kind] > 0
<1>1. DOMAIN world \subseteq Names /\ DOMAIN snapshot \subseteq Names
  BY PlacedFacts, TypeParts DEF MapType
<1>2. IsFiniteSet(Names)
  BY FS_Interval, SpawnerAssumption DEF Names
<1>3. IsFiniteSet(DOMAIN world) /\ IsFiniteSet(DOMAIN snapshot)
  BY <1>1, <1>2, FS_Subset
<1> QED
  BY <1>3, FS_CardinalityType, SpawnerAssumption, TypeParts DEF BookType

LEMMA InitCrowd == Init => CrowdInv
<1> SUFFICES ASSUME Init PROVE CrowdInv
  OBVIOUS
<1>1. world = Empty /\ DOMAIN Empty = {} /\ Cardinality({}) = 0
  BY FS_EmptySet DEF Init, Empty
<1>2. MaxAlive[kind] \in Nat /\ MaxAlive[kind] > 0
  BY InitType, Finite
<1> QED
  BY <1>1, <1>2 DEF Init, CrowdInv

(* The steps that leave the models there are.                               *)
LEMMA StillCrowd ==
  ASSUME TypeInv, CrowdInv,
         \/ OnPoses \/ Tick \/ RecycleNext \/ TickEnds \/ OnSpawnSrv \/ Due
         \/ Move \/ SendPoses
  PROVE  CrowdInv'
<1>1. /\ pending' = pending /\ kind' = kind /\ DOMAIN world' = DOMAIN world
  BY Zenon DEF OnPoses, Tick, RecycleNext, TickEnds, OnSpawnSrv, Due, Move, SendPoses, books, gazebo
<1>2. CASE OnSpawnSrv
  <2>1. pc' = "serve" /\ trouble' = TRUE
    BY <1>2 DEF OnSpawnSrv
  <2> QED
    BY <2>1 DEF CrowdInv
<1>3. CASE ~OnSpawnSrv
  <2>1. asked' = asked /\ trouble' = trouble /\ (pc' = "serve" => pc = "serve")
    BY <1>3, TypeParts DEF OnPoses, Tick, RecycleNext, TickEnds, Due, Move, SendPoses, books, handler,
                           history, BookType
  <2>2. /\ pc' \in {"product", "tray"} => pc' = kind
        /\ pc' = "create" => pc = "create"
    BY <1>3, TypeParts DEF OnPoses, Tick, RecycleNext, TickEnds, Due, Move, SendPoses, books, handler,
                           BookType, CrowdInv
  <2>3. DOMAIN poses \subseteq DOMAIN poses'
    <3>1. \A f : DOMAIN Updated(f, poses) = DOMAIN f \cup DOMAIN poses
      BY UpdatedFacts
    <3> QED
      BY <1>3, <3>1 DEF OnPoses, Tick, RecycleNext, TickEnds, Due, Move, SendPoses, books
  <2>4. pc' \in {"recycle", "remove", "product", "tray"} =>
          snapshot' = poses \/ (snapshot' = snapshot /\ pc \in {"recycle", "remove", "product", "tray"})
    BY <1>3 DEF OnPoses, Tick, RecycleNext, TickEnds, Due, Move, SendPoses, books, handler
  <2> QED
    BY <1>1, <2>1, <2>2, <2>3, <2>4 DEF CrowdInv
<1> QED
  BY <1>2, <1>3

(* A request to create is begun below the limit.                            *)
LEMMA SpawnCrowd ==
  ASSUME TypeInv, CrowdInv, TickProduct \/ TickTray \/ ServeNext
  PROVE  CrowdInv'
<1>1. UNCHANGED <<kind, world, pending, poses, snapshot, trouble>>
  BY Zenon DEF TickProduct, TickTray, ServeNext, gazebo, history
<1>2. CASE ServeNext
  <2>1. pc = "serve" /\ pc' \in {"serve", "idle", "create"}
    BY <1>2 DEF ServeNext, Spawn
  <2> QED
    BY <1>1, <2>1 DEF CrowdInv
<1>3. CASE TickProduct \/ TickTray
  <2>1. /\ pc \in {"product", "tray"} /\ pc' \in {"idle", "create"} /\ asked' = asked
        /\ pc' = "create" => Cardinality(DOMAIN snapshot) < MaxAlive[pc]
    BY <1>3 DEF TickProduct, TickTray, TrayDue, Spawn
  <2>2. ASSUME ~trouble, pc' = "create" PROVE Cardinality(DOMAIN world) < MaxAlive[kind]
    <3>1. DOMAIN world \subseteq DOMAIN snapshot /\ pc = kind
      BY <2>1, <2>2 DEF CrowdInv
    <3>2. Cardinality(DOMAIN world) <= Cardinality(DOMAIN snapshot)
      BY <3>1, Finite, FS_Subset
    <3> QED
      BY <2>1, <2>2, <3>1, <3>2, Finite
  <2> QED
    BY <1>1, <2>1, <2>2 DEF CrowdInv
<1> QED
  BY <1>2, <1>3

(* A request that is answered with yes did what it asked for.               *)
LEMMA RequestCrowd ==
  ASSUME TypeInv, CrowdInv, Request \/ SettleLate
  PROVE  CrowdInv'
<1>1. trouble \in BOOLEAN /\ Counted /\ counter \in Nat /\ counter <= MaxCount
  BY TypeParts, SpawnerAssumption DEF BookType
<1>2. CASE SettleLate
  <2>1. pending # {} /\ UNCHANGED <<pc, asked, trouble, kind>>
    BY <1>2, Zenon DEF SettleLate, handler, history
  <2> QED
    BY <2>1 DEF CrowdInv
<1>3. ASSUME NEW ok \in BOOLEAN, IgnRemove(ok) \/ IgnCreated(ok) \/ IgnCreateFails(ok)
      PROVE  CrowdInv'
  <2>1. /\ trouble' = (trouble \/ ~ok) /\ kind' = kind /\ asked' = asked
        /\ pc' \in {"idle", "recycle", "remove", "create"} \/ (asked > 0 /\ pc' = "serve")
    BY <1>3 DEF IgnRemove, IgnCreated, IgnCreateFails, AfterCreate, Outcome
  <2>2. CASE trouble'
    BY <2>1, <2>2 DEF CrowdInv
  <2>3. CASE ~trouble'
    <3>1. ok = TRUE /\ ~trouble
      BY <2>1, <2>3
    <3>2. /\ ~(asked > 0) /\ pending = {} /\ DOMAIN world \subseteq DOMAIN poses
          /\ pc \in {"recycle", "remove", "product", "tray"} => DOMAIN world \subseteq DOMAIN snapshot
          /\ Cardinality(DOMAIN world) <= MaxAlive[kind]
          /\ pc = "create" => Cardinality(DOMAIN world) < MaxAlive[kind]
      BY <3>1 DEF CrowdInv
    <3>3. /\ job \in Creates(counter) \cup Removes(counter) /\ Call(job, ok)
          /\ job.do = "create" <=> pc = "create"
      <4>1. /\ Call(job, ok) /\ pc \in {"create", "remove"}
        BY <1>3 DEF IgnRemove, IgnCreated, IgnCreateFails
      <4>2. /\ pc = "create" => job \in Creates(counter) /\ job.do = "create"
            /\ pc = "remove" => job \in Removes(counter) /\ job.do = "remove"
        BY <1>1 DEF Counted, Creates, Removes
      <4> QED
        BY <4>1, <4>2
    <3>4. /\ pending' = {} /\ world' = Executed(job) /\ job.do \in {"create", "remove"}
          /\ job.do = "create" <=> job.name \notin DOMAIN world
      <4>1. job.do \in {"create", "remove"}
        BY <1>1, <3>3, RequestFacts
      <4>2. pending' = {} /\ world' = Executed(job) /\ Possible(job)
        BY <3>1, <3>3, CallFacts
      <4> QED
        BY <4>1, <4>2, ExecutedFacts
    <3>5. CASE IgnRemove(ok)
      <4>1. /\ pc = "remove" /\ pc' = "recycle" /\ snapshot' = snapshot
            /\ poses' = Without(poses, job.name)
        BY <3>1, <3>5 DEF IgnRemove
      <4>2. DOMAIN world' = DOMAIN world \ {job.name} /\ DOMAIN poses' = DOMAIN poses \ {job.name}
        <5>1. \A f, n : DOMAIN Without(f, n) = DOMAIN f \ {n}
          BY WithoutFacts
        <5>2. world' = Without(world, job.name)
          BY <3>3, <3>4, <4>1, ExecutedFacts
        <5> QED
          BY <4>1, <5>1, <5>2
      <4>3. Cardinality(DOMAIN world') <= MaxAlive[kind]
        <5>1. Cardinality(DOMAIN world') <= Cardinality(DOMAIN world) /\ Cardinality(DOMAIN world') \in Nat
          BY <4>2, Finite, FS_Subset, FS_CardinalityType
        <5> QED
          BY <3>2, <5>1, Finite
      <4> QED
        BY <2>1, <3>2, <3>4, <4>1, <4>2, <4>3 DEF CrowdInv
    <3>6. CASE IgnCreated(ok)
      <4>1. /\ pc = "create" /\ pc' = "idle" /\ poses' = Updated(poses, Only(job.name, job.at))
        BY <3>2, <3>6 DEF IgnCreated, AfterCreate
      <4>2. /\ DOMAIN world' = DOMAIN world \cup {job.name} /\ job.name \notin DOMAIN world
            /\ DOMAIN poses' = DOMAIN poses \cup {job.name}
        <5>1. \A n, x : DOMAIN With(world, n, x) = DOMAIN world \cup {n}
          BY WithFacts
        <5>2. \A f : DOMAIN Updated(poses, f) = DOMAIN poses \cup DOMAIN f
          BY UpdatedFacts
        <5>3. world' = With(world, job.name, job.at) /\ job.name \notin DOMAIN world
          BY <3>3, <3>4, <4>1, ExecutedFacts
        <5>4. DOMAIN Only(job.name, job.at) = {job.name}
          BY OnlyFacts
        <5> QED
          BY <4>1, <5>1, <5>2, <5>3, <5>4
      <4>3. Cardinality(DOMAIN world') = Cardinality(DOMAIN world) + 1
        BY <4>2, Finite, FS_AddElement
      <4>4. Cardinality(DOMAIN world') <= MaxAlive[kind]
        BY <3>2, <4>1, <4>3, Finite
      <4> QED
        BY <2>1, <3>2, <3>4, <4>1, <4>2, <4>4 DEF CrowdInv
    <3>7. ~IgnCreateFails(ok)
      BY <3>1 DEF IgnCreateFails
    <3> QED
      BY <1>3, <3>5, <3>6, <3>7
  <2> QED
    BY <2>2, <2>3
<1> QED
  BY <1>2, <1>3 DEF Request

LEMMA NextCrowd == TypeInv /\ CrowdInv /\ [Next]_vars => CrowdInv'
<1> SUFFICES ASSUME TypeInv, CrowdInv, [Next]_vars PROVE CrowdInv'
  OBVIOUS
<1>1. CASE UNCHANGED vars
  BY <1>1, Zenon DEF vars, gazebo, books, handler, history, CrowdInv
<1> QED
  BY <1>1, StillCrowd, SpawnCrowd, RequestCrowd DEF Next, Going

(* No more models than max_alive, for any limit, although the poses the     *)
(* tick counts are old (tick, ign_create's setdefault).                     *)
THEOREM NeverCrowded == Spec => []NoCrowd
<1>1. TypeInv /\ CrowdInv => NoCrowd
  BY DEF CrowdInv, NoCrowd
<1> QED
  BY <1>1, InitType, NextType, InitCrowd, NextCrowd, PTL DEF Spec

-----------------------------------------------------------------------------
(* Trays lie apart.                                                         *)

LEMMA WorldFacts ==
  ASSUME TypeInv
  PROVE  /\ counter \in Nat /\ End \in Nat /\ End > 0 /\ Gap \in Nat
         /\ \A n \in DOMAIN world : /\ n \in Nat /\ n >= 1 /\ n <= counter
                                   /\ world[n] \in Nat /\ world[n] <= End
<1>1. MapType /\ BookType /\ Counted
  BY TypeParts
<1>2. world \in [DOMAIN world -> 0 .. End] /\ DOMAIN world \subseteq Names
  BY <1>1, PlacedFacts DEF MapType
<1> QED
  BY <1>1, <1>2, SpawnerAssumption DEF BookType, Counted, Names

LEMMA ApartFacts ==
  /\ \A n \in Nat : LengthOf(n) \in Nat /\ LengthOf(n) > 0
  /\ \A n, m : Apart(n, m) <=> 2 * (world[n] - world[m]) >= LengthOf(n) + LengthOf(m) + 2 * Gap
<1>1. \A n \in Nat : LengthOf(n) \in Nat /\ LengthOf(n) > 0
  BY ModelFacts DEF LengthOf
<1>2. \A n, m : Apart(n, m) <=> 2 * (world[n] - world[m]) >= LengthOf(n) + LengthOf(m) + 2 * Gap
  BY DEF Apart, LengthOf
<1> QED
  BY <1>1, <1>2

(* What comes after a tray on the belt is on the belt, behind it.           *)
LEMMA Behind ==
  ASSUME TypeInv, Trays, TraysKeepGap, NEW n \in DOMAIN world, NEW m \in DOMAIN world,
         n < m, world[n] < End
  PROVE  world[m] < world[n] /\ OnBelt(m)
<1>1. Apart(n, m)
  BY DEF TraysKeepGap, Trays
<1>2. 2 * (world[n] - world[m]) >= LengthOf(n) + LengthOf(m) + 2 * Gap
  BY <1>1, ApartFacts
<1>3. /\ LengthOf(n) \in Nat /\ LengthOf(n) > 0 /\ LengthOf(m) \in Nat
      /\ Gap \in Nat /\ world[n] \in Nat /\ world[m] \in Nat
  BY ApartFacts, WorldFacts
<1>4. world[m] < world[n]
  BY <1>2, <1>3
<1> QED
  BY <1>4, WorldFacts DEF OnBelt

(* Models that left the belt go; or the one that is being created comes.    *)
Shrinks ==
  /\ DOMAIN world' \subseteq DOMAIN world
  /\ \A n \in DOMAIN world' : world'[n] = world[n]
  /\ \A n \in DOMAIN world \ DOMAIN world' : ~OnBelt(n) /\ ~Coming(n)
Grows ==
  /\ pc = "create" /\ job.name \notin DOMAIN world
  /\ DOMAIN world' = DOMAIN world \cup {job.name}
  /\ world'[job.name] = 0
  /\ \A n \in DOMAIN world : world'[n] = world[n]

LEMMA ShrinkKeeps ==
  ASSUME TypeInv, Trays, TrayInv, Shrinks, UNCHANGED <<kind, counter>>,
         (pc' = "create") = (pc = "create"), pc = "create" => job' = job
  PROVE  /\ Room' /\ NoneMissing' /\ TraysKeepGap'
         /\ \A f : Older(f) => \A n \in DOMAIN f \cap DOMAIN world' : f[n] <= world'[n]
<1>1. Room /\ NoneMissing /\ TraysKeepGap
  BY DEF TrayInv
<1>2. Room'
  BY <1>1 DEF Room, Shrinks, LengthOf, TrayLength, TrayModel
<1>3. NoneMissing'
  <2> SUFFICES ASSUME NEW n \in DOMAIN world', NEW m \in 1 .. counter, n < m, world'[n] < End,
                      ~Coming(m)
               PROVE  m \in DOMAIN world'
    BY DEF NoneMissing, Coming
  <2>1. n \in DOMAIN world /\ world[n] < End
    BY DEF Shrinks
  <2>2. m \in DOMAIN world
    BY <1>1, <2>1 DEF NoneMissing
  <2>3. OnBelt(m)
    BY <1>1, <2>1, <2>2, Behind
  <2> QED
    BY <2>2, <2>3 DEF Shrinks
<1>4. TraysKeepGap'
  <2> SUFFICES ASSUME NEW n \in DOMAIN world', NEW m \in DOMAIN world', n < m, world'[n] < End
               PROVE  Apart(n, m)'
    BY DEF TraysKeepGap
  <2>1. /\ n \in DOMAIN world /\ m \in DOMAIN world /\ world'[n] = world[n] /\ world'[m] = world[m]
    BY DEF Shrinks
  <2>2. Apart(n, m)
    BY <1>1, <2>1 DEF TraysKeepGap, Trays
  <2> QED
    BY <2>1, <2>2 DEF Apart, TrayLength, TrayModel
<1>5. \A f : Older(f) => \A n \in DOMAIN f \cap DOMAIN world' : f[n] <= world'[n]
  BY DEF Older, Shrinks
<1> QED
  BY <1>2, <1>3, <1>4, <1>5

LEMMA GrowKeeps ==
  ASSUME TypeInv, Trays, TrayInv, Grows, UNCHANGED <<kind, counter>>,
         pc' = "create" => job' = job
  PROVE  Room' /\ NoneMissing' /\ TraysKeepGap'
<1>1. /\ Room /\ NoneMissing /\ TraysKeepGap /\ job.name = counter /\ pc = "create"
  BY TypeParts DEF TrayInv, Grows, Counted
<1>2. Room'
  BY <1>1 DEF Room, Grows, LengthOf, TrayLength, TrayModel
<1>3. NoneMissing'
  <2> SUFFICES ASSUME NEW n \in DOMAIN world', NEW m \in 1 .. counter, n < m, world'[n] < End
               PROVE  m \in DOMAIN world'
    BY DEF NoneMissing
  <2>1. n # job.name
    BY <1>1, WorldFacts
  <2>2. n \in DOMAIN world /\ world[n] < End
    BY <2>1 DEF Grows
  <2>3. m \in DOMAIN world \/ Coming(m)
    BY <1>1, <2>2 DEF NoneMissing
  <2> QED
    BY <2>3 DEF Grows, Coming
<1>4. TraysKeepGap'
  <2> SUFFICES ASSUME NEW n \in DOMAIN world', NEW m \in DOMAIN world', n < m, world'[n] < End
               PROVE  Apart(n, m)'
    BY DEF TraysKeepGap
  <2>1. n # job.name
    BY <1>1, WorldFacts DEF Grows
  <2>2. n \in DOMAIN world /\ world'[n] = world[n]
    BY <2>1 DEF Grows
  <2>3. CASE m = job.name
    <3>1. 2 * world[n] >= LengthOf(n) + LengthOf(m) + 2 * Gap
      BY <1>1, <2>1, <2>2, <2>3 DEF Room
    <3>2. world'[m] = 0 /\ world[n] \in Nat
      BY <2>2, <2>3, WorldFacts DEF Grows
    <3>3. 2 * (world'[n] - world'[m]) >= LengthOf(n) + LengthOf(m) + 2 * Gap
      BY <2>2, <3>1, <3>2
    <3> QED
      BY <3>3 DEF Apart, LengthOf, TrayLength, TrayModel
  <2>4. CASE m # job.name
    <3>1. m \in DOMAIN world /\ world'[m] = world[m]
      BY <2>4 DEF Grows
    <3>2. Apart(n, m)
      BY <1>1, <2>2, <3>1 DEF TraysKeepGap, Trays
    <3> QED
      BY <2>2, <3>1, <3>2 DEF Apart, TrayLength, TrayModel
  <2> QED
    BY <2>3, <2>4
<1> QED
  BY <1>2, <1>3, <1>4

LEMMA InitTrays == Init => TrayInv
<1> SUFFICES ASSUME Init PROVE TrayInv
  OBVIOUS
<1>1. /\ world = Empty /\ poses = Empty /\ msg = Empty /\ snapshot = Empty /\ DOMAIN Empty = {}
      /\ pending = {} /\ todo = {} /\ pc = "idle" /\ counter = 0 /\ asked = 0
  BY DEF Init, Empty
<1> QED
  BY <1>1 DEF TrayInv, LastOK, SeenOK, Older, OpenOK, Room, NoneMissing, TraysKeepGap

(* The steps that leave the models where they are and no request open.      *)
LEMMA StillTrays ==
  ASSUME TypeInv, TrayInv, OnPoses \/ Tick \/ RecycleNext \/ TickEnds \/ Due \/ SendPoses
  PROVE  TrayInv'
<1>1. UNCHANGED <<kind, gaveUp, world, pending, counter, lastModel, asked>>
  BY Zenon DEF OnPoses, Tick, RecycleNext, TickEnds, Due, SendPoses, books, gazebo, handler, history
<1> SUFFICES ASSUME Trays
             PROVE  /\ LastOK' /\ SeenOK' /\ OpenOK' /\ Room' /\ NoneMissing' /\ TraysKeepGap'
  BY <1>1 DEF TrayInv, Trays
<1>2. LastOK /\ SeenOK /\ OpenOK /\ Room /\ NoneMissing /\ TraysKeepGap /\ kind = "tray"
  BY DEF TrayInv, Trays
<1>3. (pc' = "create") = (pc = "create") /\ (pc = "create" => job' = job)
  BY <1>2 DEF OnPoses, Tick, RecycleNext, TickEnds, Due, SendPoses, handler
<1>4. \A n : Coming(n)' <=> Coming(n)
  BY <1>3 DEF Coming
<1>5. \A n : Leaving(n) => Leaving(n)'
  BY <1>1, <1>4 DEF Leaving, OnBelt
<1>6. LastOK'
  <2>1. pc' \notin {"serve", "product"}
    BY <1>2 DEF LastOK, OnPoses, Tick, RecycleNext, TickEnds, Due, SendPoses, handler
  <2> QED
    BY <1>1, <1>2, <1>3, <2>1 DEF LastOK, TrayModel
<1>7. SeenOK'
  <2>1. MapType
    BY TypeParts
  <2>2. \/ poses' = poses
        \/ poses' = Updated(msg, poses) /\ pc = "idle" /\ snapshot' = snapshot
    BY DEF OnPoses, Tick, RecycleNext, TickEnds, Due, SendPoses, books, handler
  <2>3. DOMAIN poses \subseteq DOMAIN poses' /\ Older(poses')
    <3>1. /\ DOMAIN Updated(msg, poses) = DOMAIN msg \cup DOMAIN poses
          /\ \A n \in DOMAIN msg : Updated(msg, poses)[n] = msg[n]
          /\ \A n \in DOMAIN poses \ DOMAIN msg : Updated(msg, poses)[n] = poses[n]
      BY UpdatedFacts
    <3> QED
      BY <1>2, <2>2, <3>1 DEF SeenOK, Older
  <2>4. Older(world) /\ Older(Empty)
    BY WorldFacts DEF Older, Empty
  <2>5. msg' \in {msg, world, Empty} /\ snapshot' \in {poses, snapshot}
    BY Zenon DEF OnPoses, Tick, RecycleNext, TickEnds, Due, SendPoses, books, handler
  <2>6. Older(msg') /\ Older(snapshot')
    BY <1>2, <2>4, <2>5 DEF SeenOK
  <2>7. pc' \in {"recycle", "remove", "tray"} =>
          \/ snapshot' = snapshot /\ pc \in {"recycle", "remove", "tray"}
          \/ snapshot' = poses /\ pc = "idle"
    BY DEF OnPoses, Tick, RecycleNext, TickEnds, Due, SendPoses, handler
  <2>8. \A n \in DOMAIN world : world[n] < End =>
          /\ n \in DOMAIN poses' \/ Coming(n)
          /\ pc' \in {"recycle", "remove", "tray"} => n \in DOMAIN snapshot'
    BY <1>2, <2>3, <2>7 DEF SeenOK, Coming
  <2>9. \A n \in DOMAIN msg' \cup DOMAIN snapshot' : Coming(n) => n \in DOMAIN world
    <3>1. \A n \in DOMAIN poses : ~Coming(n)
      BY TypeParts DEF Counted, Coming
    <3> QED
      BY <1>2, <2>5, <3>1 DEF SeenOK, Empty
  <2> QED
    BY <1>1, <1>4, <2>3, <2>6, <2>8, <2>9, Zenon DEF SeenOK, Older
<1>8. OpenOK'
  <2>1. \A n \in todo' : Leaving(n)
    <3>1. CASE Tick
      <4>1. \A n \in todo' : n \in DOMAIN poses /\ poses[n] = End /\ pc = "idle"
        BY <3>1 DEF Tick
      <4> QED
        BY <1>2, <4>1, WorldFacts DEF SeenOK, Older, Leaving, OnBelt, Coming
    <3>2. CASE ~Tick
      <4>1. todo' \subseteq todo
        BY <3>2 DEF OnPoses, RecycleNext, TickEnds, Due, SendPoses, handler
      <4> QED
        BY <1>2, <4>1 DEF OpenOK
    <3> QED
      BY <3>1, <3>2
  <2>2. pc' = "remove" => Leaving(job'.name)
    <3>1. CASE RecycleNext
      <4>1. ASSUME NEW n \in todo, job' = Remove(n) PROVE Leaving(job'.name)
        BY <1>2, <4>1 DEF OpenOK, Remove
      <4> QED
        BY <1>2, <3>1, <4>1 DEF RecycleNext
    <3>2. CASE ~RecycleNext
      <4>1. pc' = "remove" => pc = "remove" /\ job' = job
        BY <3>2 DEF OnPoses, Tick, TickEnds, Due, SendPoses, handler
      <4> QED
        BY <1>2, <4>1 DEF OpenOK
    <3> QED
      BY <3>1, <3>2
  <2> QED
    BY <1>1, <1>2, <1>4, <1>5, <2>1, <2>2, Zenon DEF OpenOK
<1>9. Room' /\ NoneMissing' /\ TraysKeepGap'
  BY <1>1, <1>2, <1>3, ShrinkKeeps DEF Shrinks
<1> QED
  BY <1>6, <1>7, <1>8, <1>9

(* The belt takes all trays on it the same step, and stops at its end.      *)
LEMMA MoveTrays ==
  ASSUME TypeInv, TrayInv, Move
  PROVE  TrayInv'
<1>1. UNCHANGED <<kind, gaveUp, pending, counter, lastModel, asked, poses, msg, snapshot, pc, job, todo>>
  BY Zenon DEF Move, books, handler, history
<1> SUFFICES ASSUME Trays
             PROVE  /\ LastOK' /\ SeenOK' /\ OpenOK' /\ Room' /\ NoneMissing' /\ TraysKeepGap'
  BY <1>1 DEF TrayInv, Trays
<1>2. LastOK /\ SeenOK /\ OpenOK /\ Room /\ NoneMissing /\ TraysKeepGap
  BY DEF TrayInv
<1>3. /\ DOMAIN world' = DOMAIN world
      /\ \A n \in DOMAIN world : world'[n] = IF world[n] < End THEN world[n] + 1 ELSE End
  BY DEF Move
<1>4. \A n \in DOMAIN world : world'[n] < End => world[n] < End /\ world'[n] = world[n] + 1
  BY <1>3, WorldFacts
<1>5. \A n \in DOMAIN world : world[n] <= world'[n]
  BY <1>3, WorldFacts
<1>6. /\ \A n : Coming(n)' <=> Coming(n)
      /\ \A n : Leaving(n) => Leaving(n)'
  <2>1. \A n : Coming(n)' <=> Coming(n)
    BY <1>1 DEF Coming
  <2>2. \A n : OnBelt(n)' => OnBelt(n)
    BY <1>3, <1>4 DEF OnBelt
  <2> QED
    BY <2>1, <2>2 DEF Leaving
<1>7. LastOK'
  BY <1>1, <1>2 DEF LastOK, TrayModel
<1>8. SeenOK'
  <2>1. MapType
    BY TypeParts
  <2>2. \A f \in Placed : \A n \in DOMAIN f : f[n] \in Nat
    BY PlacedFacts
  <2>3. \A f \in Placed : Older(f) => \A n \in DOMAIN f \cap DOMAIN world : f[n] <= world'[n]
    <3> SUFFICES ASSUME NEW f \in Placed, Older(f), NEW n \in DOMAIN f \cap DOMAIN world
                 PROVE  f[n] <= world'[n]
      OBVIOUS
    <3>1. f[n] <= world[n] /\ world[n] <= world'[n] /\ f[n] \in Nat /\ world[n] \in Nat
      BY <1>5, <2>2, WorldFacts DEF Older
    <3>2. world'[n] \in Nat
      BY <1>3, WorldFacts
    <3> QED
      BY <3>1, <3>2
  <2>4. Older(poses)' /\ Older(msg)' /\ Older(snapshot)'
    BY <1>1, <1>2, <1>3, <2>1, <2>3 DEF SeenOK, Older, MapType
  <2> QED
    BY <1>1, <1>2, <1>3, <1>4, <1>6, <2>4 DEF SeenOK
<1>9. OpenOK'
  BY <1>1, <1>2, <1>6, Zenon DEF OpenOK
<1>10. Room'
  <2> SUFFICES ASSUME NEW n \in DOMAIN world', pc' = "create", n # job'.name, world'[n] < End
               PROVE  2 * world'[n] >= LengthOf(n) + LengthOf(job.name) + 2 * Gap
    BY <1>1 DEF Room, LengthOf, TrayModel, TrayLength
  <2>1. 2 * world[n] >= LengthOf(n) + LengthOf(job.name) + 2 * Gap
    BY <1>1, <1>2, <1>3, <1>4 DEF Room
  <2>2. /\ world[n] \in Nat /\ world'[n] = world[n] + 1 /\ LengthOf(n) \in Nat
        /\ LengthOf(job.name) \in Nat /\ Gap \in Nat
    <3>1. job.name \in Nat
      BY <1>1, WorldFacts, TypeParts DEF Counted
    <3> QED
      BY <1>3, <1>4, <3>1, WorldFacts, ApartFacts
  <2> QED
    BY <2>1, <2>2
<1>11. NoneMissing'
  BY <1>1, <1>2, <1>3, <1>4, <1>6 DEF NoneMissing
<1>12. TraysKeepGap'
  <2> SUFFICES ASSUME NEW n \in DOMAIN world', NEW m \in DOMAIN world', n < m, world'[n] < End
               PROVE  Apart(n, m)'
    BY DEF TraysKeepGap
  <2>1. n \in DOMAIN world /\ m \in DOMAIN world /\ world[n] < End /\ world'[n] = world[n] + 1
    BY <1>3, <1>4
  <2>2. world[m] < world[n] /\ OnBelt(m)
    BY <1>2, <2>1, Behind
  <2>3. world'[m] = world[m] + 1
    BY <1>3, <2>2 DEF OnBelt
  <2>4. Apart(n, m)
    BY <1>2, <2>1 DEF TraysKeepGap, Trays
  <2>5. world'[n] - world'[m] = world[n] - world[m]
    BY <2>1, <2>3, WorldFacts
  <2> QED
    BY <2>4, <2>5 DEF Apart, TrayLength, TrayModel
<1> QED
  BY <1>7, <1>8, <1>9, <1>10, <1>11, <1>12

(* A tray is called for when there is room for it behind the last: and the  *)
(* last, if it is on the belt, keeps the others further ahead.              *)
LEMMA TickTrayTrays ==
  ASSUME TypeInv, TrayInv, TickTray
  PROVE  TrayInv'
<1>1. /\ pc = "tray" /\ pc' = "create" /\ counter' = counter + 1 /\ job' = Create(counter + 1, 0)
      /\ lastModel' = TrayModel(counter + 1) /\ TrayDue
      /\ UNCHANGED <<kind, gaveUp, world, pending, asked, poses, msg, snapshot, todo>>
  BY DEF TickTray, Spawn, gazebo, history
<1> SUFFICES ASSUME Trays
             PROVE  /\ LastOK' /\ SeenOK' /\ OpenOK' /\ Room' /\ NoneMissing' /\ TraysKeepGap'
  BY <1>1 DEF TrayInv, Trays
<1>2. LastOK /\ SeenOK /\ OpenOK /\ NoneMissing /\ TraysKeepGap /\ counter \in Nat
  BY WorldFacts DEF TrayInv
<1>3. job'.name = counter + 1 /\ job'.at = 0
  BY <1>1 DEF Create
<1>4. \A n : ~Coming(n) /\ (Coming(n)' <=> n = counter + 1)
  BY <1>1, <1>3 DEF Coming
<1>5. /\ \A n \in DOMAIN world \cup DOMAIN poses \cup DOMAIN msg \cup DOMAIN snapshot \cup todo :
           n <= counter
      /\ \A r \in pending : r.name \in 1 .. counter
  <2>1. Counted /\ counter <= MaxCount
    BY TypeParts, SpawnerAssumption DEF BookType
  <2> QED
    BY <1>2, <2>1, RequestFacts DEF Counted
<1>6. LastOK'
  BY <1>1, <1>2, <1>3 DEF LastOK, TrayModel
<1>7. SeenOK'
  <2>1. \A n \in DOMAIN msg \cup DOMAIN snapshot : n # counter + 1
    BY <1>2, <1>5
  <2> QED
    BY <1>1, <1>2, <1>4, <2>1 DEF SeenOK, Older
<1>8. OpenOK'
  <2>1. \A n \in todo : Leaving(n)'
    BY <1>1, <1>2, <1>4, <1>5 DEF OpenOK, Leaving, OnBelt
  <2>2. \A r \in pending : r.do # "create" /\ Leaving(r.name)'
    BY <1>1, <1>2, <1>4, <1>5 DEF OpenOK, Leaving, OnBelt
  <2> QED
    BY <1>1, <2>1, <2>2 DEF OpenOK
<1>9. Room'
  <2> SUFFICES ASSUME NEW n \in DOMAIN world, world[n] < End
               PROVE  2 * world[n] >= LengthOf(n) + LengthOf(counter + 1) + 2 * Gap
    BY <1>1, <1>3 DEF Room, LengthOf, TrayModel, TrayLength
  <2> DEFINE need == TrayLength(lastModel) + LengthOf(counter + 1)
  <2>1. /\ n \in Nat /\ n >= 1 /\ n <= counter /\ world[n] \in Nat /\ Gap \in Nat /\ End \in Nat
        /\ LengthOf(n) \in Nat /\ LengthOf(n) > 0
        /\ LengthOf(counter) \in Nat /\ LengthOf(counter) > 0
        /\ LengthOf(counter + 1) \in Nat /\ LengthOf(counter + 1) > 0
    BY <1>2, WorldFacts, ApartFacts
  <2>2. need = LengthOf(counter) + LengthOf(counter + 1) /\ need > 0
    BY <1>2, <2>1 DEF LastOK, LengthOf
  <2>3. 2 * TrayPitch >= need + 2 * Gap /\ TrayPitch \in Nat
    <3>1. \A a \in Nat : (a + 1) \div 2 \in Nat /\ 2 * ((a + 1) \div 2) >= a
      OBVIOUS
    <3>2. (need + 1) \div 2 \in Nat /\ 2 * ((need + 1) \div 2) >= need
      BY <2>1, <2>2, <3>1
    <3>3. TrayPitch = IF (need + 1) \div 2 + Gap > Pitch THEN (need + 1) \div 2 + Gap ELSE Pitch
      BY <2>2 DEF TrayPitch, LengthOf
    <3>4. need \in Nat /\ Pitch \in Nat
      BY <2>1, <2>2, SpawnerAssumption
    <3> HIDE DEF need
    <3>5. PICK a \in Nat : a = (need + 1) \div 2 /\ 2 * a >= need
      BY <3>2
    <3>6. TrayPitch = IF a + Gap > Pitch THEN a + Gap ELSE Pitch
      BY <3>3, <3>5, Zenon
    <3> QED
      BY <2>1, <3>4, <3>5, <3>6
  <2>4. ASSUME NEW m \in DOMAIN world, world[m] < End
        PROVE  2 * world[m] >= LengthOf(counter) + LengthOf(counter + 1) + 2 * Gap
    <3>1. m \in DOMAIN snapshot /\ snapshot[m] <= world[m]
      BY <1>1, <1>2, <2>4 DEF SeenOK, Older
    <3>2. snapshot[m] >= TrayPitch
      BY <1>1, <3>1 DEF TrayDue
    <3>3. snapshot[m] \in Nat /\ world[m] \in Nat
      BY <3>1, WorldFacts, PlacedFacts, TypeParts DEF MapType
    <3> HIDE DEF need
    <3> QED
      BY <2>1, <2>2, <2>3, <3>1, <3>2, <3>3
  <2>5. CASE n = counter
    BY <2>4, <2>5
  <2>6. CASE n # counter
    <3>1. counter \in 1 .. counter /\ n < counter
      BY <1>2, <2>1, <2>6
    <3>2. counter \in DOMAIN world
      BY <1>2, <1>4, <3>1 DEF NoneMissing
    <3>3. OnBelt(counter)
      BY <1>2, <3>1, <3>2, Behind
    <3>4. 2 * (world[n] - world[counter]) >= LengthOf(n) + LengthOf(counter) + 2 * Gap
      BY <1>2, <3>1, <3>2, ApartFacts DEF TraysKeepGap, Trays
    <3>5. 2 * world[counter] >= LengthOf(counter) + LengthOf(counter + 1) + 2 * Gap
      BY <2>4, <3>3 DEF OnBelt
    <3>6. world[counter] \in Nat
      BY <3>2, WorldFacts
    <3> HIDE DEF need
    <3> QED
      BY <2>1, <3>4, <3>5, <3>6
  <2> QED
    BY <2>5, <2>6
<1>10. NoneMissing'
  <2> SUFFICES ASSUME NEW n \in DOMAIN world, NEW m \in 1 .. counter + 1, n < m, world[n] < End,
                      m # counter + 1
               PROVE  m \in DOMAIN world
    BY <1>1, <1>4 DEF NoneMissing
  <2>1. m \in 1 .. counter
    BY <1>2
  <2> QED
    BY <1>2, <1>4, <2>1 DEF NoneMissing
<1>11. TraysKeepGap'
  BY <1>1, <1>2 DEF TraysKeepGap, Apart, TrayLength, TrayModel
<1> QED
  BY <1>6, <1>7, <1>8, <1>9, <1>10, <1>11

(* What a request that is open, or being made, may do to the world.         *)
LEMMA ExecutedTrays ==
  ASSUME TypeInv, Trays, NEW r \in Creates(counter) \cup Removes(counter),
         world' = Executed(r),
         IF r.do = "create" THEN Coming(r.name) /\ r.at = 0 ELSE Leaving(r.name)
  PROVE  /\ world' = world \/ Shrinks \/ Grows
         /\ r.do = "create" /\ r.name \notin DOMAIN world => Grows
         /\ r.do = "create" /\ r.name \in DOMAIN world => world' = world
<1>1. r.do \in {"create", "remove"}
  BY DEF Creates, Removes
<1>2. CASE r.do = "create" /\ r.name \notin DOMAIN world
  <2>1. world' = With(world, r.name, r.at) /\ r.name = job.name /\ pc = "create" /\ r.at = 0
    BY <1>1, <1>2, ExecutedFacts DEF Coming
  <2>3. world' = With(world, job.name, 0)
    BY <2>1
  <2>4. /\ DOMAIN world' = DOMAIN world \cup {job.name} /\ world'[job.name] = 0
        /\ \A m \in DOMAIN world : m # job.name => world'[m] = world[m]
    BY <2>3 DEF With, Updated, Only
  <2>5. Grows
    BY <1>2, <2>1, <2>4 DEF Grows
  <2> QED
    BY <1>2, <2>5
<1>3. CASE r.do = "remove" /\ r.name \in DOMAIN world
  <2>1. world' = Without(world, r.name) /\ Leaving(r.name)
    BY <1>1, <1>3, ExecutedFacts
  <2>2. /\ DOMAIN Without(world, r.name) = DOMAIN world \ {r.name}
        /\ \A m \in DOMAIN world \ {r.name} : Without(world, r.name)[m] = world[m]
    BY WithoutFacts
  <2> QED
    BY <1>3, <2>1, <2>2 DEF Shrinks, Leaving
<1>4. CASE (r.do = "create") # (r.name \notin DOMAIN world)
  BY <1>1, <1>4, ExecutedFacts
<1> QED
  BY <1>1, <1>2, <1>3, <1>4

(* A tray that has left the belt is removed, or is not.                     *)
LEMMA IgnRemoveTrays ==
  ASSUME TypeInv, TrayInv, NEW ok \in BOOLEAN, IgnRemove(ok)
  PROVE  TrayInv'
<1>1. /\ pc = "remove" /\ pc' \in {"recycle", "remove"} /\ (pc' = "remove" => job' = job)
      /\ poses' = poses \/ poses' = Without(poses, job.name)
      /\ Call(job, ok)
      /\ UNCHANGED <<kind, gaveUp, counter, lastModel, asked, msg, snapshot, todo>>
  BY DEF IgnRemove
<1> SUFFICES ASSUME Trays
             PROVE  /\ LastOK' /\ SeenOK' /\ OpenOK' /\ Room' /\ NoneMissing' /\ TraysKeepGap'
  BY <1>1 DEF TrayInv, Trays
<1>2. LastOK /\ SeenOK /\ OpenOK /\ Leaving(job.name) /\ job \in Removes(counter) /\ job.do = "remove"
  BY <1>1, TypeParts DEF TrayInv, Counted, OpenOK, Removes
<1>3. Shrinks /\ \A r \in pending' : r \in pending \cup {job}
  <2>1. world' = world => Shrinks
    BY DEF Shrinks
  <2>2. world' = Executed(job) => Shrinks
    BY <1>1, <1>2, <2>1, ExecutedTrays DEF Grows
  <2> QED
    BY <1>1, <2>1, <2>2, CallFacts
<1>4. \A n : ~Coming(n) /\ ~Coming(n)'
  BY <1>1 DEF Coming
<1>5. \A n : Leaving(n) => Leaving(n)'
  BY <1>3, <1>4 DEF Leaving, OnBelt, Shrinks
<1>6. /\ Room' /\ NoneMissing' /\ TraysKeepGap'
      /\ \A f : Older(f) => \A n \in DOMAIN f \cap DOMAIN world' : f[n] <= world'[n]
  BY <1>1, <1>3, ShrinkKeeps
<1>7. LastOK'
  BY <1>1, <1>2 DEF LastOK, TrayModel
<1>8. OpenOK'
  <2>1. \A r \in pending' : r.do # "create" /\ Leaving(r.name)
    BY <1>2, <1>3, <1>4 DEF OpenOK
  <2>2. (\A n \in todo' : Leaving(n)) /\ (pc' = "remove" => Leaving(job'.name))
    BY <1>1, <1>2 DEF OpenOK
  <2> QED
    BY <1>5, <2>1, <2>2, Zenon DEF OpenOK
<1>9. SeenOK'
  <2>1. /\ DOMAIN Without(poses, job.name) = DOMAIN poses \ {job.name}
        /\ \A m \in DOMAIN poses \ {job.name} : Without(poses, job.name)[m] = poses[m]
    BY WithoutFacts
  <2>2. /\ DOMAIN poses \ {job.name} \subseteq DOMAIN poses' /\ DOMAIN poses' \subseteq DOMAIN poses
        /\ \A n \in DOMAIN poses' : poses'[n] = poses[n]
    BY <1>1, <2>1
  <2>3. Older(poses)' /\ Older(msg)' /\ Older(snapshot)'
    <3>1. \A n \in DOMAIN poses \cap DOMAIN world' : poses[n] <= world'[n]
      BY <1>2, <1>6 DEF SeenOK
    <3>2. Older(poses)'
      BY <2>2, <3>1 DEF Older
    <3>3. \A n \in DOMAIN msg \cap DOMAIN world' : msg[n] <= world'[n]
      BY <1>2, <1>6 DEF SeenOK
    <3>4. \A n \in DOMAIN snapshot \cap DOMAIN world' : snapshot[n] <= world'[n]
      BY <1>2, <1>6 DEF SeenOK
    <3> QED
      BY <1>1, <3>2, <3>3, <3>4 DEF Older
  <2>4. ASSUME NEW n \in DOMAIN world', world'[n] < End
        PROVE  n \in DOMAIN poses' /\ n \in DOMAIN snapshot'
    <3>1. OnBelt(n) /\ n # job.name
      BY <1>2, <1>3, <2>4 DEF Shrinks, OnBelt, Leaving
    <3>2. n \in DOMAIN poses /\ n \in DOMAIN snapshot
      BY <1>1, <1>2, <1>4, <3>1 DEF SeenOK, OnBelt
    <3> QED
      BY <1>1, <2>2, <3>1, <3>2
  <2> QED
    BY <1>4, <2>3, <2>4, Zenon DEF SeenOK
<1> QED
  BY <1>6, <1>7, <1>8, <1>9

(* The tray is there: it counts from now on.                                *)
LEMMA IgnCreatedTrays ==
  ASSUME TypeInv, TrayInv, NEW ok \in BOOLEAN, IgnCreated(ok)
  PROVE  TrayInv'
<1>1. /\ pc = "create" /\ Call(job, ok) /\ (ok \/ job.name \in DOMAIN poses)
      /\ poses' = Updated(poses, Only(job.name, job.at))
      /\ pc' \in {"idle", "serve"} /\ (asked = 0 => pc' = "idle")
      /\ UNCHANGED <<kind, gaveUp, counter, lastModel, asked, msg, snapshot, todo>>
  BY SpawnerAssumption DEF IgnCreated, AfterCreate
<1> SUFFICES ASSUME Trays
             PROVE  /\ LastOK' /\ SeenOK' /\ OpenOK' /\ Room' /\ NoneMissing' /\ TraysKeepGap'
  BY <1>1 DEF TrayInv, Trays
<1>2. /\ LastOK /\ SeenOK /\ OpenOK /\ pc' = "idle" /\ job.at = 0
      /\ job \in Creates(counter) /\ job.do = "create" /\ job.name \notin DOMAIN poses
      /\ job.name = counter
  BY <1>1, TypeParts DEF TrayInv, LastOK, Counted, Creates
<1>3. pending' = {} /\ Grows
  <2>1. ok = TRUE
    BY <1>1, <1>2
  <2>2. pending' = {} /\ world' = Executed(job) /\ Possible(job)
    BY <1>1, <2>1, CallFacts
  <2>3. job.name \notin DOMAIN world
    BY <1>2, <2>2, ExecutedFacts
  <2>4. Grows
    BY <1>1, <1>2, <2>2, <2>3, ExecutedTrays DEF Coming
  <2> QED
    BY <2>2, <2>4
<1>4. \A n : (Coming(n) <=> n = job.name) /\ ~Coming(n)'
  BY <1>1, <1>2 DEF Coming
<1>5. Room' /\ NoneMissing' /\ TraysKeepGap'
  BY <1>1, <1>2, <1>3, GrowKeeps
<1>6. LastOK'
  BY <1>1, <1>2 DEF LastOK, TrayModel
<1>7. OpenOK'
  <2>1. \A n \in todo : Leaving(n)'
    BY <1>2, <1>3, <1>4 DEF OpenOK, Leaving, OnBelt, Grows
  <2> QED
    BY <1>1, <1>2, <1>3, <2>1 DEF OpenOK
<1>8. SeenOK'
  <2>1. /\ DOMAIN poses' = DOMAIN poses \cup {job.name}
        /\ \A n \in DOMAIN poses : poses'[n] = poses[n]
        /\ poses'[job.name] = 0
    BY <1>1, <1>2 DEF Updated, Only
  <2>2. job.name \notin DOMAIN msg /\ job.name \notin DOMAIN snapshot
    BY <1>2, <1>3, <1>4 DEF SeenOK, Grows
  <2>3. \A f : Older(f) /\ job.name \notin DOMAIN f =>
                 \A n \in DOMAIN f \cap DOMAIN world' : f[n] <= world'[n]
    BY <1>3 DEF Older, Grows
  <2>4. Older(msg)' /\ Older(snapshot)'
    <3>1. /\ \A n \in DOMAIN msg \cap DOMAIN world' : msg[n] <= world'[n]
          /\ \A n \in DOMAIN snapshot \cap DOMAIN world' : snapshot[n] <= world'[n]
      BY <1>2, <2>2, <2>3 DEF SeenOK
    <3> QED
      BY <1>1, <3>1 DEF Older
  <2>5. Older(poses)'
    <3>1. \A n \in DOMAIN poses \cap DOMAIN world' : poses[n] <= world'[n]
      BY <1>2, <2>3 DEF SeenOK
    <3>2. world'[job.name] = 0
      BY <1>3 DEF Grows
    <3> QED
      BY <2>1, <3>1, <3>2 DEF Older
  <2>6. \A n \in DOMAIN world' : world'[n] < End => n \in DOMAIN poses'
    BY <1>2, <1>3, <1>4, <2>1 DEF SeenOK, Grows
  <2> QED
    BY <1>2, <1>4, <2>4, <2>5, <2>6, Zenon DEF SeenOK
<1> QED
  BY <1>5, <1>6, <1>7, <1>8

(* A second attempt follows: only the request may be open, or have been     *)
(* carried out.                                                             *)
LEMMA IgnCreateFailsTrays ==
  ASSUME TypeInv, TrayInv, NEW ok \in BOOLEAN, IgnCreateFails(ok)
  PROVE  TrayInv'
<1>1. /\ pc = "create" /\ Call(job, ok) /\ ok = FALSE
      /\ kind' = kind
      /\ \/ gaveUp' = gaveUp \cup {job.name}
         \/ UNCHANGED <<gaveUp, pc, job, counter, lastModel, asked, msg, poses, snapshot, todo>>
  BY DEF IgnCreateFails, books
<1> SUFFICES ASSUME Trays, Trays'
             PROVE  /\ LastOK' /\ SeenOK' /\ OpenOK' /\ Room' /\ NoneMissing' /\ TraysKeepGap'
  BY <1>1 DEF TrayInv, Trays
<1>2. UNCHANGED <<kind, pc, job, counter, lastModel, asked, msg, poses, snapshot, todo>>
  BY <1>1 DEF Trays
<1>3. /\ LastOK /\ SeenOK /\ OpenOK /\ Room /\ NoneMissing /\ TraysKeepGap
      /\ job \in Creates(counter) /\ job.do = "create" /\ job.at = 0
  BY <1>1, TypeParts DEF TrayInv, LastOK, Counted, Creates
<1>4. world' = world /\ \A r \in pending' : r \in pending \cup {job}
  <2>1. \/ pending' = {} /\ ~Possible(job) /\ world' = Executed(job)
        \/ pending' = pending \cup {job} /\ world' = world
    BY <1>1, CallFacts
  <2>2. ~Possible(job) => Executed(job) = world
    BY <1>3, ExecutedFacts
  <2> QED
    BY <2>1, <2>2
<1>5. \A n : (Coming(n)' <=> Coming(n)) /\ (Leaving(n)' <=> Leaving(n))
  BY <1>2, <1>4 DEF Coming, Leaving, OnBelt
<1>6. OpenOK'
  <2>1. \A r \in pending' : IF r.do = "create" THEN Coming(r.name) /\ r.at = 0 ELSE Leaving(r.name)
    BY <1>1, <1>3, <1>4 DEF OpenOK, Coming
  <2> QED
    BY <1>2, <1>3, <1>5, <2>1, Zenon DEF OpenOK
<1>7. LastOK' /\ SeenOK'
  BY <1>2, <1>3, <1>4, Zenon DEF LastOK, TrayModel, SeenOK, Older, Coming
<1>8. Room' /\ NoneMissing' /\ TraysKeepGap'
  BY <1>2, <1>4, ShrinkKeeps DEF Shrinks
<1> QED
  BY <1>6, <1>7, <1>8

(* What was not answered in time is carried out late, or never.             *)
LEMMA SettleTrays ==
  ASSUME TypeInv, TrayInv, SettleLate
  PROVE  TrayInv'
<1>1. PICK r \in pending : world' \in {world, Executed(r)} /\ pending' = pending \ {r}
  BY DEF SettleLate, Settle
<1>2. UNCHANGED <<kind, gaveUp, pc, job, counter, lastModel, asked, msg, poses, snapshot, todo>>
  BY Zenon DEF SettleLate, books, handler, history
<1> SUFFICES ASSUME Trays
             PROVE  /\ LastOK' /\ SeenOK' /\ OpenOK' /\ Room' /\ NoneMissing' /\ TraysKeepGap'
  BY <1>2 DEF TrayInv, Trays
<1>3. /\ LastOK /\ SeenOK /\ OpenOK
      /\ r \in Creates(counter) \cup Removes(counter)
      /\ IF r.do = "create" THEN Coming(r.name) /\ r.at = 0 ELSE Leaving(r.name)
      /\ pc = "create" => job.name \notin DOMAIN poses
  BY TypeParts DEF TrayInv, Counted, OpenOK
<1>4. Shrinks \/ Grows
  <2>1. world' = world => Shrinks
    BY DEF Shrinks
  <2> QED
    BY <1>1, <1>3, <2>1, ExecutedTrays
<1>5. \A n : Coming(n)' <=> Coming(n)
  BY <1>2 DEF Coming
<1>6. \A n : Leaving(n) => Leaving(n)'
  BY <1>2, <1>4, <1>5 DEF Leaving, OnBelt, Shrinks, Grows, Coming
<1>7. Room' /\ NoneMissing' /\ TraysKeepGap'
  BY <1>2, <1>4, ShrinkKeeps, GrowKeeps
<1>8. LastOK'
  BY <1>2, <1>3 DEF LastOK, TrayModel
<1>9. OpenOK'
  BY <1>1, <1>2, <1>3, <1>5, <1>6, Zenon DEF OpenOK
<1>10. SeenOK'
  <2>1. ASSUME NEW f, Older(f), \A n \in DOMAIN f : Coming(n) => n \in DOMAIN world
        PROVE  \A n \in DOMAIN f \cap DOMAIN world' : f[n] <= world'[n]
    BY <1>4, <2>1 DEF Older, Shrinks, Grows, Coming
  <2>2. \A n \in DOMAIN poses : ~Coming(n)
    BY <1>3 DEF Coming
  <2>3. Older(poses)' /\ Older(msg)' /\ Older(snapshot)'
    <3>1. /\ \A n \in DOMAIN poses \cap DOMAIN world' : poses[n] <= world'[n]
          /\ \A n \in DOMAIN msg \cap DOMAIN world' : msg[n] <= world'[n]
          /\ \A n \in DOMAIN snapshot \cap DOMAIN world' : snapshot[n] <= world'[n]
      BY <1>3, <2>1, <2>2 DEF SeenOK
    <3> QED
      BY <1>2, <3>1 DEF Older
  <2>4. ASSUME NEW n \in DOMAIN world', world'[n] < End
        PROVE  OnBelt(n) \/ Coming(n)
    BY <1>4, <2>4 DEF OnBelt, Shrinks, Grows, Coming
  <2>5. \A n : Coming(n) /\ n \in DOMAIN world => n \in DOMAIN world'
    BY <1>4 DEF Shrinks, Grows
  <2>6. ASSUME NEW n \in DOMAIN world', world'[n] < End
        PROVE  /\ n \in DOMAIN poses \/ Coming(n)
               /\ pc \in {"recycle", "remove", "tray"} => n \in DOMAIN snapshot
    BY <1>3, <2>4, <2>6 DEF SeenOK, OnBelt, Coming
  <2> QED
    BY <1>2, <1>3, <1>5, <2>3, <2>5, <2>6, Zenon DEF SeenOK
<1> QED
  BY <1>7, <1>8, <1>9, <1>10

LEMMA NextTrays == TypeInv /\ TrayInv /\ [Next]_vars => TrayInv'
<1> SUFFICES ASSUME TypeInv, TrayInv, [Next]_vars PROVE TrayInv'
  OBVIOUS
<1>1. CASE UNCHANGED vars
  <2>1. UNCHANGED <<kind, gaveUp, world, pending, pc, job, counter, lastModel, asked, msg, poses,
                    snapshot, todo>>
    BY <1>1, Zenon DEF vars, gazebo, books, handler, history
  <2>2. LastOK' = LastOK /\ SeenOK' = SeenOK /\ OpenOK' = OpenOK
    BY <2>1, Zenon DEF LastOK, TrayModel, SeenOK, Older, OpenOK, Leaving, OnBelt, Coming
  <2>3. Room' = Room /\ NoneMissing' = NoneMissing /\ TraysKeepGap' = TraysKeepGap
    BY <2>1, Zenon DEF Room, LengthOf, NoneMissing, TraysKeepGap, Apart, TrayLength, TrayModel, Coming
  <2> QED
    BY <2>1, <2>2, <2>3, Zenon DEF TrayInv, Trays
<1>2. CASE Request
  BY <1>2, IgnRemoveTrays, IgnCreatedTrays, IgnCreateFailsTrays DEF Request
<1>3. CASE TickProduct \/ OnSpawnSrv \/ ServeNext
  <2>1. ~Trays' \/ ~(pc \notin {"serve", "product"})
    BY <1>3 DEF TickProduct, OnSpawnSrv, ServeNext, Trays
  <2>2. Trays' => Trays
    BY <1>3 DEF TickProduct, OnSpawnSrv, ServeNext, Trays, history
  <2> QED
    BY <2>1, <2>2 DEF TrayInv, LastOK
<1> QED
  BY <1>1, <1>2, <1>3, StillTrays, MoveTrays, TickTrayTrays, SettleTrays DEF Next, Going

(* Trays never lie on each other as long as none was given up (tick,        *)
(* tray_pitch): for any lengths, any pitch and any number of trays, however *)
(* old the poses the tick acts on are, and whichever removals fail.         *)
THEOREM TraysKeptApart == Spec => []TraysApart
<1>1. TrayInv => TraysApart
  BY DEF TrayInv, Trays, TraysApart, TraysKeepGap
<1> QED
  BY <1>1, InitType, NextType, InitTrays, NextTrays, PTL DEF Spec

-----------------------------------------------------------------------------
(* Nothing is taken from a belt before its end.                             *)

(* The news of a model are of where it was, and that there is one.          *)
NewsOK ==
  /\ Older(poses) /\ Older(msg)
  /\ \A n \in DOMAIN msg : Coming(n) => n \in DOMAIN world

(* What is asked for, will be, or may still be carried out late.            *)
OrdersOK ==
  /\ \A r \in pending : IF r.do = "create" THEN Coming(r.name) ELSE Leaving(r.name)
  /\ \A n \in todo : Leaving(n)
  /\ pc = "remove" => Leaving(job.name)

LeaveInv == gaveUp = {} => NewsOK /\ OrdersOK

(* The one that is being created comes, at whichever place.                 *)
Arrives ==
  /\ pc = "create" /\ job.name \notin DOMAIN world
  /\ DOMAIN world' = DOMAIN world \cup {job.name}
  /\ \A n \in DOMAIN world : world'[n] = world[n]

LEMMA ExecutedLeaves ==
  ASSUME NEW r, r.do \in {"create", "remove"}, world' = Executed(r),
         IF r.do = "create" THEN Coming(r.name) ELSE Leaving(r.name)
  PROVE  Shrinks \/ Arrives
<1>1. CASE r.do = "create" /\ r.name \notin DOMAIN world
  <2>1. world' = With(world, r.name, r.at) /\ r.name = job.name /\ pc = "create"
    BY <1>1, ExecutedFacts DEF Coming
  <2>2. /\ DOMAIN world' = DOMAIN world \cup {r.name}
        /\ \A m \in DOMAIN world : m # r.name => world'[m] = world[m]
    BY <2>1 DEF With, Updated, Only
  <2> QED
    BY <1>1, <2>1, <2>2 DEF Arrives
<1>2. CASE r.do = "remove" /\ r.name \in DOMAIN world
  <2>1. world' = Without(world, r.name) /\ Leaving(r.name)
    BY <1>2, ExecutedFacts
  <2>2. /\ DOMAIN Without(world, r.name) = DOMAIN world \ {r.name}
        /\ \A m \in DOMAIN world \ {r.name} : Without(world, r.name)[m] = world[m]
    BY WithoutFacts
  <2> QED
    BY <1>2, <2>1, <2>2 DEF Shrinks, Leaving
<1>3. CASE (r.do = "create") # (r.name \notin DOMAIN world)
  BY <1>3, ExecutedFacts DEF Shrinks
<1> QED
  BY <1>1, <1>2, <1>3

(* What is older than the world stays so, but for the one that comes.       *)
LEMMA WorldLeaves ==
  ASSUME Shrinks \/ Arrives
  PROVE  /\ \A f : Older(f) /\ (\A n \in DOMAIN f : Coming(n) => n \in DOMAIN world)
                   => \A n \in DOMAIN f \cap DOMAIN world' : f[n] <= world'[n]
         /\ \A n : ~OnBelt(n) /\ ~Coming(n) => ~OnBelt(n)'
         /\ \A n \in DOMAIN world : Coming(n) => n \in DOMAIN world'
BY DEF Shrinks, Arrives, Older, OnBelt, Coming

LEMMA OrderDo ==
  ASSUME TypeInv
  PROVE  /\ \A r \in pending : r.do \in {"create", "remove"}
         /\ pc = "remove" => job.do = "remove"
         /\ pc = "create" => job.do = "create" /\ job.name \notin DOMAIN poses
BY TypeParts DEF Counted, Creates, Removes

LEMMA InitLeaves == Init => LeaveInv
BY DEF Init, Empty, LeaveInv, NewsOK, Older, OrdersOK

(* The steps that leave the models where they are and make no request.      *)
LEMMA StillLeaves ==
  ASSUME TypeInv, LeaveInv,
         OnPoses \/ Tick \/ RecycleNext \/ TickEnds \/ OnSpawnSrv \/ Due \/ SendPoses
  PROVE  LeaveInv'
<1>1. UNCHANGED <<gaveUp, world, pending>>
  BY Zenon DEF OnPoses, Tick, RecycleNext, TickEnds, OnSpawnSrv, Due, SendPoses, books, gazebo,
               handler, history
<1> SUFFICES ASSUME NewsOK, OrdersOK
             PROVE  NewsOK' /\ OrdersOK'
  BY <1>1 DEF LeaveInv
<1>2. (pc' = "create") = (pc = "create") /\ (pc = "create" => job' = job)
  BY TypeParts DEF OnPoses, Tick, RecycleNext, TickEnds, OnSpawnSrv, Due, SendPoses, handler, BookType
<1>3. \A n : Coming(n)' <=> Coming(n)
  BY <1>2 DEF Coming
<1>4. \A n : Leaving(n) => Leaving(n)'
  BY <1>1, <1>3 DEF Leaving, OnBelt
<1>5. NewsOK'
  <2>1. poses' = poses \/ poses' = Updated(msg, poses)
    BY DEF OnPoses, Tick, RecycleNext, TickEnds, OnSpawnSrv, Due, SendPoses, books
  <2>2. Older(poses')
    <3>1. /\ DOMAIN Updated(msg, poses) = DOMAIN msg \cup DOMAIN poses
          /\ \A n \in DOMAIN msg : Updated(msg, poses)[n] = msg[n]
          /\ \A n \in DOMAIN poses \ DOMAIN msg : Updated(msg, poses)[n] = poses[n]
      BY UpdatedFacts
    <3> QED
      BY <2>1, <3>1 DEF NewsOK, Older
  <2>3. Older(world) /\ Older(Empty)
    BY WorldFacts DEF Older, Empty
  <2>4. msg' \in {msg, world, Empty}
    BY Zenon DEF OnPoses, Tick, RecycleNext, TickEnds, OnSpawnSrv, Due, SendPoses, books
  <2>5. Older(msg') /\ \A n \in DOMAIN msg' : Coming(n) => n \in DOMAIN world
    BY <2>3, <2>4 DEF NewsOK, Empty
  <2> QED
    BY <1>1, <1>3, <2>2, <2>5, Zenon DEF NewsOK, Older
<1>6. OrdersOK'
  <2>1. \A n \in todo' : Leaving(n)
    <3>1. CASE Tick
      <4>1. \A n \in todo' : n \in DOMAIN poses /\ poses[n] = End /\ pc = "idle"
        BY <3>1 DEF Tick
      <4> QED
        BY <4>1, WorldFacts DEF NewsOK, Older, Leaving, OnBelt, Coming
    <3>2. CASE ~Tick
      <4>1. todo' \subseteq todo
        BY <3>2 DEF OnPoses, RecycleNext, TickEnds, OnSpawnSrv, Due, SendPoses, handler
      <4> QED
        BY <4>1 DEF OrdersOK
    <3> QED
      BY <3>1, <3>2
  <2>2. pc' = "remove" => Leaving(job'.name)
    <3>1. CASE RecycleNext
      <4>1. ASSUME NEW n \in todo, job' = Remove(n) PROVE Leaving(job'.name)
        BY <4>1 DEF OrdersOK, Remove
      <4>2. kind # "remove"
        BY TypeParts DEF BookType
      <4> QED
        BY <3>1, <4>1, <4>2 DEF RecycleNext
    <3>2. CASE ~RecycleNext
      <4>1. pc' = "remove" => pc = "remove" /\ job' = job
        BY <3>2 DEF OnPoses, Tick, TickEnds, OnSpawnSrv, Due, SendPoses, handler
      <4> QED
        BY <4>1 DEF OrdersOK
    <3> QED
      BY <3>1, <3>2
  <2> QED
    BY <1>1, <1>3, <1>4, <2>1, <2>2, Zenon DEF OrdersOK
<1> QED
  BY <1>5, <1>6

LEMMA MoveLeaves ==
  ASSUME TypeInv, LeaveInv, Move
  PROVE  LeaveInv'
<1>1. UNCHANGED <<gaveUp, pending, poses, msg, pc, job, todo>>
  BY Zenon DEF Move, books, handler, history
<1> SUFFICES ASSUME NewsOK, OrdersOK
             PROVE  NewsOK' /\ OrdersOK'
  BY <1>1 DEF LeaveInv
<1>2. /\ DOMAIN world' = DOMAIN world
      /\ \A n \in DOMAIN world : world'[n] = IF world[n] < End THEN world[n] + 1 ELSE End
  BY DEF Move
<1>3. \A n \in DOMAIN world : world[n] <= world'[n] /\ (world'[n] < End => world[n] < End)
                              /\ world[n] \in Nat /\ world'[n] \in Nat
  BY <1>2, WorldFacts
<1>4. /\ \A n : Coming(n)' <=> Coming(n)
      /\ \A n : Leaving(n) => Leaving(n)'
  <2>1. \A n : Coming(n)' <=> Coming(n)
    BY <1>1 DEF Coming
  <2>2. \A n : OnBelt(n)' => OnBelt(n)
    BY <1>2, <1>3 DEF OnBelt
  <2> QED
    BY <2>1, <2>2 DEF Leaving
<1>5. Older(poses)' /\ Older(msg)'
  <2>1. \A f \in Placed : Older(f) => \A n \in DOMAIN f \cap DOMAIN world : f[n] <= world'[n]
    <3> SUFFICES ASSUME NEW f \in Placed, Older(f), NEW n \in DOMAIN f \cap DOMAIN world
                 PROVE  f[n] <= world'[n]
      OBVIOUS
    <3>1. f[n] <= world[n] /\ f[n] \in Nat
      BY PlacedFacts DEF Older
    <3> QED
      BY <1>3, <3>1
  <2>2. poses \in Placed /\ msg \in Placed
    BY TypeParts DEF MapType
  <2> QED
    BY <1>1, <1>2, <2>1, <2>2 DEF NewsOK, Older
<1>6. NewsOK'
  BY <1>1, <1>2, <1>4, <1>5 DEF NewsOK
<1>7. OrdersOK'
  BY <1>1, <1>4, Zenon DEF OrdersOK
<1> QED
  BY <1>6, <1>7

(* A request to create begins: of its name nothing was heard or asked.      *)
LEMMA SpawnLeaves ==
  ASSUME TypeInv, LeaveInv, TickProduct \/ TickTray \/ ServeNext
  PROVE  LeaveInv'
<1>1. UNCHANGED <<gaveUp, world, pending, poses, msg, todo>>
  BY Zenon DEF TickProduct, TickTray, ServeNext, gazebo, history
<1> SUFFICES ASSUME NewsOK, OrdersOK
             PROVE  NewsOK' /\ OrdersOK'
  BY <1>1 DEF LeaveInv
<1>2. /\ pc \in {"product", "tray", "serve"} /\ pc' \in {"create", "idle"}
      /\ pc' = "create" => job'.name = counter + 1
  BY DEF TickProduct, TickTray, ServeNext, Spawn, Create
<1>3. \A n \in DOMAIN world \cup DOMAIN msg \cup todo : n <= counter
  BY TypeParts DEF Counted
<1>4. \A r \in pending : r.do = "remove" /\ r.name <= counter
  <2>1. \A r \in pending : r.do \in {"create", "remove"} /\ r.do # "create"
    BY <1>2, OrderDo DEF OrdersOK, Coming
  <2>2. counter \in Nat /\ Counted
    BY TypeParts, WorldFacts
  <2>3. \A r \in pending : r.name <= counter
    BY <2>2 DEF Counted, Creates, Removes
  <2> QED
    BY <2>1, <2>3
<1>5. counter \in Nat /\ \A n : Coming(n)' => ~(n <= counter)
  BY <1>2, WorldFacts DEF Coming
<1>6. \A n : Leaving(n) /\ n <= counter => Leaving(n)'
  BY <1>1, <1>5 DEF Leaving, OnBelt
<1>7. NewsOK'
  BY <1>1, <1>3, <1>5 DEF NewsOK, Older
<1>8. OrdersOK'
  <2>1. \A r \in pending' : r.do # "create" /\ Leaving(r.name)'
    BY <1>1, <1>4, <1>6 DEF OrdersOK
  <2>2. \A n \in todo' : Leaving(n)'
    BY <1>1, <1>3, <1>6 DEF OrdersOK
  <2>3. pc' # "remove"
    BY <1>2
  <2> QED
    BY <2>1, <2>2, <2>3, Zenon DEF OrdersOK
<1> QED
  BY <1>7, <1>8

LEMMA IgnRemoveLeaves ==
  ASSUME TypeInv, NewsOK, OrdersOK, NEW ok \in BOOLEAN, IgnRemove(ok)
  PROVE  Shrinks /\ NewsOK' /\ OrdersOK'
<1>1. /\ pc = "remove" /\ pc' \in {"recycle", "remove"} /\ (pc' = "remove" => job' = job)
      /\ poses' = poses \/ poses' = Without(poses, job.name)
      /\ Call(job, ok) /\ UNCHANGED <<msg, todo>>
  BY DEF IgnRemove
<1>2. job.do = "remove" /\ Leaving(job.name)
  BY <1>1, OrderDo DEF OrdersOK
<1>3. Shrinks /\ \A r \in pending' : r \in pending \cup {job}
  <2>1. world' = world => Shrinks
    BY DEF Shrinks
  <2>2. world' = Executed(job) => Shrinks
    BY <1>1, <1>2, ExecutedLeaves DEF Arrives
  <2> QED
    BY <1>1, <2>1, <2>2, CallFacts
<1>4. \A n : ~Coming(n) /\ ~Coming(n)'
  BY <1>1 DEF Coming
<1>5. \A n : Leaving(n) => Leaving(n)'
  BY <1>3, <1>4, WorldLeaves DEF Leaving
<1>6. NewsOK'
  <2>1. /\ DOMAIN Without(poses, job.name) = DOMAIN poses \ {job.name}
        /\ \A m \in DOMAIN poses \ {job.name} : Without(poses, job.name)[m] = poses[m]
    BY WithoutFacts
  <2>2. DOMAIN poses' \subseteq DOMAIN poses /\ \A n \in DOMAIN poses' : poses'[n] = poses[n]
    BY <1>1, <2>1
  <2>3. /\ \A n \in DOMAIN poses \cap DOMAIN world' : poses[n] <= world'[n]
        /\ \A n \in DOMAIN msg \cap DOMAIN world' : msg[n] <= world'[n]
    BY <1>3, <1>4, WorldLeaves DEF NewsOK
  <2>4. Older(poses)' /\ Older(msg)'
    BY <1>1, <2>2, <2>3 DEF Older
  <2> QED
    BY <1>4, <2>4, Zenon DEF NewsOK
<1>7. OrdersOK'
  <2>1. \A r \in pending' : r.do # "create" /\ Leaving(r.name)
    BY <1>2, <1>3, <1>4 DEF OrdersOK
  <2>2. (\A n \in todo' : Leaving(n)) /\ (pc' = "remove" => Leaving(job'.name))
    BY <1>1, <1>2 DEF OrdersOK
  <2> QED
    BY <1>5, <2>1, <2>2, Zenon DEF OrdersOK
<1> QED
  BY <1>3, <1>6, <1>7

LEMMA IgnCreatedLeaves ==
  ASSUME TypeInv, NewsOK, OrdersOK, NEW ok \in BOOLEAN, IgnCreated(ok)
  PROVE  Arrives /\ NewsOK' /\ OrdersOK'
<1>1. /\ pc = "create" /\ Call(job, ok) /\ (ok \/ job.name \in DOMAIN poses)
      /\ poses' = Updated(poses, Only(job.name, job.at))
      /\ pc' \in {"idle", "serve"} /\ UNCHANGED <<msg, todo>>
  BY DEF IgnCreated, AfterCreate
<1>2. job.do = "create" /\ job.name \notin DOMAIN poses /\ job.at \in Int
  <2>1. job.at \in Int
    BY <1>1, TypeParts, SpawnerAssumption DEF Counted, Creates
  <2> QED
    BY <1>1, <2>1, OrderDo
<1>3. pending' = {} /\ world' = With(world, job.name, job.at) /\ job.name \notin DOMAIN world
  <2>1. pending' = {} /\ world' = Executed(job) /\ Possible(job)
    BY <1>1, <1>2, CallFacts
  <2> QED
    BY <1>2, <2>1, ExecutedFacts
<1>4. /\ DOMAIN world' = DOMAIN world \cup {job.name} /\ world'[job.name] = job.at
      /\ \A m \in DOMAIN world : m # job.name => world'[m] = world[m]
  BY <1>3 DEF With, Updated, Only
<1>5. Arrives
  BY <1>1, <1>3, <1>4 DEF Arrives
<1>6. \A n : (Coming(n) <=> n = job.name) /\ ~Coming(n)'
  BY <1>1 DEF Coming
<1>7. NewsOK'
  <2>1. /\ DOMAIN poses' = DOMAIN poses \cup {job.name}
        /\ \A n \in DOMAIN poses : poses'[n] = poses[n]
        /\ poses'[job.name] = job.at
    BY <1>1, <1>2 DEF Updated, Only
  <2>2. /\ \A n \in DOMAIN poses \cap DOMAIN world' : poses[n] <= world'[n]
        /\ \A n \in DOMAIN msg \cap DOMAIN world' : msg[n] <= world'[n]
    BY <1>2, <1>5, <1>6, WorldLeaves DEF NewsOK
  <2>3. Older(poses)'
    <3>1. job.at <= job.at
      BY <1>2
    <3>2. \A n \in DOMAIN poses' \cap DOMAIN world' : poses'[n] <= world'[n]
      BY <1>4, <2>1, <2>2, <3>1
    <3> QED
      BY <3>2 DEF Older
  <2>4. Older(msg)'
    BY <1>1, <2>2 DEF Older
  <2> QED
    BY <1>6, <2>3, <2>4, Zenon DEF NewsOK
<1>8. OrdersOK'
  <2>1. \A n \in todo : Leaving(n)'
    BY <1>5, <1>6, WorldLeaves DEF OrdersOK, Leaving
  <2> QED
    BY <1>1, <1>3, <2>1 DEF OrdersOK
<1> QED
  BY <1>5, <1>7, <1>8

LEMMA IgnCreateFailsLeaves ==
  ASSUME TypeInv, LeaveInv, NEW ok \in BOOLEAN, IgnCreateFails(ok)
  PROVE  world' = world /\ LeaveInv'
<1>1. /\ pc = "create" /\ Call(job, ok) /\ ok = FALSE
      /\ \/ gaveUp' = gaveUp \cup {job.name}
         \/ UNCHANGED <<gaveUp, pc, job, msg, poses, todo>>
  BY DEF IgnCreateFails, books
<1>2. world' = world /\ \A r \in pending' : r \in pending \cup {job}
  <2>1. \/ pending' = {} /\ ~Possible(job) /\ world' = Executed(job)
        \/ pending' = pending \cup {job} /\ world' = world
    BY <1>1, CallFacts
  <2>2. ~Possible(job) => Executed(job) = world
    BY <1>1, OrderDo, ExecutedFacts
  <2> QED
    BY <2>1, <2>2
<1>3. CASE gaveUp' = gaveUp \cup {job.name}
  BY <1>2, <1>3 DEF LeaveInv
<1>4. CASE UNCHANGED <<gaveUp, pc, job, msg, poses, todo>>
  <2> SUFFICES ASSUME NewsOK, OrdersOK
               PROVE  NewsOK' /\ OrdersOK'
    BY <1>2, <1>4 DEF LeaveInv
  <2>1. \A n : (Coming(n)' <=> Coming(n)) /\ (Leaving(n)' <=> Leaving(n))
    BY <1>2, <1>4 DEF Coming, Leaving, OnBelt
  <2>2. \A r \in pending' : IF r.do = "create" THEN Coming(r.name) ELSE Leaving(r.name)
    BY <1>1, <1>2, OrderDo DEF OrdersOK, Coming
  <2>3. OrdersOK'
    BY <1>4, <2>1, <2>2, Zenon DEF OrdersOK
  <2>4. NewsOK'
    BY <1>2, <1>4, <2>1, Zenon DEF NewsOK, Older
  <2> QED
    BY <2>3, <2>4
<1> QED
  BY <1>1, <1>3, <1>4

LEMMA SettleLeaves ==
  ASSUME TypeInv, NewsOK, OrdersOK, SettleLate
  PROVE  (Shrinks \/ Arrives) /\ NewsOK' /\ OrdersOK'
<1>1. PICK r \in pending : world' \in {world, Executed(r)} /\ pending' = pending \ {r}
  BY DEF SettleLate, Settle
<1>2. UNCHANGED <<pc, job, msg, poses, todo>>
  BY Zenon DEF SettleLate, books, handler
<1>3. Shrinks \/ Arrives
  <2>1. world' = world => Shrinks
    BY DEF Shrinks
  <2>2. r.do \in {"create", "remove"} /\ IF r.do = "create" THEN Coming(r.name) ELSE Leaving(r.name)
    BY OrderDo DEF OrdersOK
  <2> QED
    BY <1>1, <2>1, <2>2, ExecutedLeaves
<1>4. \A n : Coming(n)' <=> Coming(n)
  BY <1>2 DEF Coming
<1>5. \A n : Leaving(n) => Leaving(n)'
  BY <1>3, <1>4, WorldLeaves DEF Leaving
<1>6. NewsOK'
  <2>1. \A n \in DOMAIN poses : ~Coming(n)
    BY OrderDo DEF Coming
  <2>2. /\ \A n \in DOMAIN poses \cap DOMAIN world' : poses[n] <= world'[n]
        /\ \A n \in DOMAIN msg \cap DOMAIN world' : msg[n] <= world'[n]
    BY <1>3, <2>1, WorldLeaves DEF NewsOK
  <2>3. Older(poses)' /\ Older(msg)'
    BY <1>2, <2>2 DEF Older
  <2>4. \A n \in DOMAIN msg : Coming(n) => n \in DOMAIN world'
    BY <1>3, WorldLeaves DEF NewsOK
  <2> QED
    BY <1>2, <1>4, <2>3, <2>4, Zenon DEF NewsOK
<1>7. OrdersOK'
  BY <1>1, <1>2, <1>4, <1>5, Zenon DEF OrdersOK
<1> QED
  BY <1>3, <1>6, <1>7

LEMMA NextLeaves == TypeInv /\ LeaveInv /\ [Next]_vars => LeaveInv'
<1> SUFFICES ASSUME TypeInv, LeaveInv, [Next]_vars PROVE LeaveInv'
  OBVIOUS
<1>1. CASE UNCHANGED vars
  <2>1. UNCHANGED <<gaveUp, world, pending, pc, job, msg, poses, todo>>
    BY <1>1, Zenon DEF vars, gazebo, books, handler, history
  <2> QED
    BY <2>1, Zenon DEF LeaveInv, NewsOK, Older, OrdersOK, Leaving, OnBelt, Coming
<1>2. CASE Request
  <2>1. PICK ok \in BOOLEAN : IgnRemove(ok) \/ IgnCreated(ok) \/ IgnCreateFails(ok)
    BY <1>2 DEF Request
  <2>2. CASE IgnRemove(ok) \/ IgnCreated(ok)
    <3>1. gaveUp' = gaveUp
      BY <2>2 DEF IgnRemove, IgnCreated
    <3> QED
      BY <2>2, <3>1, IgnRemoveLeaves, IgnCreatedLeaves DEF LeaveInv
  <2> QED
    BY <2>1, <2>2, IgnCreateFailsLeaves
<1>3. CASE SettleLate
  <2>1. gaveUp' = gaveUp
    BY <1>3 DEF SettleLate, history
  <2> QED
    BY <1>3, <2>1, SettleLeaves DEF LeaveInv
<1> QED
  BY <1>1, <1>2, <1>3, StillLeaves, MoveLeaves, SpawnLeaves DEF Next, Going

(* A model is only taken away at the end of its belt.                       *)
NothingSnatched ==
  [][gaveUp = {} => \A n \in DOMAIN world : n \in DOMAIN world' \/ world[n] = End]_vars

LEMMA TakenAtEnd ==
  ASSUME TypeInv, LeaveInv, [Next]_vars, gaveUp = {}, NEW n \in DOMAIN world, n \notin DOMAIN world'
  PROVE  world[n] = End
<1>1. NewsOK /\ OrdersOK
  BY DEF LeaveInv
<1>2. CASE Request \/ SettleLate
  <2>1. Shrinks
    BY <1>1, <1>2, IgnRemoveLeaves, IgnCreatedLeaves, IgnCreateFailsLeaves, SettleLeaves
       DEF Request, Arrives
  <2> QED
    BY <2>1, WorldFacts DEF Shrinks, OnBelt
<1>3. CASE ~(Request \/ SettleLate)
  BY <1>3, Zenon DEF Next, Going, OnPoses, Tick, RecycleNext, TickProduct, TickTray, TickEnds, ServeNext,
                     OnSpawnSrv, Due, Move, SendPoses, gazebo, vars
<1> QED
  BY <1>2, <1>3

(* As long as none was given up, no product and no tray is taken away       *)
(* before the end of its belt (tick, ign_remove): although what is removed  *)
(* is chosen by poses of any age, removals that were not answered are made  *)
(* again and may be carried out late, and so may creations.                 *)
THEOREM OnlyTakenAtTheEnd == Spec => NothingSnatched
<1>1. TypeInv /\ LeaveInv /\ [Next]_vars =>
        [gaveUp = {} => \A n \in DOMAIN world : n \in DOMAIN world' \/ world[n] = End]_vars
  BY TakenAtEnd
<1> QED
  BY <1>1, InitType, NextType, InitLeaves, NextLeaves, PTL DEF Spec, NothingSnatched
=============================================================================

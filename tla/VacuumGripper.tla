--------------------------- MODULE VacuumGripper ---------------------------
(***************************************************************************)
(* The vacuum cup of the simulated cell (vacuum_gripper_system.cc): a      *)
(* system plugin that, in every physics step, looks at the last command    *)
(* and at the products under the cup, and welds or releases one.  A seal   *)
(* is two phases, a 2 mm lift of the product and, a few steps later, the   *)
(* weld, with a delay before the first; a release has a delay too.         *)
(*                                                                         *)
(* Commands arrive on a transport thread between the steps.  Geometry is   *)
(* abstracted to the set of products in contact with the cup or within its *)
(* gap; times are counted in physics steps.                                *)
(***************************************************************************)
EXTENDS Integers

CONSTANTS
  Products,      \* models whose name has the product prefix
  Heavy,         \* those above max_payload
  NoProduct,     \* kNullEntity, and the target of a plain "on"
  SealDelay,     \* seal_delay, in steps
  ReleaseDelay,  \* release_delay, in steps
  WeldSteps,     \* steps between the lift and the weld (3)
  PublishEvery   \* steps between two state messages (10 ms)

ASSUME ProductsAssumption == Heavy \subseteq Products /\ NoProduct \notin Products
ASSUME DelaysAssumption == /\ SealDelay \in Nat /\ ReleaseDelay \in Nat
                           /\ WeldSteps \in Nat \ {0}
                           /\ PublishEvery \in Nat \ {0}

VARIABLES
  cmdOn,         \* cmdOn_
  cmdTarget,     \* cmdTarget_: one product, or NoProduct for any
  joint,         \* attachedLink_ while joint_ is an entity, else NoProduct
  pending,       \* pendingLink_: lifted, not welded yet
  pendingSteps,  \* pendingSteps_
  sealAge,       \* simTime - sealStart_, saturating; Unset for -1
  releaseAge,    \* simTime - releaseStart_, saturating; Unset for -1
  sincePub,      \* steps since lastPub_
  state,         \* the last state message: commanded, and what is sealed
  exists,        \* the products in the world
  touching,      \* those the cup touches or is within max_gap of
  coveredFor,    \* history: consecutive steps with the command on and the
                 \* cup covered, by a product found, pending or held
  offFor         \* history: consecutive steps with the command off

command == <<cmdOn, cmdTarget>>
grip == <<joint, pending, pendingSteps, sealAge, releaseAge>>
world == <<exists, touching>>
history == <<coveredFor, offFor>>
vars == <<command, grip, sincePub, state, world, history>>

Unset == -1
Sealed == joint # NoProduct

Init ==
  /\ cmdOn = FALSE /\ cmdTarget = NoProduct
  /\ joint = NoProduct /\ pending = NoProduct /\ pendingSteps = 0
  /\ sealAge = Unset /\ releaseAge = Unset
  /\ sincePub = 0 /\ state = [commanded |-> FALSE, model |-> NoProduct]
  /\ exists = Products /\ touching = {}
  /\ coveredFor = 0 /\ offFor = 0

-----------------------------------------------------------------------------
(* "on", "on:<model>" or "off" on the command topic.                        *)
OnCmd(on, p) ==
  /\ on \/ p = NoProduct
  /\ cmdOn' = on /\ cmdTarget' = p
  /\ UNCHANGED <<grip, sincePub, state, world, history>>

(* The arm, the belts and the other products move.                          *)
CupMoves ==
  /\ \E now \in SUBSET exists : touching' = now
  /\ UNCHANGED <<command, grip, sincePub, state, exists, history>>

(* A product is removed from the world (product_spawner, at the belt end).  *)
Despawn(p) ==
  /\ exists' = exists \ {p} /\ touching' = touching \ {p} /\ p \in exists
  /\ UNCHANGED <<command, grip, sincePub, state, history>>

-----------------------------------------------------------------------------
(* PreUpdate, one physics step.                                             *)

(* TouchedProductLink, then NearProductLink: any product under the cup that *)
(* the command does not rule out.                                           *)
Found == {p \in touching : cmdTarget \in {NoProduct, p}}

Aged(age, limit) ==
  IF age = Unset \/ age >= limit THEN age ELSE age + 1

(* if (start < 0) start = t, then how long that is ago.                     *)
Started(age, limit) == IF age = Unset THEN 0 ELSE Aged(age, limit)

(* A bug to tell apart: a sealed product is not looked for again.           *)
HoldForever ==
  /\ cmdOn /\ Sealed
  /\ UNCHANGED <<joint, pending, pendingSteps>>
  /\ sealAge' = Aged(sealAge, SealDelay)
  /\ releaseAge' = Aged(releaseAge, ReleaseDelay)

(* A bug to tell apart: a product the sensor misses for a step is dropped.  *)
HoldWhileTouching ==
  /\ cmdOn /\ Sealed
  /\ joint' = IF joint \in touching THEN joint ELSE NoProduct
  /\ UNCHANGED <<pending, pendingSteps>>
  /\ sealAge' = Aged(sealAge, SealDelay)
  /\ releaseAge' = Aged(releaseAge, ReleaseDelay)

(* The product that is held may have vanished.                              *)
Hold ==
  /\ cmdOn /\ Sealed
  /\ joint' = IF joint \in exists THEN joint ELSE NoProduct
  /\ UNCHANGED <<pending, pendingSteps>>
  /\ sealAge' = Aged(sealAge, SealDelay)
  /\ releaseAge' = Aged(releaseAge, ReleaseDelay)

(* Phase 2: the weld, a few steps after the lift.                           *)
Weld ==
  /\ cmdOn /\ ~Sealed /\ pending \in exists
  /\ pendingSteps' = pendingSteps + 1
  /\ IF pendingSteps + 1 >= WeldSteps
     THEN joint' = pending /\ pending' = NoProduct
     ELSE UNCHANGED <<joint, pending>>
  /\ sealAge' = Aged(sealAge, SealDelay)
  /\ releaseAge' = Aged(releaseAge, ReleaseDelay)

(* A bug to tell apart: the seal timer survives an empty cup.               *)
LoseContactKeepingTimer ==
  /\ cmdOn /\ ~Sealed /\ pending \notin exists /\ Found = {}
  /\ pending' = NoProduct /\ sealAge' = Aged(sealAge, SealDelay)
  /\ UNCHANGED <<joint, pendingSteps>>
  /\ releaseAge' = Aged(releaseAge, ReleaseDelay)

LoseContact ==
  /\ cmdOn /\ ~Sealed /\ pending \notin exists /\ Found = {}
  /\ pending' = NoProduct /\ sealAge' = Unset
  /\ UNCHANGED <<joint, pendingSteps>>
  /\ releaseAge' = Aged(releaseAge, ReleaseDelay)

(* A bug to tell apart: the count to the weld goes on from the last seal.   *)
LiftKeepingCount ==
  /\ cmdOn /\ ~Sealed /\ pending \notin exists
  /\ \E p \in Found :
       pending' = IF Started(sealAge, SealDelay) >= SealDelay /\ p \notin Heavy
                  THEN p ELSE NoProduct
  /\ sealAge' = Started(sealAge, SealDelay)
  /\ UNCHANGED <<joint, pendingSteps>>
  /\ releaseAge' = Aged(releaseAge, ReleaseDelay)

(* Phase 1: something under the cup for the seal delay, and light enough,   *)
(* is lifted.  A pending product that vanished does not restart the delay.  *)
Lift ==
  /\ cmdOn /\ ~Sealed /\ pending \notin exists
  /\ \E p \in Found :
       IF Started(sealAge, SealDelay) >= SealDelay /\ p \notin Heavy
       THEN pending' = p /\ pendingSteps' = 0
       ELSE pending' = NoProduct /\ UNCHANGED pendingSteps
  /\ sealAge' = Started(sealAge, SealDelay)
  /\ UNCHANGED joint
  /\ releaseAge' = Aged(releaseAge, ReleaseDelay)

(* A bug to tell apart: every step off starts the release delay anew.       *)
ReleaseAfresh ==
  /\ ~cmdOn
  /\ pending' = NoProduct /\ sealAge' = Unset /\ UNCHANGED pendingSteps
  /\ joint' = IF Sealed /\ ReleaseDelay > 0 /\ joint \in exists THEN joint
              ELSE NoProduct
  /\ releaseAge' = IF Sealed THEN 0 ELSE releaseAge

(* Off: a pending product is dropped at once, a sealed one after the        *)
(* release delay.  releaseStart_ is reset by the release alone.             *)
Release ==
  /\ ~cmdOn
  /\ pending' = NoProduct /\ sealAge' = Unset /\ UNCHANGED pendingSteps
  /\ LET due == Started(releaseAge, ReleaseDelay) >= ReleaseDelay
     IN /\ joint' = IF Sealed /\ ~due /\ joint \in exists THEN joint
                    ELSE NoProduct
        /\ releaseAge' = CASE ~Sealed -> Aged(releaseAge, ReleaseDelay)
                           [] Sealed /\ due -> Unset
                           [] OTHER -> Started(releaseAge, ReleaseDelay)

Publish ==
  IF sincePub + 1 >= PublishEvery
  THEN /\ sincePub' = 0
       /\ state' = [commanded |-> cmdOn, model |-> joint']
  ELSE sincePub' = sincePub + 1 /\ UNCHANGED state

Observe ==
  /\ coveredFor' = IF cmdOn /\ (Sealed \/ pending # NoProduct \/ Found # {})
                   THEN IF coveredFor > SealDelay THEN coveredFor
                        ELSE coveredFor + 1
                   ELSE 0
  /\ offFor' = IF cmdOn THEN 0
               ELSE IF offFor > ReleaseDelay THEN offFor ELSE offFor + 1

PreUpdate ==
  /\ Hold \/ Weld \/ LoseContact \/ Lift \/ Release
  /\ Publish /\ Observe
  /\ UNCHANGED <<command, world>>

Next ==
  \/ PreUpdate \/ CupMoves
  \/ \E on \in BOOLEAN, p \in Products \cup {NoProduct} : OnCmd(on, p)
  \/ \E p \in Products : Despawn(p)

Spec == Init /\ [][Next]_vars

(* The simulation keeps stepping.                                           *)
FairSpec == Spec /\ WF_vars(PreUpdate)

-----------------------------------------------------------------------------
(* Properties.                                                              *)

(* Every variable keeps the type of the member it models; in particular the *)
(* count of a weld starts at the lift.                                      *)
TypeOK ==
  /\ cmdOn \in BOOLEAN /\ cmdTarget \in Products \cup {NoProduct}
  /\ joint \in Products \cup {NoProduct}
  /\ pending \in Products \cup {NoProduct}
  /\ pendingSteps \in 0 .. WeldSteps
  /\ sealAge \in Unset .. SealDelay /\ releaseAge \in Unset .. ReleaseDelay
  /\ sincePub \in 0 .. PublishEvery - 1
  /\ state \in [commanded : BOOLEAN, model : Products \cup {NoProduct}]
  /\ exists \subseteq Products /\ touching \subseteq exists
  /\ coveredFor \in 0 .. SealDelay + 1 /\ offFor \in 0 .. ReleaseDelay + 1

(* A product is lifted and welded only after the ejector had the seal delay *)
(* to build vacuum behind a covered cup, with the command on all the while, *)
(* one product at a time, and never one that is too heavy.                  *)
SealEarned ==
  /\ pending # NoProduct
       => ~Sealed /\ pending \notin Heavy /\ coveredFor > SealDelay
  /\ joint \notin Heavy

(* To the rest of the cell the cup is the one that Suction describes: it    *)
(* lets go of a product only when commanded off or when the product is      *)
(* gone, and never passes from one product to another.                      *)
Contract == INSTANCE Suction WITH on <- cmdOn, held <- joint, present <- exists
ImplementsSuction == Contract!Spec

(* Commanded off, the cup lets go and says so, unless commanded on again;   *)
(* and commanded on, over one product it may and can take, it ends up       *)
(* holding a product.                                                       *)
CommandsFollowed ==
  /\ ~cmdOn ~> cmdOn \/ (~Sealed /\ state.model = NoProduct)
  /\ \A p \in Products \ Heavy :
       <>[](cmdOn /\ cmdTarget \in {NoProduct, p} /\ touching = {p}) => <>[]Sealed

(***************************************************************************)
(* What the header of vacuum_gripper_system.cc says, and the code does not *)
(* keep to.                                                                *)
(***************************************************************************)

(* "OFF removes the joint after <release_delay>": a product still in the    *)
(* world is let go only when the command was off for the release delay.     *)
ReleaseTakesTime ==
  [][Sealed /\ joint' = NoProduct /\ joint \in exists
       => offFor >= ReleaseDelay]_vars
=============================================================================

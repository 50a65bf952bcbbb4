-------------------------- MODULE ConnRouterProofs --------------------------
(***************************************************************************)
(* Proofs about ConnRouter, for any set of connections and listeners and   *)
(* any number of slots.                                                    *)
(***************************************************************************)
EXTENDS ConnRouter, FiniteSetTheorems, TLAPS

(* releaseOnce of a connection runs only as the connection goes away. *)
ReleasedAreGone == \A c \in released : pc[c] = "closed"

IInv == TypeOK /\ SlotsMatchHolders /\ ReleaseEntriesLive /\ ReleasedAreGone

(* Finitely many connections hold a slot. *)
LEMMA HoldersFinite ==
  /\ IsFiniteSet(Holders)
  /\ Cardinality(Holders) \in Nat
  <1>1. Holders \subseteq Conn  BY DEF Holders
  <1>2. IsFiniteSet(Holders)  BY <1>1, ConnAssumption, FS_Subset
  <1> QED  BY <1>2, FS_CardinalityType

(* While a connection is routed, at least one slot is taken. *)
LEMMA HolderHasSlot ==
  ASSUME IInv, NEW c \in Holders
  PROVE  /\ Cardinality(Holders \ {c}) = Cardinality(Holders) - 1
         /\ slots > 0
  <1>1. IsFiniteSet(Holders \ {c})
    BY HoldersFinite, FS_Subset, Holders \ {c} \subseteq Holders
  <1>2. Cardinality(Holders \ {c}) \in Nat
    BY <1>1, FS_CardinalityType
  <1>3. Cardinality(Holders \ {c}) = Cardinality(Holders) - 1
    BY HoldersFinite, FS_RemoveElement
  <1>4. Cardinality(Holders) > 0
    BY <1>2, <1>3, HoldersFinite
  <1> QED  BY <1>3, <1>4 DEF IInv, SlotsMatchHolders

LEMMA InitIInv == Init => IInv
  <1> SUFFICES ASSUME Init PROVE IInv  OBVIOUS
  <1>1. TypeOK
    <2>1. slots \in 0..MaxConn  BY MaxConnAssumption DEF Init
    <2>2. pc \in [Conn -> Control]  BY DEF Init, Control
    <2> QED  BY <2>1, <2>2, Zenon DEF Init, TypeOK
  <1>2. Holders = {}  BY DEF Init, Holders, Routed
  <1>3. SlotsMatchHolders  BY <1>2, FS_EmptySet DEF Init, SlotsMatchHolders
  <1>4. ReleaseEntriesLive /\ ReleasedAreGone
    BY DEF Init, ReleaseEntriesLive, ReleasedAreGone
  <1> QED  BY <1>1, <1>3, <1>4 DEF IInv

(* Taking a slot: one more connection is routed. *)
LEMMA TakeSlotStep ==
  ASSUME IInv, NEW c \in Conn, TakeSlot(c)
  PROVE  IInv' /\ Pool!Next
  <1>1. c \notin Holders /\ Holders' = Holders \cup {c}
    BY DEF TakeSlot, Goto, Holders, Routed, IInv, TypeOK, Control
  <1>2. Cardinality(Holders)' = Cardinality(Holders) + 1
    BY <1>1, HoldersFinite, FS_AddElement
  <1>3. SlotsMatchHolders'
    BY <1>2 DEF TakeSlot, IInv, SlotsMatchHolders
  <1>4. TypeOK'
    BY MaxConnAssumption DEF TakeSlot, Goto, lifeVars, IInv, TypeOK, Control
  <1>5. ReleaseEntriesLive' /\ ReleasedAreGone'
    BY DEF TakeSlot, Goto, IInv, TypeOK, ReleaseEntriesLive, ReleasedAreGone
  <1>6. 1 * (Cardinality(Holders) + 1) <= MaxConn
    BY MaxConnAssumption, HoldersFinite DEF TakeSlot, IInv, TypeOK, SlotsMatchHolders
  <1>7. Pool!Cardinality(Holders) = Cardinality(Holders)
    BY DEF Pool!Cardinality, Cardinality
  <1>8. Pool!Next
    BY <1>1, <1>6, <1>7 DEF Pool!Next, Pool!Grant
  <1> QED  BY <1>3, <1>4, <1>5, <1>8 DEF IInv

(* Every path that ends a routed connection: its slot comes back once, and *)
(* its entry of connReleases, if it had one, is gone.                      *)
LEMMA EndStep ==
  ASSUME IInv, NEW c \in Conn, pc[c] \in Routed, Release(c), Goto(c, "closed"),
         registered' = registered \ {c}, UNCHANGED lifeVars
  PROVE  IInv' /\ Pool!Next
  <1>1. c \in Holders /\ Holders' = Holders \ {c}
    BY DEF Goto, Holders, Routed, IInv, TypeOK, Control
  <1>2. Cardinality(Holders)' = Cardinality(Holders) - 1 /\ slots > 0
    BY <1>1, HolderHasSlot
  <1>3. slots' = slots - 1 /\ released' = released \cup {c}
    BY DEF Release, IInv, ReleasedAreGone, Routed
  <1>4. SlotsMatchHolders'
    BY <1>2, <1>3 DEF IInv, SlotsMatchHolders
  <1>5. TypeOK'
    BY <1>2, <1>3, MaxConnAssumption DEF Goto, lifeVars, IInv, TypeOK, Control
  <1>6. ReleaseEntriesLive' /\ ReleasedAreGone'
    BY <1>3 DEF Goto, IInv, TypeOK, ReleaseEntriesLive, ReleasedAreGone
  <1>7. Pool!Next
    BY <1>1 DEF Pool!Next, Pool!Free
  <1> QED  BY <1>4, <1>5, <1>6, <1>7 DEF IInv

(* A connection that is routed further keeps its slot; one that never got  *)
(* one has none to give back.                                              *)
LEMMA MoveStep ==
  ASSUME IInv, NEW c \in Conn, NEW next \in Control, Goto(c, next),
         pc[c] \in Routed <=> next \in Routed, pc[c] # "closed",
         UNCHANGED <<slots, released, lifeVars>>,
         registered' \subseteq Conn, ReleaseEntriesLive'
  PROVE  IInv' /\ UNCHANGED Holders
  <1>1. UNCHANGED Holders
    BY DEF Goto, Holders, IInv, TypeOK
  <1>2. SlotsMatchHolders'
    BY <1>1 DEF IInv, SlotsMatchHolders
  <1>3. TypeOK'
    BY DEF Goto, lifeVars, IInv, TypeOK
  <1>4. ReleasedAreGone'
    BY DEF Goto, IInv, TypeOK, ReleasedAreGone
  <1> QED  BY <1>1, <1>2, <1>3, <1>4 DEF IInv

(* Listeners, accept loops, the http server and Shutdown touch no slot. *)
LEMMA LifeStep ==
  ASSUME IInv, UNCHANGED connVars, TypeOK'
  PROVE  IInv' /\ UNCHANGED Holders
  BY DEF connVars, IInv, Holders, SlotsMatchHolders, ReleaseEntriesLive, ReleasedAreGone

(* Each step preserves the invariant and is a step of the pool, or none. *)
LEMMA NextIInv ==
  ASSUME IInv, [Next]_vars
  PROVE  IInv' /\ [Pool!Next]_Holders
  <1>1. ASSUME NEW c \in Conn, TakeSlot(c) PROVE IInv' /\ Pool!Next
    BY <1>1, TakeSlotStep
  <1>2. ASSUME NEW c \in Conn, ResolveFails(c) \/ RelayEnds(c) PROVE IInv' /\ Pool!Next
    <2>1. c \notin registered
      BY <1>2 DEF ResolveFails, RelayEnds, IInv, ReleaseEntriesLive
    <2>2. registered' = registered \ {c}
      BY <1>2, <2>1 DEF ResolveFails, RelayEnds
    <2> QED  BY <1>2, <2>2, EndStep DEF ResolveFails, RelayEnds, Routed
  <1>3. ASSUME NEW c \in Conn, OfferRefused(c) \/ ConnState(c) PROVE IInv' /\ Pool!Next
    <2>1. c \in registered
      BY <1>3 DEF OfferRefused, ConnState, IInv, ReleaseEntriesLive
    <2> QED  BY <1>3, <2>1, EndStep DEF OfferRefused, ConnState, Routed
  <1>4. ASSUME NEW c \in Conn, NEW l \in Listener, Accept(c, l)
        PROVE  IInv' /\ UNCHANGED Holders
    <2>1. ReleaseEntriesLive'
      BY <1>4 DEF Accept, Goto, IInv, TypeOK, Control, ReleaseEntriesLive
    <2> QED
      BY <1>4, <2>1, MoveStep DEF Accept, Control, Routed, IInv, TypeOK
  <1>5. ASSUME NEW c \in Conn, TurnAway(c) PROVE IInv' /\ UNCHANGED Holders
    <2>1. ReleaseEntriesLive'
      BY <1>5 DEF TurnAway, Goto, IInv, TypeOK, Control, ReleaseEntriesLive
    <2> QED  BY <1>5, <2>1, MoveStep DEF TurnAway, Control, Routed, IInv, TypeOK
  <1>6. ASSUME NEW c \in Conn, Resolve(c) PROVE IInv' /\ UNCHANGED Holders
    <2>1. ReleaseEntriesLive'
      BY <1>6 DEF Resolve, Goto, IInv, TypeOK, Control, ReleaseEntriesLive
    <2> QED  BY <1>6, <2>1, MoveStep DEF Resolve, Control, Routed, IInv, TypeOK
  <1>7. ASSUME NEW c \in Conn, ClassifyMITM(c) PROVE IInv' /\ UNCHANGED Holders
    <2>1. ReleaseEntriesLive'
      BY <1>7 DEF ClassifyMITM, Goto, IInv, TypeOK, Control, ReleaseEntriesLive
    <2> QED  BY <1>7, <2>1, MoveStep DEF ClassifyMITM, Control, Routed, IInv, TypeOK
  <1>8. ASSUME NEW c \in Conn, ClassifyPassthrough(c) PROVE IInv' /\ UNCHANGED Holders
    <2>1. ReleaseEntriesLive'
      BY <1>8 DEF ClassifyPassthrough, Goto, IInv, TypeOK, Control, ReleaseEntriesLive
    <2> QED  BY <1>8, <2>1, MoveStep DEF ClassifyPassthrough, Control, Routed, IInv, TypeOK
  <1>9. ASSUME NEW c \in Conn, HandOver(c) PROVE IInv' /\ UNCHANGED Holders
    <2>1. ReleaseEntriesLive'
      BY <1>9 DEF HandOver, Goto, IInv, TypeOK, Control, ReleaseEntriesLive
    <2> QED  BY <1>9, <2>1, MoveStep DEF HandOver, Control, Routed, IInv, TypeOK
  <1>10. ASSUME NEW l \in Listener, AcceptFails(l) PROVE IInv' /\ UNCHANGED Holders
    BY <1>10, LifeStep DEF AcceptFails, connVars, IInv, TypeOK
  <1>11. ASSUME ServeReturns \/ FrontAcceptErr \/ FrontServeErr \/ Shutdown
         PROVE  IInv' /\ UNCHANGED Holders
    BY <1>11, LifeStep
    DEF ServeReturns, FrontAcceptErr, FrontServeErr, Shutdown, connVars, IInv, TypeOK
  <1>12. CASE UNCHANGED vars
    <2>1. UNCHANGED connVars /\ TypeOK'
      BY <1>12 DEF vars, lifeVars, connVars, IInv, TypeOK
    <2> QED  BY <2>1, LifeStep
  <1> QED
    BY <1>1, <1>2, <1>3, <1>4, <1>5, <1>6, <1>7, <1>8, <1>9, <1>10, <1>11, <1>12
    DEF Next, Route

(* The inductive invariant holds in every reachable state. *)
THEOREM Invariance == Spec => []IInv
  <1>1. IInv /\ [Next]_vars => IInv'  BY NextIInv
  <1> QED  BY <1>1, InitIInv, PTL DEF Spec

(* The router's state is well typed; connSlots is never over its capacity. *)
THEOREM TypeCorrect == Spec => []TypeOK
  <1>1. IInv => TypeOK  BY DEF IInv
  <1> QED  BY <1>1, Invariance, PTL

(* No connection slot leaks or is returned twice, whatever fails or stops. *)
THEOREM SlotConservation == Spec => []SlotsMatchHolders
  <1>1. IInv => SlotsMatchHolders  BY DEF IInv
  <1> QED  BY <1>1, Invariance, PTL

(* connReleases knows exactly the connections offered to net/http. *)
THEOREM EntriesLive == Spec => []ReleaseEntriesLive
  <1>1. IInv => ReleaseEntriesLive  BY DEF IInv
  <1> QED  BY <1>1, Invariance, PTL

(* connSlots implements the abstract pool with one share per connection. *)
THEOREM Refinement == Spec => ImplementsQuota
  <1>1. Init => Pool!Init  BY DEF Init, Pool!Init, Holders, Routed
  <1>2. IInv /\ [Next]_vars => [Pool!Next]_Holders  BY NextIInv
  <1> QED  BY <1>1, <1>2, Invariance, PTL DEF Spec, Pool!Spec, ImplementsQuota
=============================================================================

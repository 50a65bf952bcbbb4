-------------------------- MODULE ByteBudgetProofs --------------------------
(***************************************************************************)
(* Proofs about ByteBudget, for any number of requests, any capacity and   *)
(* any reservation.                                                        *)
(***************************************************************************)
EXTENDS ByteBudget, FiniteSetTheorems, TLAPS

(* Only a reservation that fits gets past acquire's first test. *)
Fits == 0 < Reservation /\ Reservation <= Capacity

InAcquire == {"lock", "check", "park", "wait", "held"}

(* The mutex is held exactly by the client between its lock and its        *)
(* unlock; only parked clients are in the notify list; a client that is    *)
(* about to park has a timer.                                              *)
Structure ==
  /\ \A c \in Client : pc[c] \in InAcquire => Fits
  /\ \A c \in Client : pc[c] \in {"check", "park"} <=> mutex = c
  /\ \A c \in waitset : pc[c] = "wait"
  /\ \A c \in Client : pc[c] = "park" => timer[c] # "off"

IInv == /\ TypeOK
        /\ Structure
        /\ BytesConserved
        /\ NobodySleepsOnFreeBytes
        /\ SleeperHasTimer

-----------------------------------------------------------------------------
(* One more or one less holder. *)
LEMMA Distribute == \A r, n \in Int : r * (n + 1) = r * n + r /\ r * (n - 1) = r * n - r
  OBVIOUS

LEMMA Positive == \A r, n \in Nat : r * n \in Nat
  OBVIOUS

LEMMA HoldersFinite == IsFiniteSet(Holders) /\ Cardinality(Holders) \in Nat
  <1>1. Holders \subseteq Client  BY DEF Holders
  <1>2. IsFiniteSet(Holders)  BY <1>1, ClientAssumption, FS_Subset
  <1> QED  BY <1>2, FS_CardinalityType

(* newByteBudget establishes the invariant. *)
LEMMA InitIInv == Init => IInv
  <1> SUFFICES ASSUME Init PROVE IInv  OBVIOUS
  <1>1. TypeOK
    BY CapacityAssumption DEF Init, TypeOK, Control
  <1>2. Structure
    BY ClientAssumption DEF Init, Structure, InAcquire
  <1>3. Holders = {}
    BY DEF Init, Holders
  <1>4. BytesConserved
    BY <1>3, FS_EmptySet, CapacityAssumption, ReservationAssumption DEF Init, BytesConserved
  <1>5. NobodySleepsOnFreeBytes /\ SleeperHasTimer
    BY DEF Init, NobodySleepsOnFreeBytes, SleeperHasTimer
  <1> QED  BY <1>1, <1>2, <1>4, <1>5 DEF IInv

(* A successful acquire takes exactly one reservation. *)
LEMMA TakeConserves ==
  ASSUME IInv, NEW c \in Client, Take(c)
  PROVE  /\ c \notin Holders
         /\ Holders' = Holders \cup {c}
         /\ Reservation * (Cardinality(Holders) + 1) <= Capacity
         /\ available' \in 0..Capacity
         /\ BytesConserved'
  <1>1. c \notin Holders /\ Holders' = Holders \cup {c}
    BY DEF Take, Holders, IInv, TypeOK, Control
  <1>2. Cardinality(Holders)' = Cardinality(Holders) + 1
    BY <1>1, HoldersFinite, FS_AddElement
  <1>3. Reservation * (Cardinality(Holders) + 1) = Reservation * Cardinality(Holders) + Reservation
    BY HoldersFinite, ReservationAssumption, Distribute
  <1>4. Reservation * Cardinality(Holders) \in Int
    BY HoldersFinite, ReservationAssumption
  <1>5. available = Capacity - Reservation * Cardinality(Holders)
    BY DEF IInv, BytesConserved
  <1>6. available >= Reservation /\ available' = available - Reservation
    BY DEF Take, Enough
  <1>7. 0 < Reservation
    BY DEF Take, IInv, Structure, Fits, InAcquire
  <1>8. available \in 0..Capacity
    BY DEF IInv, TypeOK
  <1>9. available' = Capacity - Reservation * Cardinality(Holders)'
    BY <1>2, <1>3, <1>4, <1>5, <1>6, CapacityAssumption, ReservationAssumption
  <1> QED
    BY <1>1, <1>3, <1>4, <1>5, <1>6, <1>7, <1>8, <1>9, CapacityAssumption, ReservationAssumption
    DEF BytesConserved

(* A release gives exactly that reservation back: the clamp does nothing. *)
LEMMA ReleaseConserves ==
  ASSUME IInv, NEW c \in Client, Release(c)
  PROVE  /\ c \in Holders
         /\ Holders' = Holders \ {c}
         /\ available' = available + Reservation
         /\ available' \in 0..Capacity
         /\ BytesConserved'
  <1>1. c \in Holders /\ Holders' = Holders \ {c}
    BY DEF Release, Holders, IInv, TypeOK, Control
  <1>2. Cardinality(Holders)' = Cardinality(Holders) - 1
    BY <1>1, HoldersFinite, FS_RemoveElement
  <1>3. Cardinality(Holders) - 1 \in Nat
    <2>1. IsFiniteSet(Holders \ {c})
      BY HoldersFinite, FS_Subset, Holders \ {c} \subseteq Holders
    <2>2. Cardinality(Holders \ {c}) \in Nat
      BY <2>1, FS_CardinalityType
    <2> QED  BY <1>1, <2>2, HoldersFinite, FS_RemoveElement
  <1>4. 0 < Reservation
    BY DEF Release, IInv, Structure, Fits, InAcquire
  <1>5. Reservation * (Cardinality(Holders) - 1) = Reservation * Cardinality(Holders) - Reservation
    BY HoldersFinite, ReservationAssumption, Distribute
  <1>6. Reservation * (Cardinality(Holders) - 1) \in Nat
    BY <1>3, <1>4, ReservationAssumption, Positive
  <1>7. available = Capacity - Reservation * Cardinality(Holders)
    BY DEF IInv, BytesConserved
  <1>8. Reservation * Cardinality(Holders) \in Int
    BY HoldersFinite, ReservationAssumption
  <1>9. available + Reservation = Capacity - Reservation * (Cardinality(Holders) - 1)
    BY <1>5, <1>7, <1>8, CapacityAssumption, ReservationAssumption
  <1>10. available + Reservation <= Capacity
    BY <1>6, <1>9, CapacityAssumption
  <1>11. available \in 0..Capacity
    BY DEF IInv, TypeOK
  <1>12. available' = available + Reservation
    BY <1>10, <1>11, CapacityAssumption, ReservationAssumption DEF Release
  <1> QED
    BY <1>1, <1>2, <1>4, <1>9, <1>10, <1>11, <1>12, CapacityAssumption, ReservationAssumption
    DEF BytesConserved

(* Every other step leaves the holders and the bytes alone. *)
LEMMA OthersConserve ==
  ASSUME IInv, UNCHANGED available, UNCHANGED Holders
  PROVE  BytesConserved'
  BY DEF IInv, BytesConserved

-----------------------------------------------------------------------------
(* Every step of every client preserves the invariant. *)
LEMMA NextIInv == IInv /\ [Next]_vars => IInv'
  <1> SUFFICES ASSUME IInv, [Next]_vars PROVE IInv'  OBVIOUS
  <1> USE CapacityAssumption, ReservationAssumption, ClientAssumption
  <1>1. ASSUME NEW c \in Client, Call(c) PROVE IInv'
    <2>1. UNCHANGED Holders  BY <1>1 DEF Call, Holders, IInv, TypeOK, Control
    <2>2. BytesConserved'  BY <1>1, <2>1, OthersConserve DEF Call
    <2>3. TypeOK'  BY <1>1 DEF Call, IInv, TypeOK, Control
    <2>4. Structure'  BY <1>1 DEF Call, IInv, TypeOK, Control, Structure, InAcquire, Fits
    <2>5. NobodySleepsOnFreeBytes' /\ SleeperHasTimer'
      BY <1>1 DEF Call, IInv, TypeOK, Control, NobodySleepsOnFreeBytes, SleeperHasTimer
    <2> QED  BY <2>2, <2>3, <2>4, <2>5 DEF IInv
  <1>2. ASSUME NEW c \in Client, Lock(c) PROVE IInv'
    <2>1. UNCHANGED Holders  BY <1>2 DEF Lock, Holders, IInv, TypeOK, Control
    <2>2. BytesConserved'  BY <1>2, <2>1, OthersConserve DEF Lock
    <2>3. TypeOK'  BY <1>2 DEF Lock, IInv, TypeOK, Control
    <2>4. Structure'  BY <1>2 DEF Lock, IInv, TypeOK, Control, Structure, InAcquire, Fits
    <2>5. NobodySleepsOnFreeBytes' /\ SleeperHasTimer'
      BY <1>2 DEF Lock, IInv, TypeOK, Control, NobodySleepsOnFreeBytes, SleeperHasTimer
    <2> QED  BY <2>2, <2>3, <2>4, <2>5 DEF IInv
  <1>3. ASSUME NEW c \in Client, Take(c) PROVE IInv'
    <2>1. available' \in 0..Capacity /\ BytesConserved'  BY <1>3, TakeConserves
    <2>2. TypeOK'  BY <1>3, <2>1 DEF Take, IInv, TypeOK, Control
    <2>3. Structure'  BY <1>3 DEF Take, IInv, TypeOK, Control, Structure, InAcquire, Fits
    \* fewer bytes are free than before, so whoever slept rightly still does
    <2>4. 0 < Reservation  BY <1>3 DEF Take, IInv, Structure, InAcquire, Fits
    <2>5. \A d \in Client : d \in waitset' \/ pc'[d] = "park" => d \in waitset \/ pc[d] = "park"
      BY <1>3 DEF Take, IInv, TypeOK, Control
    <2>6. available' < available  BY <1>3, <2>4 DEF Take, IInv, TypeOK
    <2>7. NobodySleepsOnFreeBytes'
      BY <2>1, <2>5, <2>6 DEF IInv, TypeOK, NobodySleepsOnFreeBytes
    <2>8. SleeperHasTimer'  BY <1>3 DEF Take, IInv, SleeperHasTimer
    <2> QED  BY <2>1, <2>2, <2>3, <2>7, <2>8 DEF IInv
  <1>4. ASSUME NEW c \in Client, GiveUp(c) PROVE IInv'
    <2>1. UNCHANGED Holders  BY <1>4 DEF GiveUp, Holders, IInv, TypeOK, Control
    <2>2. BytesConserved'  BY <1>4, <2>1, OthersConserve DEF GiveUp
    <2>3. TypeOK'  BY <1>4 DEF GiveUp, IInv, TypeOK, Control
    <2>4. Structure'  BY <1>4 DEF GiveUp, IInv, TypeOK, Control, Structure, InAcquire, Fits
    <2>5. NobodySleepsOnFreeBytes' /\ SleeperHasTimer'
      BY <1>4 DEF GiveUp, IInv, TypeOK, Control, NobodySleepsOnFreeBytes, SleeperHasTimer
    <2> QED  BY <2>2, <2>3, <2>4, <2>5 DEF IInv
  <1>5. ASSUME NEW c \in Client, Arm(c) PROVE IInv'
    <2>1. UNCHANGED Holders  BY <1>5 DEF Arm, Holders, IInv, TypeOK, Control
    <2>2. BytesConserved'  BY <1>5, <2>1, OthersConserve DEF Arm
    <2>3. TypeOK'  BY <1>5 DEF Arm, IInv, TypeOK, Control
    <2>4. Structure'  BY <1>5 DEF Arm, IInv, TypeOK, Control, Structure, InAcquire, Fits
    <2>5. NobodySleepsOnFreeBytes'
      BY <1>5 DEF Arm, Enough, IInv, TypeOK, Control, NobodySleepsOnFreeBytes
    <2>6. SleeperHasTimer'  BY <1>5 DEF Arm, IInv, TypeOK, SleeperHasTimer
    <2> QED  BY <2>2, <2>3, <2>4, <2>5, <2>6 DEF IInv
  <1>6. ASSUME NEW c \in Client, Park(c) PROVE IInv'
    <2>1. UNCHANGED Holders  BY <1>6 DEF Park, Holders, IInv, TypeOK, Control
    <2>2. BytesConserved'  BY <1>6, <2>1, OthersConserve DEF Park
    <2>3. TypeOK'  BY <1>6 DEF Park, IInv, TypeOK, Control
    <2>4. Structure'  BY <1>6 DEF Park, IInv, TypeOK, Control, Structure, InAcquire, Fits
    <2>5. NobodySleepsOnFreeBytes'
      BY <1>6 DEF Park, IInv, TypeOK, Control, NobodySleepsOnFreeBytes
    <2>6. SleeperHasTimer'  BY <1>6 DEF Park, IInv, TypeOK, Structure, SleeperHasTimer
    <2> QED  BY <2>2, <2>3, <2>4, <2>5, <2>6 DEF IInv
  <1>7. ASSUME NEW c \in Client, Wake(c) PROVE IInv'
    <2>1. UNCHANGED Holders  BY <1>7 DEF Wake, Holders, IInv, TypeOK, Control
    <2>2. BytesConserved'  BY <1>7, <2>1, OthersConserve DEF Wake
    <2>3. TypeOK'  BY <1>7 DEF Wake, IInv, TypeOK, Control
    <2>4. Structure'  BY <1>7 DEF Wake, IInv, TypeOK, Control, Structure, InAcquire, Fits
    <2>5. NobodySleepsOnFreeBytes' /\ SleeperHasTimer'
      BY <1>7 DEF Wake, IInv, TypeOK, Control, NobodySleepsOnFreeBytes, SleeperHasTimer
    <2> QED  BY <2>2, <2>3, <2>4, <2>5 DEF IInv
  <1>8. ASSUME NEW c \in Client, DeadlinePasses(c) PROVE IInv'
    <2>1. UNCHANGED <<available, mutex, pc, waitset, timer>> /\ UNCHANGED Holders
      BY <1>8 DEF DeadlinePasses, Holders
    <2>2. TypeOK'  BY <1>8 DEF DeadlinePasses, IInv, TypeOK
    <2> QED
      BY <2>1, <2>2, OthersConserve
      DEF IInv, Structure, NobodySleepsOnFreeBytes, SleeperHasTimer
  <1>9. ASSUME NEW c \in Client, Fire(c) PROVE IInv'
    <2>1. UNCHANGED <<available, pc>> /\ UNCHANGED Holders  BY <1>9 DEF Fire, Holders
    <2>2. TypeOK'  BY <1>9 DEF Fire, IInv, TypeOK
    <2>3. Structure' /\ SleeperHasTimer'
      BY <1>9 DEF Fire, IInv, TypeOK, Structure, SleeperHasTimer
    <2>4. NobodySleepsOnFreeBytes'  BY <1>9 DEF Fire, IInv, NobodySleepsOnFreeBytes
    <2> QED  BY <2>1, <2>2, <2>3, <2>4, OthersConserve DEF IInv
  <1>10. ASSUME NEW c \in Client, Callback(c) PROVE IInv'
    <2>1. UNCHANGED <<available, pc>> /\ UNCHANGED Holders  BY <1>10 DEF Callback, Holders
    <2>2. TypeOK'  BY <1>10 DEF Callback, AfterBroadcast, IInv, TypeOK
    \* the mutex is free, so no client is between arming its timer and parking
    <2>3. Structure'
      BY <1>10 DEF Callback, AfterBroadcast, IInv, TypeOK, Structure
    <2>4. NobodySleepsOnFreeBytes' /\ SleeperHasTimer'
      BY <1>10 DEF Callback, AfterBroadcast, IInv, NobodySleepsOnFreeBytes, SleeperHasTimer
    <2> QED  BY <2>1, <2>2, <2>3, <2>4, OthersConserve DEF IInv
  <1>11. ASSUME NEW c \in Client, Release(c) PROVE IInv'
    <2>1. available' \in 0..Capacity /\ BytesConserved'  BY <1>11, ReleaseConserves
    <2>2. TypeOK'  BY <1>11, <2>1 DEF Release, AfterBroadcast, IInv, TypeOK, Control
    <2>3. Structure'
      BY <1>11 DEF Release, AfterBroadcast, IInv, TypeOK, Control, Structure, InAcquire, Fits
    \* the mutex is free and the broadcast emptied the wait set
    <2>4. waitset' = {} /\ \A d \in Client : pc'[d] # "park"
      BY <1>11 DEF Release, AfterBroadcast, IInv, TypeOK, Control, Structure
    <2>5. NobodySleepsOnFreeBytes' /\ SleeperHasTimer'
      BY <2>4 DEF NobodySleepsOnFreeBytes, SleeperHasTimer
    <2> QED  BY <2>1, <2>2, <2>3, <2>5 DEF IInv
  <1>12. ASSUME NEW c \in Client, Forget(c) PROVE IInv'
    <2>1. UNCHANGED Holders  BY <1>12 DEF Forget, Holders, IInv, TypeOK, Control
    <2>2. BytesConserved'  BY <1>12, <2>1, OthersConserve DEF Forget
    <2>3. TypeOK'  BY <1>12 DEF Forget, IInv, TypeOK, Control
    <2>4. Structure'  BY <1>12 DEF Forget, IInv, TypeOK, Control, Structure, InAcquire, Fits
    <2>5. NobodySleepsOnFreeBytes' /\ SleeperHasTimer'
      BY <1>12 DEF Forget, IInv, TypeOK, Control, NobodySleepsOnFreeBytes, SleeperHasTimer
    <2> QED  BY <2>2, <2>3, <2>4, <2>5 DEF IInv
  <1>13. CASE UNCHANGED vars
    <2>1. UNCHANGED Holders  BY <1>13 DEF vars, Holders
    <2> QED
      BY <1>13, <2>1, OthersConserve
      DEF vars, IInv, TypeOK, Structure, NobodySleepsOnFreeBytes, SleeperHasTimer
  <1> QED
    BY <1>1, <1>2, <1>3, <1>4, <1>5, <1>6, <1>7, <1>8, <1>9, <1>10, <1>11, <1>12, <1>13
    DEF Next

(* The inductive invariant holds in every state of the monitor. *)
THEOREM Invariance == Spec => []IInv
  BY InitIInv, NextIInv, PTL DEF Spec

(* available never leaves 0..capacity, and the control state is well typed. *)
THEOREM TypeCorrect == Spec => []TypeOK
  <1>1. IInv => TypeOK  BY DEF IInv
  <1> QED  BY <1>1, Invariance, PTL

(* acquire and release conserve the bytes of the budget, for any mix of    *)
(* concurrent, waiting, refused and finished requests.                     *)
THEOREM Conservation == Spec => []BytesConserved
  <1>1. IInv => BytesConserved  BY DEF IInv
  <1> QED  BY <1>1, Invariance, PTL

(* The condition variable loses no wake-up. *)
THEOREM NoLostWakeup == Spec => []NobodySleepsOnFreeBytes
  <1>1. IInv => NobodySleepsOnFreeBytes  BY DEF IInv
  <1> QED  BY <1>1, Invariance, PTL

(* Every sleeping acquire still has a timer or a callback to wake it. *)
THEOREM DeadlineReachesSleepers == Spec => []SleeperHasTimer
  <1>1. IInv => SleeperHasTimer  BY DEF IInv
  <1> QED  BY <1>1, Invariance, PTL

-----------------------------------------------------------------------------
(* Each step of the monitor is a step of the pool, or none. *)
LEMMA StepSimulation == IInv /\ [Next]_vars => [Pool!Next]_Holders
  <1> SUFFICES ASSUME IInv, [Next]_vars PROVE [Pool!Next]_Holders  OBVIOUS
  <1>0. Pool!Cardinality(Holders) = Cardinality(Holders)
    BY DEF Pool!Cardinality, Cardinality
  <1>1. ASSUME NEW c \in Client, Take(c) PROVE Pool!Next
    BY <1>0, <1>1, TakeConserves DEF Pool!Next, Pool!Grant
  <1>2. ASSUME NEW c \in Client, Release(c) PROVE Pool!Next
    BY <1>2, ReleaseConserves DEF Pool!Next, Pool!Free
  <1>3. ASSUME NEW c \in Client,
               Call(c) \/ Lock(c) \/ GiveUp(c) \/ Arm(c) \/ Park(c) \/ Wake(c)
                 \/ DeadlinePasses(c) \/ Fire(c) \/ Callback(c) \/ Forget(c)
        PROVE  UNCHANGED Holders
    BY <1>3
    DEF Call, Lock, GiveUp, Arm, Park, Wake, DeadlinePasses, Fire, Callback, Forget,
        Holders, IInv, TypeOK, Control
  <1>4. CASE UNCHANGED vars
    BY <1>4 DEF vars, Holders
  <1> QED  BY <1>1, <1>2, <1>3, <1>4 DEF Next

(* The monitor implements the abstract pool: however requests interleave,  *)
(* time out or wait, reservations are granted and freed one at a time and  *)
(* their sum never exceeds the capacity.                                   *)
THEOREM Refinement == Spec => ImplementsQuota
  <1>1. Init => Pool!Init  BY DEF Init, Pool!Init, Holders
  <1> QED  BY <1>1, StepSimulation, Invariance, PTL DEF Spec, Pool!Spec, ImplementsQuota
=============================================================================

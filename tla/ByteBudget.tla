----------------------------- MODULE ByteBudget -----------------------------
(***************************************************************************)
(* The byteBudget monitor of internal/proxy/mitm.go: a mutex, a condition  *)
(* variable and a count of free bytes.  Every request that may buffer a    *)
(* body acquires the same reservation (handle passes                       *)
(* bufferReservation(limit)) and gives it back in a deferred release.      *)
(* An acquire that finds too little waits on the condition variable, with  *)
(* a timer whose callback broadcasts once the 5 s deadline has passed.     *)
(*                                                                         *)
(* A client is one request.  It may be reused for a later request once     *)
(* nothing of the earlier one is left, its timer callback included.        *)
(***************************************************************************)
EXTENDS Integers, FiniteSets

CONSTANTS Client,       \* concurrent requests
          Capacity,     \* byteBudget.capacity
          Reservation,  \* the argument of acquire and release
          Nobody        \* the holder of a mutex that is free

ASSUME CapacityAssumption == Capacity \in Nat
ASSUME ReservationAssumption == Reservation \in Int
ASSUME ClientAssumption == IsFiniteSet(Client) /\ Nobody \notin Client

VARIABLES available,    \* byteBudget.available
          mutex,        \* the client inside acquire's critical section, or Nobody
          pc,           \* where each client is in acquire / release
          waitset,      \* clients parked in cond.Wait
          timer,        \* each client's AfterFunc timer
          expired       \* whether each client's deadline has passed

vars == <<available, mutex, pc, waitset, timer, expired>>

Control == {"idle", "lock", "check", "park", "wait", "held", "refused"}

TypeOK == /\ available \in 0..Capacity
          /\ mutex \in Client \cup {Nobody}
          /\ pc \in [Client -> Control]
          /\ waitset \subseteq Client
          /\ timer \in [Client -> {"off", "armed", "fired"}]
          /\ expired \in [Client -> BOOLEAN]

(* newByteBudget *)
Init == /\ available = Capacity
        /\ mutex = Nobody
        /\ pc = [c \in Client |-> "idle"]
        /\ waitset = {}
        /\ timer = [c \in Client |-> "off"]
        /\ expired = [c \in Client |-> FALSE]

(* acquire is called: a request that can never fit is refused at once,     *)
(* before the lock is taken.                                               *)
Call(c) ==
  /\ pc[c] = "idle"
  /\ timer[c] = "off"
  /\ pc' = [pc EXCEPT ![c] = IF Reservation <= 0 \/ Reservation > Capacity
                             THEN "refused" ELSE "lock"]
  /\ UNCHANGED <<available, mutex, waitset, timer, expired>>

(* mu.Lock, and the deadline that starts to run with it. *)
Lock(c) ==
  /\ pc[c] = "lock"
  /\ mutex = Nobody
  /\ mutex' = c
  /\ pc' = [pc EXCEPT ![c] = "check"]
  /\ expired' = [expired EXCEPT ![c] = FALSE]
  /\ UNCHANGED <<available, waitset, timer>>

(* The condition acquire waits for, and how an off-by-one would get it wrong. *)
EnoughButOne == available >= Reservation - 1
Enough == available >= Reservation

(* The loop test fails: take the bytes, unlock, return true. *)
Take(c) ==
  /\ pc[c] = "check"
  /\ Enough
  /\ available' = available - Reservation
  /\ pc' = [pc EXCEPT ![c] = "held"]
  /\ mutex' = Nobody
  /\ UNCHANGED <<waitset, timer, expired>>

(* Too little, and the deadline is over: unlock, return false.  (The first *)
(* form is the mistake of a caller that defers its release too early.)     *)
GiveUpAndRelease(c) ==
  /\ pc[c] = "check"
  /\ ~Enough
  /\ expired[c]
  /\ pc' = [pc EXCEPT ![c] = "refused"]
  /\ mutex' = Nobody
  /\ available' = available + Reservation
  /\ UNCHANGED <<waitset, timer, expired>>

GiveUp(c) ==
  /\ pc[c] = "check"
  /\ ~Enough
  /\ expired[c]
  /\ pc' = [pc EXCEPT ![c] = "refused"]
  /\ mutex' = Nobody
  /\ UNCHANGED <<available, waitset, timer, expired>>

(* Too little, and time is left: start the timer.  The client still holds  *)
(* the mutex; the timer can already go off.                                *)
ArmNoTimer(c) ==
  /\ pc[c] = "check"
  /\ ~Enough
  /\ ~expired[c]
  /\ pc' = [pc EXCEPT ![c] = "park"]
  /\ UNCHANGED <<available, mutex, waitset, timer, expired>>

Arm(c) ==
  /\ pc[c] = "check"
  /\ ~Enough
  /\ ~expired[c]
  /\ timer' = [timer EXCEPT ![c] = "armed"]
  /\ pc' = [pc EXCEPT ![c] = "park"]
  /\ UNCHANGED <<available, mutex, waitset, expired>>

(* cond.Wait: enter the notify list, then unlock (sync.Cond does it in     *)
(* this order, so no broadcast made after the unlock is missed).           *)
Park(c) ==
  /\ pc[c] = "park"
  /\ waitset' = waitset \cup {c}
  /\ mutex' = Nobody
  /\ pc' = [pc EXCEPT ![c] = "wait"]
  /\ UNCHANGED <<available, timer, expired>>

(* A notified waiter gets the mutex back, stops its timer and tests the    *)
(* loop condition again.  A callback that has started is not stopped.      *)
Wake(c) ==
  /\ pc[c] = "wait"
  /\ c \notin waitset
  /\ mutex = Nobody
  /\ mutex' = c
  /\ timer' = [timer EXCEPT ![c] = IF @ = "armed" THEN "off" ELSE @]
  /\ pc' = [pc EXCEPT ![c] = "check"]
  /\ UNCHANGED <<available, waitset, expired>>

(* Five seconds are over for c, whatever it is doing. *)
DeadlinePasses(c) ==
  /\ pc[c] \in {"check", "park", "wait"}
  /\ ~expired[c]
  /\ expired' = [expired EXCEPT ![c] = TRUE]
  /\ UNCHANGED <<available, mutex, pc, waitset, timer>>

(* The runtime starts the callback's goroutine: the timer was set to the   *)
(* time that remained, so not before the deadline.                         *)
Fire(c) ==
  /\ timer[c] = "armed"
  /\ expired[c]
  /\ timer' = [timer EXCEPT ![c] = "fired"]
  /\ UNCHANGED <<available, mutex, pc, waitset, expired>>

(* The waiters left after cond.Broadcast; cond.Signal would wake only one. *)
AfterSignal == IF waitset = {} THEN {} ELSE waitset \ {CHOOSE c \in waitset : TRUE}
AfterBroadcast == {}

(* The callback: lock, broadcast, unlock.  (Without the lock it could run  *)
(* between the arming of the timer and the parking of the client.)         *)
CallbackUnlocked(c) ==
  /\ timer[c] = "fired"
  /\ waitset' = AfterBroadcast
  /\ timer' = [timer EXCEPT ![c] = "off"]
  /\ UNCHANGED <<available, mutex, pc, expired>>

Callback(c) ==
  /\ timer[c] = "fired"
  /\ mutex = Nobody
  /\ waitset' = AfterBroadcast
  /\ timer' = [timer EXCEPT ![c] = "off"]
  /\ UNCHANGED <<available, mutex, pc, expired>>

(* release: lock, add, clamp to the capacity, broadcast, unlock. *)
Release(c) ==
  /\ pc[c] = "held"
  /\ mutex = Nobody
  /\ available' = IF available + Reservation > Capacity
                  THEN Capacity ELSE available + Reservation
  /\ waitset' = AfterBroadcast
  /\ pc' = [pc EXCEPT ![c] = "idle"]
  /\ UNCHANGED <<mutex, timer, expired>>

(* handle answers 503 to a refused request. *)
Forget(c) ==
  /\ pc[c] = "refused"
  /\ pc' = [pc EXCEPT ![c] = "idle"]
  /\ UNCHANGED <<available, mutex, waitset, timer, expired>>

Next == \E c \in Client :
          \/ Call(c) \/ Lock(c) \/ Take(c) \/ GiveUp(c) \/ Arm(c) \/ Park(c)
          \/ Wake(c) \/ DeadlinePasses(c) \/ Fire(c) \/ Callback(c)
          \/ Release(c) \/ Forget(c)

(* What the runtime guarantees: time passes and timers go off; a goroutine *)
(* that holds the mutex runs on; sync.Mutex hands the lock to a waiter     *)
(* that has starved for 1 ms.  Nothing is assumed of the holders: one may  *)
(* keep its reservation for ever.                                          *)
Fairness ==
  \A c \in Client :
     /\ WF_vars(Take(c)) /\ WF_vars(GiveUp(c)) /\ WF_vars(Arm(c)) /\ WF_vars(Park(c))
     /\ SF_vars(Lock(c)) /\ SF_vars(Wake(c)) /\ SF_vars(Callback(c))
     /\ WF_vars(DeadlinePasses(c)) /\ WF_vars(Fire(c))

Spec == Init /\ [][Next]_vars

FairSpec == Spec /\ Fairness

-----------------------------------------------------------------------------
(* The requests whose buffers the budget is paying for. *)
Holders == {c \in Client : pc[c] = "held"}

(* No byte is lost and none is invented: what acquire took and release     *)
(* gave back always add up to the capacity, so the clamp in release never  *)
(* hides an accounting error.                                              *)
BytesConserved == available = Capacity - Reservation * Cardinality(Holders)

(* No lost wake-up: nobody sleeps in cond.Wait, or is on its way there,    *)
(* while the bytes it waits for are free.  Every release must therefore    *)
(* broadcast to everyone who parked before it.                             *)
NobodySleepsOnFreeBytes ==
  \A c \in Client : c \in waitset \/ pc[c] = "park" => available < Reservation

(* The 5 s deadline reaches every sleeper: whoever sleeps still has a      *)
(* timer that will go off, or a callback about to broadcast.               *)
SleeperHasTimer == \A c \in waitset : timer[c] # "off"

(* acquire returns to its caller even when no holder ever releases. *)
AcquireReturns ==
  \A c \in Client : pc[c] = "lock" ~> pc[c] \in {"held", "refused"}

(* The monitor is a pool of Capacity bytes handed out Reservation at a     *)
(* time, and never overcommitted.                                          *)
Pool == INSTANCE Quota WITH holders <- Holders, Share <- Reservation
ImplementsQuota == Pool!Spec
=============================================================================

------------------------------- MODULE Quota -------------------------------
(***************************************************************************)
(* What a bounded pool of the data plane promises.  Three pools of the     *)
(* gateway are meant to be this and nothing more: the byte budget of       *)
(* mitm.go (Share = the reservation of one request), and the two buffered  *)
(* channels connSlots and workSlots (Share = 1).  Who waits, who is woken  *)
(* and how an entry finds its way back is left to the implementations.     *)
(***************************************************************************)
EXTENDS Naturals, FiniteSets

CONSTANTS Client,    \* whoever may hold a share
          Capacity,  \* size of the pool
          Share      \* what one holder takes

VARIABLE holders     \* the clients that hold a share now

Init == holders = {}

Grant(c) == /\ c \notin holders
            /\ Share * (Cardinality(holders) + 1) <= Capacity
            /\ holders' = holders \cup {c}

Free(c) == /\ c \in holders
           /\ holders' = holders \ {c}

Next == \E c \in Client : Grant(c) \/ Free(c)

Spec == Init /\ [][Next]_holders
=============================================================================

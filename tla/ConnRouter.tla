----------------------------- MODULE ConnRouter -----------------------------
(***************************************************************************)
(* The transparent front end of internal/proxy/transparent_server.go:      *)
(* accept loops on the raw listeners, one routeTransparent goroutine per   *)
(* connection, the queueListener that hands intercepted connections to     *)
(* net/http, and the ways the whole thing stops (an accept error, the      *)
(* http server ending, Server.Shutdown).                                   *)
(*                                                                         *)
(* Every routed connection owns one entry of the connSlots channel.  Who   *)
(* gives it back depends on the path: the goroutine itself, or, once the   *)
(* connection was offered to net/http, whoever removes the release         *)
(* function from connReleases first.                                       *)
(***************************************************************************)
EXTENDS Integers, FiniteSets

CONSTANTS Conn,       \* connections that may arrive
          Listener,   \* the raw listeners of listenDual
          MaxConn     \* cap(connSlots)

ASSUME MaxConnAssumption == MaxConn \in Nat \ {0}
ASSUME ConnAssumption == IsFiniteSet(Conn) /\ IsFiniteSet(Listener)

VARIABLES
  pc,          \* where each connection's goroutine is
  slots,       \* len(connSlots)
  registered,  \* keys of connReleases
  released,    \* connections whose releaseOnce has run
  listening,   \* raw listeners still open
  accepting,   \* raw listeners whose accept loop still runs
  acceptErr,   \* something is in the acceptErr channel
  queueDone,   \* queueListener.done is closed
  httpLoop,    \* the accept loop of http.Server.Serve(ql)
  front,       \* serveTransparent: in its select, or returned
  stopping     \* Server.stopping

lifeVars == <<listening, accepting, acceptErr, queueDone, httpLoop, front, stopping>>
vars == <<pc, slots, registered, released, lifeVars>>

Control == {"new", "accepted", "resolve", "classify", "offer", "served", "relay", "closed"}

TypeOK == /\ pc \in [Conn -> Control]
          /\ slots \in 0..MaxConn
          /\ registered \subseteq Conn
          /\ released \subseteq Conn
          /\ listening \subseteq Listener
          /\ accepting \subseteq Listener
          /\ acceptErr \in BOOLEAN
          /\ queueDone \in BOOLEAN
          /\ httpLoop \in {"running", "ended"}
          /\ front \in {"select", "returned"}
          /\ stopping \in BOOLEAN

(* ListenAndServe has opened the listeners and entered serveTransparent. *)
Init == /\ pc = [c \in Conn |-> "new"]
        /\ slots = 0
        /\ registered = {}
        /\ released = {}
        /\ listening = Listener
        /\ accepting = Listener
        /\ acceptErr = FALSE
        /\ queueDone = FALSE
        /\ httpLoop = "running"
        /\ front = "select"
        /\ stopping = FALSE

-----------------------------------------------------------------------------
(* release: the receive from connSlots, at most once for a connection.     *)
(* Without an entry to receive the goroutine would block for ever.         *)
Release(c) == IF c \in released
              THEN UNCHANGED <<slots, released>>
              ELSE slots > 0 /\ slots' = slots - 1 /\ released' = released \cup {c}

Goto(c, next) == pc' = [pc EXCEPT ![c] = next]

(* An accept loop starts routeTransparent for a new connection. *)
Accept(c, l) ==
  /\ pc[c] = "new" /\ l \in listening \cap accepting
  /\ Goto(c, "accepted")
  /\ UNCHANGED <<slots, registered, released, lifeVars>>

(* No slot left: the connection is closed at once. *)
TurnAway(c) ==
  /\ pc[c] = "accepted" /\ slots = MaxConn
  /\ Goto(c, "closed")
  /\ UNCHANGED <<slots, registered, released, lifeVars>>

TakeOneTooMany(c) ==
  /\ pc[c] = "accepted" /\ slots <= MaxConn
  /\ slots' = slots + 1
  /\ Goto(c, "resolve")
  /\ UNCHANGED <<registered, released, lifeVars>>

TakeSlot(c) ==
  /\ pc[c] = "accepted" /\ slots < MaxConn
  /\ slots' = slots + 1
  /\ Goto(c, "resolve")
  /\ UNCHANGED <<registered, released, lifeVars>>

(* The original destination is known, or it is not and the connection is   *)
(* closed.                                                                 *)
Resolve(c) ==
  /\ pc[c] = "resolve"
  /\ Goto(c, "classify")
  /\ UNCHANGED <<slots, registered, released, lifeVars>>

ResolveFails(c) ==
  /\ pc[c] = "resolve"
  /\ Release(c)
  /\ Goto(c, "closed")
  /\ UNCHANGED <<registered, lifeVars>>

(* readAndClassify decided for interception: the release function is       *)
(* registered before the connection is offered to net/http.                *)
ClassifyMITM(c) ==
  /\ pc[c] = "classify"
  /\ registered' = registered \cup {c}
  /\ Goto(c, "offer")
  /\ UNCHANGED <<slots, released, lifeVars>>

(* ... or for passthrough, also after 5 s of silence or a read error. *)
ClassifyPassthrough(c) ==
  /\ pc[c] = "classify"
  /\ Goto(c, "relay")
  /\ UNCHANGED <<slots, registered, released, lifeVars>>

(* The relay ends (or never starts: the dial failed); deferred release. *)
RelayEnds(c) ==
  /\ pc[c] = "relay"
  /\ Release(c)
  /\ Goto(c, "closed")
  /\ UNCHANGED <<registered, lifeVars>>

(* The send on ql.conns meets the receive in queueListener.Accept.  Both   *)
(* selects may still choose it when done is closed as well.                *)
HandOver(c) ==
  /\ pc[c] = "offer" /\ httpLoop = "running"
  /\ Goto(c, "served")
  /\ UNCHANGED <<slots, registered, released, lifeVars>>

(* Nobody takes the connection any more: close it, take the release        *)
(* function back and call it.                                              *)
OfferDropped(c) ==
  /\ pc[c] = "offer" /\ queueDone
  /\ registered' = registered \ {c}
  /\ Goto(c, "closed")
  /\ UNCHANGED <<slots, released, lifeVars>>

OfferKept(c) ==
  /\ pc[c] = "offer" /\ queueDone
  /\ Release(c)
  /\ Goto(c, "closed")
  /\ UNCHANGED <<registered, lifeVars>>

OfferRefused(c) ==
  /\ pc[c] = "offer" /\ queueDone
  /\ registered' = registered \ {c}
  /\ IF c \in registered THEN Release(c) ELSE UNCHANGED <<slots, released>>
  /\ Goto(c, "closed")
  /\ UNCHANGED lifeVars

(* net/http is done with the connection, for whatever reason; its          *)
(* ConnState callback sees StateClosed or StateHijacked.                   *)
ConnState(c) ==
  /\ pc[c] = "served"
  /\ registered' = registered \ {c}
  /\ IF c \in registered THEN Release(c) ELSE UNCHANGED <<slots, released>>
  /\ Goto(c, "closed")
  /\ UNCHANGED lifeVars

-----------------------------------------------------------------------------
connVars == <<pc, slots, registered, released>>

(* Accept fails: the listener was closed, or the process ran out of file   *)
(* descriptors.  Either ends this accept loop.                             *)
AcceptFails(l) ==
  /\ l \in accepting
  /\ accepting' = accepting \ {l}
  /\ acceptErr' = TRUE
  /\ UNCHANGED <<connVars, listening, queueDone, httpLoop, front, stopping>>

(* The http accept loop sees done closed and returns; Serve's own deferred *)
(* Close closes the queue too.                                             *)
ServeReturns ==
  /\ httpLoop = "running" /\ queueDone
  /\ httpLoop' = "ended"
  /\ UNCHANGED <<connVars, listening, accepting, acceptErr, queueDone, front, stopping>>

(* serveTransparent leaves its select on an accept error: it closes the    *)
(* listeners and the http server, and with that the queue (the deferred    *)
(* ql.Close would do it too).  The connections net/http tracks are closed, *)
(* which each of them notices in its own time: ConnState.                  *)
(* (The first form is a mistake: the queue stays open.)                    *)
FrontAcceptErrNoClose ==
  /\ front = "select" /\ acceptErr
  /\ listening' = {}
  /\ front' = "returned"
  /\ UNCHANGED <<connVars, accepting, acceptErr, queueDone, httpLoop, stopping>>

FrontAcceptErr ==
  /\ front = "select" /\ acceptErr
  /\ listening' = {}
  /\ queueDone' = TRUE
  /\ front' = "returned"
  /\ UNCHANGED <<connVars, accepting, acceptErr, httpLoop, stopping>>

(* ... or because http.Serve returned: the listeners and the queue close.  *)
FrontServeErr ==
  /\ front = "select" /\ httpLoop = "ended"
  /\ listening' = {}
  /\ queueDone' = TRUE
  /\ front' = "returned"
  /\ UNCHANGED <<connVars, accepting, acceptErr, httpLoop, stopping>>

(* Server.Shutdown: mark, close the raw listeners, http.Server.Shutdown    *)
(* (which closes the queue and then waits for idle connections).           *)
Shutdown ==
  /\ ~stopping
  /\ stopping' = TRUE
  /\ listening' = {}
  /\ queueDone' = TRUE
  /\ UNCHANGED <<connVars, accepting, acceptErr, httpLoop, front>>

Route(c) ==
  \/ TurnAway(c) \/ TakeSlot(c) \/ Resolve(c) \/ ResolveFails(c)
  \/ ClassifyMITM(c) \/ ClassifyPassthrough(c)
  \/ HandOver(c) \/ OfferRefused(c) \/ RelayEnds(c) \/ ConnState(c)

Next ==
  \/ \E c \in Conn : Route(c) \/ \E l \in Listener : Accept(c, l)
  \/ \E l \in Listener : AcceptFails(l)
  \/ ServeReturns \/ FrontAcceptErr \/ FrontServeErr \/ Shutdown

Spec == Init /\ [][Next]_vars

(* The scheduler runs every goroutine that can run.  A closed listener     *)
(* makes Accept fail; an open one need not.  Reading a ClientHello is      *)
(* bounded by the 5 s read deadline.  Once the http server is closed or    *)
(* shutting down it keeps no connection alive past its current request,    *)
(* which its read and write timeouts bound.  A relay may last for ever.    *)
Fairness ==
  /\ \A c \in Conn :
       /\ WF_vars(TurnAway(c) \/ TakeSlot(c))
       /\ WF_vars(Resolve(c) \/ ResolveFails(c))
       /\ WF_vars(ClassifyMITM(c) \/ ClassifyPassthrough(c))
       /\ WF_vars(HandOver(c) \/ OfferRefused(c))
       /\ WF_vars(queueDone /\ ConnState(c))
  /\ \A l \in Listener : WF_vars(l \notin listening /\ AcceptFails(l))
  /\ WF_vars(ServeReturns)
  /\ WF_vars(FrontAcceptErr \/ FrontServeErr)

FairSpec == Spec /\ Fairness

-----------------------------------------------------------------------------
(* The connections a slot is taken for. *)
Routed == {"resolve", "classify", "offer", "served", "relay"}
Holders == {c \in Conn : pc[c] \in Routed}

(* No slot leaks and none is given back twice, on any path a connection    *)
(* can take through a running, failing or stopping server: connSlots holds *)
(* exactly one entry for every connection still being worked on.           *)
SlotsMatchHolders == slots = Cardinality(Holders)

(* connReleases holds no entry of a connection that is gone, and the entry *)
(* of every connection that only net/http still knows about.               *)
ReleaseEntriesLive ==
  \A c \in Conn : c \in registered <=> pc[c] \in {"offer", "served"}

(* One failing accept, or Shutdown, drains the server: no goroutine stays  *)
(* behind in the select of routeTransparent, and every slot comes back     *)
(* except those of relays, which nothing bounds.                           *)
StopDrains ==
  acceptErr \/ stopping ~> [](\A c \in Conn : pc[c] \in {"new", "relay", "closed"})

(* connSlots is a pool of MaxConn connections. *)
Pool == INSTANCE Quota WITH Client <- Conn, Capacity <- MaxConn, Share <- 1, holders <- Holders
ImplementsQuota == Pool!Spec
=============================================================================

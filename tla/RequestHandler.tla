--------------------------- MODULE RequestHandler ---------------------------
(***************************************************************************)
(* Server.handle of internal/proxy/mitm.go: what happens to the requests   *)
(* that net/http reads from intercepted connections.  Many run at once;    *)
(* they share the workSlots channel, the byte budget and the observer's    *)
(* counters.  The budget is the pool that ByteBudget is shown to           *)
(* implement; its waiting is seen here only as a grant or a refusal.       *)
(***************************************************************************)
EXTENDS Integers, FiniteSets, Sequences

CONSTANTS Request,        \* requests in flight at one time
          MaxConnections, \* config: max_connections
          MaxBody,        \* config: max_body_bytes
          MaxBuffered     \* config: max_buffered_bytes

(* config.Validate, as far as the limits depend on each other. *)
ValidLimits ==
  /\ MaxConnections \in Nat \ {0}
  /\ MaxBody \in Nat \ {0}
  /\ MaxBuffered \in Nat
  /\ MaxBuffered >= 4 * (MaxBody + 1)

ASSUME LimitsAssumption == ValidLimits

ASSUME RequestAssumption == IsFiniteSet(Request)

(* SetLimits: fewer work slots when their bodies alone would overrun the   *)
(* buffer limit, but at least one.                                         *)
WorkSlots ==
  IF MaxConnections * MaxBody > MaxBuffered
  THEN IF MaxBuffered \div MaxBody < 1 THEN 1 ELSE MaxBuffered \div MaxBody
  ELSE MaxConnections

(* bufferReservation: four copies of a body and its probe byte. *)
Reservation == 4 * (MaxBody + 1)

VARIABLES pc,       \* where each request's handler is
          kind,     \* what the request is
          work,     \* len(workSlots)
          budget,   \* requests that hold a reservation
          body,     \* the response body held in memory: its encoding, and whether rewritten
          header,   \* the Content-Encoding of the response to the client
          sent,     \* what the client got
          log       \* the observer calls made for the request, in order

vars == <<pc, kind, work, budget, body, header, sent, log>>

(* A request: for a name outside the allowlist (or another path, with a    *)
(* Host that is not its server name: nothing is counted either); a         *)
(* location query with such a Host; another path; a location query.        *)
Kind == {"badSNI", "badHost", "other", "wloc"}
Target(r) == kind[r] \in {"badHost", "wloc"}

Encoding == {"", "gzip", "unknown"}
NoBody == [enc |-> "", rewritten |-> FALSE]

Control == {"idle", "slot", "granted", "screened", "headers", "rewrite", "write", "unwind", "leave"}

TypeOK == /\ pc \in [Request -> Control]
          /\ kind \in [Request -> Kind]
          /\ work \in 0..WorkSlots
          /\ budget \subseteq Request
          /\ body \in [Request -> [enc : Encoding, rewritten : BOOLEAN]]
          /\ header \in [Request -> Encoding]
          /\ sent \in [Request -> {"nothing", "error", "part", "all"}]

Init == /\ pc = [r \in Request |-> "idle"]
        /\ kind = [r \in Request |-> "wloc"]
        /\ work = 0
        /\ budget = {}
        /\ body = [r \in Request |-> NoBody]
        /\ header = [r \in Request |-> ""]
        /\ sent = [r \in Request |-> "nothing"]
        /\ log = [r \in Request |-> <<>>]

-----------------------------------------------------------------------------
Goto(r, next) == pc' = [pc EXCEPT ![r] = next]
Record(r, events) == log' = [log EXCEPT ![r] = @ \o events]
OnlyTarget(r, event) == IF Target(r) THEN <<event>> ELSE <<>>

(* http.Error, and the deferred calls that follow the return. *)
Answer(r, events) ==
  /\ sent' = [sent EXCEPT ![r] = "error"]
  /\ Record(r, events)
  /\ Goto(r, "unwind")
  /\ UNCHANGED <<kind, work, budget, body, header>>

(* A mistake: one request too many. *)
ArriveOverfull(r) ==
  /\ pc[r] = "idle"
  /\ work <= WorkSlots
  /\ \E k \in Kind : kind' = [kind EXCEPT ![r] = k]
  /\ work' = work + 1
  /\ sent' = [sent EXCEPT ![r] = "nothing"]
  /\ Goto(r, "slot")
  /\ UNCHANGED <<budget, body, header, log>>

(* A request arrives; without a free work slot it is answered 503 and      *)
(* leaves no other trace.                                                  *)
Arrive(r) ==
  /\ pc[r] = "idle"
  /\ work < WorkSlots
  /\ \E k \in Kind : kind' = [kind EXCEPT ![r] = k]
  /\ work' = work + 1
  /\ sent' = [sent EXCEPT ![r] = "nothing"]
  /\ Goto(r, "slot")
  /\ UNCHANGED <<budget, body, header, log>>

Busy(r) ==
  /\ pc[r] = "idle"
  /\ work = WorkSlots
  /\ sent' = [sent EXCEPT ![r] = "error"]
  /\ UNCHANGED <<pc, kind, work, budget, body, header, log>>

(* budget.acquire succeeds; or it fails, 5 s after it found the budget     *)
(* exhausted, and nothing is left to release but the work slot.            *)
Acquire(r) ==
  /\ pc[r] = "slot"
  /\ Reservation * (Cardinality(budget) + 1) <= MaxBuffered
  /\ budget' = budget \cup {r}
  /\ Goto(r, "granted")
  /\ UNCHANGED <<kind, work, body, header, sent, log>>

(* Mistakes: an early return that keeps the slot; a wait without an end. *)
RefusedKeepsSlot(r) ==
  /\ pc[r] = "slot"
  /\ Reservation * (Cardinality(budget) + 1) > MaxBuffered
  /\ sent' = [sent EXCEPT ![r] = "error"]
  /\ Goto(r, "idle")
  /\ UNCHANGED <<kind, work, budget, body, header, log>>
NeverRefused(r) == FALSE /\ pc[r] = "slot" /\ UNCHANGED vars

AcquireRefused(r) ==
  /\ pc[r] = "slot"
  /\ Reservation * (Cardinality(budget) + 1) > MaxBuffered
  /\ sent' = [sent EXCEPT ![r] = "error"]
  /\ Goto(r, "leave")
  /\ UNCHANGED <<kind, work, budget, body, header, log>>

(* The server name must be allowed; a location query is counted before     *)
(* its Host is compared with the server name.                              *)
Screen(r) ==
  /\ pc[r] = "granted"
  /\ CASE kind[r] = "badSNI"  -> Answer(r, <<>>)
       [] kind[r] = "badHost" -> Answer(r, <<"target">>)
       [] OTHER -> /\ Record(r, OnlyTarget(r, "target"))
                   /\ Goto(r, "screened")
                   /\ UNCHANGED <<kind, work, budget, body, header, sent>>

(* transport.RoundTrip, within the upstream timeouts. *)
RoundTrip(r) ==
  /\ pc[r] = "screened"
  /\ Goto(r, "headers")
  /\ UNCHANGED <<kind, work, budget, body, header, sent, log>>

RoundTripFails(r) ==
  /\ pc[r] = "screened"
  /\ Answer(r, <<"upstreamFailed">>)

(* readBounded: the whole body fits, in one of the encodings ... *)
ReadBounded(r) ==
  /\ pc[r] = "headers"
  /\ \E e \in Encoding : /\ body' = [body EXCEPT ![r] = [enc |-> e, rewritten |-> FALSE]]
                         /\ header' = [header EXCEPT ![r] = e]
  /\ Goto(r, "rewrite")
  /\ UNCHANGED <<kind, work, budget, sent, log>>

(* ... the read fails ... *)
ReadFails(r) ==
  /\ pc[r] = "headers"
  /\ Answer(r, <<"upstreamFailed">>)

(* A mistake: a copy that breaks off is counted as a failure only. *)
StreamUncounted(r) ==
  /\ pc[r] = "headers"
  /\ sent' = [sent EXCEPT ![r] = "part"]
  /\ Record(r, <<"upstreamFailed">>)
  /\ Goto(r, "unwind")
  /\ UNCHANGED <<kind, work, budget, body, header>>

(* ... or the body is over the limit: its prefix and then the rest are     *)
(* streamed as they are.  A failed write or copy counts as an upstream     *)
(* failure, and the response as passed through all the same.               *)
Stream(r) ==
  /\ pc[r] = "headers"
  /\ \E e \in Encoding : /\ body' = [body EXCEPT ![r] = [enc |-> e, rewritten |-> FALSE]]
                         /\ header' = [header EXCEPT ![r] = e]
  /\ \/ /\ sent' = [sent EXCEPT ![r] = "all"]
        /\ Record(r, OnlyTarget(r, "passthrough"))
     \/ /\ sent' = [sent EXCEPT ![r] = "part"]
        /\ Record(r, <<"upstreamFailed">> \o OnlyTarget(r, "passthrough"))
  /\ Goto(r, "unwind")
  /\ UNCHANGED <<kind, work, budget>>

(* Set to "gzip" by the gzip branch once the result is encoded again. *)
outputEncoding(r) == IF body[r].enc = "gzip" THEN "gzip" ELSE ""

(* The rewriting of a location response, by what comes of it.  Only a      *)
(* result that differs and fits replaces the body; whatever else happens   *)
(* leaves the upstream bytes and their encoding alone.                     *)
Rewritten(r) ==
  /\ body[r].enc # "unknown"
  /\ body' = [body EXCEPT ![r].rewritten = TRUE]
  \* copyHeaders drops the upstream encoding and sets outputEncoding
  /\ header' = [header EXCEPT ![r] = outputEncoding(r)]
  /\ UNCHANGED log

(* A mistake: the decoded body is kept when it cannot be encoded again. *)
NotRewrittenKeepsDecoded(r) ==
  /\ body[r].enc = "gzip" /\ Record(r, <<"gzipEncodeFailed">>)
  /\ body' = [body EXCEPT ![r].enc = ""]
  /\ UNCHANGED header

(* Nothing to change, no known envelope, a parse error, a result over the  *)
(* body limit; an encoding other than gzip is not even tried.              *)
NotRewritten(r) ==
  /\ \/ body[r].enc # "unknown" /\ Record(r, <<"rewriteFailed">>)
     \/ Record(r, <<"rewriteUnsupported">>)
     \/ body[r].enc = "gzip" /\ Record(r, <<"gzipDecodeFailed">>)
     \/ body[r].enc = "gzip" /\ Record(r, <<"gzipEncodeFailed">>)
  /\ UNCHANGED <<body, header>>

Rewrite(r) ==
  /\ pc[r] = "rewrite"
  /\ IF kind[r] = "wloc"
     THEN Rewritten(r) \/ NotRewritten(r)
     ELSE UNCHANGED <<body, header, log>>
  /\ Goto(r, "write")
  /\ UNCHANGED <<kind, work, budget, sent>>

(* The one write of the buffered body, complete or cut short, and what is  *)
(* counted for it.                                                         *)
\* CountWritten is a mistake: the write's result is not looked at
CountWritten(r, all) ==
  IF body[r].rewritten THEN <<"candidate", "modified">> ELSE OnlyTarget(r, "passthrough")
CountWrite(r, all) ==
  IF body[r].rewritten /\ all THEN <<"candidate", "modified">> ELSE OnlyTarget(r, "passthrough")

Write(r) ==
  /\ pc[r] = "write"
  /\ \E all \in BOOLEAN :
       /\ sent' = [sent EXCEPT ![r] = IF all THEN "all" ELSE "part"]
       /\ Record(r, CountWrite(r, all))
  /\ Goto(r, "unwind")
  /\ UNCHANGED <<kind, work, budget, body, header>>

(* A mistake: the reservation is forgotten. *)
LeaveWithBudget(r) ==
  /\ pc[r] = "unwind"
  /\ Goto(r, "leave")
  /\ UNCHANGED <<kind, work, budget, body, header, sent, log>>

(* The deferred calls: the reservation goes back first, then the slot. *)
ReleaseBudget(r) ==
  /\ pc[r] = "unwind"
  /\ budget' = budget \ {r}
  /\ Goto(r, "leave")
  /\ UNCHANGED <<kind, work, body, header, sent, log>>

(* With the return everything local to the request is forgotten. *)
Leave(r) ==
  /\ pc[r] = "leave"
  /\ work' = work - 1
  /\ Goto(r, "idle")
  /\ kind' = [kind EXCEPT ![r] = "wloc"]
  /\ body' = [body EXCEPT ![r] = NoBody]
  /\ header' = [header EXCEPT ![r] = ""]
  /\ sent' = [sent EXCEPT ![r] = "nothing"]
  /\ log' = [log EXCEPT ![r] = <<>>]
  /\ UNCHANGED budget

Handle(r) ==
  \/ Acquire(r) \/ AcquireRefused(r) \/ Screen(r) \/ RoundTrip(r) \/ RoundTripFails(r)
  \/ ReadBounded(r) \/ ReadFails(r) \/ Stream(r) \/ Rewrite(r) \/ Write(r)
  \/ ReleaseBudget(r) \/ Leave(r)

Next == \E r \in Request : Arrive(r) \/ Busy(r) \/ Handle(r)

Spec == Init /\ [][Next]_vars

(* The handler's goroutine runs; dial, handshake and response headers are  *)
(* bounded by the transport's timeouts; the response body by the server's  *)
(* ReadTimeout, whose expiry on the client's connection cancels the        *)
(* request; the write by its WriteTimeout; acquire by its deadline.        *)
FairSpec == Spec /\ \A r \in Request : WF_vars(Handle(r))

-----------------------------------------------------------------------------
Inside == {r \in Request : pc[r] # "idle"}
Count(r, event) == Cardinality({i \in DOMAIN log[r] : log[r][i] = event})

(* Work slots are taken exactly by the requests inside handle, on every    *)
(* one of its returns.                                                     *)
WorkSlotsMatch == work = Cardinality(Inside)

(* Memory is paid for: a request that holds or will hold a body has its    *)
(* reservation, and no request that has left keeps one.                    *)
BuffersReserved ==
  \A r \in Request :
    r \in budget <=> pc[r] \in {"granted", "screened", "headers", "rewrite", "write", "unwind"}

(* The counters balance.  Every location query counted as a target ends,   *)
(* once, as modified, as passed through, or in an error answer; and one    *)
(* that was modified has no failure counted against it.                    *)
CountersBalance ==
  \A r \in Request : pc[r] \in {"unwind", "leave"} =>
    /\ Count(r, "modified") + Count(r, "passthrough")
         = IF Count(r, "target") = 1 /\ sent[r] \in {"part", "all"} THEN 1 ELSE 0
    /\ Count(r, "modified") = 1 => log[r] = <<"target", "candidate", "modified">>

(* response_modified counts rewritten bodies the client got completely;    *)
(* response_passthrough never counts one of those.                         *)
ModifiedMeansDelivered ==
  \A r \in Request : pc[r] = "unwind" =>
    (Count(r, "modified") = 1 <=> body[r].rewritten /\ sent[r] = "all")

(* The Content-Encoding sent always describes the body sent, rewritten or  *)
(* not: the client is never handed plain bytes labelled gzip or gzip bytes *)
(* without the label.                                                      *)
HeaderDescribesBody ==
  \A r \in Request : pc[r] = "write" => header[r] = body[r].enc

(* Every request that got a work slot gives it back, however the budget,   *)
(* the upstream and the client behave.                                     *)
EveryRequestLeaves == \A r \in Request : pc[r] = "slot" ~> pc[r] = "idle"
=============================================================================

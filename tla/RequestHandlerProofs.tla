------------------------ MODULE RequestHandlerProofs ------------------------
(***************************************************************************)
(* Server.handle, for every number of requests and every limits that       *)
(* config.Validate accepts: its slots and reservations balance on every    *)
(* path, and the response header always describes the body.                *)
(***************************************************************************)
EXTENDS RequestHandler, FiniteSetTheorems, SequenceTheorems, TLAPS

(* Where a handler has its reservation. *)
Holding == {"granted", "screened", "headers", "rewrite", "write", "unwind"}

(* The header is already right when the rewriting starts, which is what    *)
(* makes HeaderDescribesBody inductive.                                    *)
HeaderKept ==
  \A r \in Request : pc[r] \in {"rewrite", "write"} => header[r] = body[r].enc

(* The reservations granted fit the limit. *)
WithinLimit == Reservation * Cardinality(budget) <= MaxBuffered

IInv == TypeOK /\ WorkSlotsMatch /\ BuffersReserved /\ HeaderKept /\ WithinLimit

-----------------------------------------------------------------------------
(* SetLimits never leaves the handler without a slot, and the limits       *)
(* config.Validate accepts leave room for one reservation: a request alone *)
(* on the gateway is never refused.                                        *)
THEOREM LimitsAdmitOne == WorkSlots \in Nat \ {0} /\ Reservation <= MaxBuffered
<1>1. MaxConnections \in Nat \ {0} /\ MaxBody \in Nat \ {0} /\ MaxBuffered \in Nat
      /\ MaxBuffered >= 4 * (MaxBody + 1)
  BY LimitsAssumption DEF ValidLimits
<1>2. MaxBuffered \div MaxBody \in Int
  BY <1>1, SMT
<1>3. Reservation <= MaxBuffered
  BY <1>1 DEF Reservation
<1>4. WorkSlots \in Nat \ {0}
  <2>1. CASE MaxConnections * MaxBody > MaxBuffered
    <3> DEFINE q == MaxBuffered \div MaxBody
    <3>1. q \in Int
      BY <1>2
    <3>2. WorkSlots = IF q < 1 THEN 1 ELSE q
      BY <2>1 DEF WorkSlots
    <3> HIDE DEF q
    <3> QED BY <3>1, <3>2
  <2>2. CASE ~(MaxConnections * MaxBody > MaxBuffered)
    BY <1>1, <2>2 DEF WorkSlots
  <2> QED BY <2>1, <2>2
<1> QED BY <1>3, <1>4

LEMMA SlotsType == WorkSlots \in Nat
  BY LimitsAdmitOne

LEMMA ReservationType == Reservation \in Nat
  BY LimitsAssumption DEF ValidLimits, Reservation

(* The requests inside handle, after one of them moves. *)
LEMMA Moves ==
  ASSUME NEW r \in Request, NEW next, TypeOK, Goto(r, next)
  PROVE  /\ Inside' = IF next = "idle" THEN Inside \ {r} ELSE Inside \cup {r}
         /\ pc'[r] = next
         /\ \A q \in Request \ {r} : pc'[q] = pc[q]
  BY DEF TypeOK, Goto, Inside

LEMMA InsideFinite ==
  IsFiniteSet(Inside) /\ Cardinality(Inside) \in Nat
  <1>1. Inside \subseteq Request  BY DEF Inside
  <1>2. IsFiniteSet(Inside)  BY <1>1, RequestAssumption, FS_Subset
  <1> QED  BY <1>2, FS_CardinalityType

LEMMA BudgetFinite ==
  ASSUME TypeOK
  PROVE  IsFiniteSet(budget) /\ Cardinality(budget) \in Nat
  <1>1. IsFiniteSet(budget)  BY RequestAssumption, FS_Subset DEF TypeOK
  <1> QED  BY <1>1, FS_CardinalityType

LEMMA InitIInv == Init => IInv
  <1> SUFFICES ASSUME Init PROVE IInv  OBVIOUS
  <1>1. TypeOK
    <2>1. work = 0  BY DEF Init
    <2>3. work \in 0..WorkSlots  BY <2>1, SlotsType
    <2>2. body \in [Request -> [enc : Encoding, rewritten : BOOLEAN]]
      BY Zenon DEF Init, NoBody, Encoding
    <2> QED  BY <2>2, <2>3 DEF Init, TypeOK, Control, Kind, Encoding
  <1>2. Inside = {}  BY DEF Init, Inside
  <1>3. WorkSlotsMatch  BY <1>2, FS_EmptySet DEF Init, WorkSlotsMatch
  <1>4. WithinLimit
    <2>1. Cardinality(budget) = 0  BY FS_EmptySet DEF Init
    <2>2. Reservation * 0 = 0  BY ReservationType
    <2> QED  BY <2>1, <2>2, LimitsAssumption DEF ValidLimits, WithinLimit
  <1>5. BuffersReserved /\ HeaderKept  BY DEF Init, BuffersReserved, HeaderKept
  <1> QED  BY <1>1, <1>3, <1>4, <1>5 DEF IInv

(* A step of a handler that keeps its slot and its reservation. *)
LEMMA KeepsBoth ==
  ASSUME IInv, NEW r \in Request, NEW next \in Holding, pc[r] \in Holding,
         Goto(r, next), UNCHANGED <<work, budget>>, TypeOK', HeaderKept'
  PROVE  IInv'
  <1>1. Inside' = Inside  BY Moves DEF IInv, Inside, Holding
  <1>2. WorkSlotsMatch'  BY <1>1 DEF IInv, WorkSlotsMatch
  <1>3. BuffersReserved'  BY Moves DEF IInv, BuffersReserved, Holding
  <1>4. WithinLimit'  BY DEF IInv, WithinLimit
  <1> QED  BY <1>2, <1>3, <1>4 DEF IInv

(* Answering with an error does not touch the body or its header. *)
LEMMA AnswerStep ==
  ASSUME IInv, NEW r \in Request, NEW events, pc[r] \in Holding, Answer(r, events)
  PROVE  IInv'
  <1>1. TypeOK'  BY DEF IInv, TypeOK, Answer, Goto, Control
  <1>2. HeaderKept'  BY Moves DEF IInv, HeaderKept, Answer
  <1> QED  BY <1>1, <1>2, KeepsBoth DEF Answer, Holding

LEMMA ArriveStep == ASSUME IInv, NEW r \in Request, Arrive(r) PROVE IInv'
  <1>1. r \notin Inside /\ Inside' = Inside \cup {r}
    BY Moves DEF Arrive, IInv, Inside
  <1>2. Cardinality(Inside)' = Cardinality(Inside) + 1
    BY <1>1, InsideFinite, FS_AddElement
  <1>3. WorkSlotsMatch'  BY <1>2 DEF IInv, WorkSlotsMatch, Arrive
  <1>4. TypeOK'  BY SlotsType DEF IInv, TypeOK, Arrive, Goto, Control
  <1>5. BuffersReserved' /\ HeaderKept' /\ WithinLimit'
    BY Moves DEF IInv, BuffersReserved, HeaderKept, WithinLimit, Arrive
  <1> QED  BY <1>3, <1>4, <1>5 DEF IInv

LEMMA BusyStep == ASSUME IInv, NEW r \in Request, Busy(r) PROVE IInv'
  BY DEF IInv, TypeOK, WorkSlotsMatch, Inside, BuffersReserved, HeaderKept, WithinLimit, Busy

LEMMA AcquireStep == ASSUME IInv, NEW r \in Request, Acquire(r) PROVE IInv'
  <1>1. Inside' = Inside  BY Moves DEF IInv, Inside, Acquire
  <1>2. r \notin budget  BY DEF IInv, BuffersReserved, Acquire
  <1>3. Cardinality(budget)' = Cardinality(budget) + 1
    BY <1>2, BudgetFinite, FS_AddElement DEF IInv, Acquire
  <1>4. WithinLimit'  BY <1>3 DEF WithinLimit, Acquire, Reservation
  <1>5. TypeOK'  BY DEF IInv, TypeOK, Acquire, Goto, Control
  <1>6. WorkSlotsMatch'  BY <1>1 DEF IInv, WorkSlotsMatch, Acquire
  <1>7. BuffersReserved' /\ HeaderKept'
    BY Moves DEF IInv, BuffersReserved, HeaderKept, Acquire
  <1> QED  BY <1>4, <1>5, <1>6, <1>7 DEF IInv

LEMMA AcquireRefusedStep == ASSUME IInv, NEW r \in Request, AcquireRefused(r) PROVE IInv'
  <1>1. Inside' = Inside  BY Moves DEF IInv, Inside, AcquireRefused
  <1>2. TypeOK'  BY DEF IInv, TypeOK, AcquireRefused, Goto, Control
  <1>3. WorkSlotsMatch'  BY <1>1 DEF IInv, WorkSlotsMatch, AcquireRefused
  <1>4. BuffersReserved' /\ HeaderKept' /\ WithinLimit'
    BY Moves DEF IInv, BuffersReserved, HeaderKept, WithinLimit, AcquireRefused
  <1> QED  BY <1>2, <1>3, <1>4 DEF IInv

LEMMA ScreenStep == ASSUME IInv, NEW r \in Request, Screen(r) PROVE IInv'
  <1>1. pc[r] = "granted" /\ pc[r] \in Holding  BY DEF Screen, Holding
  <1>2. CASE Answer(r, <<>>) \/ Answer(r, <<"target">>)
    BY <1>1, <1>2, AnswerStep
  <1>3. CASE Goto(r, "screened") /\ UNCHANGED <<kind, work, budget, body, header, sent>>
    <2>1. TypeOK'  BY <1>3 DEF IInv, TypeOK, Goto, Control
    <2>2. HeaderKept'  BY <1>3, Moves DEF IInv, HeaderKept
    <2> QED  BY <1>1, <1>3, <2>1, <2>2, KeepsBoth DEF Holding
  <1> QED  BY <1>2, <1>3 DEF Screen

LEMMA ReadBoundedStep == ASSUME IInv, NEW r \in Request, ReadBounded(r) PROVE IInv'
  <1>1. PICK e \in Encoding : /\ body' = [body EXCEPT ![r] = [enc |-> e, rewritten |-> FALSE]]
                              /\ header' = [header EXCEPT ![r] = e]
    BY DEF ReadBounded
  <1>2. TypeOK'  BY <1>1 DEF IInv, TypeOK, ReadBounded, Goto, Control
  <1>3. HeaderKept'  BY <1>1, Moves DEF IInv, TypeOK, HeaderKept, ReadBounded
  <1> QED  BY <1>2, <1>3, KeepsBoth DEF ReadBounded, Holding

LEMMA StreamStep == ASSUME IInv, NEW r \in Request, Stream(r) PROVE IInv'
  <1>1. PICK e \in Encoding : /\ body' = [body EXCEPT ![r] = [enc |-> e, rewritten |-> FALSE]]
                              /\ header' = [header EXCEPT ![r] = e]
    BY DEF Stream
  <1>2. TypeOK'  BY <1>1 DEF IInv, TypeOK, Stream, Goto, Control
  <1>3. HeaderKept'  BY <1>1, Moves DEF IInv, TypeOK, HeaderKept, Stream
  <1> QED  BY <1>2, <1>3, KeepsBoth DEF Stream, Holding

(* The rewriting changes the body and the header together, or neither. *)
LEMMA RewriteStep == ASSUME IInv, NEW r \in Request, Rewrite(r) PROVE IInv'
  <1>1. \/ UNCHANGED <<body, header>>
        \/ /\ body' = [body EXCEPT ![r].rewritten = TRUE]
           /\ header' = [header EXCEPT ![r] = body[r].enc]
    <2>1. body[r].enc # "unknown" => outputEncoding(r) = body[r].enc
      BY DEF IInv, TypeOK, Encoding, outputEncoding
    <2> QED  BY <2>1 DEF Rewrite, Rewritten, NotRewritten
  <1>2. TypeOK'
    <2>1. body' \in [Request -> [enc : Encoding, rewritten : BOOLEAN]]
      BY <1>1, Zenon DEF IInv, TypeOK
    <2>2. header' \in [Request -> Encoding]  BY <1>1 DEF IInv, TypeOK
    <2> QED  BY <2>1, <2>2 DEF IInv, TypeOK, Rewrite, Goto, Control
  <1>3. HeaderKept'
    <2>1. header[r] = body[r].enc  BY DEF IInv, HeaderKept, Rewrite
    <2>2. \A q \in Request : header'[q] = header[q]
      BY <1>1, <2>1 DEF IInv, TypeOK
    <2>3. \A q \in Request : body'[q].enc = body[q].enc
      <3>1. CASE UNCHANGED body  BY <3>1
      <3>2. CASE body' = [body EXCEPT ![r].rewritten = TRUE]
        <4>0. body \in [Request -> [enc : Encoding, rewritten : BOOLEAN]]  BY DEF IInv, TypeOK
        <4>1. body'[r] = [body[r] EXCEPT !.rewritten = TRUE]  BY <3>2, <4>0, Zenon
        <4>2. \A q \in Request \ {r} : body'[q] = body[q]  BY <3>2, <4>0, Zenon
        <4>3. body'[r].enc = body[r].enc  BY <4>0, <4>1
        <4> QED BY <4>2, <4>3
      <3> QED BY <1>1, <3>1, <3>2
    <2> QED  BY <2>1, <2>2, <2>3, Moves DEF IInv, HeaderKept, Rewrite
  <1> QED  BY <1>2, <1>3, KeepsBoth DEF Rewrite, Holding

LEMMA WriteStep == ASSUME IInv, NEW r \in Request, Write(r) PROVE IInv'
  <1>1. TypeOK'  BY DEF IInv, TypeOK, Write, Goto, Control
  <1>2. HeaderKept'  BY Moves DEF IInv, HeaderKept, Write
  <1> QED  BY <1>1, <1>2, KeepsBoth DEF Write, Holding

LEMMA ReleaseBudgetStep == ASSUME IInv, NEW r \in Request, ReleaseBudget(r) PROVE IInv'
  <1>1. Inside' = Inside  BY Moves DEF IInv, Inside, ReleaseBudget
  <1>2. r \in budget  BY DEF IInv, BuffersReserved, ReleaseBudget
  <1>3. Cardinality(budget)' = Cardinality(budget) - 1
    BY <1>2, BudgetFinite, FS_RemoveElement DEF IInv, ReleaseBudget
  <1>4. WithinLimit'
    BY <1>3, BudgetFinite, LimitsAssumption DEF ValidLimits, IInv, WithinLimit, Reservation
  <1>5. TypeOK'  BY DEF IInv, TypeOK, ReleaseBudget, Goto, Control
  <1>6. WorkSlotsMatch'  BY <1>1 DEF IInv, WorkSlotsMatch, ReleaseBudget
  <1>7. BuffersReserved' /\ HeaderKept'
    BY Moves DEF IInv, BuffersReserved, HeaderKept, ReleaseBudget
  <1> QED  BY <1>4, <1>5, <1>6, <1>7 DEF IInv

LEMMA LeaveStep == ASSUME IInv, NEW r \in Request, Leave(r) PROVE IInv'
  <1>1. r \in Inside /\ Inside' = Inside \ {r}
    BY Moves DEF IInv, Inside, Leave
  <1>2. Cardinality(Inside)' = Cardinality(Inside) - 1
    BY <1>1, InsideFinite, FS_RemoveElement
  <1>3. Cardinality(Inside)' \in Nat
    BY <1>1, InsideFinite, FS_Subset, FS_CardinalityType
  <1>4. WorkSlotsMatch'  BY <1>2 DEF IInv, WorkSlotsMatch, Leave
  <1>5. TypeOK'
    <2>1. work' \in 0..WorkSlots
      <3>1. work \in 0..WorkSlots /\ work = Cardinality(Inside) /\ work' = work - 1
        BY DEF IInv, TypeOK, WorkSlotsMatch, Leave
      <3>2. work' \in Nat  BY <1>2, <1>3, <3>1
      <3> QED  BY <3>1, <3>2, SlotsType
    <2>2. body' \in [Request -> [enc : Encoding, rewritten : BOOLEAN]]
      BY Zenon DEF IInv, TypeOK, Leave, NoBody, Encoding
    <2> QED  BY <2>1, <2>2 DEF IInv, TypeOK, Leave, Goto, Control, Kind, Encoding
  <1>6. BuffersReserved' /\ HeaderKept' /\ WithinLimit'
    BY Moves DEF IInv, BuffersReserved, HeaderKept, WithinLimit, Leave, TypeOK
  <1> QED  BY <1>4, <1>5, <1>6 DEF IInv

LEMMA NextIInv == IInv /\ [Next]_vars => IInv'
  <1> SUFFICES ASSUME IInv, [Next]_vars PROVE IInv'  OBVIOUS
  <1>1. CASE UNCHANGED vars
    BY <1>1 DEF vars, IInv, TypeOK, WorkSlotsMatch, Inside, BuffersReserved, HeaderKept, WithinLimit
  <1>2. ASSUME NEW r \in Request, RoundTrip(r) PROVE IInv'
    <2>1. TypeOK'  BY <1>2 DEF IInv, TypeOK, RoundTrip, Goto, Control
    <2>2. HeaderKept'  BY <1>2, Moves DEF IInv, HeaderKept, RoundTrip
    <2> QED  BY <1>2, <2>1, <2>2, KeepsBoth DEF RoundTrip, Holding
  <1>3. ASSUME NEW r \in Request, RoundTripFails(r) \/ ReadFails(r) PROVE IInv'
    BY <1>3, AnswerStep DEF RoundTripFails, ReadFails, Holding
  <1>4. ASSUME NEW r \in Request, Arrive(r) \/ Busy(r) \/ Handle(r) PROVE IInv'
    BY <1>2, <1>3, <1>4, ArriveStep, BusyStep, AcquireStep, AcquireRefusedStep, ScreenStep,
       ReadBoundedStep, StreamStep, RewriteStep, WriteStep, ReleaseBudgetStep, LeaveStep
    DEF Handle
  <1> QED  BY <1>1, <1>4 DEF Next

(* handle keeps the inductive invariant. *)
THEOREM Invariance == Spec => []IInv
  BY InitIInv, NextIInv, PTL DEF Spec

(* Every variable of handle keeps its type; in particular workSlots is     *)
(* never overfilled and never drained below empty.                         *)
THEOREM TypeCorrect == Spec => []TypeOK
  <1>1. IInv => TypeOK  BY DEF IInv
  <1> QED  BY <1>1, Invariance, PTL

(* On every return path of handle the work slot is given back exactly once. *)
THEOREM WorkSlotsBalance == Spec => []WorkSlotsMatch
  <1>1. IInv => WorkSlotsMatch  BY DEF IInv
  <1> QED  BY <1>1, Invariance, PTL

(* A body is in memory only under a reservation, which ends with the       *)
(* request.                                                                *)
THEOREM BuffersPaid == Spec => []BuffersReserved
  <1>1. IInv => BuffersReserved  BY DEF IInv
  <1> QED  BY <1>1, Invariance, PTL

(* What the client is told about the encoding is what it gets. *)
THEOREM HeaderTruthful == Spec => []HeaderDescribesBody
  <1>1. IInv => HeaderDescribesBody  BY DEF IInv, HeaderKept, HeaderDescribesBody
  <1> QED  BY <1>1, Invariance, PTL

-----------------------------------------------------------------------------
(* The observer's ledger: what has been recorded for a request, by where   *)
(* its handler is and what it has sent.                                    *)
Failure == {"upstreamFailed", "rewriteFailed", "rewriteUnsupported", "gzipDecodeFailed",
            "gzipEncodeFailed"}

Observed == Failure \cup {"target", "passthrough", "candidate", "modified"}

Begun(r) == IF kind[r] = "wloc" THEN <<"target">> ELSE <<>>

Passed(s) == s = <<"target", "passthrough">> \/ \E f \in Failure : s = <<"target", f, "passthrough">>

Settled(r) ==
  \/ /\ sent[r] = "error" /\ ~body[r].rewritten
     /\ log[r] \in {<<>>, <<"target">>, <<"upstreamFailed">>, <<"target", "upstreamFailed">>}
  \/ /\ sent[r] \in {"part", "all"} /\ ~body[r].rewritten
     /\ log[r] \in {<<>>, <<"upstreamFailed">>}
  \/ /\ sent[r] \in {"part", "all"} /\ ~(body[r].rewritten /\ sent[r] = "all")
     /\ Passed(log[r])
  \/ /\ sent[r] = "all" /\ body[r].rewritten
     /\ log[r] = <<"target", "candidate", "modified">>

Entered(r) ==
  /\ pc[r] \in {"idle", "slot", "granted"} => log[r] = <<>>
  /\ pc[r] \in {"idle", "slot", "granted", "screened", "headers", "rewrite"} => ~body[r].rewritten
  /\ pc[r] \in {"screened", "headers", "rewrite", "write"} => kind[r] \in {"other", "wloc"}
  /\ pc[r] \in {"screened", "headers", "rewrite"} => log[r] = Begun(r)
  /\ pc[r] = "write" =>
       \/ log[r] = Begun(r) /\ (body[r].rewritten => kind[r] = "wloc")
       \/ /\ kind[r] = "wloc" /\ ~body[r].rewritten
          /\ \E f \in Failure : log[r] = <<"target", f>>
  /\ pc[r] \in {"unwind", "leave"} => Settled(r)

Ledger == /\ log \in [Request -> Seq(Observed)]
          /\ \A r \in Request : Entered(r)

Tally(s, event) == Cardinality({i \in DOMAIN s : s[i] = event})

LEMMA TallyNone ==
  ASSUME NEW s, NEW event, \A i \in DOMAIN s : s[i] # event
  PROVE  Tally(s, event) = 0
  <1>1. {i \in DOMAIN s : s[i] = event} = {}  OBVIOUS
  <1> QED BY <1>1, FS_EmptySet DEF Tally

LEMMA TallyOne ==
  ASSUME NEW s, NEW event, NEW k \in DOMAIN s, s[k] = event,
         \A i \in DOMAIN s \ {k} : s[i] # event
  PROVE  Tally(s, event) = 1
  <1>1. {i \in DOMAIN s : s[i] = event} = {k}  OBVIOUS
  <1> QED BY <1>1, FS_Singleton DEF Tally

(* An error before anything was sent leaves at most the target. *)
LEMMA TallyError ==
  ASSUME NEW s \in {<<>>, <<"target">>, <<"upstreamFailed">>, <<"target", "upstreamFailed">>}
  PROVE  Tally(s, "modified") = 0 /\ Tally(s, "passthrough") = 0
  <1>1. \A i \in DOMAIN s : s[i] \in {"target", "upstreamFailed"}  OBVIOUS
  <1>2. \A i \in DOMAIN s : s[i] # "modified" /\ s[i] # "passthrough"  BY <1>1
  <1> QED BY <1>2, TallyNone

LEMMA TallyOther ==
  ASSUME NEW s \in {<<>>, <<"upstreamFailed">>}
  PROVE  Tally(s, "target") = 0
  <1>1. \A i \in DOMAIN s : s[i] # "target"  OBVIOUS
  <1> QED BY <1>1, TallyNone

LEMMA TallyPassed ==
  ASSUME NEW s, Passed(s)
  PROVE  Tally(s, "target") = 1 /\ Tally(s, "modified") = 0 /\ Tally(s, "passthrough") = 1
  <1>1. CASE s = <<"target", "passthrough">>
    <2>1. DOMAIN s = {1, 2} /\ s[1] = "target" /\ s[2] = "passthrough"  BY <1>1
    <2>2. Tally(s, "target") = 1
      <3>1. \A i \in DOMAIN s \ {1} : s[i] # "target"  BY <2>1
      <3> QED BY <2>1, <3>1, TallyOne
    <2>3. Tally(s, "passthrough") = 1
      <3>1. \A i \in DOMAIN s \ {2} : s[i] # "passthrough"  BY <2>1
      <3> QED BY <2>1, <3>1, TallyOne
    <2>4. Tally(s, "modified") = 0
      <3>1. \A i \in DOMAIN s : s[i] # "modified"  BY <2>1
      <3> QED BY <3>1, TallyNone
    <2> QED BY <2>2, <2>3, <2>4
  <1>2. ASSUME NEW f \in Failure, s = <<"target", f, "passthrough">>
        PROVE  Tally(s, "target") = 1 /\ Tally(s, "modified") = 0 /\ Tally(s, "passthrough") = 1
    <2>0. f # "target" /\ f # "passthrough" /\ f # "modified"  BY DEF Failure
    <2>1. DOMAIN s = {1, 2, 3} /\ s[1] = "target" /\ s[2] = f /\ s[3] = "passthrough"  BY <1>2
    <2>2. Tally(s, "target") = 1
      <3>1. \A i \in DOMAIN s \ {1} : s[i] # "target"  BY <2>0, <2>1
      <3> QED BY <2>1, <3>1, TallyOne
    <2>3. Tally(s, "passthrough") = 1
      <3>1. \A i \in DOMAIN s \ {3} : s[i] # "passthrough"  BY <2>0, <2>1
      <3> QED BY <2>1, <3>1, TallyOne
    <2>4. Tally(s, "modified") = 0
      <3>1. \A i \in DOMAIN s : s[i] # "modified"  BY <2>0, <2>1
      <3> QED BY <3>1, TallyNone
    <2> QED BY <2>2, <2>3, <2>4
  <1> QED BY <1>1, <1>2 DEF Passed

LEMMA TallyModified ==
  ASSUME NEW s, s = <<"target", "candidate", "modified">>
  PROVE  Tally(s, "target") = 1 /\ Tally(s, "modified") = 1 /\ Tally(s, "passthrough") = 0
  <1>1. DOMAIN s = {1, 2, 3} /\ s[1] = "target" /\ s[2] = "candidate" /\ s[3] = "modified"
    OBVIOUS
  <1>2. Tally(s, "target") = 1
    <2>1. \A i \in DOMAIN s \ {1} : s[i] # "target"  BY <1>1
    <2> QED BY <1>1, <2>1, TallyOne
  <1>3. Tally(s, "modified") = 1
    <2>1. \A i \in DOMAIN s \ {3} : s[i] # "modified"  BY <1>1
    <2> QED BY <1>1, <2>1, TallyOne
  <1>4. Tally(s, "passthrough") = 0
    <2>1. \A i \in DOMAIN s : s[i] # "passthrough"  BY <1>1
    <2> QED BY <2>1, TallyNone
  <1> QED BY <1>2, <1>3, <1>4

(* A step of one handler concerns its own entries only. *)
LEMMA Frame ==
  ASSUME TypeOK, Ledger, NEW r \in Request, NEW q \in Request, q # r,
         Arrive(r) \/ Busy(r) \/ Handle(r)
  PROVE  Entered(q)'
  <1>1. log \in [Request -> Seq(Observed)]  BY DEF Ledger
  <1>2. pc'[q] = pc[q]
    BY DEF TypeOK, Arrive, Busy, Handle, Acquire, AcquireRefused, Screen, RoundTrip, RoundTripFails,
       ReadBounded, ReadFails, Stream, Rewrite, Write, ReleaseBudget, Leave, Answer, Goto
  <1>3. kind'[q] = kind[q] /\ sent'[q] = sent[q]
    BY DEF TypeOK, Arrive, Busy, Handle, Acquire, AcquireRefused, Screen, RoundTrip, RoundTripFails,
       ReadBounded, ReadFails, Stream, Rewrite, Write, ReleaseBudget, Leave, Answer
  <1>4. body'[q] = body[q]
    BY DEF TypeOK, Arrive, Busy, Handle, Acquire, AcquireRefused, Screen, RoundTrip, RoundTripFails,
       ReadBounded, ReadFails, Stream, Rewrite, Write, ReleaseBudget, Leave, Answer, Rewritten,
       NotRewritten
  <1>5. log'[q] = log[q]
    BY <1>1 DEF Arrive, Busy, Handle, Acquire, AcquireRefused, Screen, RoundTrip, RoundTripFails,
       ReadBounded, ReadFails, Stream, Rewrite, Write, ReleaseBudget, Leave, Answer, Rewritten,
       NotRewritten, Record
  <1>6. Entered(q)  BY DEF Ledger
  <1> QED BY <1>2, <1>3, <1>4, <1>5, <1>6 DEF Entered, Settled, Begun

LEMMA RecordType ==
  ASSUME log \in [Request -> Seq(Observed)], NEW r \in Request, NEW events \in Seq(Observed),
         Record(r, events)
  PROVE  /\ log' \in [Request -> Seq(Observed)]
         /\ log'[r] = log[r] \o events
  BY DEF Record

(* Sequences as short as these, joined. *)
LEMMA JoinedAt ==
  ASSUME NEW S, NEW s \in Seq(S), NEW t \in Seq(S), NEW u \in Seq(S), Len(u) = Len(s) + Len(t),
         \A i \in 1..Len(u) : u[i] = IF i <= Len(s) THEN s[i] ELSE t[i - Len(s)]
  PROVE  s \o t = u
  <1> DEFINE v == s \o t
  <1>1. v \in Seq(S) /\ Len(v) = Len(s) + Len(t)  BY ConcatProperties, Zenon
  <1>2. \A i \in 1..Len(s) + Len(t) : v[i] = IF i <= Len(s) THEN s[i] ELSE t[i - Len(s)]
    BY ConcatProperties, Zenon
  <1> HIDE DEF v
  <1>3. v = u  BY <1>1, <1>2, SeqEqual
  <1> QED BY <1>3 DEF v

LEMMA Joined ==
  ASSUME NEW a \in Observed, NEW b \in Observed, NEW c \in Observed
  PROVE  /\ <<>> \o <<>> = <<>> /\ <<>> \o <<a>> = <<a>> /\ <<a>> \o <<>> = <<a>>
         /\ <<a>> \o <<b>> = <<a, b>> /\ <<a, b>> \o <<c>> = <<a, b, c>>
         /\ <<a>> \o <<b, c>> = <<a, b, c>>
  <1>1. <<>> \o <<>> = <<>> /\ <<>> \o <<a>> = <<a>> /\ <<a>> \o <<>> = <<a>>
    OBVIOUS
  <1> DEFINE sa == <<a>>  sb == <<b>>  sc == <<c>>
             sab == <<a, b>>  sbc == <<b, c>>  sabc == <<a, b, c>>
  <1>2. /\ sa \in Seq(Observed) /\ sb \in Seq(Observed) /\ sc \in Seq(Observed)
        /\ sab \in Seq(Observed) /\ sbc \in Seq(Observed) /\ sabc \in Seq(Observed)
    OBVIOUS
  <1>3. /\ Len(sa) = 1 /\ Len(sb) = 1 /\ Len(sc) = 1 /\ Len(sab) = 2 /\ Len(sbc) = 2 /\ Len(sabc) = 3
        /\ sa[1] = a /\ sb[1] = b /\ sc[1] = c /\ sab[1] = a /\ sab[2] = b /\ sbc[1] = b /\ sbc[2] = c
        /\ sabc[1] = a /\ sabc[2] = b /\ sabc[3] = c
    OBVIOUS
  <1> HIDE DEF sa, sb, sc, sab, sbc, sabc
  <1>4. sa \o sb = sab
    <2>1. /\ Len(sab) = Len(sa) + Len(sb)
          /\ \A i \in 1..Len(sab) : sab[i] = IF i <= Len(sa) THEN sa[i] ELSE sb[i - Len(sa)]
      BY <1>3
    <2> QED BY <1>2, <2>1, JoinedAt, Zenon
  <1>5. sab \o sc = sabc
    <2>1. /\ Len(sabc) = Len(sab) + Len(sc)
          /\ \A i \in 1..Len(sabc) : sabc[i] = IF i <= Len(sab) THEN sab[i] ELSE sc[i - Len(sab)]
      BY <1>3
    <2> QED BY <1>2, <2>1, JoinedAt, Zenon
  <1>6. sa \o sbc = sabc
    <2>1. /\ Len(sabc) = Len(sa) + Len(sbc)
          /\ \A i \in 1..Len(sabc) : sabc[i] = IF i <= Len(sa) THEN sa[i] ELSE sbc[i - Len(sa)]
      BY <1>3
    <2> QED BY <1>2, <2>1, JoinedAt, Zenon
  <1> QED BY <1>1, <1>4, <1>5, <1>6 DEF sa, sb, sc, sab, sbc, sabc

LEMMA EventTypes ==
  /\ "target" \in Observed /\ "passthrough" \in Observed /\ "candidate" \in Observed
  /\ "modified" \in Observed /\ Failure \subseteq Observed /\ "upstreamFailed" \in Failure
  /\ <<>> \in Seq(Observed) /\ <<"candidate", "modified">> \in Seq(Observed)
  /\ \A a \in Observed : <<a>> \in Seq(Observed)
  <1>1. /\ "target" \in Observed /\ "passthrough" \in Observed /\ "candidate" \in Observed
        /\ "modified" \in Observed /\ Failure \subseteq Observed /\ "upstreamFailed" \in Failure
    BY DEF Observed, Failure
  <1> QED BY <1>1

(* The entries a handler joins to those it has made. *)
LEMMA Entries ==
  /\ <<>> \o <<>> = <<>>
  /\ <<>> \o <<"target">> = <<"target">>
  /\ <<>> \o <<"upstreamFailed">> = <<"upstreamFailed">>
  /\ <<"upstreamFailed">> \o <<>> = <<"upstreamFailed">>
  /\ <<"upstreamFailed">> \o <<"passthrough">> = <<"upstreamFailed", "passthrough">>
  /\ <<"target">> \o <<"upstreamFailed">> = <<"target", "upstreamFailed">>
  /\ <<"target">> \o <<"passthrough">> = <<"target", "passthrough">>
  /\ <<"target">> \o <<"upstreamFailed", "passthrough">>
       = <<"target", "upstreamFailed", "passthrough">>
  /\ <<"target">> \o <<"candidate", "modified">> = <<"target", "candidate", "modified">>
  <1>1. /\ "target" \in Observed /\ "passthrough" \in Observed /\ "candidate" \in Observed
        /\ "modified" \in Observed /\ "upstreamFailed" \in Observed
    BY EventTypes
  <1>2. <<>> \o <<>> = <<>>  BY <1>1, Joined, Zenon
  <1>3. <<>> \o <<"target">> = <<"target">>  BY <1>1, Joined, Zenon
  <1>4. <<>> \o <<"upstreamFailed">> = <<"upstreamFailed">>  BY <1>1, Joined, Zenon
  <1>5. <<"upstreamFailed">> \o <<>> = <<"upstreamFailed">>  BY <1>1, Joined, Zenon
  <1>6. <<"upstreamFailed">> \o <<"passthrough">> = <<"upstreamFailed", "passthrough">>
    BY <1>1, Joined, Zenon
  <1>7. <<"target">> \o <<"upstreamFailed">> = <<"target", "upstreamFailed">>
    BY <1>1, Joined, Zenon
  <1>8. <<"target">> \o <<"passthrough">> = <<"target", "passthrough">>
    BY <1>1, Joined, Zenon
  <1>9. <<"target">> \o <<"upstreamFailed", "passthrough">>
          = <<"target", "upstreamFailed", "passthrough">>
    BY <1>1, Joined, Zenon
  <1>10. <<"target">> \o <<"candidate", "modified">> = <<"target", "candidate", "modified">>
    BY <1>1, Joined, Zenon
  <1> QED BY <1>2, <1>3, <1>4, <1>5, <1>6, <1>7, <1>8, <1>9, <1>10, Zenon

LEMMA FailureEntries ==
  ASSUME NEW f \in Failure
  PROVE  /\ <<"target">> \o <<f>> = <<"target", f>>
         /\ <<"target", f>> \o <<"passthrough">> = <<"target", f, "passthrough">>
  <1>1. "target" \in Observed /\ "passthrough" \in Observed /\ f \in Observed  BY EventTypes
  <1>2. <<"target">> \o <<f>> = <<"target", f>>  BY <1>1, Joined, Zenon
  <1>3. <<"target", f>> \o <<"passthrough">> = <<"target", f, "passthrough">>
    BY <1>1, Joined, Zenon
  <1> QED BY <1>2, <1>3, Zenon

(* What a handler leaves in its own ledger in each of its steps. *)
LEMMA AnswerEnters ==
  ASSUME TypeOK, Ledger, NEW r \in Request, NEW events, Answer(r, events),
         events \in {<<>>, <<"target">>, <<"upstreamFailed">>}, ~body[r].rewritten,
         log[r] = <<>> \/ (log[r] = <<"target">> /\ events = <<"upstreamFailed">>)
  PROVE  log' \in [Request -> Seq(Observed)] /\ Entered(r)'
  <1>1. events \in Seq(Observed)  BY EventTypes
  <1>2. log' \in [Request -> Seq(Observed)] /\ log'[r] = log[r] \o events
    BY <1>1, RecordType DEF Ledger, Answer
  <1>3. log'[r] \in {<<>>, <<"target">>, <<"upstreamFailed">>, <<"target", "upstreamFailed">>}
    <2>1. CASE log[r] = <<>> /\ events = <<>>  BY <1>2, <2>1, Entries, Zenon
    <2>2. CASE log[r] = <<>> /\ events = <<"target">>  BY <1>2, <2>2, Entries, Zenon
    <2>3. CASE log[r] = <<>> /\ events = <<"upstreamFailed">>  BY <1>2, <2>3, Entries, Zenon
    <2>4. CASE log[r] = <<"target">> /\ events = <<"upstreamFailed">>
      BY <1>2, <2>4, Entries, Zenon
    <2> QED BY <2>1, <2>2, <2>3, <2>4
  <1>4. pc'[r] = "unwind" /\ sent'[r] = "error" /\ UNCHANGED body
    BY DEF TypeOK, Answer, Goto
  <1>5. Settled(r)'  BY <1>3, <1>4 DEF Settled
  <1> QED BY <1>2, <1>4, <1>5 DEF Entered

LEMMA StreamEnters ==
  ASSUME TypeOK, Ledger, NEW r \in Request, Stream(r)
  PROVE  log' \in [Request -> Seq(Observed)] /\ Entered(r)'
  <1>1. kind[r] \in {"other", "wloc"} /\ log[r] = Begun(r) /\ log \in [Request -> Seq(Observed)]
    BY DEF Ledger, Entered, Stream
  <1>2. pc'[r] = "unwind" /\ body'[r].rewritten = FALSE
    BY DEF TypeOK, Stream, Goto
  <1> DEFINE fine == OnlyTarget(r, "passthrough")
             cut == <<"upstreamFailed">> \o OnlyTarget(r, "passthrough")
  <1>3. CASE kind[r] = "wloc"
    <2>1. /\ log[r] = <<"target">> /\ fine = <<"passthrough">>
          /\ cut = <<"upstreamFailed", "passthrough">>
      <3>1. log[r] = <<"target">> /\ fine = <<"passthrough">>
        BY <1>1, <1>3 DEF Begun, OnlyTarget, Target
      <3> QED BY <3>1, Entries, Zenon
    <2>2. fine \in Seq(Observed) /\ cut \in Seq(Observed)
      BY <2>1, EventTypes
    <2>3. /\ log[r] \o fine = <<"target", "passthrough">>
          /\ log[r] \o cut = <<"target", "upstreamFailed", "passthrough">>
      BY <2>1, Entries, Zenon
    <2> HIDE DEF fine, cut
    <2>4. \/ sent'[r] = "all" /\ Record(r, fine)
          \/ sent'[r] = "part" /\ Record(r, cut)
      BY DEF TypeOK, Stream, fine, cut
    <2>5. /\ log' \in [Request -> Seq(Observed)]
          /\ log'[r] = <<"target", "passthrough">>
             \/ log'[r] = <<"target", "upstreamFailed", "passthrough">>
      BY <1>1, <2>2, <2>3, <2>4, RecordType
    <2>6. Passed(log'[r])  BY <2>5, EventTypes DEF Passed
    <2>7. Settled(r)'  BY <1>2, <2>4, <2>6 DEF Settled
    <2> QED BY <1>2, <2>5, <2>7 DEF Entered
  <1>4. CASE kind[r] = "other"
    <2>1. log[r] = <<>> /\ fine = <<>> /\ cut = <<"upstreamFailed">>
      <3>1. log[r] = <<>> /\ fine = <<>>
        BY <1>1, <1>4 DEF Begun, OnlyTarget, Target
      <3> QED BY <3>1, Entries, Zenon
    <2>2. fine \in Seq(Observed) /\ cut \in Seq(Observed)
      BY <2>1, EventTypes
    <2>3. log[r] \o fine = <<>> /\ log[r] \o cut = <<"upstreamFailed">>
      BY <2>1, Entries, Zenon
    <2> HIDE DEF fine, cut
    <2>4. \/ sent'[r] = "all" /\ Record(r, fine)
          \/ sent'[r] = "part" /\ Record(r, cut)
      BY DEF TypeOK, Stream, fine, cut
    <2>5. /\ log' \in [Request -> Seq(Observed)]
          /\ log'[r] \in {<<>>, <<"upstreamFailed">>}
      BY <1>1, <2>2, <2>3, <2>4, RecordType
    <2>6. Settled(r)'  BY <1>2, <2>4, <2>5 DEF Settled
    <2> QED BY <1>2, <2>5, <2>6 DEF Entered
  <1> QED BY <1>1, <1>3, <1>4

LEMMA RewriteEnters ==
  ASSUME TypeOK, Ledger, NEW r \in Request, Rewrite(r)
  PROVE  log' \in [Request -> Seq(Observed)] /\ Entered(r)'
  <1>1. /\ kind[r] \in {"other", "wloc"} /\ log[r] = Begun(r) /\ ~body[r].rewritten
        /\ log \in [Request -> Seq(Observed)]
    BY DEF Ledger, Entered, Rewrite
  <1>2. pc'[r] = "write" /\ kind'[r] = kind[r]
    BY DEF TypeOK, Rewrite, Goto
  <1>3. CASE UNCHANGED log /\ (UNCHANGED body \/ kind[r] = "wloc")
    BY <1>1, <1>2, <1>3 DEF Entered, Begun
  <1>4. CASE kind[r] = "wloc" /\ NotRewritten(r)
    <2>1. PICK f \in Failure : Record(r, <<f>>)  BY <1>4 DEF NotRewritten, Failure
    <2>2. log' \in [Request -> Seq(Observed)] /\ log'[r] = log[r] \o <<f>>
      BY <1>1, <2>1, EventTypes, RecordType
    <2>3. log'[r] = <<"target", f>>
      <3>1. log[r] = <<"target">>  BY <1>1, <1>4 DEF Begun
      <3> QED BY <2>2, <3>1, FailureEntries, Zenon
    <2>4. UNCHANGED body  BY <1>4 DEF NotRewritten
    <2> QED BY <1>1, <1>2, <1>4, <2>2, <2>3, <2>4 DEF Entered
  <1> QED BY <1>1, <1>3, <1>4 DEF Rewrite, Rewritten

LEMMA WriteEnters ==
  ASSUME TypeOK, Ledger, NEW r \in Request, Write(r)
  PROVE  log' \in [Request -> Seq(Observed)] /\ Entered(r)'
  <1>1. /\ kind[r] \in {"other", "wloc"} /\ log \in [Request -> Seq(Observed)]
        /\ \/ log[r] = Begun(r) /\ (body[r].rewritten => kind[r] = "wloc")
           \/ /\ kind[r] = "wloc" /\ ~body[r].rewritten
              /\ \E f \in Failure : log[r] = <<"target", f>>
    BY DEF Ledger, Entered, Write
  <1>2. PICK all \in BOOLEAN : /\ sent' = [sent EXCEPT ![r] = IF all THEN "all" ELSE "part"]
                               /\ Record(r, CountWrite(r, all))
    BY DEF Write
  <1>3. /\ pc'[r] = "unwind" /\ UNCHANGED body
        /\ sent'[r] = (IF all THEN "all" ELSE "part") /\ sent'[r] \in {"part", "all"}
    BY <1>2 DEF TypeOK, Write, Goto
  <1>4. CASE body[r].rewritten /\ all
    <2>1. CountWrite(r, all) = <<"candidate", "modified">> /\ log[r] = <<"target">>
      BY <1>1, <1>4 DEF CountWrite, Begun
    <2>2. log' \in [Request -> Seq(Observed)] /\ log'[r] = log[r] \o <<"candidate", "modified">>
      BY <1>1, <1>2, <2>1, EventTypes, RecordType
    <2>3. log'[r] = <<"target", "candidate", "modified">>
      BY <2>1, <2>2, Entries, Zenon
    <2>4. Settled(r)'  BY <1>3, <1>4, <2>3 DEF Settled
    <2> QED BY <1>3, <2>2, <2>4 DEF Entered
  <1>5. CASE ~(body[r].rewritten /\ all) /\ kind[r] = "wloc"
    <2>1. CountWrite(r, all) = <<"passthrough">>
      BY <1>5 DEF CountWrite, OnlyTarget, Target
    <2>2. log' \in [Request -> Seq(Observed)] /\ log'[r] = log[r] \o <<"passthrough">>
      BY <1>1, <1>2, <2>1, EventTypes, RecordType
    <2>3. ASSUME log[r] = <<"target">> PROVE Passed(log'[r])
      BY <2>2, <2>3, Entries, Zenon DEF Passed
    <2>4. ASSUME NEW f \in Failure, log[r] = <<"target", f>> PROVE Passed(log'[r])
      BY <2>2, <2>4, FailureEntries, Zenon DEF Passed
    <2>5. Passed(log'[r])
      <3>1. log[r] = <<"target">> \/ \E f \in Failure : log[r] = <<"target", f>>
        BY <1>1, <1>5 DEF Begun
      <3> QED BY <2>3, <2>4, <3>1, Zenon
    <2>6. Settled(r)'  BY <1>3, <1>5, <2>5 DEF Settled
    <2> QED BY <1>3, <2>2, <2>6 DEF Entered
  <1>6. CASE kind[r] = "other" /\ ~body[r].rewritten
    <2>1. CountWrite(r, all) = <<>> /\ log[r] = <<>>
      BY <1>1, <1>6 DEF CountWrite, OnlyTarget, Target, Begun
    <2>2. log' \in [Request -> Seq(Observed)] /\ log'[r] = log[r] \o <<>>
      BY <1>1, <1>2, <2>1, EventTypes, RecordType
    <2>3. log'[r] = <<>>  BY <2>1, <2>2, Entries, Zenon
    <2>4. Settled(r)'  BY <1>3, <1>6, <2>3 DEF Settled
    <2> QED BY <1>3, <2>2, <2>4 DEF Entered
  <1> QED BY <1>1, <1>4, <1>5, <1>6

LEMMA NothingRewritten == ~NoBody.rewritten
  BY Zenon DEF NoBody

LEMMA OwnEntries ==
  ASSUME TypeOK, Ledger, NEW r \in Request, Arrive(r) \/ Busy(r) \/ Handle(r)
  PROVE  log' \in [Request -> Seq(Observed)] /\ Entered(r)'
  <1>0. Entered(r) /\ log \in [Request -> Seq(Observed)]  BY DEF Ledger
  <1>1. CASE Arrive(r)
    BY <1>0, <1>1 DEF TypeOK, Entered, Arrive, Goto
  <1>2. CASE Busy(r)
    BY <1>0, <1>2 DEF Entered, Busy
  <1>3. CASE Acquire(r)
    BY <1>0, <1>3 DEF TypeOK, Entered, Acquire, Goto
  <1>4. CASE AcquireRefused(r)
    <2>1. pc'[r] = "leave" /\ sent'[r] = "error" /\ log'[r] = <<>> /\ ~body'[r].rewritten
      BY <1>0, <1>4 DEF TypeOK, Entered, AcquireRefused, Goto
    <2> QED BY <1>0, <1>4, <2>1 DEF AcquireRefused, Entered, Settled
  <1>5. CASE Screen(r)
    <2>1. log[r] = <<>> /\ ~body[r].rewritten  BY <1>0, <1>5 DEF Entered, Screen
    <2>2. CASE Answer(r, <<>>) \/ Answer(r, <<"target">>)
      BY <2>1, <2>2, AnswerEnters
    <2>3. CASE /\ kind[r] \in {"other", "wloc"} /\ Record(r, OnlyTarget(r, "target"))
               /\ Goto(r, "screened") /\ UNCHANGED <<kind, work, budget, body, header, sent>>
      <3>1. OnlyTarget(r, "target") = Begun(r)  BY <2>3 DEF OnlyTarget, Target, Begun
      <3>2. Begun(r) \in Seq(Observed) /\ <<>> \o Begun(r) = Begun(r)
        <4>1. CASE kind[r] = "wloc"
          BY <4>1, EventTypes, Entries DEF Begun
        <4>2. CASE kind[r] # "wloc"
          BY <4>2, EventTypes, Entries DEF Begun
        <4> QED BY <4>1, <4>2
      <3>3. log' \in [Request -> Seq(Observed)] /\ log'[r] = Begun(r)
        BY <1>0, <2>1, <2>3, <3>1, <3>2, RecordType
      <3>4. pc'[r] = "screened"  BY <2>3 DEF TypeOK, Goto
      <3> QED BY <2>1, <2>3, <3>3, <3>4 DEF Entered, Begun
    <2> QED BY <1>5, <2>2, <2>3 DEF Screen, TypeOK, Kind
  <1>6. CASE RoundTrip(r)
    BY <1>0, <1>6 DEF TypeOK, Entered, RoundTrip, Goto, Begun
  <1>7. CASE RoundTripFails(r) \/ ReadFails(r)
    <2>1. ~body[r].rewritten /\ (log[r] = <<>> \/ log[r] = <<"target">>)
      BY <1>0, <1>7 DEF Entered, Begun, RoundTripFails, ReadFails
    <2> QED BY <1>7, <2>1, AnswerEnters DEF RoundTripFails, ReadFails
  <1>8. CASE ReadBounded(r)
    <2>1. pc'[r] = "rewrite" /\ body'[r].rewritten = FALSE /\ UNCHANGED <<kind, sent, log>>
      BY <1>8 DEF TypeOK, ReadBounded, Goto
    <2> QED BY <1>0, <1>8, <2>1 DEF Entered, Begun, ReadBounded
  <1>9. CASE ReleaseBudget(r)
    BY <1>0, <1>9 DEF TypeOK, Entered, Settled, ReleaseBudget, Goto
  <1>10. CASE Leave(r)
    <2>1. pc'[r] = "idle" /\ body'[r] = NoBody /\ log'[r] = <<>>
      BY <1>0, <1>10 DEF TypeOK, Leave, Goto
    <2>2. log' \in [Request -> Seq(Observed)]  BY <1>0, <1>10, EventTypes DEF Leave
    <2>3. ~body'[r].rewritten  BY <2>1, NothingRewritten
    <2> QED BY <2>1, <2>2, <2>3 DEF Entered
  <1> QED BY <1>1, <1>2, <1>3, <1>4, <1>5, <1>6, <1>7, <1>8, <1>9, <1>10, StreamEnters,
             RewriteEnters, WriteEnters DEF Handle

LEMMA LedgerStep == TypeOK /\ Ledger /\ [Next]_vars => Ledger'
  <1> SUFFICES ASSUME TypeOK, Ledger, [Next]_vars PROVE Ledger'  OBVIOUS
  <1>1. CASE UNCHANGED vars
    BY <1>1 DEF vars, Ledger, Entered, Settled, Begun
  <1>2. ASSUME NEW r \in Request, Arrive(r) \/ Busy(r) \/ Handle(r) PROVE Ledger'
    BY <1>2, OwnEntries, Frame DEF Ledger
  <1> QED BY <1>1, <1>2 DEF Next

LEMMA InitLedger == Init => Ledger
  <1> SUFFICES ASSUME Init PROVE Ledger  OBVIOUS
  <1>1. log \in [Request -> Seq(Observed)]  BY EventTypes DEF Init
  <1>2. \A r \in Request : pc[r] = "idle" /\ log[r] = <<>> /\ body[r] = NoBody  BY DEF Init
  <1>3. \A r \in Request : ~body[r].rewritten  BY <1>2, NothingRewritten
  <1>4. \A r \in Request : Entered(r)  BY <1>2, <1>3 DEF Entered
  <1> QED BY <1>1, <1>4 DEF Ledger

LEMMA LedgerKept == Spec => []Ledger
  <1>1. TypeOK /\ Ledger /\ [Next]_vars => Ledger'  BY LedgerStep
  <1> QED BY <1>1, InitLedger, TypeCorrect, PTL DEF Spec

LEMMA SettledCounts ==
  ASSUME NEW r \in Request, Settled(r)
  PROVE  /\ Count(r, "modified") + Count(r, "passthrough")
              = IF Count(r, "target") = 1 /\ sent[r] \in {"part", "all"} THEN 1 ELSE 0
         /\ Count(r, "modified") = 1 => log[r] = <<"target", "candidate", "modified">>
         /\ Count(r, "modified") = 1 <=> body[r].rewritten /\ sent[r] = "all"
  <1> DEFINE s == log[r]
  <1>1. \A e \in Observed : Count(r, e) = Tally(s, e)  BY DEF Count, Tally
  <1> HIDE DEF s
  <1>2. CASE sent[r] = "error" /\ ~body[r].rewritten
             /\ s \in {<<>>, <<"target">>, <<"upstreamFailed">>, <<"target", "upstreamFailed">>}
    <2>1. Tally(s, "modified") = 0 /\ Tally(s, "passthrough") = 0  BY <1>2, TallyError
    <2> QED BY <1>1, <1>2, <2>1, EventTypes
  <1>3. CASE sent[r] \in {"part", "all"} /\ ~body[r].rewritten /\ s \in {<<>>, <<"upstreamFailed">>}
    <2>1. Tally(s, "modified") = 0 /\ Tally(s, "passthrough") = 0 /\ Tally(s, "target") = 0
      BY <1>3, TallyError, TallyOther
    <2> QED BY <1>1, <1>3, <2>1, EventTypes
  <1>4. CASE sent[r] \in {"part", "all"} /\ ~(body[r].rewritten /\ sent[r] = "all") /\ Passed(s)
    <2>1. Tally(s, "target") = 1 /\ Tally(s, "modified") = 0 /\ Tally(s, "passthrough") = 1
      BY <1>4, TallyPassed
    <2> QED BY <1>1, <1>4, <2>1, EventTypes
  <1>5. CASE sent[r] = "all" /\ body[r].rewritten /\ s = <<"target", "candidate", "modified">>
    <2>1. Tally(s, "target") = 1 /\ Tally(s, "modified") = 1 /\ Tally(s, "passthrough") = 0
      BY <1>5, TallyModified
    <2> QED BY <1>1, <1>5, <2>1, EventTypes DEF s
  <1> QED BY <1>2, <1>3, <1>4, <1>5 DEF Settled, s

(* The counters of every request balance when handle returns: one that     *)
(* was counted as a target and got a response was counted once as modified *)
(* or as passed through, and a modified one has no failure against it.     *)
THEOREM CountersAlwaysBalance == Spec => []CountersBalance
  <1>1. Ledger => CountersBalance
    BY SettledCounts DEF Ledger, Entered, CountersBalance
  <1> QED BY <1>1, LedgerKept, PTL

(* response_modified is counted exactly for the rewritten bodies that the  *)
(* client got completely, as far as Write says.                            *)
THEOREM ModifiedDelivered == Spec => []ModifiedMeansDelivered
  <1>1. Ledger => ModifiedMeansDelivered
    BY SettledCounts DEF Ledger, Entered, ModifiedMeansDelivered
  <1> QED BY <1>1, LedgerKept, PTL

-----------------------------------------------------------------------------
(* workSlots is a pool of WorkSlots requests: every way in takes one slot  *)
(* that is free, and every return gives back the one that was taken.       *)
WorkPool == INSTANCE Quota WITH Client <- Request, Capacity <- WorkSlots, Share <- 1,
                                holders <- Inside

(* The reservations, as handle sees them, are the pool that ByteBudget     *)
(* implements.                                                             *)
BufferPool == INSTANCE Quota WITH Client <- Request, Capacity <- MaxBuffered,
                                  Share <- Reservation, holders <- budget

(* What the steps of handle do to the two pools: the way in and the way    *)
(* out of one, the grant and the release of the other, and nothing else.   *)
LEMMA PoolSteps ==
  ASSUME IInv, NEW r \in Request, Arrive(r) \/ Busy(r) \/ Handle(r)
  PROVE  /\ WorkPool!Grant(r) \/ WorkPool!Free(r) \/ Inside' = Inside
         /\ BufferPool!Grant(r) \/ BufferPool!Free(r) \/ budget' = budget
  <1>0. TypeOK  BY DEF IInv
  <1>a. WorkPool!Cardinality(Inside) = Cardinality(Inside)
    BY DEF WorkPool!Cardinality, Cardinality
  <1>b. BufferPool!Cardinality(budget) = Cardinality(budget)
    BY DEF BufferPool!Cardinality, Cardinality
  <1>1. CASE Arrive(r)
    <2>1. r \notin Inside /\ Inside' = Inside \cup {r}
      BY <1>0, <1>1, Moves DEF Arrive, Inside
    <2>2. Cardinality(Inside) < WorkSlots  BY <1>1 DEF IInv, WorkSlotsMatch, Arrive
    <2>3. Cardinality(Inside) \in Nat  BY InsideFinite, FS_CardinalityType
    <2>4. 1 * (Cardinality(Inside) + 1) <= WorkSlots  BY <2>2, <2>3, SlotsType
    <2>5. WorkPool!Grant(r)  BY <1>a, <2>1, <2>4 DEF WorkPool!Grant
    <2>6. budget' = budget  BY <1>1 DEF Arrive
    <2> QED BY <2>5, <2>6
  <1>2. CASE Busy(r)
    BY <1>2 DEF Busy, Inside
  <1>3. CASE Acquire(r)
    <2>1. Inside' = Inside  BY <1>0, <1>3, Moves DEF Acquire, Inside
    <2>2. r \notin budget  BY <1>3 DEF IInv, BuffersReserved, Acquire
    <2>3. Reservation * (Cardinality(budget) + 1) <= MaxBuffered /\ budget' = budget \cup {r}
      BY <1>3 DEF Acquire
    <2>4. BufferPool!Grant(r)  BY <1>b, <2>2, <2>3 DEF BufferPool!Grant
    <2> QED BY <2>1, <2>4
  <1>4. CASE ReleaseBudget(r)
    <2>1. Inside' = Inside  BY <1>0, <1>4, Moves DEF ReleaseBudget, Inside
    <2>2. r \in budget  BY <1>4 DEF IInv, BuffersReserved, ReleaseBudget
    <2> QED BY <1>4, <2>1, <2>2 DEF ReleaseBudget, BufferPool!Free
  <1>5. CASE Leave(r)
    <2>1. r \in Inside /\ Inside' = Inside \ {r}
      BY <1>0, <1>5, Moves DEF Leave, Inside
    <2> QED BY <1>5, <2>1 DEF Leave, WorkPool!Free
  <1>6. CASE \/ AcquireRefused(r) \/ Screen(r) \/ RoundTrip(r) \/ RoundTripFails(r)
             \/ ReadBounded(r) \/ ReadFails(r) \/ Stream(r) \/ Rewrite(r) \/ Write(r)
    <2>1. budget' = budget
      BY <1>6 DEF AcquireRefused, Screen, RoundTrip, RoundTripFails, ReadBounded, ReadFails,
         Stream, Rewrite, Write, Answer
    <2>2. PICK next \in {"leave", "unwind", "screened", "headers", "rewrite", "write"} :
            Goto(r, next)
      BY <1>6 DEF AcquireRefused, Screen, RoundTrip, RoundTripFails, ReadBounded, ReadFails,
         Stream, Rewrite, Write, Answer
    <2>3. r \in Inside
      BY <1>6 DEF Inside, AcquireRefused, Screen, RoundTrip, RoundTripFails, ReadBounded, ReadFails,
         Stream, Rewrite, Write
    <2>4. Inside' = Inside  BY <1>0, <2>2, <2>3, Moves
    <2> QED BY <2>1, <2>4
  <1> QED BY <1>1, <1>2, <1>3, <1>4, <1>5, <1>6 DEF Handle

(* However its many returns are taken, handle uses workSlots as the        *)
(* abstract pool: never more requests inside than SetLimits allows, and no *)
(* slot given back that was not taken.                                     *)
THEOREM WorkSlotsRefinement == Spec => WorkPool!Spec
  <1>1. Init => WorkPool!Init  BY DEF Init, WorkPool!Init, Inside
  <1>2. IInv /\ [Next]_vars => [WorkPool!Next]_Inside
    BY PoolSteps DEF Next, vars, Inside, WorkPool!Next
  <1> QED BY <1>1, <1>2, Invariance, PTL DEF Spec, WorkPool!Spec

(* handle asks for a reservation once and returns what it was given, so    *)
(* that its budget is the pool the monitor of ByteBudget implements: the   *)
(* two modules agree on the interface between them.                        *)
THEOREM BudgetRefinement == Spec => BufferPool!Spec
  <1>1. Init => BufferPool!Init  BY DEF Init, BufferPool!Init
  <1>2. IInv /\ [Next]_vars => [BufferPool!Next]_budget
    BY PoolSteps DEF Next, vars, BufferPool!Next
  <1> QED BY <1>1, <1>2, Invariance, PTL DEF Spec, BufferPool!Spec
=============================================================================

------------------------------- MODULE MCWLoc -------------------------------
(***************************************************************************)
(* WLoc against a reference.  A message is put together from parts that    *)
(* carry both what is sent and what must come out, so that the reference   *)
(* never parses anything.  It is wrapped in one of the envelopes, perhaps  *)
(* damaged on the way, and rewritten.                                      *)
(***************************************************************************)
EXTENDS WLoc, FiniteSetsExt

CONSTANT Junk   \* bytes that damage may write

(* The bytes of the envelopes go up to 9. *)
ASSUME MCWLocAssumption == Junk \subseteq Byte /\ 9 \in Byte

VARIABLES sent,    \* the message, its envelope and the rewritten payload
          body,    \* the bytes that arrive
          damage,  \* what happened to them
          result   \* what RewriteBody says

vars == <<sent, body, damage, result>>

(* The profile: no motion type, a confidence, a zero and a negative value. *)
Vals == [num \in {1, 2, 3, 5, 6, 12} |->
           CASE num = 1 -> -3 [] num = 2 -> 100 [] num = 3 -> 0 [] OTHER -> num]

-----------------------------------------------------------------------------
(* The parts of a message. *)
Same(b) == [old |-> b, new |-> b, n |-> 0]

Counted(b, n) == PutBigEndian(Len(b), n) \o b

Number == Same(key(1, 0) \o i64(77))

(* A field whose bytes look like a marker and a payload behind it. *)
Hidden == Same(Delimited(7, Marker \o Counted(Number.old, 2)))

Pairs(l) == FlattenSeq([i \in DOMAIN l |-> key(l[i][1], 0) \o i64(l[i][2])])

Numbers(l) == {l[i][1] : i \in DOMAIN l}

(* A location lists field numbers and values. *)
Moved(l) ==
  LET added == SetToSortSeq(DOMAIN Vals \ Numbers(l), <)
  IN  [i \in DOMAIN l |-> IF l[i][1] \in DOMAIN Vals THEN <<l[i][1], Vals[l[i][1]]>> ELSE l[i]]
      \o [i \in DOMAIN added |-> <<added[i], Vals[added[i]]>>]

Location(num, l) ==
  IF {1, 2} \subseteq Numbers(l)
  THEN [old |-> Delimited(num, Pairs(l)), new |-> Delimited(num, Pairs(Moved(l))), n |-> 1]
  ELSE Same(Delimited(num, Pairs(l)))

(* The fields of a location where a record does not keep its location. *)
Elsewhere(num, l) == Same(Delimited(num, Pairs(l)))

Message(parts) ==
  [old |-> FlattenSeq([i \in DOMAIN parts |-> parts[i].old]),
   new |-> FlattenSeq([i \in DOMAIN parts |-> parts[i].new]),
   n |-> MapThenSumSet(LAMBDA i : parts[i].n, DOMAIN parts),
   hides |-> \E i \in DOMAIN parts : parts[i] = Hidden,
   fields |-> Len(parts)]

Record(num, parts) ==
  LET m == Message(parts)
  IN  [old |-> Delimited(num, m.old), new |-> Delimited(num, m.new), n |-> m.n]

Place == <<<<1, 5>>, <<2, -9>>>>
FullPlace == <<<<4, 7>>, <<1, 5>>, <<2, 9>>, <<1, 6>>, <<3, 1>>, <<12, 0>>>>
NoPlace == <<<<1, 5>>, <<3, 2>>>>

Fixed == Same(key(3, 5) \o <<0, 1, 0, 0>>)
Padding(n) == Same(Delimited(7, [i \in 1..n |-> 0]))

Parts ==
  {Number, Fixed, Padding(3), Hidden,
   Record(2, <<Location(2, Place)>>), Record(2, <<Number, Location(2, FullPlace)>>),
   Record(2, <<Location(2, NoPlace)>>), Record(22, <<Location(5, Place), Elsewhere(2, Place)>>),
   Record(24, <<Elsewhere(2, FullPlace), Location(5, FullPlace), Location(5, NoPlace)>>)}

(* Each message has one part or two. *)
Short == {Message(<<p>>) : p \in Parts}
Long == {Message(<<p, q>>) : p \in Parts, q \in Parts}

(* Payloads that meet a limit: the lengths that just fit two bytes once    *)
(* rewritten and that just do not, and one field too many.                 *)
AtLimit == {Message(<<Padding(n), Record(2, <<Location(2, Place)>>)>>) : n \in 216..219}
             \cup {Message([i \in 1..n |-> IF i = 1 THEN Record(2, <<Location(2, Place)>>)
                                                    ELSE Number]) : n \in {MaxFields, MaxFields + 1}}

-----------------------------------------------------------------------------
Trailer == <<9, 9>>
Envelope(kind, p) ==
  CASE kind = "fixed-prefix" -> <<0, 1, 0, 0, 0, 3, 0, 0>> \o Counted(p, 2) \o Trailer
    [] kind = "arpc" -> <<0, 1>> \o Counted(<<5, 6>>, 2) \o Counted(<<7>>, 2) \o Counted(<<>>, 2)
                        \o <<0, 0, 0, 1>> \o Counted(p, 4) \o Trailer
    [] kind = "marker" -> <<8>> \o Marker \o Counted(p, 2) \o Trailer
    [] kind = "markers" -> <<8>> \o Marker \o Counted(p, 2) \o Marker \o Counted(Number.old, 2)
    [] kind = "bare" -> p

Kinds == {"fixed-prefix", "arpc", "marker", "markers", "bare"}

Init == /\ sent \in [kind : Kinds, m : Short \cup Long \cup AtLimit]
        /\ body = Envelope(sent.kind, sent.m.old)
        /\ damage = "none"
        /\ result = Skip

(* The end is lost, or one byte is not what it was. *)
Cut(i) == /\ damage = "none" /\ result = Skip
          /\ sent.m \notin AtLimit
          /\ body' = UpTo(body, i)
          /\ damage' = "cut"
          /\ UNCHANGED <<sent, result>>

Flip(i) == /\ damage = "none" /\ result = Skip
           /\ sent.m \notin AtLimit
           /\ \E c \in Junk \ {body[i]} : body' = ReplaceAt(body, i, c)
           /\ damage' = "flip"
           /\ UNCHANGED <<sent, result>>

Rewrite == /\ result = Skip
           /\ result' = RewriteBody(body, Vals)
           /\ UNCHANGED <<sent, body, damage>>

Next == \/ \E i \in 0..Len(body) - 1 : Cut(i)
        \/ \E i \in DOMAIN body : Flip(i)
        \/ Rewrite

Spec == Init /\ [][Next]_vars

-----------------------------------------------------------------------------
TwoMarkers == sent.kind = "markers" \/ (sent.kind = "marker" /\ sent.m.hides)

Fits == /\ Len(body) <= MaxMessage
        /\ sent.m.fields <= MaxFields
        /\ sent.kind \in {"fixed-prefix", "marker"} => Len(sent.m.new) <= MaxUint16

(* What is to come of an undamaged message: exactly its locations moved,   *)
(* in every length around them too; refused when there is no location,     *)
(* when a limit is passed, or when there are two markers, be the second    *)
(* one only in the bytes of a field.                                       *)
RewrittenExactly ==
  damage = "none" /\ result # Skip =>
    /\ result.ok <=> ~TwoMarkers /\ sent.m.n > 0 /\ Fits
    /\ result.ok => /\ result.kind = sent.kind /\ result.n = sent.m.n
                    /\ result.out = Envelope(sent.kind, sent.m.new)

(* Whatever arrives, an answer is the envelope that came, its bytes before *)
(* and behind the payload kept and its length that of the new payload,     *)
(* around the same fields.  Only locations differ: each says the profile's *)
(* values, all of them and nothing else, and keeps what the profile does   *)
(* not set.  (The fields added may take a location past the limit of       *)
(* fields, and then not even this parser reads it again.)                  *)
Alike(f, g) == f.num = g.num /\ f.wire = g.wire

Says(fs, num) ==
  {readVarint(fs[i].value, 1).v : i \in {j \in DOMAIN fs : fs[j].wire = 0 /\ fs[j].num = num}}

LocationMoved(old, new, vals) ==
  /\ Len(old) <= Len(new)
  /\ \A i \in DOMAIN old :
       Alike(old[i], new[i]) /\ (sets(vals, old[i]) \/ new[i].raw = old[i].raw)
  /\ \A i \in DOMAIN new : i > Len(old) => sets(vals, new[i])
  /\ \A num \in DOMAIN vals : Says(new, num) = {vals[num] % Width}

IsLocation(f, record) == f.wire = 2 /\ f.num = IF record = 2 THEN 2 ELSE 5

RecordMoved(old, new, record, vals) ==
  /\ Len(new) = Len(old)
  /\ \A i \in DOMAIN old :
       /\ Alike(old[i], new[i])
       /\ IF IsLocation(old[i], record) /\ hasLocation(parse(old[i].value, 2).fs)
          THEN parse(new[i].value, 2).ok =>
                 LocationMoved(parse(old[i].value, 2).fs, parse(new[i].value, 2).fs, vals)
          ELSE new[i].raw = old[i].raw

IsRecord(f) == f.wire = 2 /\ f.num \in {2, 22, 24}

MessageMoved(old, new, vals) ==
  /\ Len(new) = Len(old)
  /\ \A i \in DOMAIN old :
       /\ Alike(old[i], new[i])
       /\ IF IsRecord(old[i])
          THEN /\ parse(new[i].value, 1).ok
               /\ RecordMoved(parse(old[i].value, 1).fs, parse(new[i].value, 1).fs, old[i].num, vals)
          ELSE new[i].raw = old[i].raw

(* The new payload where the old one was.  The other envelopes are found   *)
(* again as they were; the bytes of a marker may also occur in what the    *)
(* profile says.                                                           *)
Reread(out, kind, u) == IF kind = "marker" THEN Payload(out, u.at, u.n) ELSE unwrap(out, kind)

EnvelopeKept(b, out, u, w) ==
  /\ u.ok /\ w.ok /\ w.at = u.at /\ w.n = u.n
  /\ UpTo(out, u.at - 1) = UpTo(b, u.at - 1)
  /\ From(out, w.at + w.n + Len(w.p)) = From(b, u.at + u.n + Len(u.p))

(* A length is a number of the machine. *)
Addressable(out) == Len(out) < Width /\ Len(out) <= MaxUint32

WellFormed(b, vals, r) ==
  r.ok /\ Addressable(r.out) =>
    LET u == unwrap(b, r.kind)
        w == Reread(r.out, r.kind, u)
    IN  EnvelopeKept(b, r.out, u, w) /\ MessageMoved(parse(u.p, 0).fs, parse(w.p, 0).fs, vals)

AnswerWellFormed == result # Skip => WellFormed(body, Vals, result)

(* An enveloped payload that is cut short is refused, and never rewritten  *)
(* as something else.                                                      *)
CutIsRefused ==
  damage = "cut" /\ result # Skip /\ sent.kind \in {"fixed-prefix", "arpc", "marker"} =>
    ~result.ok \/ Len(body) >= Len(Envelope(sent.kind, sent.m.old)) - Len(Trailer)
=============================================================================

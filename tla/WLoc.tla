-------------------------------- MODULE WLoc --------------------------------
(***************************************************************************)
(* package applewloc: the rewriting of a WLoc response body.  A body is a  *)
(* sequence of bytes; a profile is the function from location fields to    *)
(* the integers that location would write there.  The sizes that a model   *)
(* checker cannot reach are constants: with Half = 128, Groups = 10,       *)
(* NumWidth = 2^32, NumLimit = 2^29 the operators are those of the         *)
(* package.  Loops are recursive functions.                                *)
(***************************************************************************)
EXTENDS Integers, Sequences, FiniteSets, SequencesExt

CONSTANTS Half,       \* values of all bits of a byte but the highest
          Groups,     \* bytes a varint has at most
          NumWidth,   \* values of the type of a field number
          NumLimit,   \* the first field number that is refused
          MaxMessage, MaxFields, MaxDepth

Base == 2 * Half
Byte == 0..Base - 1
MaxUint16 == Base * Base - 1
MaxUint32 == Base * Base * Base * Base - 1

(* The values of a varint: one bit in the last byte allowed, and a group   *)
(* in each of the k bytes before it.                                       *)
Capacity[k \in Nat] == IF k = 0 THEN 2 ELSE Half * Capacity[k - 1]
Width == Capacity[Groups - 1]

(* The fields of a location that a profile may set, in the order in which  *)
(* the missing ones are added.                                             *)
Order == <<1, 2, 3, 5, 6, 11, 12>>

ASSUME WLocAssumption ==
  /\ {Half, Groups} \subseteq Nat \ {0, 1}
  /\ {NumWidth, NumLimit, MaxMessage, MaxFields, MaxDepth} \subseteq Nat
  /\ 12 < NumLimit /\ NumLimit <= NumWidth /\ 8 * NumLimit <= Width

Malformed == [ok |-> FALSE, err |-> "malformed"]
Ambiguous == [ok |-> FALSE, err |-> "ambiguous"]
Unsupported == [ok |-> FALSE, err |-> "unsupported"]

From(b, i) == SubSeq(b, i, Len(b))
UpTo(b, i) == SubSeq(b, 1, i)

-----------------------------------------------------------------------------
(* readVarint at position i: low groups first, the last byte allowed holds *)
(* the one bit that is left.  readGroups(b, i)[k] is what it makes of the  *)
(* bytes from the k-th on.                                                 *)
Continued(low, rest) ==
  IF rest.ok THEN [ok |-> TRUE, n |-> rest.n + 1, v |-> low + Half * rest.v] ELSE Malformed

readGroups(b, i) ==
  LET read[k \in 0..Groups] ==
        IF k = Groups \/ i + k > Len(b) THEN Malformed
        ELSE IF k = Groups - 1 /\ b[i + k] > 1 THEN Malformed
        ELSE IF b[i + k] < Half THEN [ok |-> TRUE, n |-> 1, v |-> b[i + k]]
        ELSE Continued(b[i + k] - Half, read[k + 1])
  IN  read

readVarint(b, i) == readGroups(b, i)[0]

encVarint[v \in Nat] ==
  IF v < Half THEN <<v>> ELSE <<Half + (v % Half)>> \o encVarint[v \div Half]

key(num, wire) == encVarint[num * 8 + wire]
i64(v) == encVarint[v % Width]

Delimited(num, b) == key(num, 2) \o encVarint[Len(b)] \o b

(* One field of parse: its key k, the length or number len that follows a  *)
(* key of wire type 0 or 2, and its value; next is where it ends.          *)
fieldSpan(b, i, num, wire, first, size) ==
  IF first + size - 1 > Len(b) THEN Malformed
  ELSE [ok |-> TRUE, num |-> num, wire |-> wire, next |-> first + size,
        raw |-> SubSeq(b, i, first + size - 1),
        value |-> SubSeq(b, first, first + size - 1)]

fieldValue(b, i, num, wire, at, len) ==
  IF ~len.ok THEN Malformed
  ELSE CASE wire = 0 -> fieldSpan(b, i, num, wire, at, len.n)
         [] wire = 1 -> fieldSpan(b, i, num, wire, at, 8)
         [] wire = 2 -> fieldSpan(b, i, num, wire, at + len.n, len.v)
         [] wire = 5 -> fieldSpan(b, i, num, wire, at, 4)

fieldKeyed(b, i, k) ==
  LET wire == k.v % 8
      num == (k.v \div 8) % NumWidth
  IN  IF ~k.ok THEN Malformed
      ELSE IF num = 0 \/ num >= NumLimit \/ wire \notin {0, 1, 2, 5} THEN Malformed
      ELSE fieldValue(b, i, num, wire, i + k.n,
                      IF wire \in {0, 2} THEN readVarint(b, i + k.n) ELSE [ok |-> TRUE])

fieldAt(b, i) == fieldKeyed(b, i, readVarint(b, i))

(* A field and the ones that follow it. *)
Prepend(f, rest) == IF rest.ok THEN [ok |-> TRUE, fs |-> <<f>> \o rest.fs] ELSE Malformed
AndAfter(f, fields) == IF f.ok THEN Prepend(f, fields[f.next]) ELSE Malformed

fieldsFrom(b) ==
  LET fields[i \in 1..Len(b) + 1] ==
        IF i > Len(b) THEN [ok |-> TRUE, fs |-> <<>>] ELSE AndAfter(fieldAt(b, i), fields)
  IN  fields

fieldsOf(b) == fieldsFrom(b)[1]

Limited(all) == IF all.ok /\ Len(all.fs) > MaxFields THEN Malformed ELSE all

parse(b, depth) == IF depth > MaxDepth THEN Malformed ELSE Limited(fieldsOf(b))

-----------------------------------------------------------------------------
hasLocation(fs) ==
  \A num \in {1, 2} : \E i \in DOMAIN fs : fs[i].wire = 0 /\ fs[i].num = num

(* What a loop over fields makes of the parts it puts out.  The loops take *)
(* the fields parse has found.                                             *)
Part(n, out) == [ok |-> TRUE, n |-> n, out |-> out]
Both(a, p) == IF a.ok /\ p.ok THEN Part(a.n + p.n, a.out \o p.out) ELSE Malformed

joinedUpTo(parts) ==
  LET joined[i \in 0..Len(parts)] ==
        IF i = 0 THEN Part(0, <<>>) ELSE Both(joined[i - 1], parts[i])
  IN  joined

Join(parts) == joinedUpTo(parts)[Len(parts)]

(* location: the profile's fields in place, the ones it lacks at the end. *)
sets(vals, f) == f.wire = 0 /\ f.num \in DOMAIN vals
written(vals, num) == key(num, 0) \o i64(vals[num])
lacks(fs, vals, num) ==
  num \in DOMAIN vals /\ ~\E i \in DOMAIN fs : sets(vals, fs[i]) /\ fs[i].num = num

location(fs, vals) ==
  LET kept == [i \in DOMAIN fs |->
                 Part(0, IF sets(vals, fs[i]) THEN written(vals, fs[i].num) ELSE fs[i].raw)]
      added == [j \in DOMAIN Order |->
                  Part(0, IF lacks(fs, vals, Order[j]) THEN written(vals, Order[j]) ELSE <<>>)]
  IN  Join(kept \o added).out

moved(f, loc, vals) ==
  IF ~loc.ok THEN Malformed
  ELSE IF hasLocation(loc.fs) THEN Part(1, Delimited(f.num, location(loc.fs, vals)))
  ELSE Part(0, f.raw)

rewriteRecord(top, vals, recordType, depth) ==
  LET locationField == IF recordType = 2 THEN 2 ELSE 5
      part(f) == IF f.wire = 2 /\ f.num = locationField
                 THEN moved(f, parse(f.value, depth + 1), vals)
                 ELSE Part(0, f.raw)
  IN  IF top.ok THEN Join([i \in DOMAIN top.fs |-> part(top.fs[i])]) ELSE Malformed

replaced(f, child) ==
  IF ~child.ok THEN Malformed
  ELSE IF child.n > 0 THEN Part(child.n, Delimited(f.num, child.out))
  ELSE Part(0, f.raw)

rewriteProto(top, vals, depth) ==
  LET part(f) == IF f.wire = 2 /\ f.num \in {2, 22, 24}
                 THEN replaced(f, rewriteRecord(parse(f.value, depth + 1), vals, f.num, depth + 1))
                 ELSE Part(0, f.raw)
  IN  IF top.ok THEN Join([i \in DOMAIN top.fs |-> part(top.fs[i])]) ELSE Malformed

-----------------------------------------------------------------------------
(* The envelopes: where the payload is, and how many bytes in front of it  *)
(* hold its length.                                                        *)
Uint16(b, i) == Base * b[i] + b[i + 1]
BigEndian(b, i, n) ==
  IF n = 2 THEN Uint16(b, i) ELSE Base * Base * Uint16(b, i) + Uint16(b, i + 2)

PutUint16(v) == <<(v \div Base) % Base, v % Base>>
PutBigEndian(v, n) ==
  CASE n = 0 -> <<>>
    [] n = 2 -> PutUint16(v)
    [] n = 4 -> PutUint16(v \div (Base * Base)) \o PutUint16(v)

NoPayload == [ok |-> FALSE, err |-> "none"]

(* A mistake: a payload that stops short of its length is taken as it is. *)
PayloadShort(b, at, n) ==
  LET l == BigEndian(b, at, n)
      p == SubSeq(b, at + n, Min({Len(b), at + n + l - 1}))
  IN  IF Len(b) < at + n - 1 \/ ~parse(p, 0).ok THEN NoPayload
      ELSE [ok |-> TRUE, p |-> p, at |-> at, n |-> n]

(* l is an int of 64 bits, as on the targets the package is built for: the *)
(* four bytes of an arpc length never make it negative.                    *)
Payload(b, at, n) ==
  LET l == BigEndian(b, at, n)
      p == SubSeq(b, at + n, at + n + l - 1)
  IN  IF Len(b) < at + n - 1 THEN NoPayload
      ELSE IF l > Len(b) - (at + n - 1) THEN NoPayload
      ELSE IF ~parse(p, 0).ok THEN NoPayload
      ELSE [ok |-> TRUE, p |-> p, at |-> at, n |-> n]

looksLikeFixedPrefix(b) ==
  Len(b) >= 8 /\ UpTo(b, 5) = <<0, 1, 0, 0, 0>> /\ SubSeq(b, 7, 8) = <<0, 0>>

(* Three strings, each after its length, behind the first two bytes. *)
AfterString(b, i) ==
  IF i = 0 \/ i + 1 > Len(b) \/ Uint16(b, i) > Len(b) - (i + 1) THEN 0 ELSE i + 2 + Uint16(b, i)
AfterStrings(b) == AfterString(b, AfterString(b, AfterString(b, 3)))

Marker == <<0, 0, 0, 1, 0, 0>>
MarkedPayloads(b) ==
  {u \in {Payload(b, i + 6, 2) : i \in {j \in 1..Len(b) - 7 : SubSeq(b, j, j + 5) = Marker}} : u.ok}

(* A mistake: the first of several markers is taken. *)
FirstMarked(marked) ==
  IF marked = {} THEN NoPayload ELSE CHOOSE u \in marked : \A w \in marked : u.at <= w.at

TheMarked(marked) ==
  IF marked = {} THEN NoPayload
  ELSE IF Cardinality(marked) > 1 THEN Ambiguous
  ELSE CHOOSE u \in marked : TRUE

unwrap(b, kind) ==
  CASE kind = "fixed-prefix" ->
         IF looksLikeFixedPrefix(b) THEN Payload(b, 9, 2) ELSE NoPayload
    [] kind = "arpc" ->
         IF AfterStrings(b) = 0 \/ Len(b) - AfterStrings(b) + 1 < 8 THEN NoPayload
         ELSE Payload(b, AfterStrings(b) + 4, 4)
    [] kind = "marker" -> TheMarked(MarkedPayloads(b))
    [] kind = "bare" -> IF parse(b, 0).ok THEN [ok |-> TRUE, p |-> b, at |-> 1, n |-> 0]
                                          ELSE NoPayload

(* A mistake: the length that was there is left. *)
wrapOldLength(b, u, x) ==
  UpTo(b, u.at + u.n - 1) \o x \o From(b, u.at + u.n + Len(u.p))

wrap(b, u, x) ==
  UpTo(b, u.at - 1) \o PutBigEndian(Len(x), u.n) \o x \o From(b, u.at + u.n + Len(u.p))

(* RewriteBody with one envelope: the answer, or on to the next one. *)
Skip == [ok |-> FALSE, err |-> "skip"]

Wrapped(b, kind, u, r) ==
  IF ~r.ok THEN Malformed
  ELSE IF r.n = 0 THEN Skip
  ELSE IF ~parse(r.out, 0).ok THEN Malformed
  ELSE IF kind \in {"fixed-prefix", "marker"} /\ Len(r.out) > MaxUint16 THEN Malformed
  ELSE [ok |-> TRUE, kind |-> kind, n |-> r.n, out |-> wrap(b, u, r.out)]

RewriteAs(b, kind, vals, u) ==
  IF u = Ambiguous THEN Ambiguous
  ELSE IF ~u.ok THEN Skip
  ELSE Wrapped(b, kind, u, rewriteProto(parse(u.p, 0), vals, 0))

OrElse(r, next) == IF r = Skip THEN next ELSE r

RewriteBody(b, vals) ==
  LET as(kind) == RewriteAs(b, kind, vals, unwrap(b, kind))
  IN  IF Len(b) > MaxMessage THEN Malformed
      ELSE OrElse(as("fixed-prefix"),
                  OrElse(as("arpc"), OrElse(as("marker"), OrElse(as("bare"), Unsupported))))
=============================================================================

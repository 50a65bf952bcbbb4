----------------------------- MODULE WLocProofs -----------------------------
(***************************************************************************)
(* The codec for bytes of any size, varints of any length and bodies of    *)
(* any bytes.  The loops of the package are recursive functions; what they *)
(* compute is shown by induction on sets: the least number that is not in  *)
(* the set would have to be.                                               *)
(***************************************************************************)
EXTENDS MCWLoc, SequenceTheorems, WellFoundedInduction, TLAPS

LEMMA Least ==
  ASSUME NEW S, S \subseteq Nat, S # {}
  PROVE  \E x \in S : \A y \in S : x <= y
  <1>1. PICK x \in S : \A y \in S : ~(<<y, x>> \in OpToRel(<, Nat))
    BY NatLessThanWellFounded, WFMin, Zenon
  <1>2. ASSUME NEW y \in S PROVE ~(y < x)
    BY <1>1, Zenon DEF OpToRel
  <1>3. \A y \in S : x <= y  BY <1>2
  <1> QED BY <1>3

LEMMA StrongInduction ==
  ASSUME NEW S, \A n \in Nat : (\A m \in 0..n - 1 : m \in S) => n \in S
  PROVE  \A n \in Nat : n \in S
  <1> DEFINE T == {n \in Nat : n \notin S}
  <1>1. ASSUME T # {} PROVE FALSE
    <2>1. PICK x \in T : \A y \in T : x <= y  BY <1>1, Least
    <2>2. \A m \in 0..x - 1 : m \in S  BY <2>1
    <2> QED BY <2>1, <2>2
  <1> QED BY <1>1

LEMMA Induction ==
  ASSUME NEW S, 0 \in S, \A n \in Nat : n \in S => n + 1 \in S
  PROVE  \A n \in Nat : n \in S
  <1>1. ASSUME NEW n \in Nat, \A m \in 0..n - 1 : m \in S PROVE n \in S
    <2>1. CASE n = 0  BY <2>1
    <2>2. CASE n # 0
      <3>1. n - 1 \in Nat /\ n - 1 \in 0..n - 1  BY <2>2
      <3>2. n - 1 \in S  BY <1>1, <3>1
      <3> QED BY <3>1, <3>2
    <2> QED BY <2>1, <2>2
  <1> QED BY <1>1, StrongInduction

(* A function whose value at n depends on the value at one smaller number: *)
(* its beginnings exist, agree, and are together the function.             *)
Begins(g, m, S, base, F, P) ==
  /\ g \in [0..m -> S] /\ g[0] = base
  /\ \A n \in 1..m : g[n] = F[n][g[P[n]]]

LEMMA BeginsMore ==
  ASSUME NEW S, NEW base \in S, NEW F \in [Nat -> [S -> S]], NEW P \in [Nat -> Nat],
         \A n \in Nat \ {0} : P[n] < n,
         NEW m \in Nat, NEW g, Begins(g, m, S, base, F, P)
  PROVE  \E h : Begins(h, m + 1, S, base, F, P)
  <1> DEFINE x == m + 1
             h == [i \in 0..x |-> IF i = x THEN F[x][g[P[x]]] ELSE g[i]]
  <1>1. x \in Nat \ {0} /\ P[x] \in 0..m /\ g[P[x]] \in S  BY DEF Begins
  <1>2. \A i \in 0..m : h[i] = g[i]  OBVIOUS
  <1>3. x \in 0..x /\ h[x] = F[x][g[P[x]]]  OBVIOUS
  <1>4. DOMAIN h = 0..x  OBVIOUS
  <1>5. F[x][g[P[x]]] \in S  BY <1>1
  <1>6. ASSUME NEW i \in 0..x PROVE h[i] \in S
    <2>1. CASE i = x  BY <1>3, <1>5, <2>1
    <2>2. CASE i \in 0..m  BY <1>2, <2>2 DEF Begins
    <2> QED BY <2>1, <2>2
  <1>7. h \in [0..x -> S]  BY <1>6
  <1> HIDE DEF h
  <1>9. h[0] = base  BY <1>2 DEF Begins
  <1>8. ASSUME NEW n \in 1..x PROVE h[n] = F[n][h[P[n]]]
    <2>1. P[n] \in 0..m /\ h[P[n]] = g[P[n]]  BY <1>2
    <2>2. CASE n = x  BY <1>3, <2>1, <2>2
    <2>3. CASE n \in 1..m
      <3>1. h[n] = g[n] /\ g[n] = F[n][g[P[n]]]  BY <1>2, <2>3 DEF Begins
      <3> QED BY <2>1, <3>1
    <2> QED BY <2>2, <2>3
  <1> QED BY <1>7, <1>9, <1>8 DEF Begins

Recursive(S, base, F, P) ==
  /\ base \in S /\ F \in [Nat -> [S -> S]]
  /\ P \in [Nat -> Nat] /\ \A n \in Nat \ {0} : P[n] < n

Computes(f, S, base, F, P) ==
  f \in [Nat -> S] /\ f[0] = base /\ \A n \in Nat \ {0} : f[n] = F[n][f[P[n]]]

LEMMA Recursion ==
  ASSUME NEW S, NEW base, NEW F, NEW P, Recursive(S, base, F, P)
  PROVE  \E f : Computes(f, S, base, F, P)
  <1> USE DEF Recursive
  <1> DEFINE Has(g, m) == Begins(g, m, S, base, F, P)
             T == {m \in Nat : \E g : Has(g, m)}
  <1>1. 0 \in T
    <2>1. Has([i \in 0..0 |-> base], 0)  BY DEF Begins
    <2> QED BY <2>1
  <1>2. ASSUME NEW m \in Nat, m \in T PROVE m + 1 \in T
    <2>1. PICK g : Has(g, m)  BY <1>2
    <2>2. \E h : Has(h, m + 1)  BY <2>1, BeginsMore
    <2> QED BY <2>2
  <1>3. \A m \in Nat : m \in T
    <2> HIDE DEF T
    <2> QED BY <1>1, <1>2, Induction
  <1> DEFINE G(m) == CHOOSE g : Has(g, m)
             f == [n \in Nat |-> G(n)[n]]
  <1>4. \A m \in Nat : Has(G(m), m)
    <2>1. \A m \in Nat : \E g : Has(g, m)  BY <1>3
    <2> HIDE DEF Has
    <2> QED BY <2>1, Zenon
  <1> HIDE DEF G
  <1>5. \A n \in Nat : f[n] = G(n)[n]  OBVIOUS
  <1>6. \A n \in Nat : G(n)[n] \in S  BY <1>4 DEF Begins
  <1>7. f \in [Nat -> S] /\ f[0] = base  BY <1>4, <1>6 DEF Begins
  <1> HIDE DEF f
  <1>8. ASSUME NEW m \in Nat, NEW k \in Nat, m <= k, NEW g, NEW h, Has(g, m), Has(h, k)
        PROVE  \A n \in 0..m : g[n] = h[n]
    <2> DEFINE Equal == {n \in Nat : n <= m => g[n] = h[n]}
    <2>1. ASSUME NEW n \in Nat, \A i \in 0..n - 1 : i \in Equal PROVE n \in Equal
      <3>1. CASE n = 0  BY <1>8, <3>1 DEF Begins
      <3>2. CASE n > m  BY <3>2
      <3>3. CASE n \in 1..m
        <4>1. P[n] \in 0..n - 1 /\ P[n] <= m  BY <3>3
        <4>2. g[P[n]] = h[P[n]]  BY <2>1, <4>1
        <4>3. g[n] = F[n][g[P[n]]] /\ h[n] = F[n][h[P[n]]]  BY <1>8, <3>3 DEF Begins
        <4> QED BY <4>2, <4>3
      <3> QED BY <3>1, <3>2, <3>3
    <2>2. \A n \in Nat : n \in Equal
      <3> HIDE DEF Equal
      <3> QED BY <2>1, StrongInduction
    <2> QED BY <2>2
  <1>9. ASSUME NEW n \in Nat \ {0} PROVE f[n] = F[n][f[P[n]]]
    <2>1. n \in Nat /\ P[n] \in 0..n - 1 /\ P[n] \in Nat /\ P[n] <= n /\ P[n] \in 0..P[n]  OBVIOUS
    <2>2. G(P[n])[P[n]] = G(n)[P[n]]
      <3>1. Begins(G(P[n]), P[n], S, base, F, P) /\ Begins(G(n), n, S, base, F, P)  BY <1>4, <2>1
      <3>2. \A i \in 0..P[n] : G(P[n])[i] = G(n)[i]  BY <1>8, <2>1, <3>1
      <3> QED BY <2>1, <3>2
    <2>3. G(n)[n] = F[n][G(n)[P[n]]]  BY <1>4 DEF Begins
    <2> QED BY <1>5, <2>1, <2>2, <2>3
  <1> QED BY <1>7, <1>9 DEF Computes

-----------------------------------------------------------------------------
LEMMA Sizes == /\ Half \in Nat /\ Half >= 2 /\ Groups \in Nat /\ Groups >= 2
               /\ Base \in Nat /\ Base = 2 * Half
               /\ NumLimit \in Nat /\ NumWidth \in Nat
               /\ MaxFields \in Nat /\ MaxDepth \in Nat /\ MaxMessage \in Nat
  BY WLocAssumption DEF Base

LEMMA CapacityIs ==
  /\ Capacity \in [Nat -> Nat]
  /\ Capacity[0] = 2
  /\ \A k \in Nat : Capacity[k + 1] = Half * Capacity[k]
  <1> DEFINE F == [k \in Nat |-> [c \in Nat |-> Half * c]]
             P == [k \in Nat |-> IF k = 0 THEN 0 ELSE k - 1]
  <1>1. Recursive(Nat, 2, F, P)  BY Sizes DEF Recursive
  <1>2. \A k \in Nat, c \in Nat : F[k][c] = Half * c  OBVIOUS
  <1>3. \A k \in Nat \ {0} : P[k] = k - 1  OBVIOUS
  <1> HIDE DEF F, P
  <1>10. PICK f : Computes(f, Nat, 2, F, P)  BY <1>1, Recursion, Zenon
  <1>4. f \in [Nat -> Nat] /\ f[0] = 2 /\ \A n \in Nat \ {0} : f[n] = F[n][f[P[n]]]
    BY <1>10 DEF Computes
  <1>5. ASSUME NEW k \in Nat PROVE f[k] = IF k = 0 THEN 2 ELSE Half * f[k - 1]
    <2>1. CASE k = 0  BY <1>4, <2>1
    <2>2. CASE k # 0
      <3>1. k - 1 \in Nat /\ f[k - 1] \in Nat  BY <1>4, <2>2
      <3>2. f[k] = F[k][f[P[k]]]  BY <1>4, <2>2
      <3> QED BY <1>2, <1>3, <2>2, <3>1, <3>2
    <2> QED BY <2>1, <2>2
  <1>6. f = [k \in Nat |-> IF k = 0 THEN 2 ELSE Half * f[k - 1]]  BY <1>4, <1>5
  <1>7. Capacity = [k \in Nat |-> IF k = 0 THEN 2 ELSE Half * Capacity[k - 1]]
    BY <1>6, Zenon DEF Capacity
  <1> DEFINE T == {k \in Nat : Capacity[k] \in Nat}
  <1>8. 0 \in T  BY <1>7
  <1>9. ASSUME NEW k \in Nat, k \in T PROVE k + 1 \in T
    <2>1. Capacity[k + 1] = Half * Capacity[k]  BY <1>7
    <2> QED BY <1>9, <2>1, Sizes
  <1>11. \A k \in Nat : k \in T
    <2> HIDE DEF T
    <2> QED BY <1>8, <1>9, Induction
  <1> QED BY <1>7, <1>11

LEMMA ByteIs == /\ Byte \subseteq Nat /\ \A v \in Nat : v < Base => v \in Byte
                /\ \A v \in Byte : v < Base
  BY Sizes DEF Byte

(* Division by Half. *)
LEMMA Divided ==
  ASSUME NEW v \in Nat
  PROVE  /\ v % Half \in 0..Half - 1 /\ v \div Half \in Nat
         /\ v = (v % Half) + Half * (v \div Half)
         /\ v # 0 => v \div Half < v
         /\ v >= Half => v \div Half # 0
  <1> DEFINE q == v \div Half
             r == v % Half
  <1>1. r \in 0..Half - 1 /\ q \in Nat  BY Sizes
  <1>2. v = r + Half * q  BY Sizes
  <1> HIDE DEF q, r
  <1>3. v # 0 => q < v
    <2>1. CASE q = 0  BY <2>1
    <2>2. CASE q # 0
      <3>1. Half * q >= 2 * q  BY <1>1, Sizes
      <3> QED BY <1>1, <1>2, <2>2, <3>1, Sizes
    <2> QED BY <2>1, <2>2
  <1>4. v >= Half => q # 0  BY <1>1, <1>2, Sizes
  <1> QED BY <1>1, <1>2, <1>3, <1>4 DEF q, r

LEMMA EncVarintIs ==
  /\ \A v \in Nat : encVarint[v] \in Seq(Byte)
  /\ \A v \in Nat : v < Half => encVarint[v] = <<v>>
  /\ \A v \in Nat : v >= Half => encVarint[v] = <<Half + (v % Half)>> \o encVarint[v \div Half]
  <1> DEFINE F == [v \in Nat |-> [s \in Seq(Byte) |->
                     IF v < Half THEN <<v>> ELSE <<Half + (v % Half)>> \o s]]
             P == [v \in Nat |-> v \div Half]
  <1>1. ASSUME NEW v \in Nat, NEW s \in Seq(Byte)
        PROVE  (IF v < Half THEN <<v>> ELSE <<Half + (v % Half)>> \o s) \in Seq(Byte)
    <2>1. CASE v < Half
      <3>1. v \in Byte  BY <2>1, Sizes, ByteIs
      <3> QED BY <2>1, <3>1
    <2>2. CASE v >= Half
      <3>1. Half + (v % Half) \in Byte  BY Divided, Sizes, ByteIs
      <3>2. <<Half + (v % Half)>> \in Seq(Byte)  BY <3>1
      <3> QED BY <2>2, <3>2, Sizes
    <2> QED BY <2>1, <2>2, Sizes
  <1>2. F \in [Nat -> [Seq(Byte) -> Seq(Byte)]]  BY <1>1
  <1>3. P \in [Nat -> Nat] /\ \A v \in Nat \ {0} : P[v] < v  BY Divided
  <1>4. <<0>> \in Seq(Byte)  BY Sizes, ByteIs
  <1>5. Recursive(Seq(Byte), <<0>>, F, P)  BY <1>2, <1>3, <1>4 DEF Recursive
  <1>6. \A v \in Nat, s \in Seq(Byte) :
          F[v][s] = IF v < Half THEN <<v>> ELSE <<Half + (v % Half)>> \o s
    OBVIOUS
  <1>7. \A v \in Nat : P[v] = v \div Half  OBVIOUS
  <1> HIDE DEF F, P
  <1>8. PICK f : Computes(f, Seq(Byte), <<0>>, F, P)  BY <1>5, Recursion, Zenon
  <1>9. f \in [Nat -> Seq(Byte)] /\ f[0] = <<0>> /\ \A v \in Nat \ {0} : f[v] = F[v][f[P[v]]]
    BY <1>8 DEF Computes
  <1>10. ASSUME NEW v \in Nat
         PROVE  f[v] = IF v < Half THEN <<v>> ELSE <<Half + (v % Half)>> \o f[v \div Half]
    <2>1. CASE v = 0
      <3>1. v < Half /\ f[v] = <<v>>  BY <1>9, <2>1, Sizes
      <3> QED BY <3>1
    <2>2. CASE v # 0
      <3>1. v \div Half \in Nat  BY Divided
      <3>2. f[v \div Half] \in Seq(Byte)  BY <1>9, <3>1
      <3>3. f[v] = F[v][f[v \div Half]]  BY <1>7, <1>9, <2>2
      <3> QED BY <1>6, <3>2, <3>3
    <2> QED BY <2>1, <2>2
  <1>11. f = [v \in Nat |-> IF v < Half THEN <<v>> ELSE <<Half + (v % Half)>> \o f[v \div Half]]
    BY <1>9, <1>10
  <1>12. encVarint =
           [v \in Nat |-> IF v < Half THEN <<v>> ELSE <<Half + (v % Half)>> \o encVarint[v \div Half]]
    BY <1>11, Zenon DEF encVarint
  <1> DEFINE T == {v \in Nat : encVarint[v] \in Seq(Byte)}
  <1>13. ASSUME NEW v \in Nat, \A m \in 0..v - 1 : m \in T PROVE v \in T
    <2>1. CASE v < Half
      <3>1. v \in Byte  BY <2>1, Sizes, ByteIs
      <3> QED BY <1>12, <2>1, <3>1
    <2>2. CASE v >= Half
      <3>4. v # 0  BY <2>2, Sizes
      <3>1. v \div Half \in 0..v - 1  BY <3>4, Divided
      <3>2. encVarint[v \div Half] \in Seq(Byte)  BY <1>13, <3>1
      <3>3. encVarint[v] = IF v < Half THEN <<v>> ELSE <<Half + (v % Half)>> \o encVarint[v \div Half]
        BY <1>12
      <3> QED BY <1>1, <3>2, <3>3
    <2> QED BY <2>1, <2>2, Sizes
  <1>14. \A v \in Nat : v \in T
    <2> HIDE DEF T
    <2> QED BY <1>13, StrongInduction
  <1>15. ASSUME NEW v \in Nat, v >= Half
         PROVE  encVarint[v] = <<Half + (v % Half)>> \o encVarint[v \div Half]
    <2>1. ~(v < Half)  BY <1>15, Sizes
    <2> QED BY <1>12, <2>1
  <1>16. \A v \in Nat : v < Half => encVarint[v] = <<v>>  BY <1>12
  <1> QED BY <1>14, <1>15, <1>16

-----------------------------------------------------------------------------
(* c holds s from position i on. *)
Holds(c, i, s) == i + Len(s) - 1 <= Len(c) /\ \A j \in 1..Len(s) : c[i + j - 1] = s[j]

Bytes == Seq(Byte)
Position == Nat \ {0}

LEMMA ConcatIs ==
  ASSUME NEW s \in Bytes, NEW t \in Bytes
  PROVE  /\ s \o t \in Bytes /\ Len(s \o t) = Len(s) + Len(t)
         /\ \A i \in 1..Len(s) : (s \o t)[i] = s[i]
         /\ \A i \in 1..Len(t) : (s \o t)[Len(s) + i] = t[i]
  BY DEF Bytes

LEMMA SubSeqIs ==
  ASSUME NEW s \in Bytes, NEW p \in Position, NEW q \in Nat, p <= q + 1, q <= Len(s)
  PROVE  /\ SubSeq(s, p, q) \in Bytes /\ Len(SubSeq(s, p, q)) = q + 1 - p
         /\ \A i \in 1..q + 1 - p : SubSeq(s, p, q)[i] = s[p + i - 1]
  BY DEF Bytes, Position

LEMMA SameBytes ==
  ASSUME NEW s \in Bytes, NEW t \in Bytes, Len(s) = Len(t), \A i \in 1..Len(s) : s[i] = t[i]
  PROVE  s = t
  BY DEF Bytes

LEMMA LenBytes == \A s \in Bytes : Len(s) \in Nat /\ \A i \in 1..Len(s) : s[i] \in Byte /\ s[i] \in Nat
  <1>1. ASSUME NEW s \in Bytes, NEW i \in 1..Len(s) PROVE s[i] \in Byte  BY DEF Bytes
  <1>2. \A v \in Byte : v \in Nat  BY ByteIs
  <1>3. \A s \in Bytes : Len(s) \in Nat  BY DEF Bytes
  <1> QED BY <1>1, <1>2, <1>3

LEMMA HoldsConcat ==
  ASSUME NEW c \in Bytes, NEW s \in Bytes, NEW t \in Bytes, NEW i \in Position
  PROVE  Holds(c, i, s \o t) <=> Holds(c, i, s) /\ Holds(c, i + Len(s), t)
  <1>1. Len(s) \in Nat /\ Len(t) \in Nat /\ Len(c) \in Nat /\ i \in Nat
    BY LenBytes DEF Position
  <1>2. ASSUME Holds(c, i, s \o t) PROVE Holds(c, i, s) /\ Holds(c, i + Len(s), t)
    <2>1. ASSUME NEW j \in 1..Len(s) PROVE c[i + j - 1] = s[j]
      BY <1>1, <1>2, ConcatIs DEF Holds
    <2>2. ASSUME NEW j \in 1..Len(t) PROVE c[i + Len(s) + j - 1] = t[j]
      <3>1. Len(s) + j \in 1..Len(s \o t)  BY <1>1, ConcatIs
      <3>2. c[i + (Len(s) + j) - 1] = (s \o t)[Len(s) + j]  BY <1>2, <3>1 DEF Holds
      <3>3. i + (Len(s) + j) - 1 = i + Len(s) + j - 1  BY <1>1
      <3> QED BY <3>2, <3>3, ConcatIs
    <2> QED BY <1>1, <1>2, <2>1, <2>2, ConcatIs DEF Holds
  <1>3. ASSUME Holds(c, i, s), Holds(c, i + Len(s), t) PROVE Holds(c, i, s \o t)
    <2>1. ASSUME NEW j \in 1..Len(s \o t) PROVE c[i + j - 1] = (s \o t)[j]
      <3>1. CASE j \in 1..Len(s)  BY <1>3, <3>1, ConcatIs DEF Holds
      <3>2. CASE j - Len(s) \in 1..Len(t)
        <4>1. c[i + Len(s) + (j - Len(s)) - 1] = t[j - Len(s)]  BY <1>3, <3>2 DEF Holds
        <4>2. i + Len(s) + (j - Len(s)) - 1 = i + j - 1 /\ Len(s) + (j - Len(s)) = j  BY <1>1
        <4> QED BY <3>2, <4>1, <4>2, ConcatIs
      <3> QED BY <1>1, <3>1, <3>2, ConcatIs
    <2> QED BY <1>1, <1>3, <2>1, ConcatIs DEF Holds
  <1> QED BY <1>2, <1>3

LEMMA HoldsSelf == \A s \in Bytes : Holds(s, 1, s)
  BY LenBytes DEF Holds

(* What is held can be cut out, and it holds its own parts. *)
LEMMA HoldsSubSeq ==
  ASSUME NEW c \in Bytes, NEW s \in Bytes, NEW i \in Position, Holds(c, i, s),
         NEW p \in Position, NEW q \in Nat, p <= q + 1, q <= Len(s)
  PROVE  /\ SubSeq(c, i + p - 1, i + q - 1) = SubSeq(s, p, q)
         /\ Holds(c, i + p - 1, SubSeq(s, p, q))
  <1>1. /\ Len(s) \in Nat /\ Len(c) \in Nat /\ i \in Nat /\ p \in Nat /\ p >= 1
        /\ i + p - 1 \in Position /\ i + q - 1 \in Nat /\ i + q - 1 <= Len(c)
        /\ i + p - 1 <= i + q - 1 + 1 /\ i + q - 1 + 1 - (i + p - 1) = q + 1 - p
    BY LenBytes DEF Position, Holds
  <1> DEFINE t == SubSeq(s, p, q)
             d == SubSeq(c, i + p - 1, i + q - 1)
  <1>2. t \in Bytes /\ Len(t) = q + 1 - p /\ \A j \in 1..q + 1 - p : t[j] = s[p + j - 1]
    BY SubSeqIs
  <1>3. d \in Bytes /\ Len(d) = q + 1 - p /\ \A j \in 1..q + 1 - p : d[j] = c[i + p - 1 + j - 1]
    BY <1>1, SubSeqIs
  <1>4. ASSUME NEW j \in 1..q + 1 - p PROVE c[i + p - 1 + j - 1] = t[j]
    <2>1. p + j - 1 \in 1..Len(s) /\ i + (p + j - 1) - 1 = i + p - 1 + j - 1  BY <1>1
    <2>2. c[i + (p + j - 1) - 1] = s[p + j - 1]  BY <2>1 DEF Holds
    <2> QED BY <1>2, <2>1, <2>2
  <1> HIDE DEF t, d
  <1>5. d = t  BY <1>2, <1>3, <1>4, SameBytes
  <1>6. Holds(c, i + p - 1, t)  BY <1>1, <1>2, <1>4 DEF Holds
  <1> QED BY <1>5, <1>6 DEF t, d

LEMMA HoldsWhole ==
  ASSUME NEW c \in Bytes, NEW s \in Bytes, NEW i \in Position, Holds(c, i, s)
  PROVE  SubSeq(c, i, i + Len(s) - 1) = s
  <1>1. Len(s) \in Nat /\ 1 \in Position /\ i + 1 - 1 = i /\ 1 <= Len(s) + 1 /\ Len(s) <= Len(s)
    BY LenBytes DEF Position
  <1>2. SubSeq(c, i + 1 - 1, i + Len(s) - 1) = SubSeq(s, 1, Len(s))
    BY <1>1, HoldsSubSeq
  <1>3. SubSeq(s, 1, Len(s)) = s  BY DEF Bytes
  <1> QED BY <1>1, <1>2, <1>3

LEMMA SubSeqHeld ==
  ASSUME NEW c \in Bytes, NEW p \in Position, NEW q \in Nat, p <= q + 1, q <= Len(c)
  PROVE  Holds(c, p, SubSeq(c, p, q))
  <1>1. Holds(c, 1, c) /\ 1 \in Position /\ 1 + p - 1 = p  BY HoldsSelf DEF Position
  <1> QED BY <1>1, HoldsSubSeq

-----------------------------------------------------------------------------
(* What readVarint makes of a byte and of what follows it. *)
Reading == {Malformed} \cup [ok : {TRUE}, n : Nat, v : Nat]

Group(b, i, k, rest) ==
  IF k = Groups \/ i + k > Len(b) THEN Malformed
  ELSE IF k = Groups - 1 /\ b[i + k] > 1 THEN Malformed
  ELSE IF b[i + k] < Half THEN [ok |-> TRUE, n |-> 1, v |-> b[i + k]]
  ELSE Continued(b[i + k] - Half, rest)

LEMMA ContinuedIs ==
  ASSUME NEW low \in Nat, NEW rest \in Reading PROVE Continued(low, rest) \in Reading
  <1>1. CASE rest = Malformed  BY <1>1 DEF Reading, Continued, Malformed
  <1>2. CASE rest \in [ok : {TRUE}, n : Nat, v : Nat]
    <2>1. rest.n + 1 \in Nat /\ low + Half * rest.v \in Nat  BY <1>2, Sizes
    <2>2. Continued(low, rest) = [ok |-> TRUE, n |-> rest.n + 1, v |-> low + Half * rest.v]
      BY <1>2 DEF Continued
    <2>3. Continued(low, rest) \in [ok : {TRUE}, n : Nat, v : Nat]  BY <2>1, <2>2
    <2> QED BY <2>3 DEF Reading
  <1> QED BY <1>1, <1>2 DEF Reading

LEMMA GroupIs ==
  ASSUME NEW b \in Bytes, NEW i \in Position, NEW k \in 0..Groups, NEW rest \in Reading
  PROVE  Group(b, i, k, rest) \in Reading
  <1>1. CASE k = Groups \/ i + k > Len(b)  BY <1>1 DEF Group, Reading
  <1>2. CASE ~(k = Groups \/ i + k > Len(b))
    <2>1. i + k \in 1..Len(b)  BY <1>2, LenBytes, Sizes DEF Position
    <2>2. b[i + k] \in Nat  BY <2>1, LenBytes
    <2>3. CASE k = Groups - 1 /\ b[i + k] > 1  BY <1>2, <2>3 DEF Group, Reading
    <2>4. CASE ~(k = Groups - 1 /\ b[i + k] > 1) /\ b[i + k] < Half
      <3>1. Group(b, i, k, rest) = [ok |-> TRUE, n |-> 1, v |-> b[i + k]]  BY <1>2, <2>4 DEF Group
      <3> QED BY <2>2, <3>1 DEF Reading
    <2>5. CASE ~(k = Groups - 1 /\ b[i + k] > 1) /\ ~(b[i + k] < Half)
      <3>1. Group(b, i, k, rest) = Continued(b[i + k] - Half, rest)  BY <1>2, <2>5 DEF Group
      <3>2. b[i + k] - Half \in Nat  BY <2>2, <2>5, Sizes
      <3> QED BY <3>1, <3>2, ContinuedIs
    <2> QED BY <2>3, <2>4, <2>5
  <1> QED BY <1>1, <1>2

LEMMA ReadGroupsIs ==
  ASSUME NEW b \in Bytes, NEW i \in Position
  PROVE  /\ \A k \in 0..Groups : readGroups(b, i)[k] \in Reading
         /\ \A k \in 0..Groups - 1 : readGroups(b, i)[k] = Group(b, i, k, readGroups(b, i)[k + 1])
         /\ readGroups(b, i)[Groups] = Malformed
  <1> DEFINE D == 0..Groups
             F == [m \in Nat |-> [r \in Reading |->
                     IF m \in D THEN Group(b, i, Groups - m, r) ELSE Malformed]]
             P == [m \in Nat |-> IF m = 0 THEN 0 ELSE m - 1]
  <1>1. ASSUME NEW m \in Nat, NEW r \in Reading
        PROVE  (IF m \in D THEN Group(b, i, Groups - m, r) ELSE Malformed) \in Reading
    <2>1. CASE m \in D
      <3>1. Groups - m \in 0..Groups  BY <2>1, Sizes
      <3> QED BY <2>1, <3>1, GroupIs
    <2>2. CASE m \notin D  BY <2>2 DEF Reading
    <2> QED BY <2>1, <2>2
  <1>2. F \in [Nat -> [Reading -> Reading]]  BY <1>1
  <1>3. P \in [Nat -> Nat] /\ \A m \in Nat \ {0} : P[m] < m  OBVIOUS
  <1>4. Malformed \in Reading  BY DEF Reading
  <1>5. Recursive(Reading, Malformed, F, P)  BY <1>2, <1>3, <1>4 DEF Recursive
  <1>6. \A m \in D, r \in Reading : F[m][r] = Group(b, i, Groups - m, r)  BY Sizes
  <1>7. \A m \in Nat \ {0} : P[m] = m - 1  OBVIOUS
  <1> HIDE DEF F, P
  <1>8. PICK f : Computes(f, Reading, Malformed, F, P)  BY <1>5, Recursion, Zenon
  <1>9. f \in [Nat -> Reading] /\ f[0] = Malformed /\ \A m \in Nat \ {0} : f[m] = F[m][f[P[m]]]
    BY <1>8 DEF Computes
  <1> DEFINE g == [k \in 0..Groups |-> f[Groups - k]]
  <1>10. \A k \in 0..Groups : g[k] = f[Groups - k] /\ g[k] \in Reading  BY <1>9, Sizes
  <1>11. DOMAIN g = 0..Groups /\ g = [k \in DOMAIN g |-> g[k]]  OBVIOUS
  <1> HIDE DEF g
  <1>12. ASSUME NEW k \in 0..Groups PROVE g[k] = Group(b, i, k, g[k + 1])
    <2>1. CASE k = Groups
      <3>1. g[k] = Malformed  BY <1>9, <1>10, <2>1, Sizes
      <3> QED BY <2>1, <3>1 DEF Group
    <2>2. CASE k # Groups
      <3> DEFINE m == Groups - k
      <3>1. m \in Nat \ {0} /\ m \in D /\ Groups - m = k /\ m - 1 = Groups - (k + 1)
            /\ k + 1 \in 0..Groups
        BY <2>2, Sizes
      <3>2. g[k] = f[m] /\ g[k + 1] = f[m - 1] /\ g[k + 1] \in Reading
        BY <1>10, <3>1
      <3>3. f[m] = F[m][f[m - 1]]  BY <1>7, <1>9, <3>1
      <3> QED BY <1>6, <3>1, <3>2, <3>3
    <2> QED BY <2>1, <2>2
  <1>13. \E h : h = [k \in 0..Groups |-> Group(b, i, k, h[k + 1])]
    <2>1. g = [k \in 0..Groups |-> Group(b, i, k, g[k + 1])]  BY <1>11, <1>12
    <2> QED BY <2>1
  <1>14. readGroups(b, i) = [k \in 0..Groups |-> Group(b, i, k, readGroups(b, i)[k + 1])]
    BY <1>13, Zenon DEF readGroups, Group
  <1> DEFINE r == readGroups(b, i)
             T == {m \in Nat : m <= Groups => r[Groups - m] \in Reading}
  <1>15. \A k \in 0..Groups : r[k] = Group(b, i, k, r[k + 1])  BY <1>14
  <1> HIDE DEF r
  <1>16. r[Groups] = Malformed
    <2>1. Groups \in 0..Groups  BY Sizes
    <2> QED BY <1>15, <2>1 DEF Group
  <1>17. 0 \in T  BY <1>4, <1>16, Sizes
  <1>18. ASSUME NEW m \in Nat, m \in T PROVE m + 1 \in T
    <2>1. CASE m + 1 <= Groups
      <3>1. Groups - (m + 1) \in 0..Groups /\ Groups - (m + 1) + 1 = Groups - m  BY <2>1, Sizes
      <3>2. r[Groups - m] \in Reading  BY <1>18, <2>1, Sizes
      <3>3. r[Groups - (m + 1)] = Group(b, i, Groups - (m + 1), r[Groups - m])  BY <1>15, <3>1
      <3>4. r[Groups - (m + 1)] \in Reading  BY <3>1, <3>2, <3>3, GroupIs
      <3> QED BY <3>4
    <2>2. CASE ~(m + 1 <= Groups)  BY <2>2
    <2> QED BY <2>1, <2>2
  <1>19. \A m \in Nat : m \in T
    <2> HIDE DEF T
    <2> QED BY <1>17, <1>18, Induction
  <1>20. ASSUME NEW k \in 0..Groups PROVE r[k] \in Reading
    <2>1. Groups - k \in Nat /\ Groups - k <= Groups /\ Groups - (Groups - k) = k  BY Sizes
    <2> QED BY <1>19, <2>1
  <1>21. \A k \in 0..Groups - 1 : r[k] = Group(b, i, k, r[k + 1])  BY <1>15, Sizes
  <1> QED BY <1>16, <1>20, <1>21 DEF r

(* The facts about one step of readVarint that the inductions use. *)
LEMMA ReadStep ==
  ASSUME NEW b \in Bytes, NEW i \in Position, NEW k \in 0..Groups - 1, readGroups(b, i)[k].ok
  PROVE  LET r == readGroups(b, i)[k]
             next == readGroups(b, i)[k + 1]
         IN  /\ i + k \in 1..Len(b) /\ b[i + k] \in Nat
             /\ ~(k = Groups - 1 /\ b[i + k] > 1)
             /\ \/ b[i + k] < Half /\ r = [ok |-> TRUE, n |-> 1, v |-> b[i + k]]
                \/ /\ b[i + k] >= Half /\ k + 1 \in 0..Groups - 1 /\ next.ok
                   /\ r = [ok |-> TRUE, n |-> next.n + 1, v |-> (b[i + k] - Half) + Half * next.v]
  <1> DEFINE r == readGroups(b, i)[k]
             next == readGroups(b, i)[k + 1]
  <1>1. r = Group(b, i, k, next) /\ r.ok  BY ReadGroupsIs
  <1>2. readGroups(b, i)[Groups] = Malformed /\ ~Malformed.ok  BY ReadGroupsIs DEF Malformed
  <1>3. k # Groups  BY Sizes
  <1> HIDE DEF r
  <1>4. ~(i + k > Len(b)) /\ ~(k = Groups - 1 /\ b[i + k] > 1)  BY <1>1, <1>2 DEF Group
  <1>5. i + k \in 1..Len(b)  BY <1>4, LenBytes, Sizes DEF Position
  <1>6. b[i + k] \in Nat  BY <1>5, LenBytes
  <1>7. CASE b[i + k] < Half
    <2>1. r = [ok |-> TRUE, n |-> 1, v |-> b[i + k]]  BY <1>1, <1>3, <1>4, <1>7 DEF Group
    <2> QED BY <1>4, <1>5, <1>6, <1>7, <2>1 DEF r
  <1>8. CASE ~(b[i + k] < Half)
    <2>1. r = Continued(b[i + k] - Half, next)  BY <1>1, <1>3, <1>4, <1>8 DEF Group
    <2>2. next.ok  BY <1>1, <1>2, <2>1 DEF Continued
    <2>3. k + 1 \in 0..Groups - 1
      <3>1. k + 1 # Groups  BY <1>2, <2>2
      <3> QED BY <3>1, Sizes
    <2>4. r = [ok |-> TRUE, n |-> next.n + 1, v |-> (b[i + k] - Half) + Half * next.v]
      BY <2>1, <2>2 DEF Continued
    <2>5. b[i + k] >= Half  BY <1>6, <1>8, Sizes
    <2> QED BY <1>4, <1>5, <1>6, <2>2, <2>3, <2>4, <2>5 DEF r
  <1> QED BY <1>7, <1>8

LEMMA CapacityGrows ==
  /\ \A d \in Nat : Capacity[d] \in Nat /\ Capacity[d] >= 2
  /\ \A d \in Nat \ {0} : Capacity[d - 1] \in Nat /\ Capacity[d] = Half * Capacity[d - 1]
                          /\ Capacity[d] >= Half
  <1> DEFINE T == {d \in Nat : Capacity[d] >= 2}
  <1>1. 0 \in T  BY CapacityIs
  <1>2. ASSUME NEW d \in Nat, d \in T PROVE d + 1 \in T
    <2>1. Capacity[d] \in Nat /\ Capacity[d] >= 2 /\ Capacity[d + 1] = Half * Capacity[d]
      BY <1>2, CapacityIs
    <2>2. Half * Capacity[d] >= Half * 1  BY <2>1, Sizes
    <2> QED BY <2>1, <2>2, Sizes
  <1>3. \A d \in Nat : d \in T
    <2> HIDE DEF T
    <2> QED BY <1>1, <1>2, Induction
  <1>4. ASSUME NEW d \in Nat \ {0}
        PROVE  Capacity[d - 1] \in Nat /\ Capacity[d] = Half * Capacity[d - 1] /\ Capacity[d] >= Half
    <2>1. d - 1 \in Nat /\ (d - 1) + 1 = d  OBVIOUS
    <2>2. Capacity[d - 1] \in Nat /\ Capacity[d - 1] >= 1 /\ Capacity[d] = Half * Capacity[d - 1]
      BY <1>3, <2>1, CapacityIs
    <2>3. Half * Capacity[d - 1] >= Half * 1  BY <2>2, Sizes
    <2> QED BY <2>2, <2>3, Sizes
  <1> QED BY <1>3, <1>4, CapacityIs

LEMMA Below ==
  ASSUME NEW a \in Nat, NEW v \in Nat, NEW c \in Nat, a < Half
  PROVE  a + Half * v < Half * c <=> v < c
  <1>1. Half * v \in Nat /\ Half * c \in Nat /\ Half * (v + 1) = Half * v + Half
        /\ Half * (c + 1) = Half * c + Half
    BY Sizes
  <1>2. ASSUME v < c PROVE a + Half * v < Half * c
    <2>1. Half * (v + 1) <= Half * c  BY <1>2, Sizes
    <2> QED BY <1>1, <2>1, Sizes
  <1>3. ASSUME ~(v < c) PROVE ~(a + Half * v < Half * c)
    <2>1. Half * c <= Half * v  BY <1>3, Sizes
    <2> QED BY <1>1, <2>1, Sizes
  <1> QED BY <1>2, <1>3

(* A varint that is read is read from bytes that are there, at most Groups *)
(* of them, and its value fits.                                            *)
LEMMA GroupsBounds ==
  ASSUME NEW b \in Bytes, NEW i \in Position
  PROVE  \A k \in 0..Groups - 1 :
           readGroups(b, i)[k].ok =>
             /\ readGroups(b, i)[k].n \in 1..Groups - k
             /\ i + k + readGroups(b, i)[k].n - 1 <= Len(b)
             /\ readGroups(b, i)[k].v \in Nat
             /\ readGroups(b, i)[k].v < Capacity[Groups - 1 - k]
  <1> DEFINE R(k) == readGroups(b, i)[k]
             Fine(k) == R(k).ok => /\ R(k).n \in 1..Groups - k /\ i + k + R(k).n - 1 <= Len(b)
                                   /\ R(k).v \in Nat /\ R(k).v < Capacity[Groups - 1 - k]
             T == {m \in Nat : m <= Groups - 1 => Fine(Groups - 1 - m)}
  <1>0. i \in Nat /\ Len(b) \in Nat  BY LenBytes DEF Position
  <1>1. ASSUME NEW k \in 0..Groups - 1, R(k).ok, k + 1 \in 0..Groups - 1 => Fine(k + 1)
        PROVE  Fine(k)
    <2>1. /\ i + k \in 1..Len(b) /\ b[i + k] \in Nat
          /\ ~(k = Groups - 1 /\ b[i + k] > 1)
          /\ \/ b[i + k] < Half /\ R(k) = [ok |-> TRUE, n |-> 1, v |-> b[i + k]]
             \/ /\ b[i + k] >= Half /\ k + 1 \in 0..Groups - 1 /\ R(k + 1).ok
                /\ R(k) = [ok |-> TRUE, n |-> R(k + 1).n + 1, v |-> (b[i + k] - Half) + Half * R(k + 1).v]
      BY <1>1, ReadStep
    <2> DEFINE d == Groups - 1 - k
               x == b[i + k]
    <2>2. d \in Nat /\ Groups - k = d + 1 /\ Capacity[d] \in Nat /\ Capacity[d] >= 2
      BY Sizes, CapacityGrows
    <2>3. x < 2 * Half  BY <2>1, LenBytes, ByteIs, Sizes
    <2>4. CASE x < Half /\ R(k) = [ok |-> TRUE, n |-> 1, v |-> x]
      <3>1. R(k).n = 1 /\ R(k).v = x  BY <2>4
      <3>2. x < Capacity[d]
        <4>1. CASE d = 0  BY <2>1, <2>2, <4>1, Sizes
        <4>2. CASE d # 0  BY <2>1, <2>2, <2>4, <4>2, Sizes, CapacityGrows
        <4> QED BY <4>1, <4>2
      <3>3. R(k).n \in 1..Groups - k  BY <2>2, <3>1
      <3>4. i + k + R(k).n - 1 <= Len(b)  BY <1>0, <2>1, <3>1
      <3> HIDE DEF R
      <3> QED BY <2>1, <3>1, <3>2, <3>3, <3>4
    <2>5. CASE /\ x >= Half /\ k + 1 \in 0..Groups - 1 /\ R(k + 1).ok
               /\ R(k) = [ok |-> TRUE, n |-> R(k + 1).n + 1, v |-> (x - Half) + Half * R(k + 1).v]
      <3>1. R(k).n = R(k + 1).n + 1 /\ R(k).v = (x - Half) + Half * R(k + 1).v  BY <2>5
      <3>2. /\ R(k + 1).n \in 1..Groups - (k + 1) /\ i + (k + 1) + R(k + 1).n - 1 <= Len(b)
            /\ R(k + 1).v \in Nat /\ R(k + 1).v < Capacity[Groups - 1 - (k + 1)]
        BY <1>1, <2>5
      <3> HIDE DEF R
      <3>3. d # 0 /\ Groups - 1 - (k + 1) = d - 1  BY <2>5, Sizes
      <3>4. Capacity[d - 1] \in Nat /\ Capacity[d] = Half * Capacity[d - 1]
        BY <2>2, <3>3, CapacityGrows
      <3>5. x - Half \in Nat /\ x - Half < Half  BY <2>1, <2>3, <2>5, Sizes
      <3>6. R(k).v < Capacity[d]  BY <3>1, <3>2, <3>3, <3>4, <3>5, Below
      <3>7. R(k).v \in Nat
        <4>1. R(k + 1).v \in Nat /\ Half \in Nat  BY <3>2, Sizes
        <4>2. Half * R(k + 1).v \in Nat  BY <4>1
        <4> QED BY <3>1, <3>5, <4>2
      <3>8. R(k).n \in 1..Groups - k /\ i + k + R(k).n - 1 <= Len(b)
        <4> DEFINE y == R(k + 1).n
        <4>1. y \in 1..Groups - (k + 1) /\ i + (k + 1) + y - 1 <= Len(b) /\ R(k).n = y + 1  BY <3>1, <3>2
        <4> HIDE DEF y
        <4>2. R(k).n \in 1..Groups - k  BY <4>1, Sizes
        <4>3. i + k + (y + 1) - 1 <= Len(b)  BY <1>0, <4>1, Sizes
        <4> QED BY <4>1, <4>2, <4>3
      <3> QED BY <3>6, <3>7, <3>8
    <2> QED BY <2>1, <2>4, <2>5
  <1>2. ASSUME NEW m \in Nat, \A j \in 0..m - 1 : j \in T PROVE m \in T
    <2>1. CASE m <= Groups - 1
      <3> DEFINE k == Groups - 1 - m
      <3>1. k \in 0..Groups - 1  BY <2>1, Sizes
      <3>2. k + 1 \in 0..Groups - 1 => Fine(k + 1)
        <4>1. SUFFICES ASSUME k + 1 \in 0..Groups - 1 PROVE Fine(k + 1)  OBVIOUS
        <4>2. m - 1 \in 0..m - 1 /\ m - 1 <= Groups - 1 /\ Groups - 1 - (m - 1) = k + 1
          BY <2>1, <4>1, Sizes
        <4>3. m - 1 \in T  BY <1>2, <4>2
        <4> HIDE DEF Fine
        <4> QED BY <4>2, <4>3
      <3>3. Fine(k)  BY <1>1, <3>1, <3>2
      <3> HIDE DEF Fine
      <3> QED BY <3>3
    <2>2. CASE ~(m <= Groups - 1)  BY <2>2
    <2> QED BY <2>1, <2>2
  <1>3. \A m \in Nat : m \in T
    <2> HIDE DEF T
    <2> QED BY <1>2, StrongInduction
  <1>4. ASSUME NEW k \in 0..Groups - 1 PROVE Fine(k)
    <2>1. Groups - 1 - k \in Nat /\ Groups - 1 - k <= Groups - 1 /\ Groups - 1 - (Groups - 1 - k) = k
      BY Sizes
    <2>2. Groups - 1 - k \in T  BY <1>3, <2>1
    <2> HIDE DEF Fine
    <2> QED BY <2>1, <2>2
  <1> QED BY <1>4

(* What is read depends on the bytes that are read and on nothing else. *)
LEMMA GroupsLocal ==
  ASSUME NEW b \in Bytes, NEW i \in Position, NEW c \in Bytes, NEW j \in Position, NEW e \in Nat,
         \A x \in 0..e - 1 : b[i + x] = c[j + x], j + e - 1 <= Len(c)
  PROVE  \A k \in 0..Groups - 1 :
           readGroups(b, i)[k].ok /\ k + readGroups(b, i)[k].n = e
             => readGroups(c, j)[k] = readGroups(b, i)[k]
  <1> DEFINE R(k) == readGroups(b, i)[k]
             Q(k) == readGroups(c, j)[k]
             Fine(k) == R(k).ok /\ k + R(k).n = e => Q(k) = R(k)
             T == {m \in Nat : m <= Groups - 1 => Fine(Groups - 1 - m)}
  <1>0. i \in Nat /\ Len(b) \in Nat /\ j \in Nat /\ Len(c) \in Nat  BY LenBytes DEF Position
  <1>1. ASSUME NEW k \in 0..Groups - 1, R(k).ok, k + R(k).n = e, k + 1 \in 0..Groups - 1 => Fine(k + 1)
        PROVE  Q(k) = R(k)
    <2>1. /\ i + k \in 1..Len(b) /\ b[i + k] \in Nat
          /\ ~(k = Groups - 1 /\ b[i + k] > 1)
          /\ \/ b[i + k] < Half /\ R(k) = [ok |-> TRUE, n |-> 1, v |-> b[i + k]]
             \/ /\ b[i + k] >= Half /\ k + 1 \in 0..Groups - 1 /\ R(k + 1).ok
                /\ R(k) = [ok |-> TRUE, n |-> R(k + 1).n + 1, v |-> (b[i + k] - Half) + Half * R(k + 1).v]
      BY <1>1, ReadStep
    <2>2. R(k).n \in Nat /\ R(k).n >= 1  BY <1>1, GroupsBounds, Sizes
    <2>3. k \in 0..e - 1 /\ c[j + k] = b[i + k] /\ j + k <= Len(c)
      <3>1. k \in 0..e - 1  BY <1>1, <2>2
      <3> QED BY <1>0, <3>1
    <2>4. Q(k) = Group(c, j, k, Q(k + 1))  BY ReadGroupsIs
    <2>5. k # Groups /\ ~(j + k > Len(c))  BY <1>0, <2>3, Sizes
    <2>6. CASE b[i + k] < Half /\ R(k) = [ok |-> TRUE, n |-> 1, v |-> b[i + k]]
      <3> HIDE DEF R, Q
      <3> QED BY <2>1, <2>3, <2>4, <2>5, <2>6 DEF Group
    <2>7. CASE /\ b[i + k] >= Half /\ k + 1 \in 0..Groups - 1 /\ R(k + 1).ok
               /\ R(k) = [ok |-> TRUE, n |-> R(k + 1).n + 1, v |-> (b[i + k] - Half) + Half * R(k + 1).v]
      <3>1. R(k).n = R(k + 1).n + 1  BY <2>7
      <3>2. R(k + 1).n \in Nat  BY <2>7, GroupsBounds, Sizes
      <3>3. k + 1 + R(k + 1).n = e  BY <1>1, <3>1, <3>2
      <3>4. Q(k + 1) = R(k + 1)  BY <1>1, <2>7, <3>3
      <3> HIDE DEF R, Q
      <3>5. ~(b[i + k] < Half)  BY <2>1, <2>7, Sizes
      <3>6. Q(k) = Continued(b[i + k] - Half, R(k + 1))  BY <2>1, <2>3, <2>4, <2>5, <3>4, <3>5 DEF Group
      <3> QED BY <2>7, <3>6 DEF Continued
    <2> QED BY <2>1, <2>6, <2>7
  <1>2. ASSUME NEW m \in Nat, \A x \in 0..m - 1 : x \in T PROVE m \in T
    <2>1. CASE m <= Groups - 1
      <3> DEFINE k == Groups - 1 - m
      <3>1. k \in 0..Groups - 1  BY <2>1, Sizes
      <3>2. k + 1 \in 0..Groups - 1 => Fine(k + 1)
        <4>1. SUFFICES ASSUME k + 1 \in 0..Groups - 1 PROVE Fine(k + 1)  OBVIOUS
        <4>2. m - 1 \in 0..m - 1 /\ m - 1 <= Groups - 1 /\ Groups - 1 - (m - 1) = k + 1
          BY <2>1, <4>1, Sizes
        <4>3. m - 1 \in T  BY <1>2, <4>2
        <4> HIDE DEF Fine
        <4> QED BY <4>2, <4>3
      <3>3. Fine(k)  BY <1>1, <3>1, <3>2
      <3> HIDE DEF Fine
      <3> QED BY <3>3
    <2>2. CASE ~(m <= Groups - 1)  BY <2>2
    <2> QED BY <2>1, <2>2
  <1>3. \A m \in Nat : m \in T
    <2> HIDE DEF T
    <2> QED BY <1>2, StrongInduction
  <1>4. ASSUME NEW k \in 0..Groups - 1 PROVE Fine(k)
    <2>1. Groups - 1 - k \in Nat /\ Groups - 1 - k <= Groups - 1 /\ Groups - 1 - (Groups - 1 - k) = k
      BY Sizes
    <2>2. Groups - 1 - k \in T  BY <1>3, <2>1
    <2> HIDE DEF Fine
    <2> QED BY <2>1, <2>2
  <1> QED BY <1>4

(* encVarint writes what readVarint reads. *)
LEMMA GroupsRoundtrip ==
  ASSUME NEW c \in Bytes, NEW i \in Position
  PROVE  \A d \in 0..Groups - 1 : \A v \in Nat :
           v < Capacity[d] /\ Holds(c, i + (Groups - 1 - d), encVarint[v])
             => readGroups(c, i)[Groups - 1 - d] = [ok |-> TRUE, n |-> Len(encVarint[v]), v |-> v]
  <1> DEFINE R(k) == readGroups(c, i)[k]
             Fine(d) == \A v \in Nat :
                v < Capacity[d] /\ Holds(c, i + (Groups - 1 - d), encVarint[v])
                  => R(Groups - 1 - d) = [ok |-> TRUE, n |-> Len(encVarint[v]), v |-> v]
             T == {d \in Nat : d <= Groups - 1 => Fine(d)}
  <1>0. i \in Nat /\ i >= 1 /\ Len(c) \in Nat  BY LenBytes DEF Position
  <1>1. ASSUME NEW d \in 0..Groups - 1, d # 0 => Fine(d - 1),
               NEW v \in Nat, v < Capacity[d], Holds(c, i + (Groups - 1 - d), encVarint[v])
        PROVE  R(Groups - 1 - d) = [ok |-> TRUE, n |-> Len(encVarint[v]), v |-> v]
    <2> DEFINE k == Groups - 1 - d
    <2>1. k \in 0..Groups - 1 /\ k \in Nat /\ d \in Nat /\ k # Groups  BY Sizes
    <2>2. R(k) = Group(c, i, k, R(k + 1))  BY <2>1, ReadGroupsIs
    <2>3. CASE v < Half
      <3>1. encVarint[v] = <<v>>  BY <2>3, EncVarintIs
      <3>2. Len(<<v>>) = 1 /\ <<v>>[1] = v  OBVIOUS
      <3>3. i + k + 1 - 1 <= Len(c) /\ c[i + k + 1 - 1] = v  BY <1>1, <3>1, <3>2 DEF Holds
      <3>4. ~(i + k > Len(c)) /\ c[i + k] = v
        <4>1. i + k + 1 - 1 = i + k  BY <1>0, <2>1
        <4> QED BY <1>0, <2>1, <3>3, <4>1
      <3>5. ~(k = Groups - 1 /\ v > 1)
        <4>1. SUFFICES ASSUME k = Groups - 1 PROVE ~(v > 1)  OBVIOUS
        <4>2. d = 0  BY <4>1, Sizes
        <4> QED BY <1>1, <4>2, CapacityIs
      <3> HIDE DEF R
      <3>6. R(k) = [ok |-> TRUE, n |-> 1, v |-> v]  BY <2>1, <2>2, <2>3, <3>4, <3>5 DEF Group
      <3> QED BY <3>1, <3>2, <3>6
    <2>4. CASE ~(v < Half)
      <3> DEFINE q == v \div Half
                 h == Half + (v % Half)
      <3>0. v >= Half  BY <2>4, Sizes
      <3>1. encVarint[v] = <<h>> \o encVarint[q]  BY <3>0, EncVarintIs
      <3>2. q \in Nat /\ v % Half \in 0..Half - 1 /\ v = (v % Half) + Half * q  BY Divided
      <3>3. h \in Byte  BY <3>2, Sizes, ByteIs
      <3>4. <<h>> \in Bytes /\ encVarint[q] \in Bytes  BY <3>2, <3>3, EncVarintIs DEF Bytes
      <3>5. d # 0
        <4>1. SUFFICES ASSUME d = 0 PROVE FALSE  OBVIOUS
        <4> QED BY <1>1, <3>0, <4>1, CapacityIs, Sizes
      <3>6. i + k \in Position  BY <1>0, <2>1 DEF Position
      <3>7. Holds(c, i + k, <<h>>) /\ Holds(c, i + k + Len(<<h>>), encVarint[q])
        <4>1. Holds(c, i + k, <<h>> \o encVarint[q])  BY <1>1, <3>1
        <4> HIDE DEF h, q, k
        <4> QED BY <3>4, <3>6, <4>1, HoldsConcat
      <3>8. Len(<<h>>) = 1 /\ <<h>>[1] = h  OBVIOUS
      <3>9. ~(i + k > Len(c)) /\ c[i + k] = h
        <4>1. i + k + 1 - 1 <= Len(c) /\ c[i + k + 1 - 1] = h  BY <3>7, <3>8 DEF Holds
        <4>2. i + k + 1 - 1 = i + k  BY <1>0, <2>1
        <4> QED BY <1>0, <2>1, <4>1, <4>2
      <3>10. k + 1 = Groups - 1 - (d - 1) /\ i + k + 1 = i + (Groups - 1 - (d - 1))  BY <1>0, <2>1, Sizes
      <3>11. Holds(c, i + (Groups - 1 - (d - 1)), encVarint[q])  BY <3>7, <3>8, <3>10
      <3>12. q < Capacity[d - 1]
        <4>1. Capacity[d - 1] \in Nat /\ v < Half * Capacity[d - 1]  BY <1>1, <2>1, <3>5, CapacityGrows
        <4>2. v % Half \in Nat /\ v % Half < Half  BY <3>2, Sizes
        <4> HIDE DEF q
        <4> QED BY <3>2, <4>1, <4>2, Below
      <3>13. R(Groups - 1 - (d - 1)) = [ok |-> TRUE, n |-> Len(encVarint[q]), v |-> q]
        BY <1>1, <3>2, <3>5, <3>11, <3>12
      <3> HIDE DEF R
      <3>14. R(k + 1) = [ok |-> TRUE, n |-> Len(encVarint[q]), v |-> q]  BY <3>10, <3>13
      <3>15. k # Groups - 1 /\ ~(h < Half) /\ h - Half = v % Half  BY <3>2, <3>5, Sizes
      <3>16. R(k) = Continued(v % Half, R(k + 1))  BY <2>1, <2>2, <3>9, <3>15 DEF Group
      <3>17. R(k) = [ok |-> TRUE, n |-> Len(encVarint[q]) + 1, v |-> (v % Half) + Half * q]
        <4> HIDE DEF q
        <4>1. R(k + 1).ok /\ R(k + 1).n = Len(encVarint[q]) /\ R(k + 1).v = q  BY <3>14
        <4> QED BY <3>16, <4>1 DEF Continued
      <3>18. Len(encVarint[v]) = Len(encVarint[q]) + 1
        <4>1. Len(encVarint[v]) = Len(<<h>>) + Len(encVarint[q])  BY <3>1, <3>4, ConcatIs
        <4> QED BY <3>4, <3>8, <4>1, LenBytes
      <3> QED BY <3>2, <3>17, <3>18
    <2> QED BY <2>3, <2>4
  <1>2. ASSUME NEW d \in Nat, \A x \in 0..d - 1 : x \in T PROVE d \in T
    <2>1. CASE d <= Groups - 1
      <3>1. d \in 0..Groups - 1  BY <2>1, Sizes
      <3>2. d # 0 => Fine(d - 1)
        <4>1. SUFFICES ASSUME d # 0 PROVE Fine(d - 1)  OBVIOUS
        <4>2. d - 1 \in 0..d - 1 /\ d - 1 <= Groups - 1  BY <2>1, <4>1, Sizes
        <4>3. d - 1 \in T  BY <1>2, <4>2
        <4> HIDE DEF Fine
        <4> QED BY <4>2, <4>3
      <3>3. Fine(d)  BY <1>1, <3>1, <3>2
      <3> HIDE DEF Fine
      <3> QED BY <3>3
    <2>2. CASE ~(d <= Groups - 1)  BY <2>2
    <2> QED BY <2>1, <2>2
  <1>3. \A d \in Nat : d \in T
    <2> HIDE DEF T
    <2> QED BY <1>2, StrongInduction
  <1>4. ASSUME NEW d \in 0..Groups - 1 PROVE Fine(d)
    <2>1. d \in T /\ d <= Groups - 1  BY <1>3, Sizes
    <2> HIDE DEF Fine
    <2> QED BY <2>1
  <1> QED BY <1>4

-----------------------------------------------------------------------------
(* readVarint takes at most Groups bytes, all of them there, and its value *)
(* fits the width of the type: a length or a key never runs past the body. *)
THEOREM ReadVarintBounds ==
  ASSUME NEW b \in Bytes, NEW i \in Position
  PROVE  /\ readVarint(b, i) \in Reading
         /\ readVarint(b, i).ok =>
              /\ readVarint(b, i).n \in 1..Groups /\ i + readVarint(b, i).n - 1 <= Len(b)
              /\ readVarint(b, i).v \in Nat /\ readVarint(b, i).v < Width
  <1>1. 0 \in 0..Groups /\ 0 \in 0..Groups - 1 /\ Groups - 0 = Groups /\ Groups - 1 - 0 = Groups - 1
        /\ i + 0 = i
    BY Sizes DEF Position
  <1>2. readVarint(b, i) \in Reading  BY <1>1, ReadGroupsIs DEF readVarint
  <1>3. readVarint(b, i).ok =>
          /\ readVarint(b, i).n \in 1..Groups - 0 /\ i + 0 + readVarint(b, i).n - 1 <= Len(b)
          /\ readVarint(b, i).v \in Nat /\ readVarint(b, i).v < Capacity[Groups - 1 - 0]
    BY <1>1, GroupsBounds DEF readVarint
  <1> QED BY <1>1, <1>2, <1>3 DEF Width

(* The bytes of b from i on and those of c from j on are the same. *)
Agree(b, i, c, j, len) == j + len - 1 <= Len(c) /\ \A x \in 0..len - 1 : b[i + x] = c[j + x]

LEMMA ReadVarintLocal ==
  ASSUME NEW b \in Bytes, NEW i \in Position, NEW c \in Bytes, NEW j \in Position,
         readVarint(b, i).ok, Agree(b, i, c, j, readVarint(b, i).n)
  PROVE  readVarint(c, j) = readVarint(b, i)
  <1> DEFINE e == readVarint(b, i).n
  <1>1. e \in Nat /\ 0 \in 0..Groups - 1 /\ 0 + e = e  BY ReadVarintBounds, Sizes
  <1>2. readGroups(b, i)[0].ok /\ 0 + readGroups(b, i)[0].n = e  BY <1>1 DEF readVarint
  <1>3. (\A x \in 0..e - 1 : b[i + x] = c[j + x]) /\ j + e - 1 <= Len(c)  BY DEF Agree
  <1> HIDE DEF e
  <1>4. \A k \in 0..Groups - 1 : readGroups(b, i)[k].ok /\ k + readGroups(b, i)[k].n = e
                                     => readGroups(c, j)[k] = readGroups(b, i)[k]
    BY <1>1, <1>3, GroupsLocal, ZenonT(30)
  <1>5. readGroups(c, j)[0] = readGroups(b, i)[0]  BY <1>1, <1>2, <1>4
  <1> QED BY <1>5 DEF readVarint

(* Whatever encVarint writes, readVarint reads, wherever it stands. *)
THEOREM VarintRoundtrip ==
  ASSUME NEW c \in Bytes, NEW i \in Position, NEW v \in Nat, v < Width, Holds(c, i, encVarint[v])
  PROVE  readVarint(c, i) = [ok |-> TRUE, n |-> Len(encVarint[v]), v |-> v]
  <1>1. Groups - 1 \in 0..Groups - 1 /\ Groups - 1 - (Groups - 1) = 0 /\ i + 0 = i
    BY Sizes DEF Position
  <1>2. v < Capacity[Groups - 1] /\ Holds(c, i + (Groups - 1 - (Groups - 1)), encVarint[v])
    BY <1>1 DEF Width
  <1>3. readGroups(c, i)[Groups - 1 - (Groups - 1)] = [ok |-> TRUE, n |-> Len(encVarint[v]), v |-> v]
    BY <1>1, <1>2, GroupsRoundtrip
  <1> QED BY <1>1, <1>3 DEF readVarint

LEMMA AgreeHolds ==
  ASSUME NEW b \in Bytes, NEW i \in Position, NEW c \in Bytes, NEW j \in Position, NEW len \in Nat,
         i + len - 1 <= Len(b), Holds(c, j, SubSeq(b, i, i + len - 1))
  PROVE  Agree(b, i, c, j, len)
  <1>0. i \in Nat /\ j \in Nat /\ i + len - 1 \in Nat /\ i <= i + len - 1 + 1 /\ i + len - 1 + 1 - i = len
        /\ Len(b) \in Nat /\ Len(c) \in Nat
    BY LenBytes DEF Position
  <1> DEFINE s == SubSeq(b, i, i + len - 1)
  <1>1. s \in Bytes /\ Len(s) = len /\ \A x \in 1..len : s[x] = b[i + x - 1]  BY <1>0, SubSeqIs
  <1> HIDE DEF s
  <1>2. j + len - 1 <= Len(c) /\ \A x \in 1..len : c[j + x - 1] = s[x]  BY <1>1 DEF Holds, s
  <1>3. ASSUME NEW x \in 0..len - 1 PROVE b[i + x] = c[j + x]
    <2>1. x + 1 \in 1..len /\ i + (x + 1) - 1 = i + x /\ j + (x + 1) - 1 = j + x  BY <1>0
    <2> QED BY <1>1, <1>2, <2>1
  <1> QED BY <1>2, <1>3 DEF Agree

LEMMA AgreePart ==
  ASSUME NEW b \in Bytes, NEW i \in Position, NEW c \in Bytes, NEW j \in Position, NEW len \in Nat,
         Agree(b, i, c, j, len), NEW o \in Nat, NEW size \in Nat, o + size <= len
  PROVE  Agree(b, i + o, c, j + o, size)
  <1>0. i \in Nat /\ j \in Nat /\ Len(c) \in Nat  BY LenBytes DEF Position
  <1>1. j + o + size - 1 <= Len(c)  BY <1>0 DEF Agree
  <1>2. ASSUME NEW x \in 0..size - 1 PROVE b[i + o + x] = c[j + o + x]
    <2>1. o + x \in 0..len - 1 /\ i + (o + x) = i + o + x /\ j + (o + x) = j + o + x  BY <1>0
    <2> QED BY <2>1 DEF Agree
  <1> QED BY <1>1, <1>2 DEF Agree

LEMMA AgreeSubSeq ==
  ASSUME NEW b \in Bytes, NEW i \in Position, NEW c \in Bytes, NEW j \in Position, NEW len \in Nat,
         i + len - 1 <= Len(b), Agree(b, i, c, j, len)
  PROVE  SubSeq(c, j, j + len - 1) = SubSeq(b, i, i + len - 1)
  <1>0. /\ i \in Nat /\ j \in Nat /\ Len(b) \in Nat /\ Len(c) \in Nat
        /\ i + len - 1 \in Nat /\ i <= i + len - 1 + 1 /\ i + len - 1 + 1 - i = len
        /\ j + len - 1 \in Nat /\ j <= j + len - 1 + 1 /\ j + len - 1 + 1 - j = len
        /\ j + len - 1 <= Len(c)
    BY LenBytes DEF Position, Agree
  <1> DEFINE s == SubSeq(b, i, i + len - 1)
             t == SubSeq(c, j, j + len - 1)
  <1>1. s \in Bytes /\ Len(s) = len /\ \A x \in 1..len : s[x] = b[i + x - 1]  BY <1>0, SubSeqIs
  <1>2. t \in Bytes /\ Len(t) = len /\ \A x \in 1..len : t[x] = c[j + x - 1]  BY <1>0, SubSeqIs
  <1> HIDE DEF s, t
  <1>3. ASSUME NEW x \in 1..len PROVE s[x] = t[x]
    <2>1. x - 1 \in 0..len - 1 /\ i + (x - 1) = i + x - 1 /\ j + (x - 1) = j + x - 1  BY <1>0
    <2> QED BY <1>1, <1>2, <2>1 DEF Agree
  <1>4. s = t  BY <1>1, <1>2, <1>3, SameBytes
  <1> QED BY <1>4 DEF s, t

LEMMA SpanLocal ==
  ASSUME NEW b \in Bytes, NEW i \in Position, NEW c \in Bytes, NEW j \in Position,
         NEW num, NEW wire, NEW o \in Nat, NEW size \in Nat,
         i + o + size - 1 <= Len(b), Agree(b, i, c, j, o + size)
  PROVE  fieldSpan(c, j, num, wire, j + o, size) =
           [ok |-> TRUE, num |-> num, wire |-> wire, next |-> j + o + size,
            raw |-> SubSeq(b, i, i + o + size - 1), value |-> SubSeq(b, i + o, i + o + size - 1)]
  <1>0. /\ i \in Nat /\ j \in Nat /\ Len(b) \in Nat /\ Len(c) \in Nat /\ i + o \in Position
        /\ j + o \in Position /\ o + size \in Nat /\ i + (o + size) - 1 = i + o + size - 1
        /\ j + (o + size) - 1 = j + o + size - 1 /\ o + size <= o + size
    BY LenBytes DEF Position
  <1>1. SubSeq(c, j, j + (o + size) - 1) = SubSeq(b, i, i + (o + size) - 1)  BY <1>0, AgreeSubSeq
  <1>2. Agree(b, i + o, c, j + o, size)  BY <1>0, AgreePart
  <1>3. SubSeq(c, j + o, j + o + size - 1) = SubSeq(b, i + o, i + o + size - 1)
    BY <1>0, <1>2, AgreeSubSeq
  <1>4. ~(j + o + size - 1 > Len(c))
    <2>1. j + o + size - 1 <= Len(c)  BY <1>0 DEF Agree
    <2> QED BY <1>0, <2>1
  <1> QED BY <1>0, <1>1, <1>3, <1>4 DEF fieldSpan

-----------------------------------------------------------------------------
(* A field of parse: where its value starts and how long that is. *)
NumOf(k) == (k.v \div 8) % NumWidth
WireOf(k) == k.v % 8
Wires == {0, 1, 2, 5}
GoodKey(k) == k.ok /\ NumOf(k) # 0 /\ ~(NumOf(k) >= NumLimit) /\ WireOf(k) \in Wires
HasLen(k) == WireOf(k) \in {0, 2}
ValueAt(k, len) == IF WireOf(k) = 2 THEN k.n + len.n ELSE k.n
ValueSize(k, len) ==
  IF WireOf(k) = 0 THEN len.n
  ELSE IF WireOf(k) = 1 THEN 8 ELSE IF WireOf(k) = 2 THEN len.v ELSE 4

LEMMA FieldAtIs ==
  ASSUME NEW b \in Bytes, NEW i \in Position
  PROVE  LET k == readVarint(b, i)
             len == readVarint(b, i + k.n)
         IN  /\ ~GoodKey(k) => fieldAt(b, i) = Malformed
             /\ GoodKey(k) /\ HasLen(k) /\ ~len.ok => fieldAt(b, i) = Malformed
             /\ GoodKey(k) /\ (HasLen(k) => len.ok) =>
                  fieldAt(b, i) =
                    fieldSpan(b, i, NumOf(k), WireOf(k), i + ValueAt(k, len), ValueSize(k, len))
  <1> DEFINE k == readVarint(b, i)
             len == readVarint(b, i + k.n)
             got == IF WireOf(k) \in {0, 2} THEN len ELSE [ok |-> TRUE]
  <1>1. fieldAt(b, i) = fieldKeyed(b, i, k)  BY DEF fieldAt
  <1>2. fieldKeyed(b, i, k) =
          IF ~k.ok THEN Malformed
          ELSE IF NumOf(k) = 0 \/ NumOf(k) >= NumLimit \/ WireOf(k) \notin Wires THEN Malformed
          ELSE fieldValue(b, i, NumOf(k), WireOf(k), i + k.n, got)
    BY DEF fieldKeyed, NumOf, WireOf, Wires
  <1>0. k.ok => i \in Nat /\ k.n \in Nat /\ i + k.n \in Position
    BY ReadVarintBounds, Sizes DEF Position
  <1>5. k.ok /\ len.ok => len.n \in Nat  BY <1>0, ReadVarintBounds, Sizes
  <1> HIDE DEF k, len
  <1>3. ~GoodKey(k) => fieldAt(b, i) = Malformed  BY <1>1, <1>2 DEF GoodKey
  <1>4. GoodKey(k) => fieldAt(b, i) = fieldValue(b, i, NumOf(k), WireOf(k), i + k.n, got)
    BY <1>1, <1>2 DEF GoodKey
  <1>6. ASSUME GoodKey(k), HasLen(k), ~len.ok PROVE fieldAt(b, i) = Malformed
    BY <1>4, <1>6 DEF fieldValue, HasLen
  <1>7. ASSUME GoodKey(k), HasLen(k) => len.ok
        PROVE  fieldAt(b, i) =
                 fieldSpan(b, i, NumOf(k), WireOf(k), i + ValueAt(k, len), ValueSize(k, len))
    <2>1. got.ok  BY <1>7 DEF HasLen
    <2>2. WireOf(k) \in {0, 2} => got = len  OBVIOUS
    <2> HIDE DEF got
    <2>3. CASE WireOf(k) = 0
      <3>1. got.ok /\ fieldAt(b, i) = fieldValue(b, i, NumOf(k), 0, i + k.n, len)
        BY <1>4, <1>7, <2>1, <2>2, <2>3
      <3>2. fieldAt(b, i) = fieldSpan(b, i, NumOf(k), 0, i + k.n, len.n)
        BY <2>1, <2>2, <2>3, <3>1 DEF fieldValue
      <3> QED BY <2>3, <3>2 DEF ValueAt, ValueSize
    <2>4. CASE WireOf(k) = 1
      <3>1. fieldAt(b, i) = fieldSpan(b, i, NumOf(k), 1, i + k.n, 8)
        BY <1>4, <1>7, <2>1, <2>4 DEF fieldValue
      <3> QED BY <2>4, <3>1 DEF ValueAt, ValueSize
    <2>5. CASE WireOf(k) = 2
      <3>1. fieldAt(b, i) = fieldValue(b, i, NumOf(k), 2, i + k.n, len) /\ len.ok
        BY <1>4, <1>7, <2>1, <2>2, <2>5
      <3>2. fieldAt(b, i) = fieldSpan(b, i, NumOf(k), 2, i + k.n + len.n, len.v)
        BY <3>1 DEF fieldValue
      <3>3. i + k.n + len.n = i + (k.n + len.n)  BY <1>0, <1>5, <1>7, <3>1 DEF GoodKey
      <3> QED BY <2>5, <3>2, <3>3 DEF ValueAt, ValueSize
    <2>6. CASE WireOf(k) = 5
      <3>1. fieldAt(b, i) = fieldSpan(b, i, NumOf(k), 5, i + k.n, 4)
        BY <1>4, <1>7, <2>1, <2>6 DEF fieldValue
      <3> QED BY <2>6, <3>1 DEF ValueAt, ValueSize
    <2> QED BY <1>7, <2>3, <2>4, <2>5, <2>6 DEF GoodKey, Wires
  <1> QED BY <1>3, <1>6, <1>7 DEF k, len

LEMMA FieldParts ==
  ASSUME NEW b \in Bytes, NEW i \in Position, fieldAt(b, i).ok
  PROVE  LET k == readVarint(b, i)
             len == readVarint(b, i + k.n)
             o == ValueAt(k, len)
             size == ValueSize(k, len)
         IN  /\ GoodKey(k) /\ (HasLen(k) => len.ok)
             /\ k.n \in Nat /\ k.n >= 1 /\ (HasLen(k) => len.n \in Nat)
             /\ o \in Nat /\ size \in Nat /\ k.n <= o /\ (HasLen(k) => k.n + len.n <= o + size)
             /\ i + o + size - 1 <= Len(b)
             /\ fieldAt(b, i) =
                  [ok |-> TRUE, num |-> NumOf(k), wire |-> WireOf(k), next |-> i + o + size,
                   raw |-> SubSeq(b, i, i + o + size - 1), value |-> SubSeq(b, i + o, i + o + size - 1)]
  <1> DEFINE k == readVarint(b, i)
             len == readVarint(b, i + k.n)
             o == ValueAt(k, len)
             size == ValueSize(k, len)
  <1>1. GoodKey(k) /\ (HasLen(k) => len.ok)  BY FieldAtIs DEF Malformed
  <1>2. fieldAt(b, i) = fieldSpan(b, i, NumOf(k), WireOf(k), i + o, size)  BY <1>1, FieldAtIs
  <1>3. k.n \in Nat /\ k.n >= 1 /\ i \in Nat /\ i + k.n \in Position
    BY <1>1, ReadVarintBounds, Sizes DEF GoodKey, Position
  <1>4. HasLen(k) => len.n \in Nat /\ len.v \in Nat  BY <1>1, <1>3, ReadVarintBounds, Sizes
  <1>5. fieldAt(b, i).ok  OBVIOUS
  <1>9. Len(b) \in Nat  BY LenBytes
  <1> HIDE DEF k, len
  <1>6. /\ o \in Nat /\ size \in Nat /\ k.n <= o /\ (HasLen(k) => k.n + len.n <= o + size)
    <2>1. CASE WireOf(k) = 0
      <3>1. o = k.n /\ size = len.n  BY <2>1 DEF ValueAt, ValueSize
      <3> QED BY <1>3, <1>4, <2>1, <3>1 DEF HasLen
    <2>2. CASE WireOf(k) = 1
      <3>1. o = k.n /\ size = 8 /\ ~HasLen(k)  BY <2>2 DEF ValueAt, ValueSize, HasLen
      <3> QED BY <1>3, <3>1
    <2>3. CASE WireOf(k) = 2
      <3>1. o = k.n + len.n /\ size = len.v  BY <2>3 DEF ValueAt, ValueSize
      <3> QED BY <1>3, <1>4, <2>3, <3>1 DEF HasLen
    <2>4. CASE WireOf(k) = 5
      <3>1. o = k.n /\ size = 4 /\ ~HasLen(k)  BY <2>4 DEF ValueAt, ValueSize, HasLen
      <3> QED BY <1>3, <3>1
    <2> QED BY <1>1, <2>1, <2>2, <2>3, <2>4 DEF GoodKey, Wires
  <1> HIDE DEF o, size
  <1>7. ~(i + o + size - 1 > Len(b))  BY <1>2, <1>5 DEF fieldSpan, Malformed
  <1>8. fieldAt(b, i) =
          [ok |-> TRUE, num |-> NumOf(k), wire |-> WireOf(k), next |-> i + o + size,
           raw |-> SubSeq(b, i, i + o + size - 1), value |-> SubSeq(b, i + o, i + o + size - 1)]
    BY <1>2, <1>7 DEF fieldSpan
  <1>10. i + o + size - 1 <= Len(b)  BY <1>3, <1>6, <1>7, <1>9
  <1> QED BY <1>1, <1>3, <1>4, <1>6, <1>8, <1>10 DEF k, len, o, size

LEMMA NumOfIs ==
  ASSUME NEW k, k.v \in Nat, GoodKey(k)
  PROVE  NumOf(k) \in 1..NumLimit - 1 /\ WireOf(k) \in Wires
  <1>1. NumWidth \in Nat /\ NumWidth > 0 /\ NumLimit \in Nat  BY WLocAssumption
  <1> DEFINE q == k.v \div 8
  <1>2. q \in Nat  OBVIOUS
  <1> HIDE DEF q
  <1>3. q % NumWidth \in Nat  BY <1>1, <1>2
  <1>4. NumOf(k) \in Nat  BY <1>3 DEF NumOf, q
  <1> QED BY <1>1, <1>4 DEF GoodKey

Field == [ok : {TRUE}, num : 1..NumLimit - 1, wire : Wires, next : Nat, raw : Bytes, value : Bytes]

(* Every field parse finds is one of the bytes it was given: it starts     *)
(* where it is looked for, ends behind it and within the body, so that the *)
(* loop always advances, and its value is a proper part of it.             *)
THEOREM FieldBounds ==
  ASSUME NEW b \in Bytes, NEW i \in Position
  PROVE  \/ fieldAt(b, i) = Malformed
         \/ /\ fieldAt(b, i) \in Field
            /\ fieldAt(b, i).next \in i + 1..Len(b) + 1
            /\ fieldAt(b, i).raw = SubSeq(b, i, fieldAt(b, i).next - 1)
            /\ Len(fieldAt(b, i).raw) = fieldAt(b, i).next - i
            /\ \E p \in i + 1..fieldAt(b, i).next :
                 fieldAt(b, i).value = SubSeq(b, p, fieldAt(b, i).next - 1)
  <1> DEFINE f == fieldAt(b, i)
             k == readVarint(b, i)
             len == readVarint(b, i + k.n)
             o == ValueAt(k, len)
             size == ValueSize(k, len)
             sp == fieldSpan(b, i, NumOf(k), WireOf(k), i + o, size)
  <1>0. i \in Nat /\ i >= 1 /\ Len(b) \in Nat  BY LenBytes DEF Position
  <1>1. f = Malformed \/ f = sp  BY FieldAtIs
  <1>2. f = Malformed \/ f.ok
    <2> HIDE DEF f, k, len, o, size
    <2> QED BY <1>1 DEF fieldSpan
  <1>3. CASE f.ok
    <2>1. /\ GoodKey(k) /\ k.n \in Nat /\ k.n >= 1
          /\ o \in Nat /\ size \in Nat /\ k.n <= o
          /\ i + o + size - 1 <= Len(b)
          /\ f = [ok |-> TRUE, num |-> NumOf(k), wire |-> WireOf(k), next |-> i + o + size,
                  raw |-> SubSeq(b, i, i + o + size - 1), value |-> SubSeq(b, i + o, i + o + size - 1)]
      BY <1>3, FieldParts
    <2>2. k.v \in Nat  BY <2>1, ReadVarintBounds DEF GoodKey
    <2>3. NumOf(k) \in 1..NumLimit - 1 /\ WireOf(k) \in Wires  BY <2>1, <2>2, NumOfIs
    <2> HIDE DEF f, k, len, o, size
    <2>4. /\ i + o \in Position /\ i + o + size - 1 \in Nat /\ i <= i + o + size - 1 + 1
          /\ i + o <= i + o + size - 1 + 1 /\ i + o + size - 1 + 1 - i = i + o + size - i
      BY <1>0, <2>1 DEF Position
    <2>5. SubSeq(b, i, i + o + size - 1) \in Bytes /\ SubSeq(b, i + o, i + o + size - 1) \in Bytes
          /\ Len(SubSeq(b, i, i + o + size - 1)) = i + o + size - i
      BY <2>1, <2>4, SubSeqIs
    <2>6. f.next = i + o + size /\ f.raw = SubSeq(b, i, i + o + size - 1)
          /\ f.value = SubSeq(b, i + o, i + o + size - 1)
      BY <2>1
    <2>7. i + o + size \in Nat  BY <1>0, <2>1
    <2>8. f \in Field  BY <2>1, <2>3, <2>5, <2>7 DEF Field
    <2>9. f.next \in i + 1..Len(b) + 1 /\ i + o \in i + 1..f.next  BY <1>0, <2>1, <2>6
    <2>10. f.raw = SubSeq(b, i, f.next - 1) /\ Len(f.raw) = f.next - i
           /\ f.value = SubSeq(b, i + o, f.next - 1)
      <3> DEFINE x == i + o + size
      <3>1. f.next = x /\ f.raw = SubSeq(b, i, x - 1) /\ f.value = SubSeq(b, i + o, x - 1)
            /\ Len(SubSeq(b, i, x - 1)) = x - i
        <4>1. (i + o + size) - 1 = i + o + size - 1 /\ (i + o + size) - i = i + o + size - i  BY <1>0, <2>1
        <4> QED BY <2>5, <2>6, <4>1
      <3> HIDE DEF x
      <3> QED BY <3>1
    <2>11. \E p \in i + 1..f.next : f.value = SubSeq(b, p, f.next - 1)  BY <2>9, <2>10
    <2> QED BY <2>8, <2>9, <2>10, <2>11 DEF f
  <1> QED BY <1>2, <1>3

(* A field found elsewhere is the same but for where it ends. *)
At(f, j) == [ok |-> TRUE, num |-> f.num, wire |-> f.wire, next |-> j + Len(f.raw),
             raw |-> f.raw, value |-> f.value]

LEMMA FieldLocal ==
  ASSUME NEW b \in Bytes, NEW i \in Position, NEW c \in Bytes, NEW j \in Position,
         fieldAt(b, i).ok, Holds(c, j, fieldAt(b, i).raw)
  PROVE  fieldAt(c, j) = At(fieldAt(b, i), j)
  <1> DEFINE f == fieldAt(b, i)
             k == readVarint(b, i)
             len == readVarint(b, i + k.n)
             o == ValueAt(k, len)
             size == ValueSize(k, len)
  <1>0. i \in Nat /\ i >= 1 /\ Len(b) \in Nat /\ j \in Nat /\ j >= 1 /\ Len(c) \in Nat
    BY LenBytes DEF Position
  <1>1. /\ GoodKey(k) /\ (HasLen(k) => len.ok)
        /\ k.n \in Nat /\ k.n >= 1 /\ (HasLen(k) => len.n \in Nat)
        /\ o \in Nat /\ size \in Nat /\ k.n <= o /\ (HasLen(k) => k.n + len.n <= o + size)
        /\ i + o + size - 1 <= Len(b)
        /\ f = [ok |-> TRUE, num |-> NumOf(k), wire |-> WireOf(k), next |-> i + o + size,
                raw |-> SubSeq(b, i, i + o + size - 1), value |-> SubSeq(b, i + o, i + o + size - 1)]
    BY FieldParts
  <1>2. o + size \in Nat /\ i + (o + size) - 1 = i + o + size - 1 /\ i + o + size = i + (o + size)
    BY <1>0, <1>1
  <1>3. Agree(b, i, c, j, o + size)
    <2>1. Holds(c, j, SubSeq(b, i, i + (o + size) - 1))  BY <1>1, <1>2
    <2> HIDE DEF o, size
    <2> QED BY <1>1, <1>2, <2>1, AgreeHolds
  <1>4. readVarint(c, j) = k
    <2>1. k.ok /\ 0 + k.n <= o + size /\ i + 0 = i /\ j + 0 = j  BY <1>0, <1>1 DEF GoodKey
    <2>2. Agree(b, i + 0, c, j + 0, k.n)
      <3> HIDE DEF k, len, o, size
      <3> QED BY <1>1, <1>2, <1>3, <2>1, AgreePart
    <2> QED BY <2>1, <2>2, ReadVarintLocal
  <1>5. HasLen(k) => readVarint(c, j + k.n) = len
    <2>1. SUFFICES ASSUME HasLen(k) PROVE readVarint(c, j + k.n) = len  OBVIOUS
    <2>2. i + k.n \in Position /\ j + k.n \in Position  BY <1>0, <1>1 DEF Position
    <2>3. Agree(b, i + k.n, c, j + k.n, len.n)
      <3>1. len.n \in Nat /\ k.n + len.n <= o + size  BY <1>1, <2>1
      <3> HIDE DEF k, len, o, size
      <3> QED BY <1>1, <1>2, <1>3, <3>1, AgreePart
    <2> QED BY <1>1, <2>1, <2>2, <2>3, ReadVarintLocal
  <1>6. fieldAt(c, j) = fieldSpan(c, j, NumOf(k), WireOf(k), j + o, size)
    <2> DEFINE l == readVarint(c, j + k.n)
    <2>1. HasLen(k) => l.ok  BY <1>1, <1>5
    <2>2. fieldAt(c, j) = fieldSpan(c, j, NumOf(k), WireOf(k), j + ValueAt(k, l), ValueSize(k, l))
      BY <1>1, <1>4, <2>1, FieldAtIs
    <2>3. ValueAt(k, l) = o /\ ValueSize(k, l) = size
      <3>1. CASE HasLen(k)  BY <1>5, <3>1
      <3>2. CASE ~HasLen(k)
        <4> HIDE DEF k, len, l
        <4> QED BY <3>2 DEF HasLen, ValueAt, ValueSize
      <3> QED BY <3>1, <3>2
    <2> QED BY <2>2, <2>3
  <1> HIDE DEF f, k, len, o, size
  <1>7. fieldSpan(c, j, NumOf(k), WireOf(k), j + o, size) =
          [ok |-> TRUE, num |-> NumOf(k), wire |-> WireOf(k), next |-> j + o + size,
           raw |-> SubSeq(b, i, i + o + size - 1), value |-> SubSeq(b, i + o, i + o + size - 1)]
    BY <1>1, <1>3, SpanLocal
  <1>8. f.num = NumOf(k) /\ f.wire = WireOf(k) /\ f.raw = SubSeq(b, i, i + o + size - 1)
        /\ f.value = SubSeq(b, i + o, i + o + size - 1)
    BY <1>1
  <1>9. Len(SubSeq(b, i, i + o + size - 1)) = o + size
    <2>1. i + o + size - 1 \in Nat /\ i <= i + o + size - 1 + 1 /\ i + o + size - 1 + 1 - i = o + size
      BY <1>0, <1>1
    <2> QED BY <1>1, <2>1, SubSeqIs
  <1>10. j + o + size = j + (o + size)  BY <1>0, <1>1
  <1>11. fieldAt(c, j) = At(f, j)  BY <1>6, <1>7, <1>8, <1>9, <1>10 DEF At
  <1> QED BY <1>11 DEF f

-----------------------------------------------------------------------------
(* An item is what a field says, wherever it stands; it is lexed when      *)
(* parse finds it wherever its bytes are.                                  *)
Items == [num : 1..NumLimit - 1, wire : Wires, raw : Bytes, value : Bytes]
Item(f) == [num |-> f.num, wire |-> f.wire, raw |-> f.raw, value |-> f.value]
Lexed(g) ==
  /\ g \in Items /\ Len(g.raw) >= 1
  /\ \A c \in Bytes, j \in Position : Holds(c, j, g.raw) => fieldAt(c, j) = At(g, j)

LEMMA FieldLexed ==
  ASSUME NEW b \in Bytes, NEW i \in Position, fieldAt(b, i).ok
  PROVE  Lexed(Item(fieldAt(b, i)))
  <1> DEFINE f == fieldAt(b, i)
             g == Item(f)
  <1>0. i \in Nat  BY DEF Position
  <1>1. f \in Field /\ f.next \in i + 1..Len(b) + 1 /\ Len(f.raw) = f.next - i
    BY FieldBounds DEF Malformed
  <1>2. \A c \in Bytes, j \in Position : Holds(c, j, f.raw) => fieldAt(c, j) = At(f, j)  BY FieldLocal
  <1> HIDE DEF f
  <1>3. g \in Items /\ g.raw = f.raw  BY <1>1 DEF Field, Items, Item
  <1>4. \A j \in Position : At(g, j) = At(f, j)  BY DEF At, Item
  <1>5. Len(g.raw) >= 1  BY <1>0, <1>1, <1>3, LenBytes
  <1> HIDE DEF g
  <1>6. Lexed(g)  BY <1>2, <1>3, <1>4, <1>5 DEF Lexed
  <1> QED BY <1>6 DEF f, g

LEMMA EncVarintBytes == \A v \in Nat : encVarint[v] \in Bytes /\ Len(encVarint[v]) >= 1
  <1>1. \A v \in Nat : encVarint[v] \in Bytes  BY EncVarintIs DEF Bytes
  <1>2. ASSUME NEW v \in Nat PROVE Len(encVarint[v]) >= 1
    <2>1. CASE v < Half
      <3>1. encVarint[v] = <<v>>  BY <2>1, EncVarintIs
      <3> QED BY <3>1
    <2>2. CASE v >= Half
      <3>1. v \div Half \in Nat /\ v % Half \in 0..Half - 1  BY Divided
      <3>2. Half + (v % Half) \in Byte  BY <3>1, Sizes, ByteIs
      <3>3. <<Half + (v % Half)>> \in Bytes /\ Len(<<Half + (v % Half)>>) = 1  BY <3>2 DEF Bytes
      <3>4. Len(encVarint[v]) = Len(<<Half + (v % Half)>>) + Len(encVarint[v \div Half])
        BY <1>1, <2>2, <3>1, <3>3, ConcatIs, EncVarintIs
      <3>5. Len(encVarint[v \div Half]) \in Nat  BY <1>1, <3>1, LenBytes
      <3> QED BY <3>3, <3>4, <3>5
    <2> QED BY <2>1, <2>2, Sizes
  <1> QED BY <1>1, <1>2

(* What is written as a key is read as that key. *)
LEMMA KeyRead ==
  ASSUME NEW c \in Bytes, NEW j \in Position, NEW num \in 1..NumLimit - 1, NEW wire \in Wires,
         Holds(c, j, key(num, wire))
  PROVE  /\ GoodKey(readVarint(c, j)) /\ NumOf(readVarint(c, j)) = num
         /\ WireOf(readVarint(c, j)) = wire /\ readVarint(c, j).n = Len(key(num, wire))
  <1> DEFINE v == num * 8 + wire
             k == readVarint(c, j)
  <1>1. NumWidth \in Nat /\ NumLimit \in Nat /\ NumLimit <= NumWidth /\ 8 * NumLimit <= Width
        /\ Width \in Nat
    <2>1. Groups - 1 \in Nat  BY Sizes
    <2>2. Width \in Nat  BY <2>1, CapacityIs DEF Width
    <2> QED BY <2>2, WLocAssumption
  <1>2. wire \in 0..7  BY DEF Wires
  <1>3. v \in Nat /\ v < Width  BY <1>1, <1>2
  <1>4. k = [ok |-> TRUE, n |-> Len(encVarint[v]), v |-> v]  BY <1>3, VarintRoundtrip DEF key
  <1>5. k.ok /\ k.n = Len(key(num, wire)) /\ k.v = v  BY <1>4 DEF key
  <1>6. (num * 8 + wire) \div 8 = num /\ (num * 8 + wire) % 8 = wire  BY <1>2
  <1>7. num % NumWidth = num  BY <1>1
  <1> HIDE DEF k
  <1>8. NumOf(k) = num  BY <1>5, <1>6, <1>7 DEF NumOf
  <1>9. WireOf(k) = wire  BY <1>5, <1>6 DEF WireOf
  <1>10. GoodKey(k)  BY <1>1, <1>5, <1>8, <1>9 DEF GoodKey
  <1> QED BY <1>5, <1>8, <1>9, <1>10 DEF k

LEMMA KeyBytes ==
  ASSUME NEW num \in 1..NumLimit - 1, NEW wire \in Wires
  PROVE  key(num, wire) \in Bytes /\ Len(key(num, wire)) >= 1
  <1>1. num * 8 + wire \in Nat  BY Sizes DEF Wires
  <1> QED BY <1>1, EncVarintBytes DEF key

LEMMA WrittenLexed ==
  ASSUME NEW num \in 1..NumLimit - 1, NEW x \in Nat, x < Width
  PROVE  Lexed([num |-> num, wire |-> 0, raw |-> key(num, 0) \o encVarint[x], value |-> encVarint[x]])
  <1> DEFINE h == key(num, 0)
             e == encVarint[x]
             s == h \o e
             g == [num |-> num, wire |-> 0, raw |-> s, value |-> e]
  <1>1. 0 \in Wires /\ h \in Bytes /\ Len(h) >= 1 /\ e \in Bytes /\ Len(e) >= 1
    BY KeyBytes, EncVarintBytes DEF Wires
  <1>2. s \in Bytes /\ Len(s) = Len(h) + Len(e)  BY <1>1, ConcatIs
  <1>3. Len(h) \in Nat /\ Len(e) \in Nat  BY <1>1, LenBytes
  <1>4. g \in Items  BY <1>1, <1>2 DEF Items
  <1>5. ASSUME NEW c \in Bytes, NEW j \in Position, Holds(c, j, s) PROVE fieldAt(c, j) = At(g, j)
    <2> DEFINE k == readVarint(c, j)
               len == readVarint(c, j + k.n)
    <2>0. j \in Nat /\ j >= 1 /\ Len(c) \in Nat  BY LenBytes DEF Position
    <2>1. Holds(c, j, h) /\ Holds(c, j + Len(h), e)
      <3> HIDE DEF h, e
      <3> QED BY <1>1, <1>5, HoldsConcat
    <2>2. GoodKey(k) /\ NumOf(k) = num /\ WireOf(k) = 0 /\ k.n = Len(h)  BY <1>1, <2>1, KeyRead
    <2>3. j + Len(h) \in Position  BY <1>3, <2>0 DEF Position
    <2>4. len = [ok |-> TRUE, n |-> Len(e), v |-> x]  BY <2>1, <2>2, <2>3, VarintRoundtrip
    <2>5. len.ok /\ len.n = Len(e)  BY <2>4
    <2>6. fieldAt(c, j) = fieldSpan(c, j, NumOf(k), WireOf(k), j + ValueAt(k, len), ValueSize(k, len))
      BY <2>2, <2>5, FieldAtIs
    <2> HIDE DEF h, e, s, k, len
    <2>7. ValueAt(k, len) = Len(h) /\ ValueSize(k, len) = Len(e)  BY <2>2, <2>5 DEF ValueAt, ValueSize
    <2>8. fieldAt(c, j) = fieldSpan(c, j, num, 0, j + Len(h), Len(e))  BY <2>2, <2>6, <2>7
    <2>9. SubSeq(c, j, j + Len(s) - 1) = s  BY <1>2, <1>5, HoldsWhole
    <2>10. SubSeq(c, j + Len(h), j + Len(h) + Len(e) - 1) = e  BY <1>1, <2>1, <2>3, HoldsWhole
    <2>11. j + Len(h) + Len(e) - 1 = j + Len(s) - 1 /\ ~(j + Len(h) + Len(e) - 1 > Len(c))
           /\ j + Len(h) + Len(e) = j + Len(s)
      BY <1>2, <1>3, <1>5, <2>0 DEF Holds
    <2>12. fieldAt(c, j) = [ok |-> TRUE, num |-> num, wire |-> 0, next |-> j + Len(s), raw |-> s, value |-> e]
      BY <2>8, <2>9, <2>10, <2>11 DEF fieldSpan
    <2> QED BY <2>12 DEF At
  <1>6. g.raw = s /\ Len(s) >= 1  BY <1>1, <1>2, <1>3
  <1> HIDE DEF s, e, g
  <1>7. Lexed(g)  BY <1>4, <1>5, <1>6 DEF Lexed
  <1> QED BY <1>7 DEF g, s, e

LEMMA DelimitedLexed ==
  ASSUME NEW num \in 1..NumLimit - 1, NEW t \in Bytes, Len(t) < Width
  PROVE  /\ Lexed([num |-> num, wire |-> 2, raw |-> Delimited(num, t), value |-> t])
         /\ Len(t) < Len(Delimited(num, t))
  <1> DEFINE h == key(num, 2)
             e == encVarint[Len(t)]
             s == h \o e \o t
             g == [num |-> num, wire |-> 2, raw |-> s, value |-> t]
  <1>1. 2 \in Wires /\ h \in Bytes /\ Len(h) >= 1 /\ e \in Bytes /\ Len(e) >= 1
    BY KeyBytes, EncVarintBytes, LenBytes DEF Wires
  <1>2. h \o e \in Bytes /\ Len(h \o e) = Len(h) + Len(e)  BY <1>1, ConcatIs
  <1>3. Len(h) \in Nat /\ Len(e) \in Nat /\ Len(t) \in Nat  BY <1>1, LenBytes
  <1>4. s \in Bytes /\ Len(s) = Len(h) + Len(e) + Len(t)
    <2> HIDE DEF h, e
    <2> QED BY <1>1, <1>2, ConcatIs
  <1>5. g \in Items  BY <1>1, <1>4 DEF Items
  <1>6. ASSUME NEW c \in Bytes, NEW j \in Position, Holds(c, j, s) PROVE fieldAt(c, j) = At(g, j)
    <2> DEFINE k == readVarint(c, j)
               len == readVarint(c, j + k.n)
    <2>0. j \in Nat /\ j >= 1 /\ Len(c) \in Nat  BY LenBytes DEF Position
    <2>1. Holds(c, j, h \o e) /\ Holds(c, j + Len(h \o e), t)
      <3> DEFINE he == h \o e
      <3>1. he \in Bytes /\ Holds(c, j, he \o t)  BY <1>2, <1>6
      <3> HIDE DEF he
      <3>2. Holds(c, j, he) /\ Holds(c, j + Len(he), t)  BY <3>1, HoldsConcat
      <3> QED BY <3>2 DEF he
    <2>13. Holds(c, j, h) /\ Holds(c, j + Len(h), e)
      <3> HIDE DEF h, e
      <3> QED BY <1>1, <2>1, HoldsConcat
    <2>14. Holds(c, j + (Len(h) + Len(e)), t) /\ j + (Len(h) + Len(e)) \in Position
      BY <1>2, <1>3, <2>0, <2>1 DEF Position
    <2>2. GoodKey(k) /\ NumOf(k) = num /\ WireOf(k) = 2 /\ k.n = Len(h)  BY <1>1, <2>13, KeyRead
    <2>3. j + Len(h) \in Position  BY <1>3, <2>0 DEF Position
    <2>4. len = [ok |-> TRUE, n |-> Len(e), v |-> Len(t)]
      BY <1>3, <2>13, <2>2, <2>3, VarintRoundtrip
    <2>5. len.ok /\ len.n = Len(e) /\ len.v = Len(t)  BY <2>4
    <2>6. fieldAt(c, j) = fieldSpan(c, j, NumOf(k), WireOf(k), j + ValueAt(k, len), ValueSize(k, len))
      BY <2>2, <2>5, FieldAtIs
    <2> HIDE DEF h, e, s, k, len
    <2>7. ValueAt(k, len) = Len(h) + Len(e) /\ ValueSize(k, len) = Len(t)
      BY <2>2, <2>5 DEF ValueAt, ValueSize
    <2> DEFINE o == Len(h) + Len(e)
    <2>8. fieldAt(c, j) = fieldSpan(c, j, num, 2, j + o, Len(t))  BY <2>2, <2>6, <2>7
    <2>9. SubSeq(c, j, j + Len(s) - 1) = s  BY <1>4, <1>6, HoldsWhole
    <2>10. SubSeq(c, j + o, j + o + Len(t) - 1) = t  BY <2>14, HoldsWhole
    <2>15. o \in Nat /\ Len(s) = o + Len(t)  BY <1>3, <1>4
    <2> HIDE DEF o
    <2>11. j + o + Len(t) - 1 = j + Len(s) - 1 /\ ~(j + o + Len(t) - 1 > Len(c))
           /\ j + o + Len(t) = j + Len(s)
      BY <1>3, <1>6, <2>0, <2>15 DEF Holds
    <2>12. fieldAt(c, j) = [ok |-> TRUE, num |-> num, wire |-> 2, next |-> j + Len(s), raw |-> s, value |-> t]
      BY <2>8, <2>9, <2>10, <2>11 DEF fieldSpan
    <2> QED BY <2>12 DEF At
  <1>7. g.raw = s /\ Len(s) >= 1 /\ Len(t) < Len(s)  BY <1>1, <1>3, <1>4
  <1> HIDE DEF s, e, g
  <1>8. Lexed(g)  BY <1>5, <1>6, <1>7 DEF Lexed
  <1> QED BY <1>7, <1>8 DEF g, s, e, h, Delimited

-----------------------------------------------------------------------------
(* The loop of parse. *)
Done == [ok |-> TRUE, fs |-> <<>>]
Parsed == {Malformed} \cup [ok : {TRUE}, fs : Seq(Field)]

LEMMA PrependIs ==
  ASSUME NEW f \in Field, NEW rest \in Parsed PROVE Prepend(f, rest) \in Parsed
  <1>1. CASE rest = Malformed  BY <1>1 DEF Parsed, Prepend, Malformed
  <1>2. CASE rest \in [ok : {TRUE}, fs : Seq(Field)]
    <2>4. rest.ok /\ rest.fs \in Seq(Field) /\ <<f>> \in Seq(Field)
      <3>1. rest.ok /\ rest.fs \in Seq(Field)  BY <1>2
      <3>2. <<f>> \in Seq(Field)  OBVIOUS
      <3> QED BY <3>1, <3>2
    <2> DEFINE s == rest.fs
    <2>5. s \in Seq(Field)  BY <2>4
    <2> HIDE DEF s
    <2>6. <<f>> \o s \in Seq(Field)  BY <2>4, <2>5, ConcatProperties
    <2>1. rest.ok /\ <<f>> \o rest.fs \in Seq(Field)  BY <2>4, <2>6 DEF s
    <2>2. Prepend(f, rest) = [ok |-> TRUE, fs |-> <<f>> \o rest.fs]  BY <2>1 DEF Prepend
    <2>3. Prepend(f, rest) \in [ok : {TRUE}, fs : Seq(Field)]  BY <2>1, <2>2
    <2> QED BY <2>3 DEF Parsed
  <1> QED BY <1>1, <1>2 DEF Parsed

LEMMA FieldsFromIs ==
  ASSUME NEW b \in Bytes
  PROVE  /\ \A i \in 1..Len(b) + 1 : fieldsFrom(b)[i] \in Parsed
         /\ \A i \in 1..Len(b) : fieldsFrom(b)[i] = AndAfter(fieldAt(b, i), fieldsFrom(b))
         /\ fieldsFrom(b)[Len(b) + 1] = Done
  <1> DEFINE n == Len(b)
             f(m) == fieldAt(b, n + 1 - m)
             F == [m \in Nat |-> [r \in Parsed |->
                     IF m \in 1..n /\ f(m).ok THEN Prepend(f(m), r) ELSE Malformed]]
             P == [m \in Nat |-> IF m \in 1..n /\ f(m).ok THEN n + 1 - f(m).next ELSE 0]
  <1>0. n \in Nat  BY LenBytes
  <1> HIDE DEF n
  <1>1. ASSUME NEW m \in 1..n, f(m).ok
        PROVE  f(m) \in Field /\ f(m).next \in (n + 1 - m) + 1..n + 1
    <2>1. n + 1 - m \in Position  BY <1>0 DEF Position
    <2> QED BY <1>1, <2>1, FieldBounds DEF Malformed, n
  <1>2. ASSUME NEW m \in Nat, NEW r \in Parsed
        PROVE  (IF m \in 1..n /\ f(m).ok THEN Prepend(f(m), r) ELSE Malformed) \in Parsed
    <2>1. CASE m \in 1..n /\ f(m).ok  BY <1>1, <2>1, PrependIs
    <2>2. CASE ~(m \in 1..n /\ f(m).ok)  BY <2>2 DEF Parsed
    <2> QED BY <2>1, <2>2
  <1>3. F \in [Nat -> [Parsed -> Parsed]]  BY <1>2
  <1>4. ASSUME NEW m \in Nat PROVE P[m] \in Nat /\ (m # 0 => P[m] < m)
    <2>1. CASE m \in 1..n /\ f(m).ok
      <3>1. P[m] = n + 1 - f(m).next  BY <2>1
      <3>2. f(m).next \in (n + 1 - m) + 1..n + 1  BY <1>1, <2>1
      <3> HIDE DEF f, P
      <3> QED BY <1>0, <2>1, <3>1, <3>2
    <2>2. CASE ~(m \in 1..n /\ f(m).ok)
      <3>1. P[m] = 0  BY <2>2
      <3> HIDE DEF P
      <3> QED BY <3>1
    <2> QED BY <2>1, <2>2
  <1>5. P \in [Nat -> Nat]
    <2>1. \A m \in Nat : (IF m \in 1..n /\ f(m).ok THEN n + 1 - f(m).next ELSE 0) \in Nat  BY <1>4
    <2> QED BY <2>1
  <1>6. Done \in Parsed  BY DEF Done, Parsed
  <1>7. Recursive(Parsed, Done, F, P)
    <2>1. \A m \in Nat \ {0} : P[m] < m  BY <1>4
    <2> HIDE DEF F, P
    <2> QED BY <1>3, <1>5, <1>6, <2>1 DEF Recursive
  <1>8. ASSUME NEW m \in 1..n, NEW r \in Parsed
        PROVE  F[m][r] = IF f(m).ok THEN Prepend(f(m), r) ELSE Malformed
    <2>1. m \in Nat  BY <1>0
    <2>2. F[m][r] = IF m \in 1..n /\ f(m).ok THEN Prepend(f(m), r) ELSE Malformed  BY <2>1
    <2> QED BY <2>2
  <1>9. \A m \in 1..n : f(m).ok => P[m] = n + 1 - f(m).next  BY <1>0
  <1> HIDE DEF F, P
  <1>10. PICK c : Computes(c, Parsed, Done, F, P)  BY <1>7, Recursion, Zenon
  <1>11. c \in [Nat -> Parsed] /\ c[0] = Done /\ \A m \in Nat \ {0} : c[m] = F[m][c[P[m]]]
    BY <1>10 DEF Computes
  <1> DEFINE g == [i \in 1..n + 1 |-> c[n + 1 - i]]
  <1>12. \A i \in 1..n + 1 : g[i] = c[n + 1 - i]  BY <1>0
  <1>13. DOMAIN g = 1..n + 1 /\ g = [i \in DOMAIN g |-> g[i]]  OBVIOUS
  <1> HIDE DEF g
  <1>14. ASSUME NEW i \in 1..n + 1
         PROVE  g[i] = IF i > n THEN Done ELSE AndAfter(fieldAt(b, i), g)
    <2>1. CASE i > n
      <3>1. n + 1 - i = 0  BY <1>0, <2>1
      <3> QED BY <1>11, <1>12, <2>1, <3>1
    <2>2. CASE ~(i > n)
      <3> DEFINE m == n + 1 - i
      <3>1. m \in 1..n /\ m \in Nat \ {0} /\ n + 1 - m = i  BY <1>0, <2>2
      <3>2. f(m) = fieldAt(b, i)  BY <3>1
      <3>3. g[i] = F[m][c[P[m]]] /\ c[P[m]] \in Parsed
        <4>1. P[m] \in Nat  BY <1>5, <3>1
        <4> QED BY <1>11, <1>12, <3>1, <4>1
      <3>4. g[i] = IF f(m).ok THEN Prepend(f(m), c[P[m]]) ELSE Malformed  BY <1>8, <3>1, <3>3
      <3>5. CASE fieldAt(b, i).ok
        <4>1. fieldAt(b, i).next \in 1..n + 1
          <5>1. fieldAt(b, i).next \in i + 1..n + 1  BY <1>1, <3>1, <3>2, <3>5
          <5> HIDE DEF m
          <5> QED BY <1>0, <5>1
        <4>2. P[m] = n + 1 - fieldAt(b, i).next  BY <1>9, <3>1, <3>2, <3>5
        <4>3. g[fieldAt(b, i).next] = c[P[m]]  BY <1>12, <4>1, <4>2
        <4> QED BY <2>2, <3>2, <3>4, <3>5, <4>3 DEF AndAfter
      <3>6. CASE ~fieldAt(b, i).ok  BY <2>2, <3>2, <3>4, <3>6 DEF AndAfter
      <3> QED BY <3>5, <3>6
    <2> QED BY <2>1, <2>2
  <1>15. g = [i \in 1..n + 1 |-> IF i > n THEN Done ELSE AndAfter(fieldAt(b, i), g)]
    BY <1>13, <1>14
  <1>16. \E h : h = [i \in 1..Len(b) + 1 |->
                      IF i > Len(b) THEN [ok |-> TRUE, fs |-> <<>>] ELSE AndAfter(fieldAt(b, i), h)]
    BY <1>15 DEF n, Done
  <1>17. fieldsFrom(b) = [i \in 1..Len(b) + 1 |->
           IF i > Len(b) THEN [ok |-> TRUE, fs |-> <<>>] ELSE AndAfter(fieldAt(b, i), fieldsFrom(b))]
    BY <1>16, Zenon DEF fieldsFrom
  <1> DEFINE r == fieldsFrom(b)
             T == {m \in Nat : m <= n => r[n + 1 - m] \in Parsed}
  <1>18. \A i \in 1..n + 1 : r[i] = IF i > n THEN Done ELSE AndAfter(fieldAt(b, i), r)
    BY <1>17 DEF n, Done
  <1> HIDE DEF r
  <1>19. r[n + 1] = Done /\ \A i \in 1..n : r[i] = AndAfter(fieldAt(b, i), r)  BY <1>0, <1>18
  <1>20. ASSUME NEW m \in Nat, \A x \in 0..m - 1 : x \in T PROVE m \in T
    <2>1. CASE m = 0
      <3>1. n + 1 - m = n + 1  BY <1>0, <2>1
      <3> QED BY <1>6, <1>19, <3>1
    <2>2. CASE m \in 1..n
      <3> DEFINE i == n + 1 - m
      <3>1. i \in 1..n  BY <1>0, <2>2
      <3>2. r[i] = AndAfter(f(m), r)  BY <1>19, <3>1
      <3>3. CASE f(m).ok
        <4> DEFINE x == n + 1 - f(m).next
        <4>1. f(m) \in Field /\ f(m).next \in i + 1..n + 1  BY <1>1, <2>2, <3>3
        <4>2. x \in 0..m - 1 /\ x <= n /\ n + 1 - x = f(m).next
          <5> HIDE DEF f
          <5> QED BY <1>0, <2>2, <4>1
        <4>3. r[f(m).next] \in Parsed
          <5>1. x \in T /\ x <= n  BY <1>20, <4>2
          <5>2. r[n + 1 - x] \in Parsed
            <6> HIDE DEF x
            <6> QED BY <5>1
          <5> QED BY <4>2, <5>2
        <4>4. r[i] = Prepend(f(m), r[f(m).next])  BY <3>2, <3>3 DEF AndAfter
        <4>5. r[i] \in Parsed  BY <4>1, <4>3, <4>4, PrependIs
        <4> QED BY <4>5
      <3>4. CASE ~f(m).ok
        <4>1. r[i] = Malformed  BY <3>2, <3>4 DEF AndAfter
        <4> QED BY <4>1 DEF Parsed
      <3> QED BY <3>3, <3>4
    <2>3. CASE m > n  BY <1>0, <2>3
    <2> QED BY <1>0, <2>1, <2>2, <2>3
  <1>21. \A m \in Nat : m \in T
    <2> HIDE DEF T
    <2> QED BY <1>20, StrongInduction
  <1>22. ASSUME NEW i \in 1..n + 1 PROVE r[i] \in Parsed
    <2>1. n + 1 - i \in Nat /\ n + 1 - i <= n /\ n + 1 - (n + 1 - i) = i  BY <1>0
    <2>2. r[n + 1 - (n + 1 - i)] \in Parsed  BY <1>21, <2>1
    <2> QED BY <2>1, <2>2
  <1> QED BY <1>19, <1>22 DEF r, n

-----------------------------------------------------------------------------
(* From position i on, the loop of parse finds the items gs. *)
Lists(b, i, gs) ==
  /\ fieldsFrom(b)[i].ok
  /\ Len(gs) = Len(fieldsFrom(b)[i].fs)
  /\ \A x \in 1..Len(gs) : gs[x] = Item(fieldsFrom(b)[i].fs[x])

LEMMA ItemIs == \A f \in Field : Item(f) \in Items
  BY DEF Field, Item, Items

LEMMA ListsNil ==
  ASSUME NEW b \in Bytes
  PROVE  /\ Lists(b, Len(b) + 1, <<>>)
         /\ \A gs \in Seq(Items) : Lists(b, Len(b) + 1, gs) => gs = <<>>
  <1> DEFINE r == fieldsFrom(b)[Len(b) + 1]
  <1>1. r = Done  BY FieldsFromIs
  <1>2. r.ok /\ r.fs = <<>>  BY <1>1 DEF Done
  <1> HIDE DEF r
  <1>3. Lists(b, Len(b) + 1, <<>>)  BY <1>2 DEF Lists, r
  <1>4. ASSUME NEW gs \in Seq(Items), Lists(b, Len(b) + 1, gs) PROVE gs = <<>>
    <2>1. Len(gs) = 0  BY <1>2, <1>4 DEF Lists, r
    <2> QED BY <2>1
  <1> QED BY <1>3, <1>4

LEMMA FieldsUnfold ==
  ASSUME NEW b \in Bytes, NEW i \in 1..Len(b)
  PROVE  /\ fieldsFrom(b)[i].ok <=> fieldAt(b, i).ok /\ fieldsFrom(b)[fieldAt(b, i).next].ok
         /\ fieldsFrom(b)[i].ok =>
              /\ fieldAt(b, i) \in Field /\ fieldAt(b, i).next \in i + 1..Len(b) + 1
              /\ fieldsFrom(b)[fieldAt(b, i).next].fs \in Seq(Field)
              /\ fieldsFrom(b)[i].fs = <<fieldAt(b, i)>> \o fieldsFrom(b)[fieldAt(b, i).next].fs
  <1> DEFINE f == fieldAt(b, i)
             r == fieldsFrom(b)[i]
             t == fieldsFrom(b)[f.next]
  <1>1. r = AndAfter(f, fieldsFrom(b))  BY FieldsFromIs
  <1>2. i \in Position /\ Len(b) \in Nat  BY LenBytes DEF Position
  <1>3. f.ok => f \in Field /\ f.next \in i + 1..Len(b) + 1  BY <1>2, FieldBounds DEF Malformed
  <1>4. f.ok => t \in Parsed
    <2>1. f.ok => f.next \in 1..Len(b) + 1
      <3> HIDE DEF f
      <3> QED BY <1>2, <1>3
    <2> QED BY <2>1, FieldsFromIs
  <1>5. t \in Parsed /\ t.ok => t.fs \in Seq(Field)
    <2> HIDE DEF t
    <2>1. SUFFICES ASSUME t \in Parsed, t.ok PROVE t.fs \in Seq(Field)  OBVIOUS
    <2>2. t # Malformed  BY <2>1 DEF Malformed
    <2>3. t \in [ok : {TRUE}, fs : Seq(Field)]  BY <2>1, <2>2 DEF Parsed
    <2> QED BY <2>3
  <1>6. ~Malformed.ok  BY DEF Malformed
  <1>7. r = IF f.ok THEN Prepend(f, t) ELSE Malformed  BY <1>1 DEF AndAfter
  <1> HIDE DEF f, r, t
  <1>8. r.ok => f.ok /\ t.ok /\ r.fs = <<f>> \o t.fs
    <2>1. SUFFICES ASSUME r.ok PROVE f.ok /\ t.ok /\ r.fs = <<f>> \o t.fs  OBVIOUS
    <2>2. f.ok /\ r = Prepend(f, t)  BY <1>6, <1>7, <2>1
    <2>3. t.ok  BY <1>6, <2>1, <2>2 DEF Prepend
    <2>4. r = [ok |-> TRUE, fs |-> <<f>> \o t.fs]  BY <2>2, <2>3 DEF Prepend
    <2> QED BY <2>2, <2>3, <2>4
  <1>9. f.ok /\ t.ok => r.ok
    <2>1. SUFFICES ASSUME f.ok, t.ok PROVE r.ok  OBVIOUS
    <2>2. r = [ok |-> TRUE, fs |-> <<f>> \o t.fs]  BY <1>7, <2>1 DEF Prepend
    <2> QED BY <2>2
  <1>10. r.ok <=> f.ok /\ t.ok  BY <1>8, <1>9
  <1>11. r.ok => f \in Field /\ f.next \in i + 1..Len(b) + 1 /\ t.fs \in Seq(Field) /\ r.fs = <<f>> \o t.fs
    BY <1>3, <1>4, <1>5, <1>8
  <1> QED BY <1>10, <1>11 DEF f, r, t

LEMMA OneFirst ==
  ASSUME NEW S, NEW x \in S, NEW s \in Seq(S)
  PROVE  /\ <<x>> \o s \in Seq(S) /\ Len(<<x>> \o s) = Len(s) + 1 /\ Len(s) \in Nat
         /\ (<<x>> \o s)[1] = x /\ \A y \in 1..Len(s) : (<<x>> \o s)[y + 1] = s[y]
  <1>1. <<x>> \in Seq(S) /\ Len(<<x>>) = 1 /\ <<x>>[1] = x /\ Len(s) \in Nat  OBVIOUS
  <1> DEFINE o == <<x>>
  <1>2. o \in Seq(S) /\ Len(o) = 1 /\ o[1] = x  BY <1>1
  <1> HIDE DEF o
  <1>3. o \o s \in Seq(S) /\ Len(o \o s) = Len(o) + Len(s)
        /\ \A i \in 1..Len(o) + Len(s) : (o \o s)[i] = IF i <= Len(o) THEN o[i] ELSE s[i - Len(o)]
    BY <1>2, ConcatProperties
  <1>4. (o \o s)[1] = x  BY <1>1, <1>2, <1>3
  <1>5. ASSUME NEW y \in 1..Len(s) PROVE (o \o s)[y + 1] = s[y]
    <2>1. y + 1 \in 1..Len(o) + Len(s) /\ ~(y + 1 <= Len(o)) /\ y + 1 - Len(o) = y  BY <1>1, <1>2
    <2> QED BY <1>3, <2>1
  <1>6. Len(o \o s) = Len(s) + 1  BY <1>1, <1>2, <1>3
  <1> QED BY <1>1, <1>3, <1>4, <1>5, <1>6 DEF o

LEMMA ListsCons ==
  ASSUME NEW b \in Bytes, NEW i \in 1..Len(b), fieldAt(b, i).ok, NEW gs \in Seq(Items),
         Lists(b, fieldAt(b, i).next, gs)
  PROVE  Lists(b, i, <<Item(fieldAt(b, i))>> \o gs)
  <1> DEFINE f == fieldAt(b, i)
             r == fieldsFrom(b)[i]
             s == fieldsFrom(b)[f.next].fs
             g == Item(f)
             hs == <<g>> \o gs
  <1>1. r.ok /\ f \in Field /\ s \in Seq(Field) /\ r.fs = <<f>> \o s
    BY FieldsUnfold DEF Lists
  <1>2. Len(gs) = Len(s) /\ \A x \in 1..Len(gs) : gs[x] = Item(s[x])  BY DEF Lists
  <1>3. g \in Items  BY <1>1, ItemIs
  <1> HIDE DEF f, s, g, r
  <1>4. /\ Len(hs) = Len(gs) + 1 /\ Len(gs) \in Nat
        /\ hs[1] = g /\ \A y \in 1..Len(gs) : hs[y + 1] = gs[y]
    BY <1>3, OneFirst
  <1>5. /\ Len(r.fs) = Len(s) + 1
        /\ r.fs[1] = f /\ \A y \in 1..Len(s) : r.fs[y + 1] = s[y]
    BY <1>1, OneFirst
  <1> HIDE DEF hs
  <1>6. ASSUME NEW x \in 1..Len(hs) PROVE hs[x] = Item(r.fs[x])
    <2>1. CASE x = 1  BY <1>4, <1>5, <2>1 DEF g
    <2>2. CASE x # 1
      <3>1. x - 1 \in 1..Len(gs) /\ (x - 1) + 1 = x  BY <1>4, <2>2
      <3>2. hs[x] = gs[x - 1] /\ r.fs[x] = s[x - 1]  BY <1>2, <1>4, <1>5, <3>1
      <3> QED BY <1>2, <3>1, <3>2
    <2> QED BY <2>1, <2>2
  <1>7. Lists(b, i, hs)  BY <1>1, <1>2, <1>4, <1>5, <1>6 DEF Lists, r
  <1> QED BY <1>7 DEF hs, g, f

LEMMA ListsUncons ==
  ASSUME NEW b \in Bytes, NEW i \in 1..Len(b), NEW gs \in Seq(Items), Lists(b, i, gs)
  PROVE  /\ fieldAt(b, i).ok /\ fieldAt(b, i) \in Field /\ fieldAt(b, i).next \in i + 1..Len(b) + 1
         /\ \E hs \in Seq(Items) : /\ gs = <<Item(fieldAt(b, i))>> \o hs
                                   /\ Lists(b, fieldAt(b, i).next, hs)
  <1> DEFINE f == fieldAt(b, i)
             r == fieldsFrom(b)[i]
             t == fieldsFrom(b)[f.next]
             s == t.fs
             g == Item(f)
             hs == [x \in 1..Len(s) |-> gs[x + 1]]
  <1>1. /\ r.ok /\ Len(gs) = Len(r.fs) /\ \A x \in 1..Len(gs) : gs[x] = Item(r.fs[x])
    BY DEF Lists
  <1>2. /\ f.ok /\ t.ok /\ f \in Field /\ f.next \in i + 1..Len(b) + 1
        /\ s \in Seq(Field) /\ r.fs = <<f>> \o s
    BY <1>1, FieldsUnfold
  <1>3. g \in Items  BY <1>2, ItemIs
  <1>4. Len(gs) \in Nat /\ \A x \in 1..Len(gs) : gs[x] \in Items  OBVIOUS
  <1> HIDE DEF f, r, t
  <1>10. s \in Seq(Field)  BY <1>2
  <1> HIDE DEF s
  <1>5. /\ Len(r.fs) = Len(s) + 1 /\ Len(s) \in Nat
        /\ r.fs[1] = f /\ \A y \in 1..Len(s) : r.fs[y + 1] = s[y]
    BY <1>2, <1>10, OneFirst
  <1>6. hs \in Seq(Items) /\ Len(hs) = Len(s) /\ \A x \in 1..Len(s) : hs[x] = gs[x + 1]
    <2>1. \A x \in 1..Len(s) : gs[x + 1] \in Items  BY <1>1, <1>4, <1>5
    <2> QED BY <1>5, <2>1
  <1> HIDE DEF hs, g
  <1>7. gs = <<g>> \o hs
    <2> DEFINE ks == <<g>> \o hs
    <2>1. /\ ks \in Seq(Items) /\ Len(ks) = Len(hs) + 1
          /\ ks[1] = g /\ \A y \in 1..Len(hs) : ks[y + 1] = hs[y]
      BY <1>3, <1>6, OneFirst
    <2> HIDE DEF ks
    <2>2. Len(ks) = Len(gs)  BY <1>1, <1>5, <1>6, <2>1
    <2>3. ASSUME NEW x \in 1..Len(gs) PROVE gs[x] = ks[x]
      <3>1. CASE x = 1  BY <1>1, <1>5, <2>1, <3>1 DEF g
      <3>2. CASE x # 1
        <4>1. x - 1 \in 1..Len(s) /\ (x - 1) + 1 = x  BY <1>1, <1>5, <3>2
        <4> QED BY <1>6, <2>1, <4>1
      <3> QED BY <3>1, <3>2
    <2>4. gs = ks  BY <2>1, <2>2, <2>3, SeqEqual
    <2> QED BY <2>4 DEF ks
  <1>8. \A x \in 1..Len(hs) : hs[x] = Item(s[x])
    <2>1. SUFFICES ASSUME NEW x \in 1..Len(hs) PROVE hs[x] = Item(s[x])  OBVIOUS
    <2>2. x \in 1..Len(s) /\ x + 1 \in 1..Len(gs)  BY <1>1, <1>5, <1>6
    <2> QED BY <1>1, <1>5, <1>6, <2>2
  <1>9. Lists(b, f.next, hs)  BY <1>2, <1>6, <1>8 DEF Lists, t, s
  <1> QED BY <1>2, <1>6, <1>7, <1>9 DEF f, g

(* Wherever b stands in c, its items are found, and those behind it. *)
LEMMA ListsMove ==
  ASSUME NEW b \in Bytes, NEW c \in Bytes, NEW o \in Nat, Holds(c, o + 1, b),
         NEW ks \in Seq(Items), Lists(c, o + Len(b) + 1, ks)
  PROVE  \A i \in 1..Len(b) + 1 : \A gs \in Seq(Items) : Lists(b, i, gs) => Lists(c, o + i, gs \o ks)
  <1> DEFINE n == Len(b)
             Fine(i) == \A gs \in Seq(Items) : Lists(b, i, gs) => Lists(c, o + i, gs \o ks)
             T == {m \in Nat : m <= n => Fine(n + 1 - m)}
  <1>0. n \in Nat /\ Len(c) \in Nat  BY LenBytes
  <1> HIDE DEF n
  <1>1. ASSUME NEW i \in 1..n, \A x \in i + 1..n + 1 : Fine(x), NEW gs \in Seq(Items), Lists(b, i, gs)
        PROVE  Lists(c, o + i, gs \o ks)
    <2> DEFINE f == fieldAt(b, i)
               g == Item(f)
    <2>1. f.ok /\ f \in Field /\ f.next \in i + 1..n + 1  BY <1>1, ListsUncons DEF n
    <2>2. PICK hs \in Seq(Items) : gs = <<g>> \o hs /\ Lists(b, f.next, hs)
      BY <1>1, ListsUncons DEF n
    <2>3. i \in Position /\ o + 1 \in Position /\ o + i \in Position  BY <1>0 DEF Position
    <2>4. f.raw = SubSeq(b, i, f.next - 1) /\ Len(f.raw) = f.next - i
      BY <2>1, <2>3, FieldBounds DEF Malformed
    <2>5. Holds(c, o + i, f.raw)
      <3> DEFINE q == f.next - 1
      <3>1. q \in Nat /\ i <= q + 1 /\ q <= n
        <4> HIDE DEF f
        <4> QED BY <1>0, <2>1
      <3>2. o + 1 + i - 1 = o + i  BY <1>0
      <3>3. f.raw = SubSeq(b, i, q)  BY <2>4
      <3> HIDE DEF q, f
      <3>4. Holds(c, o + 1 + i - 1, SubSeq(b, i, q))  BY <2>3, <3>1, HoldsSubSeq DEF n
      <3> QED BY <3>2, <3>3, <3>4
    <2>6. fieldAt(c, o + i) = At(f, o + i)  BY <2>1, <2>3, <2>5, FieldLocal
    <2>7. Fine(f.next)  BY <1>1, <2>1
    <2>8. Lists(c, o + f.next, hs \o ks)  BY <2>2, <2>7
    <2>9. o + i + Len(f.raw) = o + f.next /\ o + i \in 1..Len(c)
      <3>1. o + 1 + n - 1 <= Len(c)  BY DEF Holds, n
      <3>2. o + i \in 1..Len(c)  BY <1>0, <3>1
      <3>3. o + i + (f.next - i) = o + f.next
        <4> HIDE DEF f
        <4> QED BY <1>0, <2>1
      <3> QED BY <2>4, <3>2, <3>3
    <2> HIDE DEF f
    <2> DEFINE h == fieldAt(c, o + i)
    <2>10. h.ok /\ h.next = o + f.next /\ Item(h) = g
      <3>3. h = At(f, o + i)  BY <2>6
      <3> HIDE DEF h
      <3>4. h.ok  BY <3>3 DEF At
      <3>5. h.next = o + i + Len(f.raw)  BY <3>3 DEF At
      <3>6. h.num = f.num /\ h.wire = f.wire /\ h.raw = f.raw /\ h.value = f.value  BY <3>3 DEF At
      <3>1. h.ok /\ h.next = o + i + Len(f.raw) /\ h.num = f.num /\ h.wire = f.wire
            /\ h.raw = f.raw /\ h.value = f.value
        BY <3>4, <3>5, <3>6
      <3>2. Item(h) = g  BY <3>1 DEF Item
      <3> QED BY <2>9, <3>1, <3>2
    <2>11. g \in Items /\ hs \o ks \in Seq(Items)  BY <2>1, <2>2, ItemIs, ConcatProperties
    <2>12. Lists(c, o + i, <<Item(h)>> \o (hs \o ks))
      <3>1. Lists(c, h.next, hs \o ks)  BY <2>8, <2>10
      <3> DEFINE js == hs \o ks
      <3> HIDE DEF js
      <3>2. js \in Seq(Items) /\ Lists(c, h.next, js)  BY <2>11, <3>1 DEF js
      <3>3. Lists(c, o + i, <<Item(h)>> \o js)  BY <2>9, <2>10, <3>2, ListsCons
      <3> QED BY <3>3 DEF js
    <2>13. <<g>> \o (hs \o ks) = gs \o ks
      <3> HIDE DEF g
      <3>1. <<g>> \in Seq(Items)  BY <2>11
      <3> QED BY <2>2, <3>1, ConcatAssociative
    <2> QED BY <2>10, <2>12, <2>13
  <1>2. Fine(n + 1)
    <2>1. SUFFICES ASSUME NEW gs \in Seq(Items), Lists(b, n + 1, gs) PROVE Lists(c, o + (n + 1), gs \o ks)
      OBVIOUS
    <2>2. gs = <<>>  BY <2>1, ListsNil DEF n
    <2>3. gs \o ks = ks  BY <2>2
    <2>4. o + (n + 1) = o + n + 1  BY <1>0
    <2> QED BY <2>3, <2>4 DEF n
  <1>3. ASSUME NEW m \in Nat, \A x \in 0..m - 1 : x \in T PROVE m \in T
    <2>1. CASE m = 0
      <3>1. n + 1 - m = n + 1  BY <1>0, <2>1
      <3>2. Fine(n + 1 - m)  BY <1>2, <3>1
      <3> HIDE DEF Fine
      <3> QED BY <3>2
    <2>2. CASE m \in 1..n
      <3> DEFINE i == n + 1 - m
      <3>1. i \in 1..n  BY <1>0, <2>2
      <3>2. ASSUME NEW x \in i + 1..n + 1 PROVE Fine(x)
        <4>1. n + 1 - x \in 0..m - 1 /\ n + 1 - x <= n /\ n + 1 - (n + 1 - x) = x  BY <1>0, <2>2
        <4>2. n + 1 - x \in T  BY <1>3, <4>1
        <4> HIDE DEF Fine, i
        <4> QED BY <4>1, <4>2
      <3>3. Fine(i)  BY <1>1, <3>1, <3>2
      <3> HIDE DEF Fine
      <3> QED BY <3>3
    <2>3. CASE m > n  BY <1>0, <2>3
    <2> QED BY <1>0, <2>1, <2>2, <2>3
  <1>4. \A m \in Nat : m \in T
    <2> HIDE DEF T
    <2> QED BY <1>3, StrongInduction
  <1>5. ASSUME NEW i \in 1..n + 1 PROVE Fine(i)
    <2>1. n + 1 - i \in Nat /\ n + 1 - i <= n /\ n + 1 - (n + 1 - i) = i  BY <1>0
    <2>2. n + 1 - i \in T  BY <1>4, <2>1
    <2> HIDE DEF Fine
    <2> QED BY <2>1, <2>2
  <1> QED BY <1>5 DEF n

LEMMA ListsJoin ==
  ASSUME NEW a \in Bytes, NEW b \in Bytes, NEW gs \in Seq(Items), NEW hs \in Seq(Items),
         Lists(a, 1, gs), Lists(b, 1, hs)
  PROVE  Lists(a \o b, 1, gs \o hs)
  <1> DEFINE c == a \o b
             n == Len(a)
  <1>1. c \in Bytes /\ Len(c) = n + Len(b)  BY ConcatIs
  <1>2. n \in Nat /\ Len(b) \in Nat  BY LenBytes
  <1>3. Holds(c, 1, a) /\ Holds(c, 1 + n, b)
    <2>1. Holds(c, 1, c) /\ 1 \in Position  BY <1>1, HoldsSelf DEF Position
    <2> QED BY <1>1, <2>1, HoldsConcat
  <1> HIDE DEF c
  <1>4. Lists(c, n + Len(b) + 1, <<>>)
    <2>1. Lists(c, Len(c) + 1, <<>>)  BY <1>1, ListsNil
    <2> QED BY <1>1, <2>1
  <1>5. Lists(c, n + 1, hs)
    <2>1. Holds(c, n + 1, b) /\ 1 \in 1..Len(b) + 1 /\ <<>> \in Seq(Items) /\ 1 + n = n + 1
      BY <1>2, <1>3
    <2> HIDE DEF n
    <2>2. Lists(c, n + 1, hs \o <<>>)  BY <1>1, <1>2, <1>4, <2>1, ListsMove
    <2> QED BY <2>2
  <1>6. Holds(c, 0 + 1, a) /\ Lists(c, 0 + n + 1, hs) /\ 1 \in 1..n + 1  BY <1>2, <1>3, <1>5
  <1>7. Lists(c, 0 + 1, gs \o hs)  BY <1>1, <1>6, ListsMove
  <1> QED BY <1>7 DEF c

LEMMA ListsOne ==
  ASSUME NEW g, Lexed(g)
  PROVE  Lists(g.raw, 1, <<g>>)
  <1> DEFINE s == g.raw
             f == fieldAt(s, 1)
  <1>1. g \in Items /\ Len(s) >= 1 /\ s \in Bytes  BY DEF Lexed, Items
  <1>2. Len(s) \in Nat /\ 1 \in Position /\ Holds(s, 1, s)  BY <1>1, LenBytes, HoldsSelf DEF Position
  <1>3. f = At(g, 1)  BY <1>1, <1>2 DEF Lexed
  <1>4. f.ok /\ f.next = Len(s) + 1 /\ Item(f) = g
    <2>1. 1 + Len(s) = Len(s) + 1  BY <1>2
    <2>2. f.ok /\ f.next = Len(s) + 1  BY <1>3, <2>1 DEF At
    <2>3. f.num = g.num /\ f.wire = g.wire /\ f.raw = g.raw /\ f.value = g.value  BY <1>3 DEF At
    <2>4. Item(f) = g  BY <1>1, <2>3 DEF Item, Items
    <2> QED BY <2>2, <2>4
  <1>5. Lists(s, f.next, <<>>)  BY <1>1, <1>4, ListsNil
  <1>6. 1 \in 1..Len(s) /\ <<>> \in Seq(Items)  BY <1>1, <1>2
  <1>7. Lists(s, 1, <<Item(f)>> \o <<>>)
    <2> HIDE DEF s
    <2> QED BY <1>1, <1>4, <1>5, <1>6, ListsCons
  <1>8. <<g>> \o <<>> = <<g>>  BY <1>1
  <1> QED BY <1>4, <1>7, <1>8

-----------------------------------------------------------------------------
(* The loops that put parts together. *)
PartSet == {Malformed} \cup [ok : {TRUE}, n : Nat, out : Bytes]

LEMMA EmptyBytes == <<>> \in Bytes /\ Len(<<>>) = 0
  BY DEF Bytes

LEMMA PartIs ==
  ASSUME NEW n \in Nat, NEW s \in Bytes
  PROVE  Part(n, s) \in PartSet /\ Part(n, s).ok /\ Part(n, s).n = n /\ Part(n, s).out = s
  BY DEF Part, PartSet

LEMMA PartOk ==
  ASSUME NEW p \in PartSet, p.ok PROVE p.n \in Nat /\ p.out \in Bytes /\ p.ok = TRUE
  <1>1. p # Malformed  BY DEF Malformed
  <1>2. p \in [ok : {TRUE}, n : Nat, out : Bytes]  BY <1>1 DEF PartSet
  <1> QED BY <1>2

LEMMA BothIs ==
  ASSUME NEW a \in PartSet, NEW p \in PartSet
  PROVE  /\ Both(a, p) \in PartSet
         /\ Both(a, p).ok <=> a.ok /\ p.ok
         /\ Both(a, p).ok => Both(a, p).n = a.n + p.n /\ Both(a, p).out = a.out \o p.out
  <1>1. CASE a.ok /\ p.ok
    <2>1. a.n \in Nat /\ p.n \in Nat /\ a.out \in Bytes /\ p.out \in Bytes  BY <1>1, PartOk
    <2> DEFINE s == a.out \o p.out
    <2>2. s \in Bytes  BY <2>1, ConcatIs
    <2>3. Both(a, p) = Part(a.n + p.n, s)  BY <1>1 DEF Both
    <2>4. a.n + p.n \in Nat  BY <2>1
    <2> HIDE DEF s
    <2>5. Part(a.n + p.n, s) \in PartSet /\ Part(a.n + p.n, s).ok
          /\ Part(a.n + p.n, s).n = a.n + p.n /\ Part(a.n + p.n, s).out = s
      BY <2>2, <2>4, PartIs
    <2> QED BY <1>1, <2>3, <2>5 DEF s
  <1>2. CASE ~(a.ok /\ p.ok)
    <2>1. Both(a, p) = Malformed  BY <1>2 DEF Both
    <2>2. Malformed \in PartSet /\ ~Malformed.ok  BY DEF PartSet, Malformed
    <2> QED BY <1>2, <2>1, <2>2
  <1> QED BY <1>1, <1>2

LEMMA JoinedIs ==
  ASSUME NEW parts \in Seq(PartSet)
  PROVE  /\ \A i \in 0..Len(parts) : joinedUpTo(parts)[i] \in PartSet
         /\ joinedUpTo(parts)[0] = Part(0, <<>>)
         /\ \A i \in 1..Len(parts) : joinedUpTo(parts)[i] = Both(joinedUpTo(parts)[i - 1], parts[i])
  <1> DEFINE n == Len(parts)
             F == [m \in Nat |-> [a \in PartSet |-> IF m \in 1..n THEN Both(a, parts[m]) ELSE a]]
             P == [m \in Nat |-> IF m = 0 THEN 0 ELSE m - 1]
             start == Part(0, <<>>)
  <1>0. n \in Nat /\ \A m \in 1..n : parts[m] \in PartSet  OBVIOUS
  <1> HIDE DEF n
  <1>1. ASSUME NEW m \in Nat, NEW a \in PartSet
        PROVE  (IF m \in 1..n THEN Both(a, parts[m]) ELSE a) \in PartSet
    BY <1>0, BothIs
  <1>2. F \in [Nat -> [PartSet -> PartSet]]  BY <1>1
  <1>3. P \in [Nat -> Nat] /\ \A m \in Nat \ {0} : P[m] < m  OBVIOUS
  <1>4. start \in PartSet  BY PartIs, EmptyBytes
  <1>5. ASSUME NEW m \in 1..n, NEW a \in PartSet PROVE F[m][a] = Both(a, parts[m])
    <2>1. m \in Nat  BY <1>0
    <2> QED BY <2>1
  <1>6. \A m \in Nat \ {0} : P[m] = m - 1  OBVIOUS
  <1> HIDE DEF F, P, start
  <1>7. Recursive(PartSet, start, F, P)  BY <1>2, <1>3, <1>4 DEF Recursive
  <1>8. PICK c : Computes(c, PartSet, start, F, P)  BY <1>7, Recursion, Zenon
  <1>9. c \in [Nat -> PartSet] /\ c[0] = start /\ \A m \in Nat \ {0} : c[m] = F[m][c[P[m]]]
    BY <1>8 DEF Computes
  <1> DEFINE g == [i \in 0..n |-> c[i]]
  <1>10. \A i \in 0..n : g[i] = c[i]  BY <1>0
  <1>11. DOMAIN g = 0..n /\ g = [i \in DOMAIN g |-> g[i]]  OBVIOUS
  <1> HIDE DEF g
  <1>12. ASSUME NEW i \in 0..n PROVE g[i] = IF i = 0 THEN start ELSE Both(g[i - 1], parts[i])
    <2>1. CASE i = 0  BY <1>9, <1>10, <2>1
    <2>2. CASE i # 0
      <3>1. i \in Nat \ {0} /\ i \in 1..n /\ i - 1 \in 0..n /\ i - 1 \in Nat  BY <1>0, <2>2
      <3>2. c[i] = F[i][c[i - 1]] /\ c[i - 1] \in PartSet  BY <1>6, <1>9, <3>1
      <3>3. c[i] = Both(c[i - 1], parts[i])  BY <1>5, <3>1, <3>2
      <3> QED BY <1>10, <2>2, <3>1, <3>3
    <2> QED BY <2>1, <2>2
  <1>13. g = [i \in 0..n |-> IF i = 0 THEN start ELSE Both(g[i - 1], parts[i])]  BY <1>11, <1>12
  <1>14. \E h : h = [i \in 0..Len(parts) |-> IF i = 0 THEN Part(0, <<>>) ELSE Both(h[i - 1], parts[i])]
    BY <1>13 DEF n, start
  <1>15. joinedUpTo(parts) =
           [i \in 0..Len(parts) |-> IF i = 0 THEN Part(0, <<>>) ELSE Both(joinedUpTo(parts)[i - 1], parts[i])]
    BY <1>14, Zenon DEF joinedUpTo
  <1> DEFINE r == joinedUpTo(parts)
             T == {m \in Nat : m <= n => r[m] \in PartSet}
  <1>16. \A i \in 0..n : r[i] = IF i = 0 THEN start ELSE Both(r[i - 1], parts[i])
    BY <1>15 DEF n, start
  <1> HIDE DEF r
  <1>17. r[0] = start /\ \A i \in 1..n : r[i] = Both(r[i - 1], parts[i])  BY <1>0, <1>16
  <1>18. 0 \in T  BY <1>4, <1>17
  <1>19. ASSUME NEW m \in Nat, m \in T PROVE m + 1 \in T
    <2>1. CASE m + 1 <= n
      <3>1. m + 1 \in 1..n /\ m + 1 - 1 = m /\ m <= n  BY <1>0, <2>1
      <3>2. r[m + 1] = Both(r[m], parts[m + 1]) /\ r[m] \in PartSet  BY <1>17, <1>19, <3>1
      <3>4. parts[m + 1] \in PartSet  BY <1>0, <3>1
      <3>3. r[m + 1] \in PartSet  BY <3>2, <3>4, BothIs
      <3> QED BY <3>3
    <2>2. CASE ~(m + 1 <= n)  BY <2>2
    <2> QED BY <2>1, <2>2
  <1>20. \A m \in Nat : m \in T
    <2> HIDE DEF T
    <2> QED BY <1>18, <1>19, Induction
  <1>21. \A i \in 0..n : r[i] \in PartSet  BY <1>0, <1>20
  <1> QED BY <1>17, <1>21 DEF r, n, start

(* Parts that were put together were all right, and none is lost. *)
LEMMA JoinOk ==
  ASSUME NEW parts \in Seq(PartSet), Join(parts).ok
  PROVE  /\ \A i \in 0..Len(parts) :
              /\ joinedUpTo(parts)[i].ok
              /\ joinedUpTo(parts)[i].n <= Join(parts).n
              /\ Len(joinedUpTo(parts)[i].out) <= Len(Join(parts).out)
         /\ \A i \in 1..Len(parts) :
              /\ parts[i].ok /\ parts[i].n <= Join(parts).n
              /\ Len(parts[i].out) <= Len(Join(parts).out)
         /\ Join(parts).n \in Nat /\ Join(parts).out \in Bytes
  <1> DEFINE n == Len(parts)
             r == joinedUpTo(parts)
             j == Join(parts)
             Fine(i) == r[i].ok /\ r[i].n <= j.n /\ Len(r[i].out) <= Len(j.out)
             T == {m \in Nat : m <= n => Fine(n - m)}
  <1>0. n \in Nat /\ \A m \in 1..n : parts[m] \in PartSet  OBVIOUS
  <1>1. /\ \A i \in 0..n : r[i] \in PartSet
        /\ \A i \in 1..n : r[i] = Both(r[i - 1], parts[i])
    BY JoinedIs
  <1>2. j = r[n] /\ j.ok  BY DEF Join
  <1> HIDE DEF n, r, j
  <1>3. j.n \in Nat /\ j.out \in Bytes
    <2>1. n \in 0..n  BY <1>0
    <2> QED BY <1>1, <1>2, <2>1, PartOk
  <1>4. ASSUME NEW i \in 1..n, Fine(i)
        PROVE  Fine(i - 1) /\ parts[i].ok /\ parts[i].n <= j.n /\ Len(parts[i].out) <= Len(j.out)
    <2> DEFINE a == r[i - 1]
               p == parts[i]
    <2>1. a \in PartSet /\ p \in PartSet
      <3>1. i - 1 \in 0..n  BY <1>0
      <3> QED BY <1>0, <1>1, <3>1
    <2>2. r[i] = Both(a, p)  BY <1>1
    <2>3. Both(a, p).ok  BY <1>4, <2>2
    <2>4. a.ok /\ p.ok /\ Both(a, p).n = a.n + p.n /\ Both(a, p).out = a.out \o p.out
      BY <2>1, <2>3, BothIs
    <2>5. a.n \in Nat /\ p.n \in Nat /\ a.out \in Bytes /\ p.out \in Bytes  BY <2>1, <2>4, PartOk
    <2>6. Len(a.out \o p.out) = Len(a.out) + Len(p.out)  BY <2>5, ConcatIs
    <2>7. Len(a.out) \in Nat /\ Len(p.out) \in Nat /\ Len(j.out) \in Nat  BY <1>3, <2>5, LenBytes
    <2>8. a.n + p.n <= j.n /\ Len(a.out) + Len(p.out) <= Len(j.out)  BY <1>4, <2>2, <2>4, <2>6
    <2> HIDE DEF a, p
    <2>10. a.n <= j.n /\ p.n <= j.n  BY <1>3, <2>5, <2>8
    <2>11. Len(a.out) <= Len(j.out) /\ Len(p.out) <= Len(j.out)
      <3> DEFINE x == Len(a.out)
                 y == Len(p.out)
                 z == Len(j.out)
      <3>1. x \in Nat /\ y \in Nat /\ z \in Nat /\ x + y <= z  BY <2>7, <2>8
      <3> HIDE DEF x, y, z
      <3>2. x <= z /\ y <= z  BY <3>1
      <3> QED BY <3>2 DEF x, y, z
    <2>9. a.n <= j.n /\ p.n <= j.n /\ Len(a.out) <= Len(j.out) /\ Len(p.out) <= Len(j.out)
      BY <2>10, <2>11
    <2> QED BY <2>4, <2>9 DEF a, p
  <1>5. 0 \in T
    <2>1. n - 0 = n /\ Len(j.out) \in Nat  BY <1>0, <1>3, LenBytes
    <2> QED BY <1>2, <1>3, <2>1
  <1>6. ASSUME NEW m \in Nat, m \in T PROVE m + 1 \in T
    <2>1. CASE m + 1 <= n
      <3>1. n - m \in 1..n /\ n - m - 1 = n - (m + 1)  BY <1>0, <2>1
      <3>2. Fine(n - m)
        <4> HIDE DEF Fine
        <4> QED BY <1>0, <1>6, <2>1
      <3>3. Fine(n - (m + 1))  BY <1>4, <3>1, <3>2
      <3> HIDE DEF Fine
      <3> QED BY <3>3
    <2>2. CASE ~(m + 1 <= n)  BY <2>2
    <2> QED BY <2>1, <2>2
  <1>7. \A m \in Nat : m \in T
    <2> HIDE DEF T
    <2> QED BY <1>5, <1>6, Induction
  <1>8. ASSUME NEW i \in 0..n PROVE Fine(i)
    <2>1. n - i \in Nat /\ n - i <= n /\ n - (n - i) = i  BY <1>0
    <2>2. n - i \in T  BY <1>7, <2>1
    <2> HIDE DEF Fine
    <2> QED BY <2>1, <2>2
  <1>9. \A i \in 1..n : parts[i].ok /\ parts[i].n <= j.n /\ Len(parts[i].out) <= Len(j.out)
    <2>1. \A i \in 1..n : i \in 0..n  BY <1>0
    <2> QED BY <1>4, <1>8, <2>1
  <1> QED BY <1>3, <1>8, <1>9 DEF n, r, j

(* Parts that are lexed are found again in what they are put together to:  *)
(* the first ones, or all of them.                                         *)
Written(parts, gs) ==
  Len(gs) <= Len(parts) /\ \A x \in 1..Len(gs) : Lexed(gs[x]) /\ gs[x].raw = parts[x].out

LEMMA SubSeqGrows ==
  ASSUME NEW gs \in Seq(Items), NEW i \in Nat, i + 1 <= Len(gs)
  PROVE  /\ SubSeq(gs, 1, i) \in Seq(Items) /\ gs[i + 1] \in Items
         /\ SubSeq(gs, 1, i + 1) = SubSeq(gs, 1, i) \o <<gs[i + 1]>>
  <1>0. Len(gs) \in Nat /\ \A x \in 1..Len(gs) : gs[x] \in Items  OBVIOUS
  <1> DEFINE s == SubSeq(gs, 1, i)
             t == SubSeq(gs, 1, i + 1)
             g == gs[i + 1]
             u == s \o <<g>>
  <1>1. s \in Seq(Items) /\ Len(s) = i /\ \A x \in 1..i : s[x] = gs[x]  OBVIOUS
  <1>2. t \in Seq(Items) /\ Len(t) = i + 1 /\ \A x \in 1..i + 1 : t[x] = gs[x]  OBVIOUS
  <1>3. g \in Items  BY <1>0
  <1> HIDE DEF s, t
  <1>4. <<g>> \in Seq(Items) /\ Len(<<g>>) = 1 /\ <<g>>[1] = g  BY <1>3
  <1>5. u \in Seq(Items) /\ Len(u) = i + 1 /\ (\A x \in 1..i : u[x] = s[x]) /\ u[i + 1] = g
    <2> HIDE DEF g
    <2> QED BY <1>1, <1>4
  <1> HIDE DEF u
  <1>6. \A x \in 1..i + 1 : t[x] = u[x]  BY <1>1, <1>2, <1>5
  <1>7. t = u  BY <1>2, <1>5, <1>6, SeqEqual
  <1> QED BY <1>1, <1>3, <1>7 DEF s, t, u

LEMMA JoinedLists ==
  ASSUME NEW parts \in Seq(PartSet), Join(parts).ok, NEW gs \in Seq(Items), Written(parts, gs)
  PROVE  Lists(joinedUpTo(parts)[Len(gs)].out, 1, gs)
  <1> DEFINE n == Len(gs)
             r == joinedUpTo(parts)
             T == {i \in Nat : i <= n => Lists(r[i].out, 1, SubSeq(gs, 1, i))}
  <1>0. n \in Nat /\ Len(parts) \in Nat /\ n <= Len(parts)  BY DEF Written
  <1>1. /\ \A i \in 0..n : r[i] \in PartSet /\ r[i].ok
        /\ r[0] = Part(0, <<>>)
        /\ \A i \in 1..n : r[i] = Both(r[i - 1], parts[i]) /\ parts[i] \in PartSet /\ parts[i].ok
    <2>1. /\ \A i \in 0..Len(parts) : r[i] \in PartSet
          /\ r[0] = Part(0, <<>>)
          /\ \A i \in 1..Len(parts) : r[i] = Both(r[i - 1], parts[i])
      BY JoinedIs
    <2>2. (\A i \in 0..Len(parts) : r[i].ok) /\ \A i \in 1..Len(parts) : parts[i].ok  BY JoinOk
    <2>3. \A i \in 1..Len(parts) : parts[i] \in PartSet  OBVIOUS
    <2>4. (\A i \in 0..n : i \in 0..Len(parts)) /\ \A i \in 1..n : i \in 1..Len(parts)  BY <1>0
    <2> HIDE DEF r, n
    <2> QED BY <2>1, <2>2, <2>3, <2>4
  <1> HIDE DEF r
  <1>2. 0 \in T
    <2>1. r[0].out = <<>>  BY <1>1, PartIs, EmptyBytes
    <2>2. Lists(<<>>, 1, <<>>)
      <3>1. Lists(<<>>, Len(<<>>) + 1, <<>>)  BY EmptyBytes, ListsNil
      <3> QED BY <3>1, EmptyBytes
    <2>3. SubSeq(gs, 1, 0) = <<>>  OBVIOUS
    <2>4. Lists(r[0].out, 1, SubSeq(gs, 1, 0))  BY <2>1, <2>2, <2>3
    <2> QED BY <2>4
  <1>3. ASSUME NEW i \in Nat, i \in T PROVE i + 1 \in T
    <2>1. CASE i + 1 <= n
      <3> DEFINE a == r[i]
                 p == parts[i + 1]
                 g == gs[i + 1]
                 s == SubSeq(gs, 1, i)
      <3>1. i \in 0..n /\ i + 1 \in 1..n /\ i + 1 \in 0..n /\ i + 1 - 1 = i  BY <1>0, <2>1
      <3>2. r[i + 1] = Both(a, p) /\ a \in PartSet /\ p \in PartSet /\ a.ok /\ p.ok /\ r[i + 1].ok
        BY <1>1, <3>1
      <3>3. r[i + 1].out = a.out \o p.out  BY <3>2, BothIs
      <3>4. a.out \in Bytes /\ p.out \in Bytes  BY <3>2, PartOk
      <3>5. s \in Seq(Items) /\ g \in Items /\ SubSeq(gs, 1, i + 1) = s \o <<g>>
        BY <2>1, SubSeqGrows
      <3>6. Lists(a.out, 1, s)  BY <1>3, <3>1
      <3>7. Lexed(g) /\ g.raw = p.out  BY <3>1 DEF Written
      <3>8. Lists(p.out, 1, <<g>>)  BY <3>7, ListsOne
      <3> HIDE DEF a, p, g, s
      <3>9. <<g>> \in Seq(Items)  BY <3>5
      <3>10. Lists(a.out \o p.out, 1, s \o <<g>>)  BY <3>4, <3>5, <3>6, <3>8, <3>9, ListsJoin
      <3>11. Lists(r[i + 1].out, 1, SubSeq(gs, 1, i + 1))  BY <3>3, <3>5, <3>10
      <3> QED BY <3>11
    <2>2. CASE ~(i + 1 <= n)  BY <2>2
    <2> QED BY <2>1, <2>2
  <1>4. \A i \in Nat : i \in T
    <2> HIDE DEF T
    <2> QED BY <1>2, <1>3, Induction
  <1>5. Lists(r[n].out, 1, SubSeq(gs, 1, n))
    <2>1. n <= n  BY <1>0
    <2> QED BY <1>0, <1>4, <2>1
  <1>6. SubSeq(gs, 1, n) = gs  OBVIOUS
  <1> QED BY <1>5, <1>6 DEF r

LEMMA JoinLists ==
  ASSUME NEW parts \in Seq(PartSet), Join(parts).ok, NEW gs \in Seq(Items), Written(parts, gs),
         Len(gs) = Len(parts)
  PROVE  Lists(Join(parts).out, 1, gs)
  BY JoinedLists DEF Join

(* What a list of items contains is lexed. *)
LEMMA ListsLexed ==
  ASSUME NEW b \in Bytes
  PROVE  \A i \in 1..Len(b) + 1 : \A gs \in Seq(Items) :
           Lists(b, i, gs) => \A x \in 1..Len(gs) : Lexed(gs[x])
  <1> DEFINE n == Len(b)
             Fine(i) == \A gs \in Seq(Items) : Lists(b, i, gs) => \A x \in 1..Len(gs) : Lexed(gs[x])
             T == {m \in Nat : m <= n => Fine(n + 1 - m)}
  <1>0. n \in Nat  BY LenBytes
  <1> HIDE DEF n
  <1>1. ASSUME NEW i \in 1..n, \A x \in i + 1..n + 1 : Fine(x), NEW gs \in Seq(Items), Lists(b, i, gs),
               NEW x \in 1..Len(gs)
        PROVE  Lexed(gs[x])
    <2> DEFINE f == fieldAt(b, i)
               g == Item(f)
    <2>1. f.ok /\ f \in Field /\ f.next \in i + 1..n + 1  BY <1>1, ListsUncons DEF n
    <2>2. PICK hs \in Seq(Items) : gs = <<g>> \o hs /\ Lists(b, f.next, hs)
      BY <1>1, ListsUncons DEF n
    <2>3. i \in Position  BY <1>0 DEF Position
    <2>4. Lexed(g)  BY <2>1, <2>3, FieldLexed
    <2>5. g \in Items  BY <2>4 DEF Lexed
    <2>6. \A y \in 1..Len(hs) : Lexed(hs[y])
      <3>1. Fine(f.next)  BY <1>1, <2>1
      <3> QED BY <2>2, <3>1
    <2> HIDE DEF g
    <2>7. /\ Len(gs) = Len(hs) + 1 /\ Len(hs) \in Nat /\ gs[1] = g
          /\ \A y \in 1..Len(hs) : gs[y + 1] = hs[y]
      BY <2>2, <2>5, OneFirst
    <2>8. CASE x = 1  BY <2>4, <2>7, <2>8
    <2>9. CASE x # 1
      <3>1. x - 1 \in 1..Len(hs) /\ (x - 1) + 1 = x  BY <2>7, <2>9
      <3> QED BY <2>6, <2>7, <3>1
    <2> QED BY <2>8, <2>9
  <1>2. Fine(n + 1)
    <2>1. SUFFICES ASSUME NEW gs \in Seq(Items), Lists(b, n + 1, gs), NEW x \in 1..Len(gs) PROVE FALSE
      OBVIOUS
    <2>2. gs = <<>>  BY <2>1, ListsNil DEF n
    <2> QED BY <2>1, <2>2
  <1>3. ASSUME NEW m \in Nat, \A x \in 0..m - 1 : x \in T PROVE m \in T
    <2>1. CASE m = 0
      <3>1. n + 1 - m = n + 1  BY <1>0, <2>1
      <3>2. Fine(n + 1 - m)  BY <1>2, <3>1
      <3> HIDE DEF Fine
      <3> QED BY <3>2
    <2>2. CASE m \in 1..n
      <3> DEFINE i == n + 1 - m
      <3>1. i \in 1..n  BY <1>0, <2>2
      <3>2. ASSUME NEW x \in i + 1..n + 1 PROVE Fine(x)
        <4>1. n + 1 - x \in 0..m - 1 /\ n + 1 - x <= n /\ n + 1 - (n + 1 - x) = x  BY <1>0, <2>2
        <4>2. n + 1 - x \in T  BY <1>3, <4>1
        <4> HIDE DEF Fine, i
        <4> QED BY <4>1, <4>2
      <3>3. Fine(i)  BY <1>1, <3>1, <3>2
      <3> HIDE DEF Fine
      <3> QED BY <3>3
    <2>3. CASE m > n  BY <1>0, <2>3
    <2> QED BY <1>0, <2>1, <2>2, <2>3
  <1>4. \A m \in Nat : m \in T
    <2> HIDE DEF T
    <2> QED BY <1>3, StrongInduction
  <1>5. ASSUME NEW i \in 1..n + 1 PROVE Fine(i)
    <2>1. n + 1 - i \in Nat /\ n + 1 - i <= n /\ n + 1 - (n + 1 - i) = i  BY <1>0
    <2>2. n + 1 - i \in T  BY <1>4, <2>1
    <2> HIDE DEF Fine
    <2> QED BY <2>1, <2>2
  <1> QED BY <1>5 DEF n

-----------------------------------------------------------------------------
(* parse. *)
ItemsOf(fs) == [x \in 1..Len(fs) |-> Item(fs[x])]

LEMMA ParseOk ==
  ASSUME NEW b \in Bytes, NEW d \in Nat, parse(b, d).ok
  PROVE  LET fs == parse(b, d).fs
         IN  /\ fs \in Seq(Field) /\ Len(fs) \in Nat /\ Len(fs) <= MaxFields /\ d <= MaxDepth
             /\ ItemsOf(fs) \in Seq(Items) /\ Len(ItemsOf(fs)) = Len(fs) /\ Lists(b, 1, ItemsOf(fs))
             /\ \A x \in 1..Len(fs) : fs[x] \in Field /\ Lexed(Item(fs[x]))
  <1> DEFINE p == parse(b, d)
             r == fieldsOf(b)
             fs == p.fs
             gs == ItemsOf(fs)
  <1>0. 1 \in 1..Len(b) + 1
    <2>1. Len(b) \in Nat  BY LenBytes
    <2> QED BY <2>1
  <1>1. r \in Parsed /\ r = fieldsFrom(b)[1]  BY <1>0, FieldsFromIs DEF fieldsOf
  <1>2. p = r /\ r.ok /\ d <= MaxDepth /\ ~(Len(r.fs) > MaxFields)
    <2>1. ~Malformed.ok /\ p.ok  BY DEF Malformed
    <2>2. ~(d > MaxDepth) /\ p = Limited(r)  BY <2>1 DEF parse
    <2>3. p = r /\ ~(r.ok /\ Len(r.fs) > MaxFields)  BY <2>1, <2>2 DEF Limited
    <2> QED BY <2>1, <2>2, <2>3, Sizes
  <1>3. r # Malformed  BY <1>2 DEF Malformed
  <1>4. r \in [ok : {TRUE}, fs : Seq(Field)]  BY <1>1, <1>3 DEF Parsed
  <1>5. fs \in Seq(Field) /\ fs = r.fs  BY <1>2, <1>4
  <1> HIDE DEF p, r, fs
  <1>6. Len(fs) \in Nat /\ \A x \in 1..Len(fs) : fs[x] \in Field  BY <1>5
  <1>7. gs \in Seq(Items) /\ Len(gs) = Len(fs) /\ \A x \in 1..Len(fs) : gs[x] = Item(fs[x])
    <2>1. \A x \in 1..Len(fs) : Item(fs[x]) \in Items  BY <1>6, ItemIs
    <2> QED BY <1>6, <2>1 DEF ItemsOf
  <1> HIDE DEF gs
  <1>8. Lists(b, 1, gs)  BY <1>1, <1>2, <1>5, <1>7 DEF Lists
  <1>9. \A x \in 1..Len(gs) : Lexed(gs[x])  BY <1>0, <1>7, <1>8, ListsLexed
  <1>10. Len(fs) <= MaxFields  BY <1>2, <1>5, <1>6, Sizes
  <1> QED BY <1>2, <1>5, <1>6, <1>7, <1>8, <1>9, <1>10 DEF p, fs, gs

LEMMA ParseLists ==
  ASSUME NEW b \in Bytes, NEW d \in Nat, NEW gs \in Seq(Items), Lists(b, 1, gs)
  PROVE  /\ d <= MaxDepth /\ Len(gs) <= MaxFields => parse(b, d).ok
         /\ parse(b, d).ok => /\ Len(parse(b, d).fs) = Len(gs)
                              /\ \A x \in 1..Len(gs) : Item(parse(b, d).fs[x]) = gs[x]
  <1> DEFINE p == parse(b, d)
             r == fieldsOf(b)
  <1>1. r.ok /\ Len(gs) = Len(r.fs) /\ \A x \in 1..Len(gs) : gs[x] = Item(r.fs[x])
    BY DEF Lists, fieldsOf
  <1>2. Len(gs) \in Nat  OBVIOUS
  <1>3. ASSUME d <= MaxDepth, Len(gs) <= MaxFields PROVE p.ok
    <2>1. ~(d > MaxDepth) /\ ~(Len(r.fs) > MaxFields)  BY <1>1, <1>2, <1>3, Sizes
    <2>2. p = r  BY <2>1 DEF parse, Limited
    <2> QED BY <1>1, <2>2
  <1>4. ASSUME p.ok PROVE p = r
    <2>1. ~Malformed.ok  BY DEF Malformed
    <2> HIDE DEF r
    <2> QED BY <1>4, <2>1 DEF parse, Limited, r
  <1> QED BY <1>1, <1>3, <1>4

(* Parts that are all right are put together. *)
LEMMA JoinAll ==
  ASSUME NEW parts \in Seq(PartSet), \A i \in 1..Len(parts) : parts[i].ok
  PROVE  Join(parts).ok
  <1> DEFINE n == Len(parts)
             r == joinedUpTo(parts)
             T == {i \in Nat : i <= n => r[i].ok}
  <1>0. n \in Nat /\ \A i \in 1..n : parts[i] \in PartSet  OBVIOUS
  <1>1. /\ \A i \in 0..n : r[i] \in PartSet
        /\ r[0] = Part(0, <<>>)
        /\ \A i \in 1..n : r[i] = Both(r[i - 1], parts[i])
    BY JoinedIs
  <1> HIDE DEF n, r
  <1>2. 0 \in T
    <2>1. r[0].ok  BY <1>1, PartIs, EmptyBytes
    <2> QED BY <2>1
  <1>3. ASSUME NEW i \in Nat, i \in T PROVE i + 1 \in T
    <2>1. CASE i + 1 <= n
      <3>1. i \in 0..n /\ i + 1 \in 1..n /\ i + 1 - 1 = i /\ i <= n  BY <1>0, <2>1
      <3>2. r[i + 1] = Both(r[i], parts[i + 1]) /\ r[i] \in PartSet  BY <1>1, <3>1
      <3>3. parts[i + 1] \in PartSet /\ parts[i + 1].ok /\ r[i].ok  BY <1>0, <1>3, <3>1 DEF n
      <3>4. r[i + 1].ok  BY <3>2, <3>3, BothIs
      <3> QED BY <3>4
    <2>2. CASE ~(i + 1 <= n)  BY <2>2
    <2> QED BY <2>1, <2>2
  <1>4. \A i \in Nat : i \in T
    <2> HIDE DEF T
    <2> QED BY <1>2, <1>3, Induction
  <1>5. r[n].ok
    <2>1. n \in T /\ n <= n  BY <1>0, <1>4
    <2> QED BY <2>1
  <1> QED BY <1>5 DEF Join, n, r

LEMMA DelimitedBytes ==
  ASSUME NEW num \in 1..NumLimit - 1, NEW t \in Bytes
  PROVE  Delimited(num, t) \in Bytes /\ Len(t) < Len(Delimited(num, t))
  <1> DEFINE h == key(num, 2)
             e == encVarint[Len(t)]
  <1>1. h \in Bytes /\ Len(h) >= 1 /\ e \in Bytes /\ Len(e) >= 1
    BY KeyBytes, EncVarintBytes, LenBytes DEF Wires
  <1>2. Len(h) \in Nat /\ Len(e) \in Nat /\ Len(t) \in Nat  BY <1>1, LenBytes
  <1>3. Delimited(num, t) = h \o e \o t  BY DEF Delimited
  <1> HIDE DEF h, e
  <1>4. h \o e \in Bytes /\ Len(h \o e) = Len(h) + Len(e)  BY <1>1, ConcatIs
  <1>5. h \o e \o t \in Bytes /\ Len(h \o e \o t) = Len(h \o e) + Len(t)  BY <1>4, ConcatIs
  <1>6. Len(t) < Len(h \o e \o t)  BY <1>1, <1>2, <1>4, <1>5
  <1> QED BY <1>3, <1>5, <1>6

-----------------------------------------------------------------------------
(* A location: the fields the profile sets are the ones it writes. *)
Profile(vals) == DOMAIN vals \subseteq {1, 2, 3, 5, 6, 11, 12} /\ vals \in [DOMAIN vals -> Int]

Setting(vals, num) ==
  [num |-> num, wire |-> 0, raw |-> written(vals, num), value |-> i64(vals[num])]

LEMMA WidthIs == Width \in Nat /\ Width >= 2
  <1>1. Groups - 1 \in Nat  BY Sizes
  <1> QED BY <1>1, CapacityGrows DEF Width

LEMMA SettingLexed ==
  ASSUME NEW vals, Profile(vals), NEW num \in DOMAIN vals
  PROVE  /\ num \in 1..NumLimit - 1 /\ Lexed(Setting(vals, num)) /\ written(vals, num) \in Bytes
         /\ Setting(vals, num) \in Items
         /\ readVarint(Setting(vals, num).value, 1).v = vals[num] % Width
  <1> DEFINE x == vals[num] % Width
  <1>1. vals[num] \in Int  BY DEF Profile
  <1>2. x \in Nat /\ x < Width  BY <1>1, WidthIs
  <1>3. num \in {1, 2, 3, 5, 6, 11, 12} /\ NumLimit \in Nat /\ NumLimit > 12
    BY WLocAssumption DEF Profile
  <1>4. num \in 1..NumLimit - 1  BY <1>3
  <1>5. Setting(vals, num) =
          [num |-> num, wire |-> 0, raw |-> key(num, 0) \o encVarint[x], value |-> encVarint[x]]
    BY DEF Setting, written, i64
  <1> HIDE DEF x
  <1>6. Lexed(Setting(vals, num))  BY <1>2, <1>4, <1>5, WrittenLexed
  <1>7. Setting(vals, num) \in Items  BY <1>6 DEF Lexed
  <1>8. written(vals, num) \in Bytes  BY <1>7 DEF Setting, Items
  <1>9. Setting(vals, num).value = encVarint[x]  BY <1>5
  <1>10. readVarint(encVarint[x], 1) = [ok |-> TRUE, n |-> Len(encVarint[x]), v |-> x]
    <2>1. encVarint[x] \in Bytes /\ 1 \in Position  BY <1>2, EncVarintBytes DEF Position
    <2>2. Holds(encVarint[x], 1, encVarint[x])  BY <2>1, HoldsSelf
    <2> QED BY <1>2, <2>1, <2>2, VarintRoundtrip
  <1>11. readVarint(encVarint[x], 1).v = x  BY <1>10
  <1> QED BY <1>4, <1>6, <1>7, <1>8, <1>9, <1>11 DEF x

Kept(fs, vals, x) == IF sets(vals, fs[x]) THEN Setting(vals, fs[x].num) ELSE Item(fs[x])

(* The items behind the ones that were there: settings only, and one of    *)
(* each that was lacking among the first m of Order.                       *)
Adds(hs, fs, vals, m) ==
  /\ \A y \in 1..Len(hs) : hs[y].num \in DOMAIN vals /\ hs[y] = Setting(vals, hs[y].num)
  /\ \A x \in 1..m : lacks(fs, vals, Order[x]) => \E y \in 1..Len(hs) : hs[y] = Setting(vals, Order[x])

LEMMA FunctionSeq ==
  ASSUME NEW S, NEW n \in Nat, NEW f \in [1..n -> S] PROVE f \in Seq(S) /\ Len(f) = n
  OBVIOUS

LEMMA ConcatPoints ==
  ASSUME NEW S, NEW s \in Seq(S), NEW t \in Seq(S)
  PROVE  /\ s \o t \in Seq(S) /\ Len(s \o t) = Len(s) + Len(t)
         /\ \A x \in 1..Len(s) : (s \o t)[x] = s[x]
         /\ \A j \in 1..Len(t) : (s \o t)[Len(s) + j] = t[j]
  OBVIOUS

LEMMA AddsMore ==
  ASSUME NEW vals, NEW fs, NEW m \in Nat, NEW hs \in Seq(Items), Adds(hs, fs, vals, m),
         NEW num \in DOMAIN vals, num = Order[m + 1], Setting(vals, num) \in Items
  PROVE  Adds(hs \o <<Setting(vals, num)>>, fs, vals, m + 1)
  <1> DEFINE w == Setting(vals, num)
             ks == hs \o <<w>>
  <1>0. w.num = num  BY DEF Setting
  <1>1. w \in Items  OBVIOUS
  <1> HIDE DEF w
  <1>2. <<w>> \in Seq(Items) /\ Len(<<w>>) = 1 /\ <<w>>[1] = w /\ Len(hs) \in Nat  BY <1>1
  <1>3. Len(ks) = Len(hs) + 1 /\ (\A y \in 1..Len(hs) : ks[y] = hs[y]) /\ ks[Len(hs) + 1] = w
    BY <1>1, <1>2
  <1> HIDE DEF ks
  <1>4. ASSUME NEW y \in 1..Len(ks) PROVE ks[y].num \in DOMAIN vals /\ ks[y] = Setting(vals, ks[y].num)
    <2>1. CASE y \in 1..Len(hs)  BY <1>3, <2>1 DEF Adds
    <2>2. CASE y = Len(hs) + 1
      <3>1. ks[y] = w /\ ks[y].num = num  BY <1>0, <1>3, <2>2
      <3> QED BY <3>1 DEF w
    <2> QED BY <1>2, <1>3, <2>1, <2>2
  <1>5. ASSUME NEW x \in 1..m + 1, lacks(fs, vals, Order[x])
        PROVE  \E y \in 1..Len(ks) : ks[y] = Setting(vals, Order[x])
    <2>1. CASE x = m + 1
      <3>1. Len(hs) + 1 \in 1..Len(ks) /\ ks[Len(hs) + 1] = Setting(vals, Order[x])
        BY <1>2, <1>3, <2>1 DEF w
      <3> QED BY <3>1
    <2>2. CASE x \in 1..m
      <3>1. PICK y \in 1..Len(hs) : hs[y] = Setting(vals, Order[x])  BY <1>5, <2>2 DEF Adds
      <3>2. y \in 1..Len(ks) /\ ks[y] = hs[y]  BY <1>2, <1>3
      <3> QED BY <3>1, <3>2
    <2> QED BY <2>1, <2>2
  <1>6. Adds(ks, fs, vals, m + 1)  BY <1>4, <1>5 DEF Adds
  <1> QED BY <1>6 DEF ks, w

LEMMA LocationIs ==
  ASSUME NEW fs \in Seq(Field), \A x \in 1..Len(fs) : Lexed(Item(fs[x])), NEW vals, Profile(vals)
  PROVE  /\ location(fs, vals) \in Bytes
         /\ \E hs \in Seq(Items) :
              /\ Adds(hs, fs, vals, 7)
              /\ [x \in 1..Len(fs) |-> Kept(fs, vals, x)] \in Seq(Items)
              /\ Lists(location(fs, vals), 1, [x \in 1..Len(fs) |-> Kept(fs, vals, x)] \o hs)
  <1> DEFINE n == Len(fs)
             kept == [i \in DOMAIN fs |->
                        Part(0, IF sets(vals, fs[i]) THEN written(vals, fs[i].num) ELSE fs[i].raw)]
             added == [j \in DOMAIN Order |->
                         Part(0, IF lacks(fs, vals, Order[j]) THEN written(vals, Order[j]) ELSE <<>>)]
             parts == kept \o added
             gs == [x \in 1..n |-> Kept(fs, vals, x)]
             r == joinedUpTo(parts)
  <1>0. /\ n \in Nat /\ DOMAIN fs = 1..n /\ DOMAIN Order = 1..7
        /\ \A x \in 1..n : fs[x] \in Field
    BY DEF Order
  <1>1. ASSUME NEW x \in 1..n
        PROVE  /\ Kept(fs, vals, x) \in Items /\ Lexed(Kept(fs, vals, x))
               /\ kept[x] = Part(0, Kept(fs, vals, x).raw) /\ Kept(fs, vals, x).raw \in Bytes
    <2>1. kept[x] = Part(0, IF sets(vals, fs[x]) THEN written(vals, fs[x].num) ELSE fs[x].raw)
      BY <1>0
    <2>2. CASE sets(vals, fs[x])
      <3>1. fs[x].num \in DOMAIN vals /\ Kept(fs, vals, x) = Setting(vals, fs[x].num)
        BY <2>2 DEF sets, Kept
      <3>2. Kept(fs, vals, x).raw = written(vals, fs[x].num)  BY <3>1 DEF Setting
      <3> HIDE DEF kept
      <3> QED BY <2>1, <2>2, <3>1, <3>2, SettingLexed
    <2>3. CASE ~sets(vals, fs[x])
      <3>1. Kept(fs, vals, x) = Item(fs[x]) /\ Lexed(Item(fs[x]))  BY <2>3 DEF Kept
      <3>2. Kept(fs, vals, x).raw = fs[x].raw  BY <3>1 DEF Item
      <3>3. Item(fs[x]) \in Items /\ fs[x].raw \in Bytes  BY <1>0, ItemIs DEF Field
      <3> HIDE DEF kept
      <3> QED BY <2>1, <2>3, <3>1, <3>2, <3>3
    <2> QED BY <2>2, <2>3
  <1>2. ASSUME NEW j \in 1..7
        PROVE  /\ added[j] = Part(0, IF lacks(fs, vals, Order[j]) THEN written(vals, Order[j]) ELSE <<>>)
               /\ added[j] \in PartSet /\ added[j].ok
               /\ added[j].out = IF lacks(fs, vals, Order[j]) THEN written(vals, Order[j]) ELSE <<>>
    <2>1. added[j] = Part(0, IF lacks(fs, vals, Order[j]) THEN written(vals, Order[j]) ELSE <<>>)
      BY <1>0
    <2>2. (IF lacks(fs, vals, Order[j]) THEN written(vals, Order[j]) ELSE <<>>) \in Bytes
      <3>1. lacks(fs, vals, Order[j]) => Order[j] \in DOMAIN vals  BY DEF lacks
      <3> QED BY <3>1, SettingLexed, EmptyBytes
    <2> HIDE DEF added
    <2> QED BY <2>1, <2>2, PartIs
  <1>3. kept \in Seq(PartSet) /\ Len(kept) = n /\ \A x \in 1..n : kept[x].ok /\ kept[x].out = gs[x].raw
    <2>1. ASSUME NEW x \in 1..n
          PROVE  kept[x] \in PartSet /\ kept[x].ok /\ kept[x].out = Kept(fs, vals, x).raw
      <3>1. kept[x] = Part(0, Kept(fs, vals, x).raw) /\ Kept(fs, vals, x).raw \in Bytes  BY <1>1
      <3> HIDE DEF kept
      <3> QED BY <3>1, PartIs
    <2>2. DOMAIN kept = 1..n /\ kept = [x \in DOMAIN kept |-> kept[x]]  BY <1>0
    <2>3. \A x \in 1..n : gs[x] = Kept(fs, vals, x)  OBVIOUS
    <2> HIDE DEF kept, gs
    <2>4. kept \in [1..n -> PartSet]  BY <2>1, <2>2
    <2>5. kept \in Seq(PartSet) /\ Len(kept) = n  BY <1>0, <2>4
    <2> QED BY <2>1, <2>3, <2>5
  <1>4. gs \in Seq(Items) /\ Len(gs) = n /\ \A x \in 1..n : Lexed(gs[x]) /\ gs[x] = Kept(fs, vals, x)
    BY <1>0, <1>1
  <1>5. added \in Seq(PartSet) /\ Len(added) = 7
    <2>1. DOMAIN added = 1..7 /\ added = [x \in DOMAIN added |-> added[x]]  BY <1>0
    <2>2. \A x \in 1..7 : added[x] \in PartSet  BY <1>2
    <2> HIDE DEF added
    <2>3. added \in [1..7 -> PartSet]  BY <2>1, <2>2
    <2> QED BY <2>3, FunctionSeq
  <1>6. location(fs, vals) = Join(parts).out  BY DEF location
  <1> HIDE DEF kept, added, gs
  <1>7. /\ parts \in Seq(PartSet) /\ Len(parts) = n + 7
        /\ \A x \in 1..n : parts[x] = kept[x]
        /\ \A j \in 1..7 : parts[n + j] = added[j]
    <2>1. kept \in Seq(PartSet) /\ added \in Seq(PartSet)  BY <1>3, <1>5
    <2>2. /\ kept \o added \in Seq(PartSet) /\ Len(kept \o added) = Len(kept) + Len(added)
          /\ \A x \in 1..Len(kept) : (kept \o added)[x] = kept[x]
          /\ \A j \in 1..Len(added) : (kept \o added)[Len(kept) + j] = added[j]
      BY <2>1, ConcatPoints
    <2>3. Len(kept) = n /\ Len(added) = 7  BY <1>3, <1>5
    <2> QED BY <2>2, <2>3
  <1> HIDE DEF parts
  <1>8. \A x \in 1..n + 7 : parts[x].ok
    <2>1. SUFFICES ASSUME NEW x \in 1..n + 7 PROVE parts[x].ok  OBVIOUS
    <2>2. CASE x \in 1..n  BY <1>3, <1>7, <2>2
    <2>3. CASE x - n \in 1..7
      <3>1. n + (x - n) = x  BY <1>0
      <3> QED BY <1>2, <1>7, <2>3, <3>1
    <2> QED BY <1>0, <2>2, <2>3
  <1>9. Join(parts).ok  BY <1>7, <1>8, JoinAll
  <1>10. Join(parts).out \in Bytes  BY <1>7, <1>9, JoinOk
  <1>11. Lists(r[n].out, 1, gs)
    <2>1. Written(parts, gs)  BY <1>0, <1>3, <1>4, <1>7 DEF Written
    <2>2. Lists(r[Len(gs)].out, 1, gs)  BY <1>4, <1>7, <1>9, <2>1, JoinedLists
    <2> QED BY <1>4, <2>2
  <1>12. /\ \A i \in 0..n + 7 : r[i] \in PartSet /\ r[i].ok
         /\ \A i \in 1..n + 7 : r[i] = Both(r[i - 1], parts[i])
    BY <1>7, <1>9, JoinedIs, JoinOk
  <1> HIDE DEF r
  <1> DEFINE Fine(m) == \E hs \in Seq(Items) : Adds(hs, fs, vals, m) /\ Lists(r[n + m].out, 1, gs \o hs)
             T == {m \in Nat : m <= 7 => Fine(m)}
  <1>13. 0 \in T
    <2>1. <<>> \in Seq(Items) /\ gs \o <<>> = gs /\ n + 0 = n  BY <1>0, <1>4
    <2>2. Adds(<<>>, fs, vals, 0)  BY DEF Adds
    <2>3. Adds(<<>>, fs, vals, 0) /\ Lists(r[n + 0].out, 1, gs \o <<>>)  BY <1>11, <2>1, <2>2
    <2>4. Fine(0)  BY <2>1, <2>3
    <2> HIDE DEF Fine
    <2> QED BY <2>4
  <1>14. ASSUME NEW m \in Nat, m \in T PROVE m + 1 \in T
    <2>1. CASE m + 1 <= 7
      <3> DEFINE a == r[n + m]
                 p == added[m + 1]
                 num == Order[m + 1]
                 c == r[n + (m + 1)]
      <3>1. m <= 7 /\ m + 1 \in 1..7 /\ n + (m + 1) \in 1..n + 7 /\ n + (m + 1) \in 0..n + 7
            /\ n + m \in 0..n + 7 /\ n + (m + 1) - 1 = n + m
        BY <1>0, <2>1
      <3>2. PICK hs \in Seq(Items) : Adds(hs, fs, vals, m) /\ Lists(a.out, 1, gs \o hs)
        BY <1>14, <3>1
      <3>3. c = Both(a, p) /\ a \in PartSet /\ a.ok /\ c.ok
        <4>1. parts[n + (m + 1)] = p  BY <1>7, <3>1
        <4>2. a \in PartSet /\ a.ok /\ c.ok  BY <1>12, <3>1
        <4>3. r[n + (m + 1)] = Both(r[n + (m + 1) - 1], parts[n + (m + 1)])  BY <1>12, <3>1
        <4>4. r[n + (m + 1) - 1] = a  BY <3>1
        <4> QED BY <4>1, <4>2, <4>3, <4>4
      <3>4. p \in PartSet /\ p.out = IF lacks(fs, vals, num) THEN written(vals, num) ELSE <<>>
        BY <1>2, <3>1
      <3>5. c.out = a.out \o p.out /\ p.ok
        <4>1. Both(a, p).ok  BY <3>3
        <4>2. a \in PartSet /\ p \in PartSet  BY <3>3, <3>4
        <4> HIDE DEF a, p, c
        <4> QED BY <3>3, <4>1, <4>2, BothIs
      <3>6. a.out \in Bytes /\ p.out \in Bytes  BY <3>3, <3>4, <3>5, PartOk
      <3>7. gs \o hs \in Seq(Items)  BY <1>4, <3>2, ConcatProperties
      <3>8. CASE lacks(fs, vals, num)
        <4> DEFINE w == Setting(vals, num)
                   ks == hs \o <<w>>
        <4>1. num \in DOMAIN vals  BY <3>8 DEF lacks
        <4>2. Lexed(w) /\ w \in Items  BY <4>1, SettingLexed
        <4>3. w.raw = p.out  BY <3>4, <3>8 DEF Setting
        <4>4. Lists(p.out, 1, <<w>>)  BY <4>2, <4>3, ListsOne
        <4>5. Adds(ks, fs, vals, m + 1)  BY <3>2, <4>1, <4>2, AddsMore
        <4> HIDE DEF w, a, p, c
        <4>6. <<w>> \in Seq(Items) /\ ks \in Seq(Items)  BY <3>2, <4>2
        <4>7. Lists(a.out \o p.out, 1, (gs \o hs) \o <<w>>)
          <5> DEFINE js == gs \o hs
          <5>1. js \in Seq(Items) /\ Lists(a.out, 1, js)  BY <3>2, <3>7
          <5> HIDE DEF js
          <5>2. Lists(a.out \o p.out, 1, js \o <<w>>)  BY <3>6, <4>4, <4>6, <5>1, ListsJoin
          <5> QED BY <5>2 DEF js
        <4>8. (gs \o hs) \o <<w>> = gs \o ks  BY <1>4, <3>2, <4>6, ConcatAssociative
        <4>9. Lists(c.out, 1, gs \o ks)  BY <3>5, <4>7, <4>8
        <4>10. Fine(m + 1)  BY <4>5, <4>6, <4>9 DEF c
        <4> HIDE DEF Fine
        <4> QED BY <4>10
      <3>9. CASE ~lacks(fs, vals, num)
        <4>1. p.out = <<>>  BY <3>4, <3>9
        <4>2. c.out = a.out
          <5>1. a.out \o <<>> = a.out
            <6> DEFINE s == a.out
            <6>1. s \in Seq(Byte)  BY <3>6 DEF Bytes
            <6> HIDE DEF s
            <6>2. s \o <<>> = s  BY <6>1, ConcatEmptySeq
            <6> QED BY <6>2 DEF s
          <5> QED BY <3>5, <4>1, <5>1
        <4>3. Adds(hs, fs, vals, m + 1)
          <5>1. \A x \in 1..m + 1 : x \in 1..m \/ x = m + 1  OBVIOUS
          <5> QED BY <3>2, <3>9, <5>1 DEF Adds
        <4>4. Lists(c.out, 1, gs \o hs)  BY <3>2, <4>2
        <4>5. Fine(m + 1)  BY <4>3, <4>4
        <4> HIDE DEF Fine
        <4> QED BY <4>5
      <3> QED BY <3>8, <3>9
    <2>2. CASE ~(m + 1 <= 7)  BY <2>2
    <2> QED BY <2>1, <2>2
  <1>15. \A m \in Nat : m \in T
    <2> HIDE DEF T
    <2> QED BY <1>13, <1>14, Induction
  <1>16. Fine(7)
    <2>1. 7 \in T  BY <1>15
    <2> HIDE DEF Fine
    <2> QED BY <2>1
  <1>17. r[n + 7] = Join(parts)  BY <1>7 DEF Join, r
  <1>18. \E hs \in Seq(Items) : Adds(hs, fs, vals, 7) /\ gs \in Seq(Items) /\ Lists(location(fs, vals), 1, gs \o hs)
    BY <1>4, <1>6, <1>16, <1>17
  <1> QED BY <1>6, <1>10, <1>18 DEF gs, n

LEMMA OrderIs == /\ \A j \in 1..7 : Order[j] \in {1, 2, 3, 5, 6, 11, 12}
                 /\ \A num \in {1, 2, 3, 5, 6, 11, 12} : \E j \in 1..7 : Order[j] = num
  <1>1. /\ Order[1] = 1 /\ Order[2] = 2 /\ Order[3] = 3 /\ Order[4] = 5
        /\ Order[5] = 6 /\ Order[6] = 11 /\ Order[7] = 12
    BY DEF Order
  <1>2. \A j \in 1..7 : j \in {1, 2, 3, 4, 5, 6, 7}  OBVIOUS
  <1> QED BY <1>1, <1>2

(* What location writes says the profile's values and keeps the rest. *)
LEMMA LocationIsMoved ==
  ASSUME NEW fs \in Seq(Field), \A x \in 1..Len(fs) : Lexed(Item(fs[x])), NEW vals, Profile(vals),
         parse(location(fs, vals), 2).ok
  PROVE  LocationMoved(fs, parse(location(fs, vals), 2).fs, vals)
  <1> DEFINE n == Len(fs)
             new == parse(location(fs, vals), 2).fs
             gs == [x \in 1..n |-> Kept(fs, vals, x)]
  <1>0. n \in Nat /\ DOMAIN fs = 1..n /\ \A x \in 1..n : fs[x] \in Field  OBVIOUS
  <1>1. location(fs, vals) \in Bytes  BY LocationIs
  <1>2. PICK hs \in Seq(Items) :
          Adds(hs, fs, vals, 7) /\ gs \in Seq(Items) /\ Lists(location(fs, vals), 1, gs \o hs)
    BY LocationIs
  <1>3. Len(gs) = n /\ \A x \in 1..n : gs[x] = Kept(fs, vals, x)  BY <1>0
  <1> HIDE DEF gs
  <1>4. /\ gs \o hs \in Seq(Items) /\ Len(gs \o hs) = n + Len(hs) /\ Len(hs) \in Nat
        /\ \A x \in 1..n : (gs \o hs)[x] = gs[x]
        /\ \A y \in 1..Len(hs) : (gs \o hs)[n + y] = hs[y]
    <2>1. gs \in Seq(Items) /\ hs \in Seq(Items)  BY <1>2
    <2>2. /\ gs \o hs \in Seq(Items) /\ Len(gs \o hs) = Len(gs) + Len(hs)
          /\ \A x \in 1..Len(gs) : (gs \o hs)[x] = gs[x]
          /\ \A y \in 1..Len(hs) : (gs \o hs)[Len(gs) + y] = hs[y]
      BY <2>1, ConcatPoints
    <2>3. Len(hs) \in Nat  BY <2>1
    <2> QED BY <1>3, <2>2, <2>3
  <1>5. Len(new) = n + Len(hs) /\ \A x \in 1..n + Len(hs) : Item(new[x]) = (gs \o hs)[x]
    <2> DEFINE js == gs \o hs
    <2>1. js \in Seq(Items) /\ Lists(location(fs, vals), 1, js)  BY <1>2, <1>4
    <2> HIDE DEF js
    <2>2. Len(new) = Len(js) /\ \A x \in 1..Len(js) : Item(new[x]) = js[x]  BY <1>1, <2>1, ParseLists
    <2> QED BY <1>4, <2>2 DEF js
  <1>6. new \in Seq(Field)  BY <1>1, ParseOk
  <1> HIDE DEF new
  <1>7. DOMAIN new = 1..n + Len(hs)  BY <1>5, <1>6
  <1>8. ASSUME NEW x \in 1..n
        PROVE  IF sets(vals, fs[x]) THEN Item(new[x]) = Setting(vals, fs[x].num)
                                    ELSE Item(new[x]) = Item(fs[x])
    <2>1. x \in 1..n + Len(hs)  BY <1>0, <1>4
    <2>2. Item(new[x]) = Kept(fs, vals, x)  BY <1>3, <1>4, <1>5, <2>1
    <2> QED BY <2>2 DEF Kept
  <1>9. ASSUME NEW x \in n + 1..n + Len(hs)
        PROVE  Item(new[x]) = hs[x - n] /\ x - n \in 1..Len(hs)
    <2>1. x - n \in 1..Len(hs) /\ n + (x - n) = x /\ x \in 1..n + Len(hs)  BY <1>0, <1>4
    <2>2. (gs \o hs)[n + (x - n)] = hs[x - n]  BY <1>4, <2>1
    <2> QED BY <1>5, <2>1, <2>2
  <1>10. ASSUME NEW x \in 1..n
         PROVE  Alike(fs[x], new[x]) /\ (sets(vals, fs[x]) \/ new[x].raw = fs[x].raw)
    <2>1. CASE sets(vals, fs[x])
      <3>1. Item(new[x]) = Setting(vals, fs[x].num)  BY <1>8, <2>1
      <3>2. new[x].num = fs[x].num /\ new[x].wire = 0  BY <3>1 DEF Item, Setting
      <3> QED BY <2>1, <3>2 DEF Alike, sets
    <2>2. CASE ~sets(vals, fs[x])
      <3>1. Item(new[x]) = Item(fs[x])  BY <1>8, <2>2
      <3>2. new[x].num = fs[x].num /\ new[x].wire = fs[x].wire /\ new[x].raw = fs[x].raw
        BY <3>1 DEF Item
      <3> QED BY <3>2 DEF Alike
    <2> QED BY <2>1, <2>2
  <1>11. ASSUME NEW x \in n + 1..n + Len(hs)
         PROVE  sets(vals, new[x]) /\ Item(new[x]) = Setting(vals, new[x].num)
    <2> DEFINE h == hs[x - n]
    <2>1. Item(new[x]) = h /\ h.num \in DOMAIN vals /\ h = Setting(vals, h.num)
      BY <1>2, <1>9 DEF Adds
    <2> HIDE DEF h
    <2>2. new[x].num = h.num  BY <2>1 DEF Item
    <2>3. new[x].wire = 0
      <3>1. h.wire = 0  BY <2>1 DEF Setting
      <3>2. new[x].wire = h.wire  BY <2>1 DEF Item
      <3> QED BY <3>1, <3>2
    <2> QED BY <2>1, <2>2, <2>3 DEF sets
  <1>12. \A x \in 1..n + Len(hs) : sets(vals, new[x]) => Item(new[x]) = Setting(vals, new[x].num)
    <2>1. SUFFICES ASSUME NEW x \in 1..n + Len(hs), sets(vals, new[x])
                   PROVE  Item(new[x]) = Setting(vals, new[x].num)
      OBVIOUS
    <2>2. CASE x \in 1..n
      <3>1. Alike(fs[x], new[x])  BY <1>10, <2>2
      <3>2. sets(vals, fs[x]) /\ fs[x].num = new[x].num  BY <2>1, <3>1 DEF Alike, sets
      <3> QED BY <1>8, <2>2, <3>2
    <2>3. CASE x \in n + 1..n + Len(hs)  BY <1>11, <2>3
    <2> QED BY <1>0, <1>4, <2>2, <2>3
  <1>13. ASSUME NEW num \in DOMAIN vals
         PROVE  \E x \in 1..n + Len(hs) : new[x].wire = 0 /\ new[x].num = num
    <2>1. CASE lacks(fs, vals, num)
      <3>1. PICK j \in 1..7 : Order[j] = num  BY OrderIs DEF Profile
      <3>2. PICK y \in 1..Len(hs) : hs[y] = Setting(vals, num)  BY <1>2, <2>1, <3>1 DEF Adds
      <3>3. n + y \in n + 1..n + Len(hs) /\ n + y - n = y /\ n + y \in 1..n + Len(hs)  BY <1>0, <1>4
      <3>4. Item(new[n + y]) = Setting(vals, num)  BY <1>9, <3>2, <3>3
      <3>5. new[n + y].wire = 0 /\ new[n + y].num = num  BY <3>4 DEF Item, Setting
      <3> QED BY <3>3, <3>5
    <2>2. CASE ~lacks(fs, vals, num)
      <3>1. PICK x \in 1..n : sets(vals, fs[x]) /\ fs[x].num = num  BY <1>0, <2>2 DEF lacks
      <3>2. Item(new[x]) = Setting(vals, num)  BY <1>8, <3>1
      <3>3. new[x].wire = 0 /\ new[x].num = num  BY <3>2 DEF Item, Setting
      <3>4. x \in 1..n + Len(hs)  BY <1>0, <1>4
      <3> QED BY <3>3, <3>4
    <2> QED BY <2>1, <2>2
  <1>14. ASSUME NEW num \in DOMAIN vals PROVE Says(new, num) = {vals[num] % Width}
    <2>1. ASSUME NEW x \in 1..n + Len(hs), new[x].wire = 0, new[x].num = num
          PROVE  readVarint(new[x].value, 1).v = vals[num] % Width
      <3>1. Item(new[x]) = Setting(vals, num)  BY <1>12, <2>1 DEF sets
      <3>2. new[x].value = Setting(vals, num).value  BY <3>1 DEF Item
      <3> QED BY <3>2, SettingLexed
    <2>2. Says(new, num) = {readVarint(new[i].value, 1).v :
                              i \in {j \in 1..n + Len(hs) : new[j].wire = 0 /\ new[j].num = num}}
      BY <1>7 DEF Says
    <2> QED BY <1>13, <2>1, <2>2
  <1>15. n <= Len(new)  BY <1>0, <1>4, <1>5
  <1>16. \A i \in DOMAIN new : i > Len(fs) => sets(vals, new[i])
    <2>1. \A i \in 1..n + Len(hs) : i > n => i \in n + 1..n + Len(hs)  BY <1>0, <1>4
    <2> QED BY <1>7, <1>11, <2>1
  <1>17. LocationMoved(fs, new, vals)  BY <1>0, <1>10, <1>14, <1>15, <1>16 DEF LocationMoved
  <1> QED BY <1>17 DEF new

-----------------------------------------------------------------------------
(* A field of a record, what rewriteRecord makes of it, and how that is    *)
(* read.                                                                   *)
RecordPart(f, vals, rec) ==
  IF f.wire = 2 /\ f.num = (IF rec = 2 THEN 2 ELSE 5)
  THEN moved(f, parse(f.value, 2), vals) ELSE Part(0, f.raw)

MovesHere(f, rec) == IsLocation(f, rec) /\ hasLocation(parse(f.value, 2).fs)

RecordItem(f, p, g, rec, vals) ==
  /\ Lexed(g) /\ g.raw = p.out /\ Alike(f, g)
  /\ IF MovesHere(f, rec)
     THEN parse(g.value, 2).ok => LocationMoved(parse(f.value, 2).fs, parse(g.value, 2).fs, vals)
     ELSE g.raw = f.raw

LEMMA SameRaw ==
  ASSUME NEW f \in Field
  PROVE  /\ Item(f).raw = f.raw /\ Item(f).value = f.value /\ Alike(f, Item(f))
         /\ f.raw \in Bytes /\ f.value \in Bytes /\ f.num \in 1..NumLimit - 1
  BY DEF Item, Alike, Field

LEMMA RecordPartIs ==
  ASSUME NEW f \in Field, Lexed(Item(f)), NEW vals, Profile(vals), NEW rec
  PROVE  /\ RecordPart(f, vals, rec) \in PartSet
         /\ RecordPart(f, vals, rec).ok /\ MovesHere(f, rec) => RecordPart(f, vals, rec).n = 1
         /\ RecordPart(f, vals, rec).ok /\ Len(RecordPart(f, vals, rec).out) < Width
              => \E g : RecordItem(f, RecordPart(f, vals, rec), g, rec, vals)
  <1> DEFINE p == RecordPart(f, vals, rec)
             loc == parse(f.value, 2)
             here == f.wire = 2 /\ f.num = (IF rec = 2 THEN 2 ELSE 5)
             t == location(loc.fs, vals)
  <1>0. /\ f.raw \in Bytes /\ f.value \in Bytes /\ f.num \in 1..NumLimit - 1
        /\ Item(f).raw = f.raw /\ Item(f).value = f.value /\ Alike(f, Item(f))
    BY SameRaw
  <1>1. here <=> IsLocation(f, rec)  BY DEF IsLocation
  <1>2. p = IF here THEN moved(f, loc, vals) ELSE Part(0, f.raw)  BY DEF RecordPart
  <1>3. MovesHere(f, rec) <=> here /\ hasLocation(loc.fs)  BY <1>1 DEF MovesHere
  <1>4. ASSUME loc.ok PROVE loc.fs \in Seq(Field) /\ (\A x \in 1..Len(loc.fs) : Lexed(Item(loc.fs[x])))
    BY <1>0, <1>4, ParseOk
  <1>5. loc.ok => t \in Bytes
    <2>1. SUFFICES ASSUME loc.ok PROVE t \in Bytes  OBVIOUS
    <2> HIDE DEF loc
    <2> QED BY <1>4, <2>1, LocationIs
  <1>6. parse(t, 2).ok /\ loc.ok => LocationMoved(loc.fs, parse(t, 2).fs, vals)
    <2>1. SUFFICES ASSUME loc.ok, parse(t, 2).ok PROVE LocationMoved(loc.fs, parse(t, 2).fs, vals)
      OBVIOUS
    <2> HIDE DEF loc
    <2> QED BY <1>4, <2>1, LocationIsMoved
  <1> HIDE DEF p, here, t
  <1>7. CASE here /\ ~loc.ok
    <2>1. p = Malformed  BY <1>2, <1>7 DEF moved
    <2>2. Malformed \in PartSet /\ ~Malformed.ok  BY DEF PartSet, Malformed
    <2> QED BY <2>1, <2>2 DEF p
  <1>8. CASE here /\ loc.ok /\ hasLocation(loc.fs)
    <2> DEFINE s == Delimited(f.num, t)
               g == [num |-> f.num, wire |-> 2, raw |-> s, value |-> t]
    <2>1. p = Part(1, s)  BY <1>2, <1>8 DEF moved, t
    <2>2. s \in Bytes /\ t \in Bytes /\ Len(t) < Len(s)  BY <1>0, <1>5, <1>8, DelimitedBytes
    <2>3. p \in PartSet /\ p.n = 1 /\ p.out = s
      <3> HIDE DEF s
      <3> QED BY <2>1, <2>2, PartIs
    <2>4. ASSUME Len(p.out) < Width PROVE RecordItem(f, p, g, rec, vals)
      <3>1. Len(t) < Width  BY <2>2, <2>3, <2>4, LenBytes, WidthIs
      <3>2. Lexed(g)  BY <1>0, <2>2, <3>1, DelimitedLexed
      <3>3. g.raw = p.out /\ g.value = t /\ g.num = f.num /\ g.wire = 2  BY <2>3
      <3>4. Alike(f, g)  BY <1>8, <3>3 DEF Alike, here
      <3>5. MovesHere(f, rec)  BY <1>3, <1>8
      <3>6. parse(g.value, 2).ok => LocationMoved(loc.fs, parse(g.value, 2).fs, vals)
        BY <1>6, <1>8, <3>3
      <3> HIDE DEF g
      <3> QED BY <2>3, <3>2, <3>3, <3>4, <3>5, <3>6 DEF RecordItem
    <2> HIDE DEF g
    <2> QED BY <2>3, <2>4 DEF p
  <1>9. CASE ~here \/ (loc.ok /\ ~hasLocation(loc.fs))
    <2>1. p = Part(0, f.raw)  BY <1>2, <1>9 DEF moved
    <2>2. p \in PartSet /\ p.out = f.raw  BY <1>0, <2>1, PartIs
    <2>3. ~MovesHere(f, rec)  BY <1>3, <1>9
    <2>4. RecordItem(f, p, Item(f), rec, vals)  BY <1>0, <2>2, <2>3 DEF RecordItem
    <2> QED BY <2>2, <2>3, <2>4 DEF p
  <1> QED BY <1>7, <1>8, <1>9

(* A record that was rewritten is read as the record that was sent, with   *)
(* its locations moved; one that counts none has none to move.             *)
LEMMA RecordIs ==
  ASSUME NEW v \in Bytes, NEW vals, Profile(vals), NEW rec
  PROVE  LET top == parse(v, 1)
             r == rewriteRecord(top, vals, rec, 1)
         IN  /\ r \in PartSet
             /\ r.ok => top.ok
             /\ r.ok /\ Len(r.out) < Width =>
                  parse(r.out, 1).ok /\ RecordMoved(top.fs, parse(r.out, 1).fs, rec, vals)
             /\ r.ok /\ r.n = 0 => RecordMoved(top.fs, top.fs, rec, vals)
  <1> DEFINE top == parse(v, 1)
             fs == top.fs
             n == Len(fs)
             parts == [i \in DOMAIN fs |-> RecordPart(fs[i], vals, rec)]
             r == rewriteRecord(top, vals, rec, 1)
  <1>1. CASE ~top.ok
    <2>1. r = Malformed  BY <1>1 DEF rewriteRecord
    <2>2. Malformed \in PartSet /\ ~Malformed.ok  BY DEF PartSet, Malformed
    <2> QED BY <2>1, <2>2
  <1>2. CASE top.ok
    <2>0. 1 + 1 = 2  OBVIOUS
    <2>1. r = Join(parts)  BY <1>2, <2>0 DEF rewriteRecord, RecordPart
    <2>2. /\ fs \in Seq(Field) /\ n \in Nat /\ n <= MaxFields /\ 1 <= MaxDepth
          /\ \A x \in 1..n : fs[x] \in Field /\ Lexed(Item(fs[x]))
      BY <1>2, ParseOk
    <2> HIDE DEF top
    <2>3. DOMAIN fs = 1..n  BY <2>2
    <2>4. ASSUME NEW x \in 1..n
          PROVE  /\ parts[x] = RecordPart(fs[x], vals, rec) /\ parts[x] \in PartSet
                 /\ parts[x].ok /\ MovesHere(fs[x], rec) => parts[x].n = 1
                 /\ parts[x].ok /\ Len(parts[x].out) < Width
                      => \E g : RecordItem(fs[x], parts[x], g, rec, vals)
      <3>1. parts[x] = RecordPart(fs[x], vals, rec)  BY <2>3
      <3>2. fs[x] \in Field /\ Lexed(Item(fs[x]))  BY <2>2
      <3> HIDE DEF parts, fs
      <3> QED BY <3>1, <3>2, RecordPartIs
    <2>5. parts \in Seq(PartSet) /\ Len(parts) = n
      <3>1. DOMAIN parts = 1..n /\ parts = [x \in DOMAIN parts |-> parts[x]]  BY <2>3
      <3>2. \A x \in 1..n : parts[x] \in PartSet  BY <2>4
      <3> HIDE DEF parts
      <3>3. parts \in [1..n -> PartSet]  BY <3>1, <3>2
      <3> QED BY <2>2, <3>3, FunctionSeq
    <2> HIDE DEF parts, r, fs, n
    <2>6. r \in PartSet
      <3>1. n \in 0..n  BY <2>2
      <3> QED BY <2>1, <2>5, <3>1, JoinedIs DEF Join
    <2>7. ASSUME r.ok, Len(r.out) < Width
          PROVE  parse(r.out, 1).ok /\ RecordMoved(fs, parse(r.out, 1).fs, rec, vals)
      <3> DEFINE gs == [x \in 1..n |-> CHOOSE g : RecordItem(fs[x], parts[x], g, rec, vals)]
                 new == parse(r.out, 1).fs
      <3>1. /\ \A x \in 1..n : parts[x].ok /\ parts[x].n <= r.n /\ Len(parts[x].out) <= Len(r.out)
            /\ r.out \in Bytes /\ r.n \in Nat
        BY <2>1, <2>5, <2>7, JoinOk
      <3>2. ASSUME NEW x \in 1..n PROVE RecordItem(fs[x], parts[x], gs[x], rec, vals)
        <4>1. parts[x].out \in Bytes  BY <2>4, <3>1, PartOk
        <4>2. Len(parts[x].out) < Width
          <5>1. Len(parts[x].out) \in Nat /\ Len(r.out) \in Nat  BY <3>1, <4>1, LenBytes
          <5> QED BY <2>7, <3>1, <5>1, WidthIs
        <4>3. \E g : RecordItem(fs[x], parts[x], g, rec, vals)  BY <2>4, <3>1, <4>2
        <4>4. gs[x] = CHOOSE g : RecordItem(fs[x], parts[x], g, rec, vals)  OBVIOUS
        <4> HIDE DEF gs
        <4> QED BY <4>3, <4>4, Zenon
      <3>3. DOMAIN gs = 1..n /\ gs = [x \in DOMAIN gs |-> gs[x]]  OBVIOUS
      <3> HIDE DEF gs
      <3>4. \A x \in 1..n : Lexed(gs[x]) /\ gs[x] \in Items /\ gs[x].raw = parts[x].out
        BY <3>2 DEF RecordItem, Lexed
      <3>5. gs \in Seq(Items) /\ Len(gs) = n
        <4>1. gs \in [1..n -> Items]  BY <3>3, <3>4
        <4> QED BY <2>2, <4>1, FunctionSeq
      <3>6. Written(parts, gs)  BY <2>2, <2>5, <3>4, <3>5 DEF Written
      <3>7. Lists(r.out, 1, gs)  BY <2>1, <2>5, <2>7, <3>5, <3>6, JoinLists
      <3>8. parse(r.out, 1).ok  BY <2>2, <3>1, <3>5, <3>7, ParseLists
      <3>9. Len(new) = n /\ \A x \in 1..n : Item(new[x]) = gs[x]  BY <3>1, <3>5, <3>7, <3>8, ParseLists
      <3> HIDE DEF new
      <3>10. ASSUME NEW x \in 1..n
             PROVE  /\ Alike(fs[x], new[x])
                    /\ IF MovesHere(fs[x], rec)
                       THEN parse(new[x].value, 2).ok =>
                              LocationMoved(parse(fs[x].value, 2).fs, parse(new[x].value, 2).fs, vals)
                       ELSE new[x].raw = fs[x].raw
        <4>1. new[x].num = gs[x].num /\ new[x].wire = gs[x].wire /\ new[x].raw = gs[x].raw
              /\ new[x].value = gs[x].value
          <5> DEFINE g == gs[x]
                     f == new[x]
          <5>1. g = Item(f)  BY <3>9
          <5> HIDE DEF f, g
          <5>2. f.num = g.num /\ f.wire = g.wire /\ f.raw = g.raw /\ f.value = g.value
            BY <5>1 DEF Item
          <5> QED BY <5>2 DEF f, g
        <4>2. Alike(fs[x], gs[x])  BY <3>2 DEF RecordItem
        <4>3. Alike(fs[x], new[x])  BY <4>1, <4>2 DEF Alike
        <4>4. CASE MovesHere(fs[x], rec)
          <5>1. parse(gs[x].value, 2).ok =>
                  LocationMoved(parse(fs[x].value, 2).fs, parse(gs[x].value, 2).fs, vals)
            BY <3>2, <4>4 DEF RecordItem
          <5> QED BY <4>1, <4>3, <4>4, <5>1
        <4>5. CASE ~MovesHere(fs[x], rec)
          <5>1. gs[x].raw = fs[x].raw  BY <3>2, <4>5 DEF RecordItem
          <5> QED BY <4>1, <4>3, <4>5, <5>1
        <4> QED BY <4>4, <4>5
      <3>11. RecordMoved(fs, new, rec, vals)
        BY <2>3, <3>9, <3>10 DEF RecordMoved, MovesHere, n
      <3> QED BY <3>8, <3>11 DEF new
    <2>8. ASSUME r.ok, r.n = 0 PROVE RecordMoved(fs, fs, rec, vals)
      <3>1. \A x \in 1..n : parts[x].ok /\ parts[x].n <= r.n  BY <2>1, <2>5, <2>8, JoinOk
      <3>2. ASSUME NEW x \in 1..n PROVE ~MovesHere(fs[x], rec)
        <4>1. SUFFICES ASSUME MovesHere(fs[x], rec) PROVE FALSE  OBVIOUS
        <4>2. parts[x].n = 1  BY <2>4, <3>1, <4>1
        <4> QED BY <2>8, <3>1, <4>2
      <3>3. \A x \in 1..n : Alike(fs[x], fs[x])  BY DEF Alike
      <3> QED BY <2>3, <3>2, <3>3 DEF RecordMoved, MovesHere
    <2> QED BY <1>2, <2>6, <2>7, <2>8 DEF r, top, fs
  <1> QED BY <1>1, <1>2

-----------------------------------------------------------------------------
(* The same for a field of the message. *)
ProtoPart(f, vals) ==
  IF f.wire = 2 /\ f.num \in {2, 22, 24}
  THEN replaced(f, rewriteRecord(parse(f.value, 1), vals, f.num, 1)) ELSE Part(0, f.raw)

ProtoItem(f, p, g, vals) ==
  /\ Lexed(g) /\ g.raw = p.out /\ Alike(f, g)
  /\ IF IsRecord(f)
     THEN /\ parse(g.value, 1).ok
          /\ RecordMoved(parse(f.value, 1).fs, parse(g.value, 1).fs, f.num, vals)
     ELSE g.raw = f.raw

LEMMA ProtoPartIs ==
  ASSUME NEW f \in Field, Lexed(Item(f)), NEW vals, Profile(vals)
  PROVE  /\ ProtoPart(f, vals) \in PartSet
         /\ ProtoPart(f, vals).ok /\ Len(ProtoPart(f, vals).out) < Width
              => \E g : ProtoItem(f, ProtoPart(f, vals), g, vals)
  <1> DEFINE p == ProtoPart(f, vals)
             top == parse(f.value, 1)
             child == rewriteRecord(top, vals, f.num, 1)
  <1>0. /\ f.raw \in Bytes /\ f.value \in Bytes /\ f.num \in 1..NumLimit - 1
        /\ Item(f).raw = f.raw /\ Item(f).value = f.value /\ Alike(f, Item(f))
    BY SameRaw
  <1>1. p = IF IsRecord(f) THEN replaced(f, child) ELSE Part(0, f.raw)  BY DEF ProtoPart, IsRecord
  <1>2. /\ child \in PartSet
        /\ child.ok => top.ok
        /\ child.ok /\ Len(child.out) < Width =>
             parse(child.out, 1).ok /\ RecordMoved(top.fs, parse(child.out, 1).fs, f.num, vals)
        /\ child.ok /\ child.n = 0 => RecordMoved(top.fs, top.fs, f.num, vals)
    BY <1>0, RecordIs
  <1> HIDE DEF p, child
  <1>3. CASE ~IsRecord(f)
    <2>1. p = Part(0, f.raw)  BY <1>1, <1>3
    <2>2. p \in PartSet /\ p.out = f.raw  BY <1>0, <2>1, PartIs
    <2>3. ProtoItem(f, p, Item(f), vals)  BY <1>0, <1>3, <2>2 DEF ProtoItem
    <2> QED BY <2>2, <2>3 DEF p
  <1>4. CASE IsRecord(f) /\ ~child.ok
    <2>1. p = Malformed  BY <1>1, <1>4 DEF replaced
    <2>2. Malformed \in PartSet /\ ~Malformed.ok  BY DEF PartSet, Malformed
    <2> QED BY <2>1, <2>2 DEF p
  <1>5. CASE IsRecord(f) /\ child.ok /\ child.n > 0
    <2> DEFINE t == child.out
               s == Delimited(f.num, t)
               g == [num |-> f.num, wire |-> 2, raw |-> s, value |-> t]
    <2>1. p = Part(child.n, s)  BY <1>1, <1>5 DEF replaced
    <2>2. t \in Bytes /\ child.n \in Nat  BY <1>2, <1>5, PartOk
    <2>3. s \in Bytes /\ Len(t) < Len(s)  BY <1>0, <2>2, DelimitedBytes
    <2>4. p \in PartSet /\ p.out = s
      <3> HIDE DEF s
      <3> QED BY <2>1, <2>2, <2>3, PartIs
    <2>5. ASSUME Len(p.out) < Width PROVE ProtoItem(f, p, g, vals)
      <3>1. Len(t) < Width
        <4>1. Len(t) \in Nat /\ Len(s) \in Nat  BY <2>2, <2>3, LenBytes
        <4> HIDE DEF t, s
        <4> QED BY <2>3, <2>4, <2>5, <4>1, WidthIs
      <3>2. Lexed(g)
        <4> HIDE DEF t
        <4> QED BY <1>0, <2>2, <3>1, DelimitedLexed
      <3>3. g.raw = p.out /\ g.value = t /\ g.num = f.num /\ g.wire = 2  BY <2>4
      <3>4. Alike(f, g)  BY <1>5, <3>3 DEF Alike, IsRecord
      <3>5. parse(g.value, 1).ok /\ RecordMoved(top.fs, parse(g.value, 1).fs, f.num, vals)
        BY <1>2, <1>5, <3>1, <3>3
      <3> HIDE DEF g
      <3> QED BY <1>5, <3>2, <3>3, <3>4, <3>5 DEF ProtoItem
    <2> HIDE DEF g
    <2> QED BY <2>4, <2>5 DEF p
  <1>6. CASE IsRecord(f) /\ child.ok /\ ~(child.n > 0)
    <2>1. p = Part(0, f.raw)  BY <1>1, <1>6 DEF replaced
    <2>2. p \in PartSet /\ p.out = f.raw  BY <1>0, <2>1, PartIs
    <2>3. child.n = 0 /\ child.out \in Bytes
      <3>1. child.n \in Nat /\ child.out \in Bytes  BY <1>2, <1>6, PartOk
      <3> QED BY <1>6, <3>1
    <2>4. ASSUME Len(p.out) < Width PROVE ProtoItem(f, p, Item(f), vals)
      <3>1. top.ok  BY <1>2, <1>6
      <3>2. RecordMoved(top.fs, top.fs, f.num, vals)  BY <1>2, <1>6, <2>3
      <3> QED BY <1>0, <1>6, <2>2, <3>1, <3>2 DEF ProtoItem
    <2> QED BY <2>2, <2>4 DEF p
  <1> QED BY <1>3, <1>4, <1>5, <1>6

(* A message that rewriteProto has rewritten is read as the one that was   *)
(* sent, with the locations of its records moved: parse takes it, field by *)
(* field, so that RewriteBody's second parse never refuses it.  Its length *)
(* must be a number of the machine, as that of every Go slice is.          *)
THEOREM MessageRewritten ==
  ASSUME NEW v \in Bytes, NEW vals, Profile(vals)
  PROVE  LET top == parse(v, 0)
             r == rewriteProto(top, vals, 0)
         IN  /\ r \in PartSet
             /\ r.ok /\ Len(r.out) < Width =>
                  parse(r.out, 0).ok /\ MessageMoved(top.fs, parse(r.out, 0).fs, vals)
  <1> DEFINE top == parse(v, 0)
             fs == top.fs
             n == Len(fs)
             parts == [i \in DOMAIN fs |-> ProtoPart(fs[i], vals)]
             r == rewriteProto(top, vals, 0)
  <1>1. CASE ~top.ok
    <2>1. r = Malformed  BY <1>1 DEF rewriteProto
    <2>2. Malformed \in PartSet /\ ~Malformed.ok  BY DEF PartSet, Malformed
    <2> QED BY <2>1, <2>2
  <1>2. CASE top.ok
    <2>0. 0 + 1 = 1  OBVIOUS
    <2>1. r = Join(parts)  BY <1>2, <2>0 DEF rewriteProto, ProtoPart
    <2>2. /\ fs \in Seq(Field) /\ n \in Nat /\ n <= MaxFields /\ 0 <= MaxDepth
          /\ \A x \in 1..n : fs[x] \in Field /\ Lexed(Item(fs[x]))
      BY <1>2, ParseOk
    <2> HIDE DEF top
    <2>3. DOMAIN fs = 1..n  BY <2>2
    <2>4. ASSUME NEW x \in 1..n
          PROVE  /\ parts[x] \in PartSet
                 /\ parts[x].ok /\ Len(parts[x].out) < Width
                      => \E g : ProtoItem(fs[x], parts[x], g, vals)
      <3>1. parts[x] = ProtoPart(fs[x], vals)  BY <2>3
      <3>2. fs[x] \in Field /\ Lexed(Item(fs[x]))  BY <2>2
      <3> HIDE DEF parts, fs
      <3> QED BY <3>1, <3>2, ProtoPartIs
    <2>5. parts \in Seq(PartSet) /\ Len(parts) = n
      <3>1. DOMAIN parts = 1..n /\ parts = [x \in DOMAIN parts |-> parts[x]]  BY <2>3
      <3>2. \A x \in 1..n : parts[x] \in PartSet  BY <2>4
      <3> HIDE DEF parts
      <3>3. parts \in [1..n -> PartSet]  BY <3>1, <3>2
      <3> QED BY <2>2, <3>3, FunctionSeq
    <2> HIDE DEF parts, r, fs, n
    <2>6. r \in PartSet
      <3>1. n \in 0..n  BY <2>2
      <3> QED BY <2>1, <2>5, <3>1, JoinedIs DEF Join
    <2>7. ASSUME r.ok, Len(r.out) < Width
          PROVE  parse(r.out, 0).ok /\ MessageMoved(fs, parse(r.out, 0).fs, vals)
      <3> DEFINE gs == [x \in 1..n |-> CHOOSE g : ProtoItem(fs[x], parts[x], g, vals)]
                 new == parse(r.out, 0).fs
      <3>1. /\ \A x \in 1..n : parts[x].ok /\ Len(parts[x].out) <= Len(r.out)
            /\ r.out \in Bytes
        BY <2>1, <2>5, <2>7, JoinOk
      <3>2. ASSUME NEW x \in 1..n PROVE ProtoItem(fs[x], parts[x], gs[x], vals)
        <4>1. parts[x].out \in Bytes  BY <2>4, <3>1, PartOk
        <4>2. Len(parts[x].out) < Width
          <5>1. Len(parts[x].out) \in Nat /\ Len(r.out) \in Nat  BY <3>1, <4>1, LenBytes
          <5> QED BY <2>7, <3>1, <5>1, WidthIs
        <4>3. \E g : ProtoItem(fs[x], parts[x], g, vals)  BY <2>4, <3>1, <4>2
        <4>4. gs[x] = CHOOSE g : ProtoItem(fs[x], parts[x], g, vals)  OBVIOUS
        <4> HIDE DEF gs
        <4> QED BY <4>3, <4>4, Zenon
      <3>3. DOMAIN gs = 1..n /\ gs = [x \in DOMAIN gs |-> gs[x]]  OBVIOUS
      <3> HIDE DEF gs
      <3>4. \A x \in 1..n : Lexed(gs[x]) /\ gs[x] \in Items /\ gs[x].raw = parts[x].out
        BY <3>2 DEF ProtoItem, Lexed
      <3>5. gs \in Seq(Items) /\ Len(gs) = n
        <4>1. gs \in [1..n -> Items]  BY <3>3, <3>4
        <4> QED BY <2>2, <4>1, FunctionSeq
      <3>6. Written(parts, gs)  BY <2>2, <2>5, <3>4, <3>5 DEF Written
      <3>7. Lists(r.out, 1, gs)  BY <2>1, <2>5, <2>7, <3>5, <3>6, JoinLists
      <3>8. parse(r.out, 0).ok  BY <2>2, <3>1, <3>5, <3>7, ParseLists
      <3>9. Len(new) = n /\ \A x \in 1..n : Item(new[x]) = gs[x]  BY <3>1, <3>5, <3>7, <3>8, ParseLists
      <3> HIDE DEF new
      <3>10. ASSUME NEW x \in 1..n
             PROVE  /\ Alike(fs[x], new[x])
                    /\ IF IsRecord(fs[x])
                       THEN /\ parse(new[x].value, 1).ok
                            /\ RecordMoved(parse(fs[x].value, 1).fs, parse(new[x].value, 1).fs, fs[x].num, vals)
                       ELSE new[x].raw = fs[x].raw
        <4>1. new[x].num = gs[x].num /\ new[x].wire = gs[x].wire /\ new[x].raw = gs[x].raw
              /\ new[x].value = gs[x].value
          <5> DEFINE g == gs[x]
                     f == new[x]
          <5>1. g = Item(f)  BY <3>9
          <5> HIDE DEF f, g
          <5>2. f.num = g.num /\ f.wire = g.wire /\ f.raw = g.raw /\ f.value = g.value
            BY <5>1 DEF Item
          <5> QED BY <5>2 DEF f, g
        <4>2. Alike(fs[x], gs[x])  BY <3>2 DEF ProtoItem
        <4>3. Alike(fs[x], new[x])  BY <4>1, <4>2 DEF Alike
        <4>4. CASE IsRecord(fs[x])
          <5>1. /\ parse(gs[x].value, 1).ok
                /\ RecordMoved(parse(fs[x].value, 1).fs, parse(gs[x].value, 1).fs, fs[x].num, vals)
            BY <3>2, <4>4 DEF ProtoItem
          <5> QED BY <4>1, <4>3, <4>4, <5>1
        <4>5. CASE ~IsRecord(fs[x])
          <5>1. gs[x].raw = fs[x].raw  BY <3>2, <4>5 DEF ProtoItem
          <5> QED BY <4>1, <4>3, <4>5, <5>1
        <4> QED BY <4>4, <4>5
      <3>11. MessageMoved(fs, new, vals)  BY <2>3, <3>9, <3>10 DEF MessageMoved, n
      <3> QED BY <3>8, <3>11 DEF new
    <2> QED BY <1>2, <2>6, <2>7 DEF r, top, fs
  <1> QED BY <1>1, <1>2

-----------------------------------------------------------------------------
(* The envelopes. *)
LEMMA DivideBy ==
  ASSUME NEW m \in Nat, m >= 1, NEW v \in Nat
  PROVE  /\ v % m \in 0..m - 1 /\ v \div m \in Nat /\ v = m * (v \div m) + (v % m)
  OBVIOUS

LEMMA SmallQuotient ==
  ASSUME NEW m \in Nat, m >= 1, NEW v \in Nat, NEW q \in Nat, v < m * q
  PROVE  v \div m < q
  <1> DEFINE d == v \div m
  <1>1. d \in Nat /\ v >= m * d  BY DivideBy
  <1> HIDE DEF d
  <1>2. SUFFICES ASSUME d >= q PROVE FALSE  BY <1>1 DEF d
  <1>3. m * d >= m * q  BY <1>1, <1>2
  <1> QED BY <1>1, <1>3


LEMMA QuotientUnique ==
  ASSUME NEW m \in Nat, m >= 1, NEW d \in Nat, NEW e \in Nat, NEW s \in Nat, NEW t \in Nat,
         s < m, t < m, m * d + s = m * e + t
  PROVE  d = e /\ s = t
  <1>1. ASSUME d < e PROVE FALSE
    <2>1. d + 1 <= e  BY <1>1
    <2>2. m * (d + 1) <= m * e  BY <2>1
    <2>3. m * (d + 1) = m * d + m  OBVIOUS
    <2> QED BY <2>2, <2>3
  <1>2. ASSUME e < d PROVE FALSE
    <2>1. e + 1 <= d  BY <1>2
    <2>2. m * (e + 1) <= m * d  BY <2>1
    <2>3. m * (e + 1) = m * e + m  OBVIOUS
    <2> QED BY <2>2, <2>3
  <1>3. d = e  BY <1>1, <1>2
  <1> QED BY <1>3

LEMMA BaseIs == Base \in Nat /\ Base >= 4 /\ Base * Base \in Nat /\ Base * Base >= 1
  <1>1. Base \in Nat /\ Base >= 4  BY Sizes DEF Base
  <1> HIDE DEF Base
  <1>2. Base * Base >= Base  BY <1>1
  <1> QED BY <1>1, <1>2

(* The two low bytes of a number, and what is above them. *)
LEMMA TwoBytes ==
  ASSUME NEW v \in Nat
  PROVE  /\ v \div (Base * Base) \in Nat
         /\ v = Base * Base * (v \div (Base * Base)) + (Base * ((v \div Base) % Base) + (v % Base))
  <1> DEFINE B == Base
             q == v \div B
             r == v % B
             d == q \div B
             s == q % B
             m == B * B
             e == v \div m
             t == v % m
  <1>1. B \in Nat /\ B >= 1 /\ m \in Nat /\ m >= 1  BY BaseIs
  <1> HIDE DEF B
  <1>2. r \in 0..B - 1 /\ q \in Nat /\ v = B * q + r  BY <1>1, DivideBy
  <1> HIDE DEF q, r
  <1>3. s \in 0..B - 1 /\ d \in Nat /\ q = B * d + s  BY <1>1, <1>2, DivideBy
  <1> HIDE DEF d, s
  <1> HIDE DEF m
  <1>4. t \in 0..m - 1 /\ e \in Nat /\ v = m * e + t  BY <1>1, DivideBy
  <1> HIDE DEF e, t
  <1>5. v = m * d + (B * s + r)
    <2>1. B * q = B * (B * d) + B * s  BY <1>1, <1>2, <1>3
    <2>2. B * (B * d) = m * d  BY <1>1, <1>3 DEF m
    <2>3. B * s \in Nat /\ m * d \in Nat  BY <1>1, <1>3
    <2>4. B * q = m * d + B * s  BY <2>1, <2>2
    <2> DEFINE x == B * q
               y == m * d
               z == B * s
    <2>5. x = y + z /\ v = x + r /\ y \in Nat /\ z \in Nat /\ r \in Nat  BY <1>1, <1>2, <2>3, <2>4
    <2> HIDE DEF x, y, z
    <2>6. v = y + (z + r)  BY <2>5
    <2> QED BY <2>6 DEF y, z
  <1>6. B * s + r \in Nat /\ B * s + r < m
    <2>1. s + 1 <= B  BY <1>1, <1>3
    <2>2. B * (s + 1) <= B * B  BY <1>1, <1>3, <2>1
    <2>3. B * (s + 1) = B * s + B /\ B * s \in Nat  BY <1>1, <1>3
    <2> QED BY <1>1, <1>2, <2>2, <2>3 DEF m
  <1>7. e = d /\ t = B * s + r
    <2> DEFINE w == B * s + r
    <2>1. w \in Nat /\ w < m /\ m * e + t = m * d + w /\ t \in Nat /\ t < m
      BY <1>1, <1>4, <1>5, <1>6
    <2> HIDE DEF w
    <2>2. e = d /\ t = w  BY <1>1, <1>3, <1>4, <2>1, QuotientUnique
    <2> QED BY <2>2 DEF w
  <1>8. e \in Nat /\ v = m * e + (B * s + r)  BY <1>4, <1>7
  <1> QED BY <1>8 DEF m, B, e, s, r, q

LEMMA PutUint16Is ==
  ASSUME NEW v \in Nat
  PROVE  /\ PutUint16(v) \in Bytes /\ Len(PutUint16(v)) = 2
         /\ PutUint16(v)[1] = (v \div Base) % Base /\ PutUint16(v)[2] = v % Base
  <1>0. Base \in Nat /\ Base >= 1  BY BaseIs
  <1>1. v % Base \in 0..Base - 1 /\ v \div Base \in Nat  BY <1>0, DivideBy
  <1>2. (v \div Base) % Base \in 0..Base - 1  BY <1>0, <1>1, DivideBy
  <1>3. (v \div Base) % Base \in Byte /\ v % Base \in Byte  BY <1>1, <1>2 DEF Byte
  <1> QED BY <1>3 DEF PutUint16, Bytes

(* A number that two bytes hold. *)
LEMMA Uint16Held ==
  ASSUME NEW c \in Bytes, NEW i \in Position, NEW v \in Nat, Holds(c, i, PutUint16(v))
  PROVE  v = Base * Base * (v \div (Base * Base)) + Uint16(c, i)
  <1>1. i \in Nat /\ i + 1 - 1 = i /\ i + 2 - 1 = i + 1  BY DEF Position
  <1>2. c[i + 1 - 1] = PutUint16(v)[1] /\ c[i + 2 - 1] = PutUint16(v)[2]  BY PutUint16Is DEF Holds
  <1>3. c[i] = (v \div Base) % Base /\ c[i + 1] = v % Base  BY <1>1, <1>2, PutUint16Is
  <1> QED BY <1>3, TwoBytes DEF Uint16

LEMMA Uint16Read ==
  ASSUME NEW c \in Bytes, NEW i \in Position, NEW v \in Nat, v < Base * Base,
         Holds(c, i, PutUint16(v))
  PROVE  Uint16(c, i) = v
  <1> DEFINE m == Base * Base
             e == v \div m
  <1>1. m \in Nat /\ m >= 1  BY BaseIs
  <1>2. v = m * e + Uint16(c, i)  BY Uint16Held
  <1>3. v < m * 1  BY <1>1
  <1> HIDE DEF m
  <1>4. e < 1 /\ e \in Nat  BY <1>1, <1>3, SmallQuotient, DivideBy
  <1>5. e = 0  BY <1>4
  <1> HIDE DEF e
  <1>6. m * e = 0  BY <1>1, <1>5
  <1>7. v = 0 + Uint16(c, i)  BY <1>2, <1>6
  <1>8. 1 \in 1..2 /\ 2 \in 1..2 /\ i \in Nat /\ i + 1 - 1 = i /\ i + 2 - 1 = i + 1  BY DEF Position
  <1>9. c[i] \in Nat /\ c[i + 1] \in Nat
    <2>1. i + 2 - 1 <= Len(c) /\ Len(c) \in Nat  BY PutUint16Is, LenBytes DEF Holds
    <2>2. i \in 1..Len(c) /\ i + 1 \in 1..Len(c)  BY <1>8, <2>1 DEF Position
    <2> QED BY <2>2, LenBytes
  <1>10. Uint16(c, i) \in Nat  BY <1>9, BaseIs DEF Uint16
  <1> QED BY <1>7, <1>10

LEMMA HighIs == \A v \in Nat : v \div (Base * Base) \in Nat
  BY TwoBytes

LEMMA PutBigEndianIs ==
  ASSUME NEW v \in Nat, NEW n \in {0, 2, 4}
  PROVE  PutBigEndian(v, n) \in Bytes /\ Len(PutBigEndian(v, n)) = n
  <1>1. CASE n = 0
    <2>1. PutBigEndian(v, n) = <<>>  BY <1>1 DEF PutBigEndian
    <2> QED BY <1>1, <2>1, EmptyBytes
  <1>2. CASE n = 2
    <2>1. PutBigEndian(v, n) = PutUint16(v)  BY <1>2 DEF PutBigEndian
    <2> QED BY <1>2, <2>1, PutUint16Is
  <1>3. CASE n = 4
    <2> DEFINE h == PutUint16(v \div (Base * Base))
               l == PutUint16(v)
    <2>1. PutBigEndian(v, n) = h \o l  BY <1>3 DEF PutBigEndian
    <2>2. h \in Bytes /\ Len(h) = 2 /\ l \in Bytes /\ Len(l) = 2  BY HighIs, PutUint16Is
    <2> HIDE DEF h, l
    <2>3. h \o l \in Bytes /\ Len(h \o l) = Len(h) + Len(l)  BY <2>2, ConcatIs
    <2>4. Len(h \o l) = 2 + 2  BY <2>2, <2>3
    <2>5. Len(h \o l) = n  BY <1>3, <2>4
    <2>6. PutBigEndian(v, n) \in Bytes  BY <2>1, <2>3
    <2>7. Len(PutBigEndian(v, n)) = n  BY <2>1, <2>5
    <2> QED BY <2>6, <2>7
  <1> QED BY <1>1, <1>2, <1>3

(* The length that is read is the one that was put there, as long as the   *)
(* bytes it has can hold it.                                               *)
LEMMA BigEndianRead ==
  ASSUME NEW c \in Bytes, NEW i \in Position, NEW n \in {2, 4}, NEW v \in Nat, v <= MaxUint32,
         n = 2 => v <= MaxUint16, Holds(c, i, PutBigEndian(v, n))
  PROVE  BigEndian(c, i, n) = v
  <1> DEFINE m == Base * Base
             d == v \div m
  <1>0. m \in Nat /\ m >= 1 /\ MaxUint16 = m - 1  BY BaseIs DEF MaxUint16
  <1>1. CASE n = 2
    <2>1. v < m  BY <1>0, <1>1
    <2>2. Holds(c, i, PutUint16(v))  BY <1>1 DEF PutBigEndian
    <2>3. Uint16(c, i) = v  BY <2>1, <2>2, Uint16Read
    <2> QED BY <1>1, <2>3 DEF BigEndian
  <1>2. CASE n = 4
    <2>1. v < m * m
      <3>1. Base * Base * Base * Base = m * m  BY BaseIs
      <3>2. MaxUint32 = m * m - 1  BY <3>1 DEF MaxUint32
      <3>3. m * m \in Nat  BY <1>0
      <3> HIDE DEF m
      <3> QED BY <3>2, <3>3
    <2>2. d \in Nat  BY HighIs
    <2>3. d < m
      <3> HIDE DEF m
      <3> QED BY <1>0, <2>1, SmallQuotient
    <2> DEFINE h == PutUint16(d)
               l == PutUint16(v)
    <2>4. PutBigEndian(v, n) = h \o l  BY <1>2 DEF PutBigEndian
    <2>5. h \in Bytes /\ Len(h) = 2 /\ l \in Bytes  BY <2>2, PutUint16Is
    <2>6. Holds(c, i, h) /\ Holds(c, i + 2, l)
      <3> HIDE DEF h, l
      <3>1. Holds(c, i, h \o l)  BY <2>4
      <3>2. Holds(c, i, h) /\ Holds(c, i + Len(h), l)  BY <2>5, <3>1, HoldsConcat
      <3> QED BY <2>5, <3>2
    <2>7. Uint16(c, i) = d  BY <2>2, <2>3, <2>6, Uint16Read
    <2>8. i + 2 \in Position  BY DEF Position
    <2>9. v = m * d + Uint16(c, i + 2)  BY <2>6, <2>8, Uint16Held
    <2>10. BigEndian(c, i, n) = Base * Base * Uint16(c, i) + Uint16(c, i + 2)
      BY <1>2 DEF BigEndian
    <2> QED BY <2>7, <2>9, <2>10
  <1> QED BY <1>1, <1>2

LEMMA Uint16Is ==
  ASSUME NEW c \in Bytes, NEW i \in Position, i + 1 <= Len(c)
  PROVE  Uint16(c, i) \in Nat
  <1>1. i \in 1..Len(c) /\ i + 1 \in 1..Len(c)  BY LenBytes DEF Position
  <1>2. c[i] \in Nat /\ c[i + 1] \in Nat  BY <1>1, LenBytes
  <1> QED BY <1>2, BaseIs DEF Uint16

LEMMA BigEndianIs ==
  ASSUME NEW c \in Bytes, NEW i \in Position, NEW n \in {2, 4}, i + n - 1 <= Len(c)
  PROVE  BigEndian(c, i, n) \in Nat
  <1>1. Len(c) \in Nat /\ i \in Nat /\ i + 2 \in Position  BY LenBytes DEF Position
  <1>2. CASE n = 2
    <2>1. i + 1 <= Len(c)  BY <1>1, <1>2
    <2> QED BY <1>2, <2>1, Uint16Is DEF BigEndian
  <1>3. CASE n = 4
    <2>1. i + 1 <= Len(c) /\ i + 2 + 1 <= Len(c)  BY <1>1, <1>3
    <2>2. Uint16(c, i) \in Nat /\ Uint16(c, i + 2) \in Nat  BY <1>1, <2>1, Uint16Is
    <2>3. Base * Base * Uint16(c, i) + Uint16(c, i + 2) \in Nat
      <3> DEFINE m == Base * Base
      <3>1. m \in Nat  BY BaseIs
      <3> HIDE DEF m
      <3>2. m * Uint16(c, i) + Uint16(c, i + 2) \in Nat  BY <2>2, <3>1
      <3> QED BY <3>2 DEF m
    <2> QED BY <1>3, <2>3 DEF BigEndian
  <1> QED BY <1>2, <1>3

(* Where a payload is. *)
Encloses(b, u) ==
  /\ u.at \in Position /\ u.n \in {0, 2, 4} /\ u.p \in Bytes
  /\ u.at + u.n + Len(u.p) - 1 <= Len(b)

LEMMA PayloadIs ==
  ASSUME NEW b \in Bytes, NEW at \in Position, NEW n \in {2, 4}, Payload(b, at, n).ok
  PROVE  LET u == Payload(b, at, n) IN Encloses(b, u) /\ u.at = at /\ u.n = n
  <1> DEFINE l == BigEndian(b, at, n)
             p == SubSeq(b, at + n, at + n + l - 1)
             u == Payload(b, at, n)
  <1>1. ~(Len(b) < at + n - 1)  BY DEF Payload, NoPayload
  <1>2. ~(l > Len(b) - (at + n - 1))  BY DEF Payload, NoPayload
  <1>3. u = [ok |-> TRUE, p |-> p, at |-> at, n |-> n]  BY DEF Payload, NoPayload
  <1>4. Len(b) \in Nat /\ at \in Nat /\ at >= 1 /\ n \in Nat  BY LenBytes DEF Position
  <1>5. l \in Nat
    <2>1. at + n - 1 <= Len(b)  BY <1>1, <1>4
    <2> QED BY <2>1, BigEndianIs
  <1> HIDE DEF l
  <1>6. at + n \in Position /\ at + n + l - 1 \in Nat /\ at + n <= at + n + l - 1 + 1
        /\ at + n + l - 1 <= Len(b)
    BY <1>1, <1>2, <1>4, <1>5 DEF Position
  <1>7. p \in Bytes /\ Len(p) = at + n + l - 1 + 1 - (at + n)  BY <1>6, SubSeqIs
  <1> HIDE DEF p
  <1>8. at + n + Len(p) - 1 <= Len(b)  BY <1>4, <1>5, <1>6, <1>7
  <1>9. u.p = p /\ u.at = at /\ u.n = n  BY <1>3
  <1> HIDE DEF u
  <1>10. Encloses(b, u)  BY <1>7, <1>8, <1>9 DEF Encloses
  <1> QED BY <1>9, <1>10 DEF u

LEMMA PayloadHeld ==
  ASSUME NEW c \in Bytes, NEW at \in Position, NEW n \in {2, 4}, NEW x \in Bytes, parse(x, 0).ok,
         Len(x) <= MaxUint32, n = 2 => Len(x) <= MaxUint16,
         Holds(c, at, PutBigEndian(Len(x), n)), Holds(c, at + n, x)
  PROVE  Payload(c, at, n) = [ok |-> TRUE, p |-> x, at |-> at, n |-> n]
  <1>1. Len(c) \in Nat /\ at \in Nat /\ at >= 1 /\ n \in Nat /\ Len(x) \in Nat
    BY LenBytes DEF Position
  <1>2. BigEndian(c, at, n) = Len(x)  BY <1>1, BigEndianRead
  <1>3. at + n + Len(x) - 1 <= Len(c)  BY DEF Holds
  <1>4. ~(Len(c) < at + n - 1) /\ ~(Len(x) > Len(c) - (at + n - 1))  BY <1>1, <1>3
  <1>5. at + n \in Position  BY <1>1 DEF Position
  <1>6. SubSeq(c, at + n, at + n + Len(x) - 1) = x  BY <1>5, HoldsWhole
  <1> QED BY <1>2, <1>4, <1>6 DEF Payload

LEMMA HeldFrom ==
  ASSUME NEW c \in Bytes, NEW i \in Position, NEW t \in Bytes, Holds(c, i, t),
         Len(c) = i + Len(t) - 1
  PROVE  From(c, i) = t
  BY HoldsWhole DEF From

(* wrap: the bytes in front, the length, the payload, the bytes behind. *)
LEMMA WrapIs ==
  ASSUME NEW b \in Bytes, NEW u, Encloses(b, u), NEW x \in Bytes
  PROVE  LET out == wrap(b, u, x)
         IN  /\ out \in Bytes /\ Len(x) <= Len(out) /\ u.at - 1 <= Len(out)
             /\ Holds(out, 1, UpTo(b, u.at - 1))
             /\ Holds(out, u.at, PutBigEndian(Len(x), u.n)) /\ Holds(out, u.at + u.n, x)
             /\ UpTo(out, u.at - 1) = UpTo(b, u.at - 1)
             /\ From(out, u.at + u.n + Len(x)) = From(b, u.at + u.n + Len(u.p))
             /\ \A i \in 1..u.at - 1 : out[i] = b[i]
  <1> DEFINE at == u.at
             n == u.n
             k == Len(u.p)
             s == UpTo(b, at - 1)
             l == PutBigEndian(Len(x), n)
             t == From(b, at + n + k)
             out == wrap(b, u, x)
             sl == s \o l
             slx == sl \o x
  <1>0. out = slx \o t  BY DEF wrap
  <1>1. /\ at \in Nat /\ at >= 1 /\ n \in Nat /\ k \in Nat /\ Len(x) \in Nat /\ Len(b) \in Nat
        /\ n \in {0, 2, 4} /\ at + n + k - 1 <= Len(b) /\ 1 \in Position /\ at \in Position
    <2>1. u.p \in Bytes  BY DEF Encloses
    <2> QED BY <2>1, LenBytes DEF Encloses, Position
  <1> HIDE DEF k, at, n
  <1>2. s \in Bytes /\ Len(s) = at - 1 /\ \A i \in 1..at - 1 : s[i] = b[i]
    <2>1. at - 1 \in Nat /\ 1 <= at - 1 + 1 /\ at - 1 <= Len(b)  BY <1>1
    <2>2. /\ s \in Bytes /\ Len(s) = at - 1 + 1 - 1
          /\ \A i \in 1..at - 1 + 1 - 1 : s[i] = b[1 + i - 1]
      BY <1>1, <2>1, SubSeqIs DEF UpTo
    <2> HIDE DEF s
    <2>3. at - 1 + 1 - 1 = at - 1 /\ \A i \in 1..at - 1 : 1 + i - 1 = i  BY <1>1
    <2> QED BY <2>2, <2>3
  <1>3. t \in Bytes
    <2>1. at + n + k \in Position /\ at + n + k <= Len(b) + 1 /\ Len(b) <= Len(b)
      BY <1>1 DEF Position
    <2> QED BY <1>1, <2>1, SubSeqIs DEF From
  <1>4. l \in Bytes /\ Len(l) = n  BY <1>1, PutBigEndianIs
  <1> HIDE DEF s, l, t, out
  <1>5. sl \in Bytes /\ Len(sl) = Len(s) + Len(l)  BY <1>2, <1>4, ConcatIs
  <1> HIDE DEF sl
  <1>6. slx \in Bytes /\ Len(slx) = Len(sl) + Len(x)  BY <1>5, ConcatIs
  <1> HIDE DEF slx
  <1>7. out \in Bytes /\ Len(out) = Len(slx) + Len(t)  BY <1>0, <1>3, <1>6, ConcatIs
  <1>8. Len(t) \in Nat /\ Len(out) \in Nat  BY <1>3, <1>7, LenBytes
  <1>9. Len(slx) = at - 1 + n + Len(x) /\ Len(sl) = at - 1 + n  BY <1>1, <1>2, <1>4, <1>5, <1>6
  <1>10. Holds(out, 1, slx) /\ Holds(out, 1 + Len(slx), t)
    BY <1>0, <1>1, <1>3, <1>6, <1>7, HoldsSelf, HoldsConcat
  <1>11. Holds(out, 1, sl) /\ Holds(out, 1 + Len(sl), x)
    BY <1>1, <1>5, <1>7, <1>10, HoldsConcat DEF slx
  <1>12. Holds(out, 1, s) /\ Holds(out, 1 + Len(s), l)
    BY <1>1, <1>2, <1>4, <1>7, <1>11, HoldsConcat DEF sl
  <1>13. 1 + Len(s) = at /\ 1 + Len(sl) = at + n /\ 1 + Len(slx) = at + n + Len(x)
    BY <1>1, <1>2, <1>9
  <1>14. Len(x) <= Len(out) /\ at - 1 <= Len(out)  BY <1>1, <1>7, <1>8, <1>9
  <1>15. UpTo(out, at - 1) = s
    <2>1. SubSeq(out, 1, 1 + Len(s) - 1) = s  BY <1>1, <1>2, <1>7, <1>12, HoldsWhole
    <2>2. 1 + Len(s) - 1 = at - 1  BY <1>1, <1>2
    <2> QED BY <2>1, <2>2 DEF UpTo
  <1>16. From(out, at + n + Len(x)) = t
    <2>1. at + n + Len(x) \in Position  BY <1>1 DEF Position
    <2>2. Len(out) = at + n + Len(x) + Len(t) - 1  BY <1>1, <1>7, <1>8, <1>9
    <2>3. Holds(out, at + n + Len(x), t)  BY <1>10, <1>13
    <2> QED BY <1>3, <1>7, <2>1, <2>2, <2>3, HeldFrom
  <1>17. \A i \in 1..at - 1 : out[i] = b[i]
    <2>1. SUFFICES ASSUME NEW i \in 1..at - 1 PROVE out[i] = b[i]  OBVIOUS
    <2>2. i \in 1..Len(s) /\ 1 + i - 1 = i  BY <1>1, <1>2
    <2>3. out[1 + i - 1] = s[i]  BY <1>12, <2>2 DEF Holds
    <2> QED BY <1>2, <2>2, <2>3
  <1> QED BY <1>7, <1>11, <1>12, <1>13, <1>14, <1>15, <1>16, <1>17 DEF out, s, t, l, at, n, k

(* The three envelopes that are found by their first bytes are found again *)
(* when those are kept.                                                    *)
LEMMA FixedPrefixKept ==
  ASSUME NEW b \in Bytes, NEW c \in Bytes, looksLikeFixedPrefix(b), 8 <= Len(c),
         \A i \in 1..8 : c[i] = b[i]
  PROVE  looksLikeFixedPrefix(c)
  <1>1. Len(b) \in Nat /\ Len(c) \in Nat /\ Len(b) >= 8  BY LenBytes DEF looksLikeFixedPrefix
  <1>2. 1 \in Position /\ 7 \in Position  BY DEF Position
  <1>3. UpTo(c, 5) = UpTo(b, 5)
    <2> DEFINE s == SubSeq(b, 1, 5)
               t == SubSeq(c, 1, 5)
    <2>1. 5 <= Len(b) /\ 5 <= Len(c)  BY <1>1
    <2>2. /\ s \in Bytes /\ Len(s) = 5 + 1 - 1 /\ \A i \in 1..5 + 1 - 1 : s[i] = b[1 + i - 1]
      BY <1>2, <2>1, SubSeqIs
    <2>3. /\ t \in Bytes /\ Len(t) = 5 + 1 - 1 /\ \A i \in 1..5 + 1 - 1 : t[i] = c[1 + i - 1]
      BY <1>2, <2>1, SubSeqIs
    <2> HIDE DEF s, t
    <2>4. \A i \in 1..Len(s) : s[i] = t[i]
      <3>1. \A i \in 1..5 : 1 + i - 1 \in 1..8  OBVIOUS
      <3> QED BY <2>2, <2>3, <3>1
    <2>5. s = t  BY <2>2, <2>3, <2>4, SameBytes
    <2> QED BY <2>5 DEF s, t, UpTo
  <1>4. SubSeq(c, 7, 8) = SubSeq(b, 7, 8)
    <2> DEFINE s == SubSeq(b, 7, 8)
               t == SubSeq(c, 7, 8)
    <2>2. /\ s \in Bytes /\ Len(s) = 8 + 1 - 7 /\ \A i \in 1..8 + 1 - 7 : s[i] = b[7 + i - 1]
      BY <1>1, <1>2, SubSeqIs
    <2>3. /\ t \in Bytes /\ Len(t) = 8 + 1 - 7 /\ \A i \in 1..8 + 1 - 7 : t[i] = c[7 + i - 1]
      BY <1>1, <1>2, SubSeqIs
    <2> HIDE DEF s, t
    <2>4. \A i \in 1..Len(s) : s[i] = t[i]
      <3>1. \A i \in 1..2 : 7 + i - 1 \in 1..8  OBVIOUS
      <3> QED BY <2>2, <2>3, <3>1
    <2>5. s = t  BY <2>2, <2>3, <2>4, SameBytes
    <2> QED BY <2>5 DEF s, t
  <1> QED BY <1>1, <1>3, <1>4 DEF looksLikeFixedPrefix

(* AfterString reads the two bytes at i and ends behind them. *)
LEMMA AfterStringIs ==
  ASSUME NEW b \in Bytes, NEW i \in Nat, AfterString(b, i) # 0
  PROVE  /\ i # 0 /\ AfterString(b, i) \in Nat /\ AfterString(b, i) >= i + 2
         /\ AfterString(b, i) = i + 2 + Uint16(b, i) /\ AfterString(b, i) <= Len(b) + 1
  <1>1. i # 0 /\ ~(i + 1 > Len(b)) /\ ~(Uint16(b, i) > Len(b) - (i + 1))
        /\ AfterString(b, i) = i + 2 + Uint16(b, i)
    BY DEF AfterString
  <1>2. Len(b) \in Nat  BY LenBytes
  <1>3. i \in Position /\ i + 1 <= Len(b)  BY <1>1, <1>2 DEF Position
  <1>4. Uint16(b, i) \in Nat  BY <1>3, Uint16Is
  <1> QED BY <1>1, <1>2, <1>4

LEMMA AfterStringKept ==
  ASSUME NEW b \in Bytes, NEW c \in Bytes, NEW i \in Nat, AfterString(b, i) # 0,
         AfterString(b, i) <= Len(c) + 1, \A j \in 1..AfterString(b, i) - 1 : c[j] = b[j]
  PROVE  AfterString(c, i) = AfterString(b, i)
  <1> DEFINE a == AfterString(b, i)
  <1>1. i # 0 /\ a \in Nat /\ a >= i + 2 /\ a = i + 2 + Uint16(b, i)  BY AfterStringIs
  <1>2. Len(c) \in Nat /\ a <= Len(c) + 1  BY LenBytes
  <1>3. i \in Position /\ i + 1 <= Len(c)
    <2> HIDE DEF a
    <2> QED BY <1>1, <1>2 DEF Position
  <1>4. i \in 1..a - 1 /\ i + 1 \in 1..a - 1
    <2> HIDE DEF a
    <2> QED BY <1>1
  <1>5. c[i] = b[i] /\ c[i + 1] = b[i + 1]  BY <1>4
  <1>6. Uint16(c, i) = Uint16(b, i)  BY <1>5 DEF Uint16
  <1>7. Uint16(c, i) \in Nat  BY <1>3, Uint16Is
  <1>8. ~(i = 0 \/ i + 1 > Len(c) \/ Uint16(c, i) > Len(c) - (i + 1))
    <2> HIDE DEF a
    <2> QED BY <1>1, <1>2, <1>3, <1>6, <1>7
  <1>9. AfterString(c, i) = i + 2 + Uint16(c, i)  BY <1>8 DEF AfterString
  <1> QED BY <1>1, <1>6, <1>9

LEMMA AfterStringsKept ==
  ASSUME NEW b \in Bytes, NEW c \in Bytes, AfterStrings(b) # 0,
         AfterStrings(b) <= Len(c) + 1, \A j \in 1..AfterStrings(b) - 1 : c[j] = b[j]
  PROVE  /\ AfterStrings(c) = AfterStrings(b) /\ AfterStrings(b) \in Nat /\ AfterStrings(b) >= 9
  <1> DEFINE x == AfterString(b, 3)
             y == AfterString(b, x)
             z == AfterString(b, y)
  <1>0. AfterStrings(b) = z  BY DEF AfterStrings
  <1>1. x \in Nat /\ y \in Nat
    <2>1. x \in Nat
      <3>1. CASE x = 0  BY <3>1
      <3>2. CASE x # 0  BY <3>2, AfterStringIs
      <3> QED BY <3>1, <3>2
    <2> HIDE DEF x
    <2>2. CASE y = 0  BY <2>1, <2>2
    <2>3. CASE y # 0  BY <2>1, <2>3, AfterStringIs
    <2> QED BY <2>1, <2>2, <2>3
  <1> HIDE DEF x
  <1>2. z # 0 /\ z <= Len(c) + 1 /\ \A j \in 1..z - 1 : c[j] = b[j]  BY <1>0
  <1> HIDE DEF y
  <1>3. y # 0 /\ z \in Nat /\ z >= y + 2  BY <1>1, <1>2, AfterStringIs
  <1>4. x # 0 /\ y >= x + 2  BY <1>1, <1>3, AfterStringIs DEF y
  <1>5. x >= 3 + 2  BY <1>4, AfterStringIs DEF x
  <1>6. AfterString(c, y) = z  BY <1>1, <1>2, AfterStringKept
  <1> HIDE DEF z
  <1>7. Len(c) \in Nat /\ 1..y - 1 \subseteq 1..z - 1 /\ 1..x - 1 \subseteq 1..z - 1
    BY <1>1, <1>3, <1>4, LenBytes
  <1>8. AfterString(c, x) = y
    <2>1. y <= Len(c) + 1 /\ \A j \in 1..y - 1 : c[j] = b[j]  BY <1>1, <1>2, <1>3, <1>7
    <2> QED BY <1>1, <1>3, <2>1, AfterStringKept DEF y
  <1>9. AfterString(c, 3) = x
    <2>1. x <= Len(c) + 1 /\ \A j \in 1..x - 1 : c[j] = b[j]  BY <1>1, <1>2, <1>3, <1>4, <1>7
    <2> QED BY <1>4, <2>1, AfterStringKept DEF x
  <1>10. AfterStrings(c) = z  BY <1>6, <1>8, <1>9 DEF AfterStrings
  <1>11. z >= 9  BY <1>1, <1>3, <1>4, <1>5
  <1> QED BY <1>0, <1>3, <1>10, <1>11

LEMMA AfterStringsIs ==
  ASSUME NEW b \in Bytes, AfterStrings(b) # 0
  PROVE  AfterStrings(b) \in Nat /\ AfterStrings(b) >= 9 /\ AfterStrings(b) <= Len(b) + 1
  <1> DEFINE x == AfterString(b, 3)
             y == AfterString(b, x)
             z == AfterString(b, y)
  <1>0. AfterStrings(b) = z  BY DEF AfterStrings
  <1>1. x \in Nat
    <2>1. CASE x = 0  BY <2>1
    <2>2. CASE x # 0  BY <2>2, AfterStringIs
    <2> QED BY <2>1, <2>2
  <1> HIDE DEF x
  <1>2. y \in Nat
    <2>1. CASE y = 0  BY <2>1
    <2>2. CASE y # 0  BY <1>1, <2>2, AfterStringIs
    <2> QED BY <2>1, <2>2
  <1> HIDE DEF y
  <1>3. z \in Nat /\ z <= Len(b) + 1  BY <1>0, <1>2, AfterStringIs
  <1>4. \A j \in 1..z - 1 : b[j] = b[j]  OBVIOUS
  <1>5. z >= 9  BY <1>0, <1>3, <1>4, AfterStringsKept
  <1> QED BY <1>0, <1>3, <1>5

Envelopes == {"fixed-prefix", "arpc", "marker", "bare"}

LEMMA MarkedIs ==
  ASSUME NEW b \in Bytes, unwrap(b, "marker").ok
  PROVE  \E i \in 1..Len(b) - 7 : Payload(b, i + 6, 2).ok /\ unwrap(b, "marker") = Payload(b, i + 6, 2)
  <1> DEFINE marked == MarkedPayloads(b)
             u == unwrap(b, "marker")
  <1>1. u = TheMarked(marked)  BY DEF unwrap
  <1>2. marked # {}  BY <1>1 DEF TheMarked, NoPayload
  <1>3. ~(Cardinality(marked) > 1)  BY <1>1, <1>2 DEF TheMarked, Ambiguous
  <1>4. u = CHOOSE w \in marked : TRUE  BY <1>1, <1>2, <1>3 DEF TheMarked
  <1>5. u \in marked  BY <1>2, <1>4, Zenon
  <1> HIDE DEF u
  <1>6. u \in {w \in {Payload(b, i + 6, 2) :
                        i \in {j \in 1..Len(b) - 7 : SubSeq(b, j, j + 5) = Marker}} : w.ok}
    BY <1>5 DEF MarkedPayloads
  <1>7. PICK i \in 1..Len(b) - 7 : u = Payload(b, i + 6, 2)  BY <1>6, Zenon
  <1> QED BY <1>6, <1>7 DEF u

(* What each envelope's payload has in front of it. *)
LengthSize(kind) == IF kind = "bare" THEN 0 ELSE IF kind = "arpc" THEN 4 ELSE 2

LEMMA UnwrapIs ==
  ASSUME NEW b \in Bytes, NEW kind \in Envelopes, unwrap(b, kind).ok
  PROVE  LET u == unwrap(b, kind)
         IN  /\ Encloses(b, u) /\ u.n = LengthSize(kind)
             /\ kind = "fixed-prefix" => looksLikeFixedPrefix(b) /\ u.at = 9
             /\ kind = "arpc" => AfterStrings(b) # 0 /\ u.at = AfterStrings(b) + 4
             /\ kind = "bare" => u.at = 1 /\ u.p = b
  <1> DEFINE u == unwrap(b, kind)
  <1>1. CASE kind = "fixed-prefix"
    <2>1. looksLikeFixedPrefix(b) /\ u = Payload(b, 9, 2)  BY <1>1 DEF unwrap, NoPayload
    <2>2. 9 \in Position  BY DEF Position
    <2>3. Payload(b, 9, 2).ok  BY <2>1
    <2>4. Encloses(b, u) /\ u.at = 9 /\ u.n = 2  BY <2>1, <2>2, <2>3, PayloadIs
    <2> QED BY <1>1, <2>1, <2>4 DEF LengthSize
  <1>2. CASE kind = "arpc"
    <2> DEFINE a == AfterStrings(b)
    <2>1. a # 0 /\ u = Payload(b, a + 4, 4)  BY <1>2 DEF unwrap, NoPayload
    <2>2. a + 4 \in Position  BY <2>1, AfterStringsIs DEF Position
    <2>3. Payload(b, a + 4, 4).ok  BY <2>1
    <2>4. Encloses(b, u) /\ u.at = a + 4 /\ u.n = 4  BY <2>1, <2>2, <2>3, PayloadIs
    <2> QED BY <1>2, <2>1, <2>4 DEF LengthSize
  <1>3. CASE kind = "marker"
    <2>1. PICK i \in 1..Len(b) - 7 : Payload(b, i + 6, 2).ok /\ u = Payload(b, i + 6, 2)
      BY <1>3, MarkedIs
    <2>2. i + 6 \in Position  BY LenBytes DEF Position
    <2>3. Encloses(b, u) /\ u.n = 2  BY <2>1, <2>2, PayloadIs
    <2> QED BY <1>3, <2>3 DEF LengthSize
  <1>4. CASE kind = "bare"
    <2>1. u = [ok |-> TRUE, p |-> b, at |-> 1, n |-> 0]  BY <1>4 DEF unwrap, NoPayload
    <2>2. u.p = b /\ u.at = 1 /\ u.n = 0  BY <2>1
    <2> HIDE DEF u
    <2>3. 1 \in Position /\ 1 + 0 + Len(b) - 1 <= Len(b)  BY LenBytes DEF Position
    <2>4. Encloses(b, u)  BY <2>2, <2>3 DEF Encloses
    <2> QED BY <1>4, <2>2, <2>4 DEF LengthSize, u
  <1> QED BY <1>1, <1>2, <1>3, <1>4 DEF Envelopes

(* The envelope is read again around what was put in it. *)
LEMMA WrapReread ==
  ASSUME NEW b \in Bytes, NEW kind \in Envelopes, unwrap(b, kind).ok,
         NEW x \in Bytes, parse(x, 0).ok, Len(x) <= MaxUint32,
         kind \in {"fixed-prefix", "marker"} => Len(x) <= MaxUint16
  PROVE  LET u == unwrap(b, kind)
         IN  Reread(wrap(b, u, x), kind, u) = [ok |-> TRUE, p |-> x, at |-> u.at, n |-> u.n]
  <1> DEFINE u == unwrap(b, kind)
             at == u.at
             n == u.n
             out == wrap(b, u, x)
             w == [ok |-> TRUE, p |-> x, at |-> at, n |-> n]
  <1>1. /\ Encloses(b, u) /\ n = LengthSize(kind)
        /\ kind = "fixed-prefix" => looksLikeFixedPrefix(b) /\ at = 9
        /\ kind = "arpc" => AfterStrings(b) # 0 /\ at = AfterStrings(b) + 4
        /\ kind = "bare" => at = 1 /\ u.p = b
    BY UnwrapIs
  <1> HIDE DEF u
  <1>2. /\ out \in Bytes /\ at - 1 <= Len(out)
        /\ Holds(out, at, PutBigEndian(Len(x), n)) /\ Holds(out, at + n, x)
        /\ \A i \in 1..at - 1 : out[i] = b[i]
    BY <1>1, WrapIs
  <1>3. out = UpTo(b, at - 1) \o PutBigEndian(Len(x), n) \o x \o From(b, at + n + Len(u.p))
    BY DEF wrap
  <1>4. at \in Position /\ Len(x) \in Nat /\ Len(out) \in Nat /\ Len(b) \in Nat
    BY <1>1, <1>2, LenBytes DEF Encloses
  <1> HIDE DEF out, at, n
  <1>5. ASSUME n \in {2, 4}, n = 2 => Len(x) <= MaxUint16 PROVE Payload(out, at, n) = w
    BY <1>2, <1>4, <1>5, PayloadHeld
  <1> HIDE DEF w
  <1>6. CASE kind = "fixed-prefix"
    <2>1. n = 2 /\ at = 9 /\ Len(x) <= MaxUint16  BY <1>1, <1>6 DEF LengthSize
    <2>2. 8 <= Len(out) /\ \A i \in 1..8 : out[i] = b[i]  BY <1>2, <1>4, <2>1
    <2>3. looksLikeFixedPrefix(out)  BY <1>1, <1>2, <1>6, <2>2, FixedPrefixKept
    <2>4. unwrap(out, kind) = Payload(out, 9, 2)  BY <1>6, <2>3 DEF unwrap
    <2>5. unwrap(out, kind) = w  BY <1>5, <2>1, <2>4
    <2> QED BY <1>6, <2>5 DEF Reread, w, out, at, n, u
  <1>7. CASE kind = "arpc"
    <2> DEFINE a == AfterStrings(b)
    <2>1. n = 4 /\ at = a + 4 /\ a # 0  BY <1>1, <1>7 DEF LengthSize
    <2>2. a \in Nat /\ a >= 9  BY <2>1, AfterStringsIs
    <2>3. a <= Len(out) + 1 /\ \A j \in 1..a - 1 : out[j] = b[j]
      <3> HIDE DEF a
      <3> QED BY <1>2, <1>4, <2>1, <2>2
    <2>4. AfterStrings(out) = a  BY <1>2, <2>1, <2>3, AfterStringsKept
    <2> HIDE DEF a
    <2>5. at + 4 - 1 <= Len(out)
      <3>1. Len(PutBigEndian(Len(x), n)) = n  BY <1>4, <2>1, PutBigEndianIs
      <3> QED BY <1>2, <2>1, <3>1 DEF Holds
    <2>6. ~(Len(out) - a + 1 < 8)  BY <1>4, <2>1, <2>2, <2>5
    <2>7. unwrap(out, kind) = Payload(out, a + 4, 4)  BY <1>7, <2>1, <2>4, <2>6 DEF unwrap
    <2>8. unwrap(out, kind) = w  BY <1>5, <2>1, <2>7
    <2> QED BY <1>7, <2>8 DEF Reread, w, out, at, n, u
  <1>8. CASE kind = "marker"
    <2>1. n = 2 /\ Len(x) <= MaxUint16  BY <1>1, <1>8 DEF LengthSize
    <2>2. Payload(out, at, n) = w  BY <1>5, <2>1
    <2> QED BY <1>8, <2>2 DEF Reread, w, out, at, n, u
  <1>9. CASE kind = "bare"
    <2>1. n = 0 /\ at = 1 /\ u.p = b  BY <1>1, <1>9 DEF LengthSize
    <2>2. out = x
      <3>1. UpTo(b, at - 1) = <<>>  BY <2>1 DEF UpTo, Bytes
      <3>2. PutBigEndian(Len(x), n) = <<>>  BY <2>1 DEF PutBigEndian
      <3>3. From(b, at + n + Len(u.p)) = <<>>  BY <1>4, <2>1 DEF From, Bytes
      <3>4. out = <<>> \o <<>> \o x \o <<>>  BY <1>3, <3>1, <3>2, <3>3
      <3> QED BY <3>4 DEF Bytes
    <2>3. unwrap(out, kind) = [ok |-> TRUE, p |-> x, at |-> 1, n |-> 0]
      BY <1>9, <2>2 DEF unwrap
    <2>4. unwrap(out, kind) = w  BY <2>1, <2>3 DEF w
    <2> QED BY <1>9, <2>4 DEF Reread, w, out, at, n, u
  <1> QED BY <1>6, <1>7, <1>8, <1>9 DEF Envelopes

LEMMA RewriteBodyIs ==
  ASSUME NEW b, NEW vals, RewriteBody(b, vals).ok
  PROVE  \E kind \in Envelopes :
           RewriteBody(b, vals) = RewriteAs(b, kind, vals, unwrap(b, kind))
  <1> DEFINE r == RewriteBody(b, vals)
             as(kind) == RewriteAs(b, kind, vals, unwrap(b, kind))
  <1>1. ~(Len(b) > MaxMessage)  BY DEF RewriteBody, Malformed
  <1>2. r = OrElse(as("fixed-prefix"),
                   OrElse(as("arpc"), OrElse(as("marker"), OrElse(as("bare"), Unsupported))))
    BY <1>1 DEF RewriteBody
  <1> HIDE DEF r, as
  <1>3. r = as("fixed-prefix") \/ r = as("arpc") \/ r = as("marker") \/ r = as("bare")
        \/ r = Unsupported
    BY <1>2, Zenon DEF OrElse
  <1>4. r # Unsupported  BY DEF Unsupported, r
  <1> QED BY <1>3, <1>4 DEF Envelopes, r, as

LEMMA RewriteAsIs ==
  ASSUME NEW b \in Bytes, NEW kind \in Envelopes, NEW vals, Profile(vals),
         RewriteAs(b, kind, vals, unwrap(b, kind)).ok
  PROVE  LET u == unwrap(b, kind)
             x == rewriteProto(parse(u.p, 0), vals, 0)
             r == RewriteAs(b, kind, vals, u)
         IN  /\ u.ok /\ u.p \in Bytes /\ x.ok /\ x.out \in Bytes /\ parse(x.out, 0).ok
             /\ kind \in {"fixed-prefix", "marker"} => Len(x.out) <= MaxUint16
             /\ r.kind = kind /\ r.out = wrap(b, u, x.out)
  <1> DEFINE u == unwrap(b, kind)
             x == rewriteProto(parse(u.p, 0), vals, 0)
             r == RewriteAs(b, kind, vals, u)
  <1>1. u # Ambiguous /\ u.ok /\ r = Wrapped(b, kind, u, x)
    BY DEF RewriteAs, Ambiguous, Skip
  <1>2. u.p \in Bytes  BY <1>1, UnwrapIs DEF Encloses
  <1>3. x \in PartSet  BY <1>2, MessageRewritten
  <1> HIDE DEF x, u
  <1>4. r.ok /\ r = Wrapped(b, kind, u, x)  BY <1>1 DEF u
  <1> HIDE DEF r
  <1>5. x.ok /\ parse(x.out, 0).ok  BY <1>4 DEF Wrapped, Malformed, Skip
  <1>6. ~(kind \in {"fixed-prefix", "marker"} /\ Len(x.out) > MaxUint16)
    BY <1>4 DEF Wrapped, Malformed, Skip
  <1>7. r = [ok |-> TRUE, kind |-> kind, n |-> x.n, out |-> wrap(b, u, x.out)]
    BY <1>4, <1>5, <1>6 DEF Wrapped, Malformed, Skip
  <1>8. x.out \in Bytes  BY <1>3, <1>5, PartOk
  <1>9. Len(x.out) \in Nat /\ MaxUint16 \in Nat  BY <1>8, LenBytes, BaseIs DEF MaxUint16
  <1>10. kind \in {"fixed-prefix", "marker"} => Len(x.out) <= MaxUint16  BY <1>6, <1>9
  <1>11. r.kind = kind /\ r.out = wrap(b, u, x.out)  BY <1>7
  <1> QED BY <1>1, <1>2, <1>5, <1>8, <1>10, <1>11 DEF r, x, u

(* RewriteBody, for every body, every profile and every size: an answer    *)
(* whose length its length field can say keeps its envelope, the bytes     *)
(* before and behind the payload included, and carries the message that    *)
(* came with only its locations moved.                                     *)
THEOREM RewriteWellFormed ==
  ASSUME NEW b \in Bytes, NEW vals, Profile(vals)
  PROVE  WellFormed(b, vals, RewriteBody(b, vals))
  <1> DEFINE r == RewriteBody(b, vals)
  <1>1. SUFFICES ASSUME r.ok, Addressable(r.out) PROVE WellFormed(b, vals, r)
    BY DEF WellFormed
  <1>2. PICK kind \in Envelopes : r = RewriteAs(b, kind, vals, unwrap(b, kind))
    BY <1>1, RewriteBodyIs
  <1> HIDE DEF r
  <1> DEFINE u == unwrap(b, kind)
             p == rewriteProto(parse(u.p, 0), vals, 0)
             x == p.out
             out == wrap(b, u, x)
             w == Reread(out, kind, u)
  <1>3. /\ u.ok /\ u.p \in Bytes /\ p.ok /\ x \in Bytes /\ parse(x, 0).ok
        /\ kind \in {"fixed-prefix", "marker"} => Len(x) <= MaxUint16
        /\ r.kind = kind /\ r.out = out
    BY <1>1, <1>2, RewriteAsIs
  <1>4. Encloses(b, u)  BY <1>3, UnwrapIs
  <1>5. p.ok /\ Len(x) < Width => MessageMoved(parse(u.p, 0).fs, parse(x, 0).fs, vals)
    BY <1>3, MessageRewritten
  <1> HIDE DEF p, x
  <1>6. /\ out \in Bytes /\ Len(x) <= Len(out)
        /\ UpTo(out, u.at - 1) = UpTo(b, u.at - 1)
        /\ From(out, u.at + u.n + Len(x)) = From(b, u.at + u.n + Len(u.p))
    BY <1>3, <1>4, WrapIs
  <1>7. Len(out) < Width /\ Len(out) <= MaxUint32  BY <1>1, <1>3 DEF Addressable
  <1>8. Len(x) \in Nat /\ Len(out) \in Nat /\ Width \in Nat /\ MaxUint32 \in Int
    <2>1. Base * Base * Base * Base \in Nat  BY BaseIs
    <2> QED BY <1>3, <1>6, <2>1, LenBytes, WidthIs DEF MaxUint32
  <1>9. Len(x) < Width /\ Len(x) <= MaxUint32
    <2> HIDE DEF out
    <2> QED BY <1>6, <1>7, <1>8
  <1>10. w = [ok |-> TRUE, p |-> x, at |-> u.at, n |-> u.n]  BY <1>3, <1>9, WrapReread
  <1> HIDE DEF w
  <1>11. w.ok /\ w.p = x /\ w.at = u.at /\ w.n = u.n  BY <1>10
  <1>12. EnvelopeKept(b, out, u, w)  BY <1>3, <1>6, <1>11 DEF EnvelopeKept
  <1>13. MessageMoved(parse(u.p, 0).fs, parse(w.p, 0).fs, vals)  BY <1>3, <1>5, <1>9, <1>11
  <1> HIDE DEF u, out
  <1>14. /\ EnvelopeKept(b, r.out, unwrap(b, r.kind), Reread(r.out, r.kind, unwrap(b, r.kind)))
         /\ MessageMoved(parse(unwrap(b, r.kind).p, 0).fs,
                         parse(Reread(r.out, r.kind, unwrap(b, r.kind)).p, 0).fs, vals)
    BY <1>3, <1>12, <1>13 DEF w, u
  <1> QED BY <1>14 DEF WellFormed


-----------------------------------------------------------------------------
(* What a cut leaves is the beginning of what was sent. *)
StartOf(c, b) == Len(c) <= Len(b) /\ \A i \in 1..Len(c) : c[i] = b[i]

LEMMA CutIs ==
  ASSUME NEW b \in Bytes, NEW i \in 0..Len(b) PROVE UpTo(b, i) \in Bytes /\ StartOf(UpTo(b, i), b)
  <1> DEFINE c == UpTo(b, i)
  <1>0. Len(b) \in Nat  BY LenBytes
  <1>1. 1 \in Position /\ i \in Nat /\ 1 <= i + 1 /\ i <= Len(b) /\ i + 1 - 1 = i
    BY <1>0 DEF Position
  <1>2. c \in Bytes /\ Len(c) = i /\ \A j \in 1..i : c[j] = b[1 + j - 1]
    BY <1>1, SubSeqIs DEF UpTo
  <1> HIDE DEF c
  <1>3. \A j \in 1..i : 1 + j - 1 = j  BY <1>1
  <1>4. StartOf(c, b)  BY <1>1, <1>2, <1>3 DEF StartOf
  <1> QED BY <1>2, <1>4 DEF c

LEMMA StartSubSeq ==
  ASSUME NEW b \in Bytes, NEW c \in Bytes, StartOf(c, b),
         NEW f \in Position, NEW e \in Nat, f <= e + 1, e <= Len(c)
  PROVE  SubSeq(b, f, e) = SubSeq(c, f, e)
  <1> DEFINE p == SubSeq(c, f, e)
             q == SubSeq(b, f, e)
  <1>1. Len(b) \in Nat /\ Len(c) \in Nat /\ Len(c) <= Len(b) /\ f \in Nat /\ f >= 1
    BY LenBytes DEF StartOf, Position
  <1>2. e <= Len(b)  BY <1>1
  <1>3. p \in Bytes /\ Len(p) = e + 1 - f /\ \A j \in 1..e + 1 - f : p[j] = c[f + j - 1]
    BY SubSeqIs
  <1>4. q \in Bytes /\ Len(q) = e + 1 - f /\ \A j \in 1..e + 1 - f : q[j] = b[f + j - 1]
    BY <1>2, SubSeqIs
  <1> HIDE DEF p, q
  <1>5. \A j \in 1..e + 1 - f : f + j - 1 \in 1..Len(c)  BY <1>1
  <1>6. \A j \in 1..e + 1 - f : p[j] = q[j]  BY <1>3, <1>4, <1>5 DEF StartOf
  <1>7. p = q  BY <1>3, <1>4, <1>6, SameBytes
  <1> QED BY <1>7 DEF p, q

(* Payload reads nothing behind the payload. *)
LEMMA PayloadStart ==
  ASSUME NEW b \in Bytes, NEW c \in Bytes, StartOf(c, b), NEW at \in Position, NEW n \in {2, 4},
         Payload(c, at, n).ok
  PROVE  Payload(b, at, n) = Payload(c, at, n)
  <1> DEFINE l == BigEndian(c, at, n)
             p == SubSeq(c, at + n, at + n + l - 1)
  <1>1. ~(Len(c) < at + n - 1)  BY DEF Payload, NoPayload
  <1>2. ~(l > Len(c) - (at + n - 1))  BY DEF Payload, NoPayload
  <1>3. parse(p, 0).ok /\ Payload(c, at, n) = [ok |-> TRUE, p |-> p, at |-> at, n |-> n]
    BY DEF Payload, NoPayload
  <1>4. /\ Len(b) \in Nat /\ Len(c) \in Nat /\ at \in Nat /\ at >= 1 /\ n \in Nat
        /\ Len(c) <= Len(b) /\ at + n - 1 <= Len(c)
    BY <1>1, LenBytes DEF Position, StartOf
  <1>5. BigEndian(b, at, n) = l
    <2>1. \A j \in {at, at + 1} : b[j] = c[j]
      <3>1. \A j \in {at, at + 1} : j \in 1..Len(c)  BY <1>4
      <3> QED BY <3>1 DEF StartOf
    <2>2. CASE n = 2  BY <2>1, <2>2 DEF BigEndian, Uint16
    <2>3. CASE n = 4
      <3>1. \A j \in {at + 2, at + 2 + 1} : j \in 1..Len(c)  BY <1>4, <2>3
      <3>2. \A j \in {at + 2, at + 2 + 1} : b[j] = c[j]  BY <3>1 DEF StartOf
      <3> QED BY <2>1, <2>3, <3>2 DEF BigEndian, Uint16
    <2> QED BY <2>2, <2>3
  <1>6. l \in Nat  BY <1>4, BigEndianIs
  <1> HIDE DEF l
  <1>7. /\ at + n \in Position /\ at + n + l - 1 \in Nat /\ at + n <= at + n + l - 1 + 1
        /\ at + n + l - 1 <= Len(c) /\ at + n + l - 1 <= Len(b)
    BY <1>2, <1>4, <1>6 DEF Position
  <1>8. SubSeq(b, at + n, at + n + l - 1) = p  BY <1>7, StartSubSeq
  <1> HIDE DEF p
  <1>9. ~(Len(b) < at + n - 1) /\ ~(l > Len(b) - (at + n - 1))  BY <1>4, <1>6, <1>7
  <1>10. Payload(b, at, n) = [ok |-> TRUE, p |-> p, at |-> at, n |-> n]
    BY <1>3, <1>5, <1>8, <1>9 DEF Payload
  <1> QED BY <1>3, <1>10

(* A body that lost its end is never taken for another message in the same *)
(* envelope: what fixed-prefix and arpc find in it is the payload they     *)
(* would have found, and every payload behind a marker was there.          *)
THEOREM CutUnwrap ==
  ASSUME NEW b \in Bytes, NEW i \in 0..Len(b)
  PROVE  LET c == UpTo(b, i)
         IN  /\ \A kind \in {"fixed-prefix", "arpc"} :
                  unwrap(c, kind).ok => unwrap(b, kind) = unwrap(c, kind)
             /\ MarkedPayloads(c) \subseteq MarkedPayloads(b)
  <1> DEFINE c == UpTo(b, i)
  <1>1. c \in Bytes /\ StartOf(c, b)  BY CutIs
  <1> HIDE DEF c
  <1>2. Len(b) \in Nat /\ Len(c) \in Nat /\ Len(c) <= Len(b)  BY <1>1, LenBytes DEF StartOf
  <1>3. ASSUME unwrap(c, "fixed-prefix").ok
        PROVE  unwrap(b, "fixed-prefix") = unwrap(c, "fixed-prefix")
    <2>1. looksLikeFixedPrefix(c) /\ unwrap(c, "fixed-prefix") = Payload(c, 9, 2)
      BY <1>3 DEF unwrap, NoPayload
    <2>2. 8 <= Len(c)  BY <1>2, <2>1 DEF looksLikeFixedPrefix
    <2>3. 8 <= Len(b) /\ \A j \in 1..8 : b[j] = c[j]  BY <1>1, <1>2, <2>2 DEF StartOf
    <2>4. looksLikeFixedPrefix(b)  BY <1>1, <2>1, <2>3, FixedPrefixKept
    <2>5. 9 \in Position /\ Payload(c, 9, 2).ok  BY <1>3, <2>1 DEF Position
    <2>6. Payload(b, 9, 2) = Payload(c, 9, 2)  BY <1>1, <2>5, PayloadStart
    <2> QED BY <2>1, <2>4, <2>6 DEF unwrap
  <1>4. ASSUME unwrap(c, "arpc").ok PROVE unwrap(b, "arpc") = unwrap(c, "arpc")
    <2> DEFINE a == AfterStrings(c)
    <2>1. a # 0 /\ ~(Len(c) - a + 1 < 8) /\ unwrap(c, "arpc") = Payload(c, a + 4, 4)
      BY <1>4 DEF unwrap, NoPayload
    <2>2. a \in Nat /\ a <= Len(c) + 1  BY <1>1, <2>1, AfterStringsIs
    <2>3. a <= Len(b) + 1 /\ \A j \in 1..a - 1 : b[j] = c[j]
      <3> HIDE DEF a
      <3>1. 1..a - 1 \subseteq 1..Len(c)  BY <1>2, <2>2
      <3> QED BY <1>1, <1>2, <2>2, <3>1 DEF StartOf
    <2>4. AfterStrings(b) = a  BY <1>1, <2>1, <2>3, AfterStringsKept
    <2> HIDE DEF a
    <2>5. a + 4 \in Position /\ Payload(c, a + 4, 4).ok /\ ~(Len(b) - a + 1 < 8)
      BY <1>2, <1>4, <2>1, <2>2 DEF Position
    <2>6. Payload(b, a + 4, 4) = Payload(c, a + 4, 4)  BY <1>1, <2>5, PayloadStart
    <2> QED BY <2>1, <2>4, <2>5, <2>6 DEF unwrap
  <1>5. ASSUME NEW u \in MarkedPayloads(c) PROVE u \in MarkedPayloads(b)
    <2>1. u.ok /\ \E j \in 1..Len(c) - 7 : SubSeq(c, j, j + 5) = Marker /\ u = Payload(c, j + 6, 2)
      <3>1. u \in {w \in {Payload(c, k + 6, 2) :
                        k \in {j \in 1..Len(c) - 7 : SubSeq(c, j, j + 5) = Marker}} : w.ok}
        BY <1>5 DEF MarkedPayloads
      <3> QED BY <3>1, Zenon
    <2>2. PICK j \in 1..Len(c) - 7 : SubSeq(c, j, j + 5) = Marker /\ u = Payload(c, j + 6, 2)
      BY <2>1
    <2>3. /\ j + 6 \in Position /\ j \in 1..Len(b) - 7 /\ j \in Position /\ j + 5 \in Nat
          /\ j <= j + 5 + 1 /\ j + 5 <= Len(c) /\ j + 5 <= Len(b) /\ j + 5 + 1 - j = 6
      BY <1>2 DEF Position
    <2>4. Payload(b, j + 6, 2) = u  BY <1>1, <2>1, <2>2, <2>3, PayloadStart
    <2>5. SubSeq(b, j, j + 5) = Marker  BY <1>1, <2>2, <2>3, StartSubSeq
    <2>6. u \in {Payload(b, k + 6, 2) : k \in {m \in 1..Len(b) - 7 : SubSeq(b, m, m + 5) = Marker}}
      BY <2>3, <2>4, <2>5
    <2> QED BY <2>1, <2>6, Zenon DEF MarkedPayloads
  <1>6. MarkedPayloads(c) \subseteq MarkedPayloads(b)  BY <1>5
  <1> QED BY <1>3, <1>4, <1>6 DEF c

-----------------------------------------------------------------------------
(* What arrives is bytes: the messages of MCWLoc, cut or with one of them  *)
(* changed.                                                                *)
LEMMA FlattenIs ==
  ASSUME NEW ss \in Seq(Bytes) PROVE FlattenSeq(ss) \in Bytes
  <1> DEFINE n == Len(ss)
             F == [m \in Nat |-> [a \in Bytes |-> IF m \in 1..n THEN a \o ss[m] ELSE a]]
             P == [m \in Nat |-> IF m = 0 THEN 0 ELSE m - 1]
  <1>0. n \in Nat /\ \A m \in 1..n : ss[m] \in Bytes  OBVIOUS
  <1>a. CASE n = 0
    <2>1. FlattenSeq(ss) = ss  BY <1>a DEF FlattenSeq
    <2>2. ss = <<>>  BY <1>a
    <2> QED BY <2>1, <2>2, EmptyBytes
  <1>b. CASE n # 0
    <2> HIDE DEF n
    <2>1. ASSUME NEW m \in Nat, NEW a \in Bytes
          PROVE  (IF m \in 1..n THEN a \o ss[m] ELSE a) \in Bytes
      BY <1>0, ConcatIs
    <2>2. F \in [Nat -> [Bytes -> Bytes]]  BY <2>1
    <2>3. P \in [Nat -> Nat] /\ \A m \in Nat \ {0} : P[m] < m  OBVIOUS
    <2>4. ASSUME NEW m \in 1..n, NEW a \in Bytes PROVE F[m][a] = a \o ss[m]
      <3>1. m \in Nat  BY <1>0
      <3> QED BY <3>1
    <2>5. \A m \in Nat \ {0} : P[m] = m - 1  OBVIOUS
    <2> HIDE DEF F, P
    <2>6. Recursive(Bytes, <<>>, F, P)  BY <2>2, <2>3, EmptyBytes DEF Recursive
    <2>7. PICK c : Computes(c, Bytes, <<>>, F, P)  BY <2>6, Recursion, Zenon
    <2>8. c \in [Nat -> Bytes] /\ c[0] = <<>> /\ \A m \in Nat \ {0} : c[m] = F[m][c[P[m]]]
      BY <2>7 DEF Computes
    <2> DEFINE g == [i \in 1..n |-> c[i]]
    <2>9. \A i \in 1..n : g[i] = c[i]  BY <1>0
    <2>10. DOMAIN g = 1..n /\ g = [i \in DOMAIN g |-> g[i]]  OBVIOUS
    <2> HIDE DEF g
    <2>11. ASSUME NEW i \in 1..n PROVE c[i] = c[i - 1] \o ss[i]
      <3>1. i \in Nat \ {0} /\ i - 1 \in Nat  BY <1>0
      <3>2. c[i] = F[i][c[i - 1]] /\ c[i - 1] \in Bytes  BY <2>5, <2>8, <3>1
      <3> QED BY <2>4, <3>2
    <2>12. ASSUME NEW i \in 1..n PROVE g[i] = IF i = 1 THEN ss[i] ELSE g[i - 1] \o ss[i]
      <3>1. CASE i = 1
        <4>1. c[1] = <<>> \o ss[1]
          <5>1. 1 \in 1..n /\ 1 - 1 = 0  BY <3>1
          <5> QED BY <2>8, <2>11, <5>1
        <4>2. <<>> \o ss[1] = ss[1]
          <5>1. ss[1] \in Bytes  BY <1>0, <3>1
          <5> QED BY <5>1 DEF Bytes
        <4> QED BY <2>9, <3>1, <4>1, <4>2
      <3>2. CASE i # 1
        <4>1. i - 1 \in 1..n  BY <1>0, <3>2
        <4> QED BY <2>9, <2>11, <3>2, <4>1
      <3> QED BY <3>1, <3>2
    <2>13. g = [i \in 1..n |-> IF i = 1 THEN ss[i] ELSE g[i - 1] \o ss[i]]  BY <2>10, <2>12
    <2>14. \E h : h = [i \in 1..Len(ss) |-> IF i = 1 THEN ss[i] ELSE h[i - 1] \o ss[i]]
      BY <2>13 DEF n
    <2> DEFINE fl == CHOOSE h : h = [i \in 1..Len(ss) |-> IF i = 1 THEN ss[i] ELSE h[i - 1] \o ss[i]]
    <2>15. fl = [i \in 1..Len(ss) |-> IF i = 1 THEN ss[i] ELSE fl[i - 1] \o ss[i]]
      BY <2>14, Zenon
    <2>16. FlattenSeq(ss) = fl[Len(ss)]  BY <1>b, Zenon DEF FlattenSeq, n
    <2> HIDE DEF fl
    <2> DEFINE T == {m \in Nat : m + 1 <= n => fl[m + 1] \in Bytes}
    <2>17. \A i \in 1..n : fl[i] = IF i = 1 THEN ss[i] ELSE fl[i - 1] \o ss[i]  BY <2>15 DEF n
    <2>18. 0 \in T
      <3>1. 1 \in 1..n /\ 0 + 1 = 1  BY <1>0, <1>b
      <3>2. fl[1] = ss[1]  BY <2>17, <3>1
      <3>3. fl[1] \in Bytes  BY <1>0, <3>1, <3>2
      <3> QED BY <3>1, <3>3
    <2>19. ASSUME NEW m \in Nat, m \in T PROVE m + 1 \in T
      <3>1. CASE m + 1 + 1 <= n
        <4> DEFINE j == m + 1 + 1
        <4>1. j \in 1..n /\ j # 1 /\ j - 1 = m + 1 /\ m + 1 <= n
          BY <1>0, <3>1
        <4> HIDE DEF j
        <4>2. fl[j] = fl[j - 1] \o ss[j]  BY <2>17, <4>1
        <4>3. fl[j - 1] \in Bytes /\ ss[j] \in Bytes  BY <1>0, <2>19, <4>1
        <4>4. fl[j] \in Bytes  BY <4>2, <4>3, ConcatIs
        <4> QED BY <4>4 DEF j
      <3>2. CASE ~(m + 1 + 1 <= n)  BY <3>2
      <3> QED BY <3>1, <3>2
    <2>20. \A m \in Nat : m \in T
      <3> HIDE DEF T
      <3> QED BY <2>18, <2>19, Induction
    <2>21. n - 1 \in Nat /\ n - 1 + 1 = n  BY <1>0, <1>b
    <2>22. fl[n] \in Bytes
      <3>1. n - 1 \in T  BY <2>20, <2>21
      <3>2. n - 1 + 1 <= n  BY <1>0, <2>21
      <3>3. fl[n - 1 + 1] \in Bytes  BY <3>1, <3>2
      <3> QED BY <2>21, <3>3
    <2> QED BY <2>16, <2>22 DEF n
  <1> QED BY <1>a, <1>b

LEMMA FlattenFunction ==
  ASSUME NEW k \in Nat, NEW f \in [1..k -> Bytes] PROVE FlattenSeq(f) \in Bytes
  BY FunctionSeq, FlattenIs

LEMMA NumberBytes ==
  ASSUME NEW num \in Nat, NEW wire \in Nat, NEW v \in Int
  PROVE  key(num, wire) \in Bytes /\ i64(v) \in Bytes /\ key(num, wire) \o i64(v) \in Bytes
  <1>1. num * 8 + wire \in Nat /\ v % Width \in Nat  BY WidthIs
  <1>2. key(num, wire) \in Bytes /\ i64(v) \in Bytes  BY <1>1, EncVarintBytes DEF key, i64
  <1> QED BY <1>2, ConcatIs

LEMMA DelimitedIs ==
  ASSUME NEW num \in Nat, NEW t \in Bytes PROVE Delimited(num, t) \in Bytes
  <1> DEFINE h == key(num, 2)
             e == encVarint[Len(t)]
  <1>0. num * 8 + 2 \in Nat /\ Len(t) \in Nat  BY LenBytes
  <1>1. h \in Bytes /\ e \in Bytes  BY <1>0, EncVarintBytes DEF key
  <1> HIDE DEF h, e
  <1>2. h \o e \in Bytes  BY <1>1, ConcatIs
  <1>3. (h \o e) \o t \in Bytes  BY <1>2, ConcatIs
  <1> QED BY <1>3 DEF h, e, Delimited

LEMMA PairsIs ==
  ASSUME NEW k \in Nat, NEW l, DOMAIN l = 1..k,
         \A i \in 1..k : l[i][1] \in Nat /\ l[i][2] \in Int
  PROVE  Pairs(l) \in Bytes
  <1> DEFINE f == [i \in 1..k |-> key(l[i][1], 0) \o i64(l[i][2])]
  <1>1. f \in [1..k -> Bytes]  BY NumberBytes
  <1>2. Pairs(l) = FlattenSeq(f)  BY DEF Pairs
  <1> HIDE DEF f
  <1> QED BY <1>1, <1>2, FlattenFunction

LEMMA LocationOld ==
  ASSUME NEW num \in Nat, NEW l, Pairs(l) \in Bytes
  PROVE  Location(num, l).old \in Bytes /\ Elsewhere(num, l).old \in Bytes
  <1>1. Location(num, l).old = Delimited(num, Pairs(l)) /\ Elsewhere(num, l).old = Delimited(num, Pairs(l))
    BY DEF Location, Elsewhere, Same
  <1> QED BY <1>1, DelimitedIs

LEMMA MessageOld ==
  ASSUME NEW k \in Nat, NEW parts, DOMAIN parts = 1..k, \A i \in 1..k : parts[i].old \in Bytes
  PROVE  /\ Message(parts).old \in Bytes
         /\ \A num \in Nat : Record(num, parts).old \in Bytes
  <1> DEFINE f == [i \in 1..k |-> parts[i].old]
  <1>1. f \in [1..k -> Bytes]  OBVIOUS
  <1>2. Message(parts).old = FlattenSeq(f)  BY DEF Message
  <1> HIDE DEF f
  <1>3. Message(parts).old \in Bytes  BY <1>1, <1>2, FlattenFunction
  <1>4. ASSUME NEW num \in Nat PROVE Record(num, parts).old \in Bytes
    <2>1. Record(num, parts).old = Delimited(num, Message(parts).old)  BY DEF Record
    <2> QED BY <1>3, <2>1, DelimitedIs
  <1> QED BY <1>3, <1>4

LEMMA One == \A p : p.old \in Bytes =>
               /\ Message(<<p>>).old \in Bytes
               /\ \A num \in Nat : Record(num, <<p>>).old \in Bytes
  <1>1. SUFFICES ASSUME NEW p, p.old \in Bytes
                 PROVE  /\ Message(<<p>>).old \in Bytes
                        /\ \A num \in Nat : Record(num, <<p>>).old \in Bytes
    OBVIOUS
  <1> DEFINE parts == <<p>>
  <1>2. DOMAIN parts = 1..1 /\ \A i \in 1..1 : parts[i].old \in Bytes  BY <1>1
  <1> HIDE DEF parts
  <1>3. Message(parts).old \in Bytes /\ \A num \in Nat : Record(num, parts).old \in Bytes
    BY <1>2, MessageOld
  <1> QED BY <1>3 DEF parts

LEMMA Two ==
  ASSUME NEW p, NEW q, p.old \in Bytes, q.old \in Bytes
  PROVE  /\ Message(<<p, q>>).old \in Bytes
         /\ \A num \in Nat : Record(num, <<p, q>>).old \in Bytes
  <1> DEFINE parts == <<p, q>>
  <1>2. DOMAIN parts = 1..2 /\ \A i \in 1..2 : parts[i].old \in Bytes  OBVIOUS
  <1> HIDE DEF parts
  <1>3. Message(parts).old \in Bytes /\ \A num \in Nat : Record(num, parts).old \in Bytes
    BY <1>2, MessageOld
  <1> QED BY <1>3 DEF parts

LEMMA Three ==
  ASSUME NEW p, NEW q, NEW r, p.old \in Bytes, q.old \in Bytes, r.old \in Bytes
  PROVE  \A num \in Nat : Record(num, <<p, q, r>>).old \in Bytes
  <1> DEFINE parts == <<p, q, r>>
  <1>2. DOMAIN parts = 1..3 /\ \A i \in 1..3 : parts[i].old \in Bytes  OBVIOUS
  <1> HIDE DEF parts
  <1>3. \A num \in Nat : Record(num, parts).old \in Bytes  BY <1>2, MessageOld
  <1> QED BY <1>3 DEF parts

LEMMA SmallBytes == \A v \in 0..9 : v \in Byte
  BY MCWLocAssumption, BaseIs DEF Byte

LEMMA CountedIs ==
  ASSUME NEW s \in Bytes, NEW n \in {2, 4} PROVE Counted(s, n) \in Bytes
  <1>1. PutBigEndian(Len(s), n) \in Bytes  BY LenBytes, PutBigEndianIs
  <1> QED BY <1>1, ConcatIs DEF Counted

LEMMA PartsOld == /\ \A p \in Parts : p.old \in Bytes
                  /\ \A n \in Nat : Padding(n).old \in Bytes
  <1>1. Pairs(Place) \in Bytes /\ Pairs(FullPlace) \in Bytes /\ Pairs(NoPlace) \in Bytes
    <2>1. DOMAIN Place = 1..2 /\ \A i \in 1..2 : Place[i][1] \in Nat /\ Place[i][2] \in Int
      BY DEF Place
    <2>2. DOMAIN FullPlace = 1..6
      BY DEF FullPlace
    <2>3. \A i \in 1..6 : FullPlace[i][1] \in Nat /\ FullPlace[i][2] \in Int
      BY DEF FullPlace
    <2>4. DOMAIN NoPlace = 1..2 /\ \A i \in 1..2 : NoPlace[i][1] \in Nat /\ NoPlace[i][2] \in Int
      BY DEF NoPlace
    <2> QED BY <2>1, <2>2, <2>3, <2>4, PairsIs
  <1>2. Number.old \in Bytes
    <2>1. Number.old = key(1, 0) \o i64(77)  BY DEF Number, Same
    <2> QED BY <2>1, NumberBytes
  <1>3. Fixed.old \in Bytes
    <2>1. Fixed.old = key(3, 5) \o <<0, 1, 0, 0>>  BY DEF Fixed, Same
    <2>2. key(3, 5) \in Bytes  BY NumberBytes
    <2>3. <<0, 1, 0, 0>> \in Bytes  BY SmallBytes DEF Bytes
    <2> QED BY <2>1, <2>2, <2>3, ConcatIs
  <1>4. \A n \in Nat : Padding(n).old \in Bytes
    <2>1. SUFFICES ASSUME NEW n \in Nat PROVE Padding(n).old \in Bytes  OBVIOUS
    <2> DEFINE z == [i \in 1..n |-> 0]
    <2>2. z \in [1..n -> Byte]  BY SmallBytes
    <2>3. Padding(n).old = Delimited(7, z)  BY DEF Padding, Same
    <2> HIDE DEF z
    <2>4. z \in Bytes  BY <2>2, FunctionSeq DEF Bytes
    <2> QED BY <2>3, <2>4, DelimitedIs
  <1>5. \A num \in Nat : /\ Location(num, Place).old \in Bytes /\ Location(num, FullPlace).old \in Bytes
                         /\ Location(num, NoPlace).old \in Bytes /\ Elsewhere(num, Place).old \in Bytes
                         /\ Elsewhere(num, FullPlace).old \in Bytes
    BY <1>1, LocationOld
  <1>6. SUFFICES ASSUME NEW p \in Parts PROVE p.old \in Bytes  BY <1>4
  <1>7. CASE p \in {Number, Fixed, Padding(3)}  BY <1>2, <1>3, <1>4, <1>7
  <1>13. CASE p = Hidden
    <2>1. Marker \in Bytes  BY SmallBytes DEF Marker, Bytes
    <2>2. Marker \o Counted(Number.old, 2) \in Bytes  BY <1>2, <2>1, CountedIs, ConcatIs
    <2>3. Hidden.old = Delimited(7, Marker \o Counted(Number.old, 2))  BY DEF Hidden, Same
    <2> QED BY <1>13, <2>2, <2>3, DelimitedIs
  <1>8. CASE p = Record(2, <<Location(2, Place)>>)  BY <1>5, <1>8, One
  <1>9. CASE p = Record(2, <<Number, Location(2, FullPlace)>>)  BY <1>2, <1>5, <1>9, Two
  <1>10. CASE p = Record(2, <<Location(2, NoPlace)>>)  BY <1>5, <1>10, One
  <1>11. CASE p = Record(22, <<Location(5, Place), Elsewhere(2, Place)>>)  BY <1>5, <1>11, Two
  <1>12. CASE p = Record(24, <<Elsewhere(2, FullPlace), Location(5, FullPlace), Location(5, NoPlace)>>)
    BY <1>5, <1>12, Three
  <1> QED BY <1>7, <1>8, <1>9, <1>10, <1>11, <1>12, <1>13, Zenon DEF Parts

LEMMA SentOld == \A m \in Short \cup Long \cup AtLimit : m.old \in Bytes
  <1> DEFINE place == Record(2, <<Location(2, Place)>>)
  <1>1. place.old \in Bytes /\ Number.old \in Bytes  BY PartsOld DEF Parts
  <1>2. ASSUME NEW m \in Short PROVE m.old \in Bytes  BY <1>2, PartsOld, One DEF Short
  <1>3. ASSUME NEW m \in Long PROVE m.old \in Bytes
    <2>1. PICK p \in Parts, q \in Parts : m = Message(<<p, q>>)  BY <1>3 DEF Long
    <2>2. p.old \in Bytes /\ q.old \in Bytes  BY PartsOld
    <2> QED BY <2>1, <2>2, Two
  <1> HIDE DEF place
  <1>4. ASSUME NEW n \in 216..219 PROVE Message(<<Padding(n), place>>).old \in Bytes
    <2>1. Padding(n).old \in Bytes  BY PartsOld
    <2> QED BY <1>1, <2>1, Two
  <1>5. ASSUME NEW n \in {MaxFields, MaxFields + 1}
        PROVE  Message([i \in 1..n |-> IF i = 1 THEN place ELSE Number]).old \in Bytes
    <2> DEFINE parts == [i \in 1..n |-> IF i = 1 THEN place ELSE Number]
    <2>1. n \in Nat  BY WLocAssumption
    <2>2. DOMAIN parts = 1..n /\ \A i \in 1..n : parts[i].old \in Bytes  BY <1>1
    <2> HIDE DEF parts
    <2>3. Message(parts).old \in Bytes  BY <2>1, <2>2, MessageOld
    <2> QED BY <2>3 DEF parts
  <1>6. ASSUME NEW m \in AtLimit PROVE m.old \in Bytes
    <2>1. \/ \E n \in 216..219 : m = Message(<<Padding(n), place>>)
          \/ \E n \in {MaxFields, MaxFields + 1} :
               m = Message([i \in 1..n |-> IF i = 1 THEN place ELSE Number])
      BY <1>6, Zenon DEF AtLimit, place
    <2>2. CASE \E n \in 216..219 : m = Message(<<Padding(n), place>>)  BY <1>4, <2>2
    <2>3. CASE \E n \in {MaxFields, MaxFields + 1} :
                 m = Message([i \in 1..n |-> IF i = 1 THEN place ELSE Number])
      BY <1>5, <2>3
    <2> QED BY <2>1, <2>2, <2>3
  <1> QED BY <1>2, <1>3, <1>6

LEMMA EnvelopeIs ==
  ASSUME NEW kind \in Kinds, NEW p \in Bytes PROVE Envelope(kind, p) \in Bytes
  <1>1. Trailer \in Bytes /\ Marker \in Bytes /\ <<8>> \in Bytes /\ <<0, 1>> \in Bytes
    BY SmallBytes DEF Trailer, Marker, Bytes
  <1>2. <<0, 1, 0, 0, 0, 3, 0, 0>> \in Bytes /\ <<0, 0, 0, 1>> \in Bytes
    BY SmallBytes DEF Bytes
  <1>3. <<5, 6>> \in Bytes /\ <<7>> \in Bytes /\ <<>> \in Bytes  BY SmallBytes DEF Bytes
  <1>4. Counted(p, 2) \in Bytes /\ Counted(p, 4) \in Bytes  BY CountedIs
  <1>5. Counted(<<5, 6>>, 2) \in Bytes /\ Counted(<<7>>, 2) \in Bytes /\ Counted(<<>>, 2) \in Bytes
    BY <1>3, CountedIs
  <1>6. Counted(Number.old, 2) \in Bytes
    <2>1. Number.old \in Bytes  BY PartsOld DEF Parts
    <2> QED BY <2>1, CountedIs
  <1>7. \A s, t \in Bytes : s \o t \in Bytes  BY ConcatIs
  <1>8. CASE kind = "fixed-prefix"
    <2>1. Envelope(kind, p) = <<0, 1, 0, 0, 0, 3, 0, 0>> \o Counted(p, 2) \o Trailer  BY <1>8 DEF Envelope
    <2> QED BY <1>1, <1>2, <1>4, <1>7, <2>1
  <1>9. CASE kind = "arpc"
    <2> DEFINE strings == <<0, 1>> \o Counted(<<5, 6>>, 2) \o Counted(<<7>>, 2) \o Counted(<<>>, 2)
               rest == <<0, 0, 0, 1>>
    <2>1. Envelope(kind, p) = strings \o rest \o Counted(p, 4) \o Trailer  BY <1>9 DEF Envelope
    <2>2. strings \in Bytes  BY <1>1, <1>5, <1>7
    <2>3. rest \in Bytes  BY <1>2
    <2> HIDE DEF strings, rest
    <2> QED BY <1>1, <1>4, <1>7, <2>1, <2>2, <2>3
  <1>10. CASE kind = "marker"
    <2>1. Envelope(kind, p) = <<8>> \o Marker \o Counted(p, 2) \o Trailer  BY <1>10 DEF Envelope
    <2> QED BY <1>1, <1>4, <1>7, <2>1
  <1>11. CASE kind = "markers"
    <2>1. Envelope(kind, p) = <<8>> \o Marker \o Counted(p, 2) \o Marker \o Counted(Number.old, 2)
      BY <1>11 DEF Envelope
    <2> QED BY <1>1, <1>4, <1>6, <1>7, <2>1
  <1>12. CASE kind = "bare"  BY <1>12 DEF Envelope
  <1> QED BY <1>8, <1>9, <1>10, <1>11, <1>12 DEF Kinds

LEMMA ValsProfile == Profile(Vals)
  <1>1. DOMAIN Vals = {1, 2, 3, 5, 6, 12}  BY DEF Vals
  <1>2. \A num \in {1, 2, 3, 5, 6, 12} : Vals[num] \in Int  BY DEF Vals
  <1>3. Vals = [num \in DOMAIN Vals |-> Vals[num]]  BY DEF Vals
  <1> QED BY <1>1, <1>2, <1>3 DEF Profile

(* The invariant: bytes arrive, and an answer is that of RewriteBody. *)
WLocInv ==
  /\ body \in Bytes
  /\ result = Skip \/ result = RewriteBody(body, Vals)

LEMMA InitInv == Init => WLocInv
  <1> SUFFICES ASSUME Init PROVE WLocInv  OBVIOUS
  <1>1. sent.kind \in Kinds /\ sent.m \in Short \cup Long \cup AtLimit  BY DEF Init
  <1>2. sent.m.old \in Bytes  BY <1>1, SentOld
  <1>3. body \in Bytes  BY <1>1, <1>2, EnvelopeIs DEF Init
  <1> QED BY <1>3 DEF Init, WLocInv

LEMMA NextInv == WLocInv /\ [Next]_vars => WLocInv'
  <1> SUFFICES ASSUME WLocInv, [Next]_vars PROVE WLocInv'  OBVIOUS
  <1> USE DEF WLocInv
  <1>0. Len(body) \in Nat /\ DOMAIN body = 1..Len(body)  BY LenBytes DEF Bytes
  <1>1. ASSUME NEW i \in 0..Len(body) - 1, Cut(i) PROVE WLocInv'
    <2>1. 1 \in Position /\ i \in Nat /\ 1 <= i + 1 /\ i <= Len(body)  BY <1>0 DEF Position
    <2>2. UpTo(body, i) \in Bytes  BY <2>1, SubSeqIs DEF UpTo
    <2> QED BY <1>1, <2>2 DEF Cut
  <1>2. ASSUME NEW i \in DOMAIN body, Flip(i) PROVE WLocInv'
    <2>1. PICK c \in Junk : body' = ReplaceAt(body, i, c)  BY <1>2 DEF Flip
    <2>2. c \in Byte  BY MCWLocAssumption
    <2>3. [body EXCEPT ![i] = c] \in Bytes  BY <1>0, <2>2 DEF Bytes
    <2>4. body' \in Bytes  BY <2>1, <2>3 DEF ReplaceAt
    <2> QED BY <1>2, <2>4 DEF Flip
  <1>3. CASE Rewrite  BY <1>3 DEF Rewrite
  <1>4. CASE UNCHANGED vars  BY <1>4 DEF vars
  <1> QED BY <1>1, <1>2, <1>3, <1>4 DEF Next

(* In every behaviour of the model, whatever message is sent in whatever   *)
(* envelope, cut or with a byte changed on the way, the answer of          *)
(* RewriteBody is well formed.                                             *)
THEOREM AnswerSafe == Spec => []AnswerWellFormed
  <1>1. WLocInv => AnswerWellFormed
    BY RewriteWellFormed, ValsProfile DEF WLocInv, AnswerWellFormed
  <1> QED BY <1>1, InitInv, NextInv, PTL DEF Spec
=============================================================================

--------------------------- MODULE RingArithmetic ---------------------------
(***************************************************************************)
(* The facts about % that a ring buffer rests on: counting up by one moves *)
(* to the next index of the ring, and two counts that land on one index    *)
(* are at least a whole ring apart.                                        *)
(***************************************************************************)
EXTENDS Integers, TLAPS

(* Euclidean division *)
LEMMA DivMod ==
  ASSUME NEW c \in Nat \ {0}, NEW a \in Nat
  PROVE  a = c * (a \div c) + (a % c) /\ a % c \in 0 .. c - 1 /\ a \div c \in Nat
OBVIOUS

(* A positive multiple of the ring size is at least one ring. *)
LEMMA MultipleIsLarge ==
  ASSUME NEW c \in Nat \ {0}, NEW k \in Int, k >= 1
  PROVE  c * k >= c
OBVIOUS

(* A larger quotient makes a number larger, whatever the remainders. *)
LEMMA QuotientOrder ==
  ASSUME NEW c \in Nat \ {0}, NEW p \in Int, NEW q \in Int, p < q,
         NEW r \in 0 .. c - 1, NEW s \in 0 .. c - 1
  PROVE  c * q + s > c * p + r /\ c * q >= c * p + c
<1>1. c * (q - p) >= c
  BY MultipleIsLarge
<1>2. c * (q - p) = c * q - c * p
  OBVIOUS
<1> QED
  BY <1>1, <1>2

(* Quotient and remainder by the ring size are unique. *)
LEMMA DivModUnique ==
  ASSUME NEW c \in Nat \ {0}, NEW p \in Int, NEW q \in Int,
         NEW r \in 0 .. c - 1, NEW s \in 0 .. c - 1,
         c * p + r = c * q + s
  PROVE  p = q /\ r = s
<1>1. ~(p < q) /\ ~(q < p)
  BY QuotientOrder
<1>2. p = q
  BY <1>1
<1> QED
  BY <1>2

(* Two counts on the same index of the ring are a ring apart. *)
LEMMA SameIndexFarApart ==
  ASSUME NEW c \in Nat \ {0}, NEW a \in Nat, NEW b \in Nat,
         a < b, a % c = b % c
  PROVE  b >= a + c
<1> DEFINE p == a \div c
           q == b \div c
<1>1. /\ a = c * p + (a % c) /\ p \in Nat /\ a % c \in 0 .. c - 1
      /\ b = c * q + (a % c) /\ q \in Nat
  BY DivMod
<1> HIDE DEF p, q
<1>2. p < q
  <2>1. ~(q < p)
    BY <1>1, QuotientOrder
  <2>2. q # p
    BY <1>1
  <2> QED
    BY <1>1, <2>1, <2>2
<1>3. c * q >= c * p + c
  BY <1>1, <1>2, QuotientOrder
<1> QED
  BY <1>1, <1>3

(* Counting up by one moves to the next index, around the end of the ring. *)
LEMMA NextIndex ==
  ASSUME NEW c \in Nat \ {0}, NEW a \in Nat
  PROVE  (a + 1) % c = IF (a % c) + 1 = c THEN 0 ELSE (a % c) + 1
<1> DEFINE p == a \div c
           q == (a + 1) \div c
           r == a % c
           s == (a + 1) % c
<1>1. /\ a = c * p + r /\ p \in Nat /\ r \in 0 .. c - 1
      /\ a + 1 = c * q + s /\ q \in Nat /\ s \in 0 .. c - 1
  <2>1. a + 1 \in Nat
    OBVIOUS
  <2> QED
    BY <2>1, DivMod
<1> HIDE DEF p, q, r, s
<1>2. CASE r + 1 = c
  <2>1. c * (p + 1) = c * p + c
    BY <1>1
  <2>2. c * (p + 1) + 0 = c * q + s
    BY <1>1, <1>2, <2>1
  <2>3. s = 0
    BY <1>1, <2>2, DivModUnique
  <2> QED
    BY <2>3, <1>2 DEF r, s
<1>3. CASE r + 1 # c
  <2>1. c * p + (r + 1) = c * q + s /\ r + 1 \in 0 .. c - 1
    BY <1>1, <1>3
  <2>2. s = r + 1
    BY <1>1, <2>1, DivModUnique
  <2> QED
    BY <2>2, <1>3 DEF r, s
<1> QED
  BY <1>2, <1>3

(* An index is its own remainder. *)
LEMMA SmallIndex ==
  ASSUME NEW c \in Nat \ {0}, NEW a \in 0 .. c - 1
  PROVE  a % c = a
<1> DEFINE q == a \div c
           r == a % c
<1>1. a = c * q + r /\ q \in Nat /\ r \in 0 .. c - 1
  <2>1. a \in Nat
    OBVIOUS
  <2> QED
    BY <2>1, DivMod
<1> HIDE DEF q, r
<1>2. c * 0 + a = c * q + r
  BY <1>1
<1>3. a = r
  BY <1>1, <1>2, DivModUnique
<1> QED
  BY <1>3 DEF r

(* Taking the remainder first does not change the next index. *)
LEMMA NextOfIndex ==
  ASSUME NEW c \in Nat \ {0}, NEW a \in Nat
  PROVE  ((a % c) + 1) % c = (a + 1) % c
<1> DEFINE r == a % c
<1>1. r \in 0 .. c - 1
  BY DivMod
<1>2. (a + 1) % c = IF r + 1 = c THEN 0 ELSE r + 1
  BY NextIndex
<1> HIDE DEF r
<1>3. r % c = r
  BY <1>1, SmallIndex
<1>4. (r + 1) % c = IF r + 1 = c THEN 0 ELSE r + 1
  <2>1. r \in Nat
    BY <1>1
  <2>2. (r + 1) % c = IF (r % c) + 1 = c THEN 0 ELSE (r % c) + 1
    BY <2>1, NextIndex
  <2> QED
    BY <1>3, <2>2
<1> QED
  BY <1>2, <1>4 DEF r

(* A whole ring back is the same index. *)
LEMMA RingBack ==
  ASSUME NEW c \in Nat \ {0}, NEW a \in Nat, a >= c
  PROVE  (a - c) % c = a % c
<1> DEFINE p == a \div c
           q == (a - c) \div c
           r == a % c
           s == (a - c) % c
<1>1. /\ a = c * p + r /\ p \in Nat /\ r \in 0 .. c - 1
      /\ a - c = c * q + s /\ q \in Nat /\ s \in 0 .. c - 1
  <2>1. a - c \in Nat
    OBVIOUS
  <2> QED
    BY <2>1, DivMod
<1> HIDE DEF p, q, r, s
<1>2. c * (q + 1) = c * q + c
  BY <1>1
<1>3. c * p + r = c * (q + 1) + s
  BY <1>1, <1>2
<1>4. r = s
  <2>1. q + 1 \in Int
    BY <1>1
  <2> QED
    BY <1>1, <1>3, <2>1, DivModUnique
<1> QED
  BY <1>4 DEF r, s

(* Half a ring: the index on the ring, from the index on one twice as big. *)
LEMMA HalfRing ==
  ASSUME NEW c \in Nat \ {0}, NEW a \in Nat
  PROVE  a % c = IF a % (2 * c) < c THEN a % (2 * c) ELSE (a % (2 * c)) - c
<1> DEFINE p == a \div c
           q == a \div (2 * c)
           r == a % c
           s == a % (2 * c)
           h == 2 * q
<1>1. /\ a = c * p + r /\ p \in Nat /\ r \in 0 .. c - 1
      /\ a = (2 * c) * q + s /\ q \in Nat /\ s \in 0 .. 2 * c - 1
  <2>1. 2 * c \in Nat \ {0}
    OBVIOUS
  <2> QED
    BY <2>1, DivMod
<1> HIDE DEF p, q, r, s
<1>2. (2 * c) * q = c * h /\ h \in Nat
  BY <1>1
<1> HIDE DEF h
<1>3. c * (h + 1) = c * h + c
  BY <1>2
<1>4. CASE s < c
  <2>1. /\ c * p + r = c * h + s /\ h \in Int /\ p \in Int
        /\ r \in 0 .. c - 1 /\ s \in 0 .. c - 1
    BY <1>1, <1>2, <1>4
  <2>2. r = s
    BY <2>1, DivModUnique
  <2> QED
    BY <1>4, <2>2 DEF r, s
<1>5. CASE ~(s < c)
  <2>1. /\ c * p + r = c * (h + 1) + (s - c) /\ h + 1 \in Int /\ p \in Int
        /\ r \in 0 .. c - 1 /\ s - c \in 0 .. c - 1
    BY <1>1, <1>2, <1>3, <1>5
  <2>2. r = s - c
    BY <2>1, DivModUnique
  <2> QED
    BY <1>5, <2>2 DEF r, s
<1> QED
  BY <1>4, <1>5

(* The difference of two counters that wrap is the difference of the       *)
(* counts, when that is less than the range of the counters.               *)
LEMMA IndexDifference ==
  ASSUME NEW c \in Nat \ {0}, NEW a \in Nat, NEW b \in Nat, b <= a, a - b < c
  PROVE  ((a % c) - (b % c)) % c = a - b
<1> DEFINE p == a \div c
           q == b \div c
           r == a % c
           s == b % c
           x == r - s
           k == x \div c
           t == x % c
<1>1. /\ a = c * p + r /\ p \in Nat /\ r \in 0 .. c - 1
      /\ b = c * q + s /\ q \in Nat /\ s \in 0 .. c - 1
  BY DivMod
<1> HIDE DEF p, q, r, s
<1>2. x \in Int
  BY <1>1
<1> HIDE DEF x
<1>3. x = c * k + t /\ k \in Int /\ t \in 0 .. c - 1
  BY <1>2
<1> HIDE DEF k, t
<1>4. c * ((p - q) + k) = c * p - c * q + c * k
  BY <1>1, <1>3
<1>5. a - b = c * ((p - q) + k) + t
  BY <1>1, <1>3, <1>4 DEF x
<1>6. c * 0 + (a - b) = c * ((p - q) + k) + t /\ a - b \in 0 .. c - 1 /\ (p - q) + k \in Int
  BY <1>1, <1>3, <1>5
<1>7. a - b = t
  BY <1>3, <1>6, DivModUnique
<1> QED
  BY <1>7 DEF t, x, r, s
=============================================================================

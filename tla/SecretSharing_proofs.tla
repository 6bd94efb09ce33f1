------------------------- MODULE SecretSharing_proofs -------------------------
(* What is proved of the threshold shares of an identity key.  Bytes with      *)
(* GfAdd and GfMul are a field: addition is proved bit by bit, and the product *)
(* from its loop, one turn per bit.  Both are linear, and every byte is a sum  *)
(* of doublings of 1, so what holds of 1 and is kept by doubling and by adding *)
(* holds of every byte.  That squaring eight times changes nothing gives every *)
(* byte but 0 its inverse.  Interpolation at 0 is then right for the constant  *)
(* 1, by induction over the points, and from there for every power, so for     *)
(* every polynomial.  Conversely some polynomial goes through any values at    *)
(* any points, so shares that are too few go with every secret.                *)
EXTENDS SecretSharing, NaturalLemmas, FiniteSetTheorems, SequenceTheorems, TLAPS

-----------------------------------------------------------------------------
(* Bytes and their bits *)

(* A byte is a natural number.                                               *)
LEMMA ByteIsNat == \A a \in Byte : a \in Nat
BY DEF Byte

(* The eight places are bytes, and so is 0.                                  *)
LEMMA SomeBytes ==
  /\ 0 \in Byte /\ 1 \in Byte /\ 2 \in Byte /\ 4 \in Byte /\ 8 \in Byte
  /\ 16 \in Byte /\ 32 \in Byte /\ 64 \in Byte /\ 128 \in Byte
BY DEF Byte

(* What adding takes from two bits.                                          *)
LEMMA PlaceValues ==
  /\ Places[1] = 1 /\ Places[2] = 2 /\ Places[3] = 4 /\ Places[4] = 8
  /\ Places[5] = 16 /\ Places[6] = 32 /\ Places[7] = 64 /\ Places[8] = 128
BY DEF Places

(* A byte is the sum of its bits, each at its place.                         *)
LEMMA BitValues ==
  ASSUME NEW a \in Byte
  PROVE  /\ \A i \in 1..8 : Bit(a, i) \in {0, 1}
         /\ a = Bit(a, 1) + 2 * Bit(a, 2) + 4 * Bit(a, 3) + 8 * Bit(a, 4)
                + 16 * Bit(a, 5) + 32 * Bit(a, 6) + 64 * Bit(a, 7) + 128 * Bit(a, 8)
<1>1. /\ Bit(a, 1) = a % 2 /\ Bit(a, 2) = (a \div 2) % 2 /\ Bit(a, 3) = (a \div 4) % 2
      /\ Bit(a, 4) = (a \div 8) % 2 /\ Bit(a, 5) = (a \div 16) % 2
      /\ Bit(a, 6) = (a \div 32) % 2 /\ Bit(a, 7) = (a \div 64) % 2
      /\ Bit(a, 8) = (a \div 128) % 2
  <2>1. a \div 1 = a
    BY DEF Byte
  <2> QED  BY <2>1, PlaceValues DEF Bit
<1>2. ASSUME NEW i \in 1..8 PROVE Bit(a, i) \in {0, 1}
  <2>1. i = 1 \/ i = 2 \/ i = 3 \/ i = 4 \/ i = 5 \/ i = 6 \/ i = 7 \/ i = 8
    OBVIOUS
  <2> QED  BY <1>1, <2>1 DEF Byte
<1>3. a = (a % 2) + 2 * ((a \div 2) % 2) + 4 * ((a \div 4) % 2) + 8 * ((a \div 8) % 2)
          + 16 * ((a \div 16) % 2) + 32 * ((a \div 32) % 2) + 64 * ((a \div 64) % 2)
          + 128 * ((a \div 128) % 2)
  BY DEF Byte
<1> QED
  BY <1>1, <1>2, <1>3

(* Eight bits, each at its place, add up to a byte that has those bits.      *)
LEMMA BitsOfSum ==
  ASSUME NEW b1 \in {0, 1}, NEW b2 \in {0, 1}, NEW b3 \in {0, 1}, NEW b4 \in {0, 1},
         NEW b5 \in {0, 1}, NEW b6 \in {0, 1}, NEW b7 \in {0, 1}, NEW b8 \in {0, 1},
         NEW a, a = b1 + 2 * b2 + 4 * b3 + 8 * b4 + 16 * b5 + 32 * b6 + 64 * b7 + 128 * b8
  PROVE  /\ a \in Byte
         /\ Bit(a, 1) = b1 /\ Bit(a, 2) = b2 /\ Bit(a, 3) = b3 /\ Bit(a, 4) = b4
         /\ Bit(a, 5) = b5 /\ Bit(a, 6) = b6 /\ Bit(a, 7) = b7 /\ Bit(a, 8) = b8
<1>1. a \in Byte
  BY DEF Byte
<1>2. /\ Bit(a, 1) = a % 2 /\ Bit(a, 2) = (a \div 2) % 2 /\ Bit(a, 3) = (a \div 4) % 2
      /\ Bit(a, 4) = (a \div 8) % 2 /\ Bit(a, 5) = (a \div 16) % 2
      /\ Bit(a, 6) = (a \div 32) % 2 /\ Bit(a, 7) = (a \div 64) % 2
      /\ Bit(a, 8) = (a \div 128) % 2
  <2>1. a \div 1 = a
    BY <1>1 DEF Byte
  <2> QED  BY <2>1, PlaceValues DEF Bit
<1>3. a % 2 = b1
  OBVIOUS
<1>4. (a \div 2) % 2 = b2
  OBVIOUS
<1>5. (a \div 4) % 2 = b3
  OBVIOUS
<1>6. (a \div 8) % 2 = b4
  OBVIOUS
<1>7. (a \div 16) % 2 = b5
  OBVIOUS
<1>8. (a \div 32) % 2 = b6
  OBVIOUS
<1>9. (a \div 64) % 2 = b7
  OBVIOUS
<1>10. (a \div 128) % 2 = b8
  OBVIOUS
<1> QED
  BY <1>1, <1>2, <1>3, <1>4, <1>5, <1>6, <1>7, <1>8, <1>9, <1>10

(* Bytes with the same bits are the same.                                    *)
LEMMA SameBits ==
  ASSUME NEW a \in Byte, NEW b \in Byte, \A i \in 1..8 : Bit(a, i) = Bit(b, i)
  PROVE  a = b
<1>1. /\ Bit(a, 1) = Bit(b, 1) /\ Bit(a, 2) = Bit(b, 2) /\ Bit(a, 3) = Bit(b, 3)
      /\ Bit(a, 4) = Bit(b, 4) /\ Bit(a, 5) = Bit(b, 5) /\ Bit(a, 6) = Bit(b, 6)
      /\ Bit(a, 7) = Bit(b, 7) /\ Bit(a, 8) = Bit(b, 8)
  OBVIOUS
<1> QED
  BY <1>1, BitValues

(* The bits of a sum are the sums of the bits modulo 2, without carry.       *)
LEMMA AddBits ==
  ASSUME NEW a \in Byte, NEW b \in Byte
  PROVE  /\ GfAdd(a, b) \in Byte
         /\ \A i \in 1..8 : Bit(GfAdd(a, b), i) = (Bit(a, i) + Bit(b, i)) % 2
<1> DEFINE sum(i) == (Bit(a, i) + Bit(b, i)) % 2
<1>1. \A i \in 1..8 : Bit(a, i) \in {0, 1} /\ Bit(b, i) \in {0, 1}
  BY BitValues
<1>2. \A i \in 1..8 : sum(i) \in {0, 1}
  BY <1>1
<1>3. GfAdd(a, b) = 1 * sum(1) + 2 * sum(2) + 4 * sum(3) + 8 * sum(4) + 16 * sum(5)
                    + 32 * sum(6) + 64 * sum(7) + 128 * sum(8)
  BY PlaceValues DEF GfAdd
<1> HIDE DEF sum
<1>4. /\ sum(1) \in {0, 1} /\ sum(2) \in {0, 1} /\ sum(3) \in {0, 1} /\ sum(4) \in {0, 1}
      /\ sum(5) \in {0, 1} /\ sum(6) \in {0, 1} /\ sum(7) \in {0, 1} /\ sum(8) \in {0, 1}
  BY <1>2
<1>5. GfAdd(a, b) = sum(1) + 2 * sum(2) + 4 * sum(3) + 8 * sum(4) + 16 * sum(5)
                    + 32 * sum(6) + 64 * sum(7) + 128 * sum(8)
  BY <1>3, <1>4
<1>6. /\ GfAdd(a, b) \in Byte
      /\ Bit(GfAdd(a, b), 1) = sum(1) /\ Bit(GfAdd(a, b), 2) = sum(2)
      /\ Bit(GfAdd(a, b), 3) = sum(3) /\ Bit(GfAdd(a, b), 4) = sum(4)
      /\ Bit(GfAdd(a, b), 5) = sum(5) /\ Bit(GfAdd(a, b), 6) = sum(6)
      /\ Bit(GfAdd(a, b), 7) = sum(7) /\ Bit(GfAdd(a, b), 8) = sum(8)
  BY <1>4, <1>5, BitsOfSum
<1>7. ASSUME NEW i \in 1..8 PROVE Bit(GfAdd(a, b), i) = sum(i)
  <2>1. i = 1 \/ i = 2 \/ i = 3 \/ i = 4 \/ i = 5 \/ i = 6 \/ i = 7 \/ i = 8
    OBVIOUS
  <2> QED  BY <1>6, <2>1
<1> QED
  BY <1>6, <1>7 DEF sum

(* The sum of two bytes is a byte.                                           *)
LEMMA AddType ==
  ASSUME NEW a \in Byte, NEW b \in Byte
  PROVE  GfAdd(a, b) \in Byte
BY AddBits

(* Adding is a group in which everything is its own opposite.                *)
LEMMA AddCommutes ==
  ASSUME NEW a \in Byte, NEW b \in Byte
  PROVE  GfAdd(a, b) = GfAdd(b, a)
<1>1. \A i \in 1..8 : Bit(a, i) \in {0, 1} /\ Bit(b, i) \in {0, 1}
  BY BitValues
<1>2. \A i \in 1..8 : Bit(GfAdd(a, b), i) = Bit(GfAdd(b, a), i)
  BY <1>1, AddBits
<1> QED
  BY <1>2, AddType, SameBits

(* Addition associates.                                                      *)
LEMMA AddAssociates ==
  ASSUME NEW a \in Byte, NEW b \in Byte, NEW c \in Byte
  PROVE  GfAdd(GfAdd(a, b), c) = GfAdd(a, GfAdd(b, c))
<1>1. \A i \in 1..8 : Bit(a, i) \in {0, 1} /\ Bit(b, i) \in {0, 1} /\ Bit(c, i) \in {0, 1}
  BY BitValues
<1>2. /\ GfAdd(a, b) \in Byte /\ GfAdd(b, c) \in Byte
      /\ GfAdd(GfAdd(a, b), c) \in Byte /\ GfAdd(a, GfAdd(b, c)) \in Byte
  BY AddType
<1>3. ASSUME NEW i \in 1..8
      PROVE  Bit(GfAdd(GfAdd(a, b), c), i) = Bit(GfAdd(a, GfAdd(b, c)), i)
  <2>1. /\ Bit(GfAdd(GfAdd(a, b), c), i) = (((Bit(a, i) + Bit(b, i)) % 2) + Bit(c, i)) % 2
        /\ Bit(GfAdd(a, GfAdd(b, c)), i) = (Bit(a, i) + ((Bit(b, i) + Bit(c, i)) % 2)) % 2
    BY <1>2, AddBits
  <2>2. Bit(a, i) \in {0, 1} /\ Bit(b, i) \in {0, 1} /\ Bit(c, i) \in {0, 1}
    BY <1>1
  <2> QED  BY <2>1, <2>2
<1> QED
  BY <1>2, <1>3, SameBits

(* 0 is neutral, and every byte is its own negative.                         *)
LEMMA AddNeutral ==
  ASSUME NEW a \in Byte
  PROVE  GfAdd(a, 0) = a /\ GfAdd(0, a) = a /\ GfAdd(a, a) = 0
<1>1. \A i \in 1..8 : Bit(a, i) \in {0, 1}
  BY BitValues
<1>2. 0 \in Byte
  BY DEF Byte
<1>3. \A i \in 1..8 : Bit(0, i) = 0
  <2>1. 0 = 0 + 2 * 0 + 4 * 0 + 8 * 0 + 16 * 0 + 32 * 0 + 64 * 0 + 128 * 0
    OBVIOUS
  <2>2. /\ Bit(0, 1) = 0 /\ Bit(0, 2) = 0 /\ Bit(0, 3) = 0 /\ Bit(0, 4) = 0
        /\ Bit(0, 5) = 0 /\ Bit(0, 6) = 0 /\ Bit(0, 7) = 0 /\ Bit(0, 8) = 0
    BY <2>1, BitsOfSum
  <2> QED
    <3> TAKE i \in 1..8
    <3>1. i = 1 \/ i = 2 \/ i = 3 \/ i = 4 \/ i = 5 \/ i = 6 \/ i = 7 \/ i = 8
      OBVIOUS
    <3> QED  BY <2>2, <3>1
<1>4. GfAdd(a, 0) \in Byte /\ GfAdd(0, a) \in Byte /\ GfAdd(a, a) \in Byte
  BY <1>2, AddType
<1>5. /\ \A i \in 1..8 : Bit(GfAdd(a, 0), i) = Bit(a, i)
      /\ \A i \in 1..8 : Bit(GfAdd(a, a), i) = Bit(0, i)
  BY <1>1, <1>2, <1>3, AddBits
<1>6. GfAdd(a, 0) = a /\ GfAdd(a, a) = 0
  BY <1>2, <1>4, <1>5, SameBits
<1> QED
  BY <1>2, <1>6, AddCommutes

(* Of four summands the middle two may change places.                        *)
LEMMA AddMedial ==
  ASSUME NEW a \in Byte, NEW b \in Byte, NEW c \in Byte, NEW d \in Byte
  PROVE  GfAdd(GfAdd(a, b), GfAdd(c, d)) = GfAdd(GfAdd(a, c), GfAdd(b, d))
<1>1. GfAdd(c, d) \in Byte /\ GfAdd(b, d) \in Byte /\ GfAdd(b, c) \in Byte
  BY AddType
<1>2. GfAdd(GfAdd(a, b), GfAdd(c, d)) = GfAdd(a, GfAdd(b, GfAdd(c, d)))
  BY <1>1, AddAssociates
<1>3. GfAdd(b, GfAdd(c, d)) = GfAdd(GfAdd(b, c), d)
  BY AddAssociates
<1>4. GfAdd(GfAdd(b, c), d) = GfAdd(GfAdd(c, b), d)
  BY AddCommutes
<1>5. GfAdd(GfAdd(c, b), d) = GfAdd(c, GfAdd(b, d))
  BY AddAssociates
<1>6. GfAdd(GfAdd(a, c), GfAdd(b, d)) = GfAdd(a, GfAdd(c, GfAdd(b, d)))
  BY <1>1, AddAssociates
<1> QED
  BY <1>2, <1>3, <1>4, <1>5, <1>6

-----------------------------------------------------------------------------
(* Doubling *)

(* Doubling moves every bit one place up, and the highest comes back in at   *)
(* the places of the polynomial, 1, 2, 8 and 16 (threshold.rs:176).          *)
LEMMA DoubledBits ==
  ASSUME NEW a \in Byte
  PROVE  /\ Doubled(a) \in Byte
         /\ Bit(Doubled(a), 1) = Bit(a, 8)
         /\ Bit(Doubled(a), 2) = (Bit(a, 1) + Bit(a, 8)) % 2
         /\ Bit(Doubled(a), 3) = Bit(a, 2)
         /\ Bit(Doubled(a), 4) = (Bit(a, 3) + Bit(a, 8)) % 2
         /\ Bit(Doubled(a), 5) = (Bit(a, 4) + Bit(a, 8)) % 2
         /\ Bit(Doubled(a), 6) = Bit(a, 5)
         /\ Bit(Doubled(a), 7) = Bit(a, 6)
         /\ Bit(Doubled(a), 8) = Bit(a, 7)
<1> DEFINE b1 == Bit(a, 1)  b2 == Bit(a, 2)  b3 == Bit(a, 3)  b4 == Bit(a, 4)
           b5 == Bit(a, 5)  b6 == Bit(a, 6)  b7 == Bit(a, 7)  b8 == Bit(a, 8)
           low == 0 + 2 * b1 + 4 * b2 + 8 * b3 + 16 * b4 + 32 * b5 + 64 * b6 + 128 * b7
<1>1. /\ b1 \in {0, 1} /\ b2 \in {0, 1} /\ b3 \in {0, 1} /\ b4 \in {0, 1}
      /\ b5 \in {0, 1} /\ b6 \in {0, 1} /\ b7 \in {0, 1} /\ b8 \in {0, 1}
  BY BitValues
<1>2. a = b1 + 2 * b2 + 4 * b3 + 8 * b4 + 16 * b5 + 32 * b6 + 64 * b7 + 128 * b8
  BY BitValues
<1> HIDE DEF b1, b2, b3, b4, b5, b6, b7, b8
<1>3. /\ low \in Byte
      /\ Bit(low, 1) = 0 /\ Bit(low, 2) = b1 /\ Bit(low, 3) = b2 /\ Bit(low, 4) = b3
      /\ Bit(low, 5) = b4 /\ Bit(low, 6) = b5 /\ Bit(low, 7) = b6 /\ Bit(low, 8) = b7
  BY <1>1, BitsOfSum
<1>4. CASE b8 = 0
  <2>1. a < 128 /\ a * 2 = low
    BY <1>1, <1>2, <1>4
  <2>2. Doubled(a) = low
    BY <2>1 DEF Doubled, Byte
  <2> HIDE DEF low
  <2>3. /\ (b1 + b8) % 2 = b1 /\ (b3 + b8) % 2 = b3 /\ (b4 + b8) % 2 = b4
    BY <1>1, <1>4
  <2> QED  BY <1>3, <1>4, <2>2, <2>3 DEF b1, b2, b3, b4, b5, b6, b7, b8
<1>5. CASE b8 = 1
  <2>1. a >= 128 /\ (a * 2) % 256 = low
    BY <1>1, <1>2, <1>5
  <2>2. Doubled(a) = GfAdd(low, 27)
    BY <2>1 DEF Doubled
  <2>3. 27 = 1 + 2 * 1 + 4 * 0 + 8 * 1 + 16 * 1 + 32 * 0 + 64 * 0 + 128 * 0
    OBVIOUS
  <2>4. /\ 27 \in Byte
        /\ Bit(27, 1) = 1 /\ Bit(27, 2) = 1 /\ Bit(27, 3) = 0 /\ Bit(27, 4) = 1
        /\ Bit(27, 5) = 1 /\ Bit(27, 6) = 0 /\ Bit(27, 7) = 0 /\ Bit(27, 8) = 0
    BY <2>3, BitsOfSum
  <2> HIDE DEF low
  <2>5. /\ GfAdd(low, 27) \in Byte
        /\ \A i \in 1..8 : Bit(GfAdd(low, 27), i) = (Bit(low, i) + Bit(27, i)) % 2
    BY <1>3, <2>4, AddBits
  <2>6. /\ Bit(Doubled(a), 1) = (0 + 1) % 2 /\ Bit(Doubled(a), 2) = (b1 + 1) % 2
        /\ Bit(Doubled(a), 3) = (b2 + 0) % 2 /\ Bit(Doubled(a), 4) = (b3 + 1) % 2
        /\ Bit(Doubled(a), 5) = (b4 + 1) % 2 /\ Bit(Doubled(a), 6) = (b5 + 0) % 2
        /\ Bit(Doubled(a), 7) = (b6 + 0) % 2 /\ Bit(Doubled(a), 8) = (b7 + 0) % 2
    BY <1>3, <2>2, <2>4, <2>5
  <2>7. /\ (0 + 1) % 2 = 1 /\ (b2 + 0) % 2 = b2 /\ (b5 + 0) % 2 = b5
        /\ (b6 + 0) % 2 = b6 /\ (b7 + 0) % 2 = b7
    BY <1>1
  <2> QED  BY <1>5, <2>2, <2>5, <2>6, <2>7 DEF b1, b2, b3, b4, b5, b6, b7, b8
<1> QED
  BY <1>1, <1>4, <1>5

(* A byte doubled is a byte.                                                 *)
LEMMA DoubledType ==
  ASSUME NEW a \in Byte PROVE Doubled(a) \in Byte
BY DoubledBits

(* Doubling distributes over addition.                                       *)
LEMMA DoubledAdds ==
  ASSUME NEW a \in Byte, NEW b \in Byte
  PROVE  Doubled(GfAdd(a, b)) = GfAdd(Doubled(a), Doubled(b))
<1> DEFINE c == GfAdd(a, b)
           d == GfAdd(Doubled(a), Doubled(b))
<1>1. c \in Byte /\ Doubled(a) \in Byte /\ Doubled(b) \in Byte /\ Doubled(c) \in Byte /\ d \in Byte
  BY AddType, DoubledType
<1>2. /\ \A i \in 1..8 : Bit(a, i) \in {0, 1} /\ Bit(b, i) \in {0, 1}
      /\ \A i \in 1..8 : Bit(c, i) = (Bit(a, i) + Bit(b, i)) % 2
      /\ \A i \in 1..8 : Bit(d, i) = (Bit(Doubled(a), i) + Bit(Doubled(b), i)) % 2
  BY <1>1, AddBits, BitValues
<1> HIDE DEF c, d
<1>3. ASSUME NEW i \in 1..8 PROVE Bit(Doubled(c), i) = Bit(d, i)
  <2>1. CASE i \in {1, 3, 6, 7, 8}
    <3>1. PICK j \in 1..8 : /\ Bit(Doubled(c), i) = Bit(c, j) /\ Bit(Doubled(a), i) = Bit(a, j)
                            /\ Bit(Doubled(b), i) = Bit(b, j)
      BY <1>1, <2>1, DoubledBits
    <3> QED  BY <1>2, <3>1
  <2>2. CASE i \in {2, 4, 5}
    <3>1. PICK j \in 1..8 : /\ Bit(Doubled(c), i) = (Bit(c, j) + Bit(c, 8)) % 2
                            /\ Bit(Doubled(a), i) = (Bit(a, j) + Bit(a, 8)) % 2
                            /\ Bit(Doubled(b), i) = (Bit(b, j) + Bit(b, 8)) % 2
      BY <1>1, <2>2, DoubledBits
    <3>2. /\ Bit(c, j) = (Bit(a, j) + Bit(b, j)) % 2 /\ Bit(c, 8) = (Bit(a, 8) + Bit(b, 8)) % 2
          /\ Bit(d, i) = (((Bit(a, j) + Bit(a, 8)) % 2) + ((Bit(b, j) + Bit(b, 8)) % 2)) % 2
      BY <1>2, <3>1
    <3>3. /\ Bit(a, j) \in {0, 1} /\ Bit(b, j) \in {0, 1}
          /\ Bit(a, 8) \in {0, 1} /\ Bit(b, 8) \in {0, 1}
      BY <1>2
    <3> QED  BY <3>1, <3>2, <3>3
  <2> QED  BY <2>1, <2>2
<1> QED
  BY <1>1, <1>3, SameBits DEF c, d

-----------------------------------------------------------------------------
(* Induction over the eight turns, and over the bytes *)

(* Induction over the eight turns of the loop, for a set instead of a        *)
(* predicate.                                                                *)
LEMMA EightSteps ==
  ASSUME NEW T, 0 \in T, \A k \in 0..7 : k \in T => k + 1 \in T
  PROVE  \A k \in 0..8 : k \in T
<1>1. 1 \in T
  BY 0 + 1 = 1
<1>2. 2 \in T
  BY <1>1, 1 + 1 = 2
<1>3. 3 \in T
  BY <1>2, 2 + 1 = 3
<1>4. 4 \in T
  BY <1>3, 3 + 1 = 4
<1>5. 5 \in T
  BY <1>4, 4 + 1 = 5
<1>6. 6 \in T
  BY <1>5, 5 + 1 = 6
<1>7. 7 \in T
  BY <1>6, 6 + 1 = 7
<1>8. 8 \in T
  BY <1>7, 7 + 1 = 8
<1>9. ASSUME NEW k \in 0..8 PROVE k \in T
  <2>1. k = 0 \/ k = 1 \/ k = 2 \/ k = 3 \/ k = 4 \/ k = 5 \/ k = 6 \/ k = 7 \/ k = 8
    OBVIOUS
  <2> QED  BY <2>1, <1>1, <1>2, <1>3, <1>4, <1>5, <1>6, <1>7, <1>8
<1> QED
  BY <1>9

(* Every place is the last one doubled; the highest comes back as the        *)
(* polynomial.                                                               *)
LEMMA DoubledOnes ==
  /\ Doubled(1) = 2 /\ Doubled(2) = 4 /\ Doubled(4) = 8 /\ Doubled(8) = 16
  /\ Doubled(16) = 32 /\ Doubled(32) = 64 /\ Doubled(64) = 128 /\ Doubled(128) = 27
<1>1. 0 \in Byte /\ 27 \in Byte
  BY DEF Byte
<1>2. Doubled(128) = GfAdd(0, 27)
  BY DEF Doubled
<1>3. Doubled(128) = 27
  BY <1>1, <1>2, AddNeutral
<1> QED
  BY <1>3 DEF Doubled

(* A place has just its own bit.                                             *)
LEMMA PlaceBits ==
  /\ \A i \in 1..8 : Places[i] \in Byte
  /\ \A i, j \in 1..8 : Bit(Places[i], j) = IF i = j THEN 1 ELSE 0
<1> DEFINE sum(b1, b2, b3, b4, b5, b6, b7, b8) ==
             b1 + 2 * b2 + 4 * b3 + 8 * b4 + 16 * b5 + 32 * b6 + 64 * b7 + 128 * b8
           one(i, j) == IF i = j THEN 1 ELSE 0
<1>1. ASSUME NEW i \in 1..8
      PROVE  Places[i] = sum(one(i, 1), one(i, 2), one(i, 3), one(i, 4),
                             one(i, 5), one(i, 6), one(i, 7), one(i, 8))
  <2>1. i = 1 \/ i = 2 \/ i = 3 \/ i = 4 \/ i = 5 \/ i = 6 \/ i = 7 \/ i = 8
    OBVIOUS
  <2> QED  BY <2>1, PlaceValues
<1>2. \A i, j \in 1..8 : one(i, j) \in {0, 1}
  OBVIOUS
<1> HIDE DEF one
<1>3. ASSUME NEW i \in 1..8
      PROVE  /\ Places[i] \in Byte
             /\ Bit(Places[i], 1) = one(i, 1) /\ Bit(Places[i], 2) = one(i, 2)
             /\ Bit(Places[i], 3) = one(i, 3) /\ Bit(Places[i], 4) = one(i, 4)
             /\ Bit(Places[i], 5) = one(i, 5) /\ Bit(Places[i], 6) = one(i, 6)
             /\ Bit(Places[i], 7) = one(i, 7) /\ Bit(Places[i], 8) = one(i, 8)
  <2>1. /\ one(i, 1) \in {0, 1} /\ one(i, 2) \in {0, 1} /\ one(i, 3) \in {0, 1}
        /\ one(i, 4) \in {0, 1} /\ one(i, 5) \in {0, 1} /\ one(i, 6) \in {0, 1}
        /\ one(i, 7) \in {0, 1} /\ one(i, 8) \in {0, 1}
    BY <1>2
  <2> QED  BY <1>1, <2>1, BitsOfSum
<1>4. ASSUME NEW i \in 1..8, NEW j \in 1..8 PROVE Bit(Places[i], j) = one(i, j)
  <2>1. j = 1 \/ j = 2 \/ j = 3 \/ j = 4 \/ j = 5 \/ j = 6 \/ j = 7 \/ j = 8
    OBVIOUS
  <2> QED  BY <1>3, <2>1
<1> QED
  BY <1>3, <1>4 DEF one

(* Taking a bit away makes a byte smaller.                                   *)
LEMMA BitTaken ==
  ASSUME NEW a \in Byte, NEW i \in 1..8, Bit(a, i) = 1
  PROVE  GfAdd(a, Places[i]) \in Byte /\ GfAdd(a, Places[i]) < a
<1> DEFINE c == GfAdd(a, Places[i])
<1>1. Places[i] \in Byte /\ c \in Byte
  BY PlaceBits, AddType
<1>2. ASSUME NEW j \in 1..8
      PROVE  Bit(c, j) = IF i = j THEN 0 ELSE Bit(a, j)
  <2>1. Bit(c, j) = (Bit(a, j) + Bit(Places[i], j)) % 2
    BY <1>1, AddBits
  <2>2. Bit(a, j) \in {0, 1} /\ Bit(Places[i], j) = IF i = j THEN 1 ELSE 0
    BY BitValues, PlaceBits
  <2> QED  BY <2>1, <2>2
<1> HIDE DEF c
<1>3. /\ Bit(c, 1) <= Bit(a, 1) /\ Bit(c, 2) <= Bit(a, 2) /\ Bit(c, 3) <= Bit(a, 3)
      /\ Bit(c, 4) <= Bit(a, 4) /\ Bit(c, 5) <= Bit(a, 5) /\ Bit(c, 6) <= Bit(a, 6)
      /\ Bit(c, 7) <= Bit(a, 7) /\ Bit(c, 8) <= Bit(a, 8)
  <2>1. \A j \in 1..8 : Bit(a, j) \in {0, 1}
    BY BitValues
  <2>2. ASSUME NEW j \in 1..8 PROVE Bit(c, j) <= Bit(a, j)
    BY <1>2, <2>1
  <2> QED  BY <2>2
<1>4. \A j \in 1..8 : Bit(a, j) \in Int /\ Bit(c, j) \in Int
  BY <1>1, BitValues
<1>5. c <= a
  BY <1>1, <1>3, <1>4, BitValues
<1>6. c # a
  BY <1>2
<1> QED
  BY <1>1, <1>5, <1>6 DEF c, Byte

(* A set of bytes that is closed under adding and has the eight places.      *)
LEMMA PlacesSpan ==
  ASSUME NEW T, \A i \in 1..8 : Places[i] \in T,
         \A a, b \in Byte : a \in T /\ b \in T => GfAdd(a, b) \in T
  PROVE  Byte \subseteq T
<1>1. ASSUME NEW x \in Byte, NEW y \in Byte, x \in T, y \in T
      PROVE  GfAdd(x, y) \in T
  BY <1>1
<1>2. 0 \in T
  <2>1. Places[1] \in Byte /\ Places[1] \in T
    BY PlaceBits
  <2>2. GfAdd(Places[1], Places[1]) = 0
    BY <2>1, AddNeutral
  <2> QED  BY <1>1, <2>1, <2>2
<1> SUFFICES ASSUME Byte \ T # {} PROVE FALSE
  OBVIOUS
<1>3. PICK a \in Byte \ T : \A b \in Byte \ T : ~(b < a)
  <2> DEFINE rest == Byte \ T
  <2>1. rest \in SUBSET Nat /\ rest # {}
    <3> QED  BY ByteIsNat, Zenon
  <2> HIDE DEF rest
  <2>2. \E a \in rest : \A b \in rest : ~(b < a)
    BY <2>1, LeastNumber
  <2> QED  BY <2>2 DEF rest
<1>4. PICK i \in 1..8 : Bit(a, i) = 1
  <2> SUFFICES ASSUME \A i \in 1..8 : Bit(a, i) # 1 PROVE FALSE
    OBVIOUS
  <2>1. \A i \in 1..8 : Bit(a, i) = 0
    BY BitValues
  <2>2. a = 0
    BY <2>1, BitValues
  <2> QED  BY <1>2, <1>3, <2>2
<1>5. Places[i] \in Byte /\ Places[i] \in T
  BY PlaceBits
<1> DEFINE c == GfAdd(a, Places[i])
<1>6. c \in Byte /\ c < a
  BY <1>4, BitTaken
<1>7. c \in T
  BY <1>3, <1>6
<1>8. GfAdd(c, Places[i]) = a
  <2>1. GfAdd(c, Places[i]) = GfAdd(a, GfAdd(Places[i], Places[i]))
    BY <1>5, AddAssociates
  <2> QED  BY <1>5, <2>1, AddNeutral
<1> HIDE DEF c
<1> QED
  BY <1>1, <1>3, <1>5, <1>6, <1>7, <1>8

(* One closed under adding and doubling, with 1.                             *)
LEMMA DoublingSpans ==
  ASSUME NEW T, 1 \in T, \A a \in Byte : a \in T => Doubled(a) \in T,
         \A a, b \in Byte : a \in T /\ b \in T => GfAdd(a, b) \in T
  PROVE  Byte \subseteq T
<1>1. /\ 1 \in Byte /\ 2 \in Byte /\ 4 \in Byte /\ 8 \in Byte
      /\ 16 \in Byte /\ 32 \in Byte /\ 64 \in Byte /\ 128 \in Byte
  BY SomeBytes
<1>2. /\ 2 \in T /\ 4 \in T /\ 8 \in T /\ 16 \in T /\ 32 \in T /\ 64 \in T /\ 128 \in T
  BY <1>1, DoubledOnes
<1>3. ASSUME NEW i \in 1..8 PROVE Places[i] \in T
  <2>1. i = 1 \/ i = 2 \/ i = 3 \/ i = 4 \/ i = 5 \/ i = 6 \/ i = 7 \/ i = 8
    OBVIOUS
  <2> QED  BY <1>2, <2>1, PlaceValues
<1>4. \A i \in 1..8 : Places[i] \in T
  BY <1>3
<1> QED
  BY <1>4, PlacesSpan

-----------------------------------------------------------------------------
(* Multiplying *)

(* The turns of gf_mul(): d is what a is doubled to, p the product so far.   *)
Turns(a, b, d, p) ==
  /\ d \in [0..8 -> Byte] /\ p \in [0..8 -> Byte]
  /\ d[0] = a /\ p[0] = 0
  /\ \A k \in 0..7 :
       /\ d[k + 1] = Doubled(d[k])
       /\ p[k + 1] = IF Bit(b, k + 1) = 1 THEN GfAdd(p[k], d[k]) ELSE p[k]

TurnState == [p : Byte, a : Byte, b : Nat]

(* Halving again and again is dividing by the powers of 2.                   *)
LEMMA Halves ==
  ASSUME NEW b \in Nat
  PROVE  /\ b \div 1 = b
         /\ (b \div 2) \div 2 = b \div 4 /\ (b \div 4) \div 2 = b \div 8
         /\ (b \div 8) \div 2 = b \div 16 /\ (b \div 16) \div 2 = b \div 32
         /\ (b \div 32) \div 2 = b \div 64 /\ (b \div 64) \div 2 = b \div 128
OBVIOUS

(* The lowest bits of a byte halved seven times are its bits in turn.        *)
LEMMA HalvesInTurn ==
  ASSUME NEW s, s[0] \in Byte, s[1] = s[0] \div 2, s[2] = s[1] \div 2, s[3] = s[2] \div 2,
         s[4] = s[3] \div 2, s[5] = s[4] \div 2, s[6] = s[5] \div 2, s[7] = s[6] \div 2
  PROVE  /\ s[0] % 2 = Bit(s[0], 1) /\ s[1] % 2 = Bit(s[0], 2) /\ s[2] % 2 = Bit(s[0], 3)
         /\ s[3] % 2 = Bit(s[0], 4) /\ s[4] % 2 = Bit(s[0], 5) /\ s[5] % 2 = Bit(s[0], 6)
         /\ s[6] % 2 = Bit(s[0], 7) /\ s[7] % 2 = Bit(s[0], 8)
<1> DEFINE b == s[0]
<1>0. b \in Nat
  BY ByteIsNat
<1>1. s[2] = b \div 4
  BY <1>0, Halves
<1>2. s[3] = b \div 8
  BY <1>0, <1>1, Halves
<1>3. s[4] = b \div 16
  BY <1>0, <1>2, Halves
<1>4. s[5] = b \div 32
  BY <1>0, <1>3, Halves
<1>5. s[6] = b \div 64
  BY <1>0, <1>4, Halves
<1>6. s[7] = b \div 128
  <2>1. (b \div 64) \div 2 = b \div 128
    BY <1>0, Halves
  <2> HIDE DEF b
  <2> QED  BY <1>5, <2>1
<1>7. b \div 1 = b
  BY <1>0, Halves
<1> QED
  BY <1>1, <1>2, <1>3, <1>4, <1>5, <1>6, <1>7, PlaceValues DEF Bit

(* So the bit that a turn of the loop looks at is the bit of its place.      *)
LEMMA TurnBits ==
  ASSUME NEW b \in Byte, NEW s, s[0] = b, \A k \in 0..7 : s[k + 1] = s[k] \div 2
  PROVE  \A k \in 0..7 : s[k] % 2 = Bit(b, k + 1)
<1>1. /\ s[1] = s[0] \div 2 /\ s[2] = s[1] \div 2 /\ s[3] = s[2] \div 2
      /\ s[4] = s[3] \div 2 /\ s[5] = s[4] \div 2 /\ s[6] = s[5] \div 2
      /\ s[7] = s[6] \div 2
  <2>1. \A k \in 0..7 : s[k + 1] = s[k] \div 2
    OBVIOUS
  <2>2. /\ s[0 + 1] = s[0] \div 2 /\ s[1 + 1] = s[1] \div 2 /\ s[2 + 1] = s[2] \div 2
        /\ s[3 + 1] = s[3] \div 2 /\ s[4 + 1] = s[4] \div 2 /\ s[5 + 1] = s[5] \div 2
        /\ s[6 + 1] = s[6] \div 2
    BY <2>1, SMT
  <2> QED  BY <2>2
<1>4. /\ b % 2 = Bit(b, 1) /\ s[1] % 2 = Bit(b, 2) /\ s[2] % 2 = Bit(b, 3)
      /\ s[3] % 2 = Bit(b, 4) /\ s[4] % 2 = Bit(b, 5) /\ s[5] % 2 = Bit(b, 6)
      /\ s[6] % 2 = Bit(b, 7) /\ s[7] % 2 = Bit(b, 8)
  BY <1>1, HalvesInTurn, Zenon
<1>5. ASSUME NEW k \in 0..7 PROVE s[k] % 2 = Bit(b, k + 1)
  <2>1. k = 0 \/ k = 1 \/ k = 2 \/ k = 3 \/ k = 4 \/ k = 5 \/ k = 6 \/ k = 7
    OBVIOUS
  <2> QED  BY <1>4, <2>1
<1> QED
  BY <1>5

(* The loop of gf_mul() as the function that GfMul chooses.                  *)
LEMMA MulRecursion ==
  ASSUME NEW a \in Byte, NEW b \in Byte
  PROVE  \E turn :
           /\ turn = [i \in 0..8 |->
                IF i = 0 THEN [p |-> 0, a |-> a, b |-> b]
                ELSE [p |-> IF turn[i - 1].b % 2 = 1 THEN GfAdd(turn[i - 1].p, turn[i - 1].a)
                            ELSE turn[i - 1].p,
                      a |-> Doubled(turn[i - 1].a), b |-> turn[i - 1].b \div 2]]
           /\ GfMul(a, b) = turn[8].p
<1> DEFINE next(s) == [p |-> IF s.b % 2 = 1 THEN GfAdd(s.p, s.a) ELSE s.p,
                       a |-> Doubled(s.a), b |-> s.b \div 2]
           step == [n \in Nat |-> [s \in TurnState |-> next(s)]]
           first == [p |-> 0, a |-> a, b |-> b]
<1>1. first \in TurnState
  BY SomeBytes, ByteIsNat DEF TurnState
<1>2. ASSUME NEW s \in TurnState PROVE next(s) \in TurnState
  <2>1. s.p \in Byte /\ s.a \in Byte /\ s.b \in Nat
    BY DEF TurnState
  <2>2. GfAdd(s.p, s.a) \in Byte /\ Doubled(s.a) \in Byte
    BY <2>1, AddType, DoubledType
  <2>3. s.b \div 2 \in Nat
    BY <2>1
  <2> QED  BY <2>1, <2>2, <2>3 DEF TurnState
<1> HIDE DEF next, first
<1>3. step \in [Nat -> [TurnState -> TurnState]]
  BY <1>2
<1>4. PICK f \in [0..8 -> TurnState] : Iterates(f, 0..8, first, step)
  <2> HIDE DEF step
  <2> QED  BY <1>1, <1>3, RecursionUpTo
<1>5. ASSUME NEW n \in 0..8
      PROVE  f[n] = IF n = 0 THEN first ELSE next(f[n - 1])
  <2>1. f[n] = IF n = 0 THEN first ELSE step[n][f[n - 1]]
    BY <1>4, IteratesAt
  <2>2. n # 0 => n - 1 \in 0..8
    OBVIOUS
  <2>3. n # 0 => f[n - 1] \in TurnState
    BY <2>2
  <2>4. n \in Nat
    OBVIOUS
  <2>5. n # 0 => step[n][f[n - 1]] = next(f[n - 1])
    BY <2>3, <2>4
  <2> HIDE DEF step
  <2> QED  BY <2>1, <2>5
<1> HIDE DEF step
<1>6. f = [i \in 0..8 |-> IF i = 0 THEN first ELSE next(f[i - 1])]
  BY <1>5
<1> QED
  BY <1>6 DEF GfMul, next, first

(* The loop as two sequences: d, the first factor doubled in every turn, and *)
(* p, what has been added up.                                                *)
LEMMA MulTurns ==
  ASSUME NEW a \in Byte, NEW b \in Byte
  PROVE  \E d, p : Turns(a, b, d, p) /\ GfMul(a, b) = p[8]
<1>1. PICK turn :
        /\ turn = [i \in 0..8 |->
             IF i = 0 THEN [p |-> 0, a |-> a, b |-> b]
             ELSE [p |-> IF turn[i - 1].b % 2 = 1 THEN GfAdd(turn[i - 1].p, turn[i - 1].a)
                         ELSE turn[i - 1].p,
                   a |-> Doubled(turn[i - 1].a), b |-> turn[i - 1].b \div 2]]
        /\ GfMul(a, b) = turn[8].p
  BY MulRecursion
<1> DEFINE d == [k \in 0..8 |-> turn[k].a]
           p == [k \in 0..8 |-> turn[k].p]
           s == [k \in 0..8 |-> turn[k].b]
<1>2. turn[0] = [p |-> 0, a |-> a, b |-> b]
  BY <1>1
<1>3. ASSUME NEW k \in 0..7
      PROVE  turn[k + 1] = [p |-> IF turn[k].b % 2 = 1 THEN GfAdd(turn[k].p, turn[k].a)
                                  ELSE turn[k].p,
                            a |-> Doubled(turn[k].a), b |-> turn[k].b \div 2]
  <2>1. k + 1 \in 0..8 /\ k + 1 # 0 /\ (k + 1) - 1 = k
    OBVIOUS
  <2> QED  BY <1>1, <2>1
<1>4. d \in [0..8 -> Byte] /\ p \in [0..8 -> Byte]
  <2> DEFINE typed == {k \in 0..8 : turn[k] \in TurnState}
  <2>2. 0 \in typed
    BY <1>2, SomeBytes, ByteIsNat DEF TurnState
  <2>3. ASSUME NEW k \in 0..7, k \in typed PROVE k + 1 \in typed
    <3>1. k + 1 \in 0..8 /\ turn[k] \in TurnState
      BY <2>3
    <3>2. turn[k].p \in Byte /\ turn[k].a \in Byte /\ turn[k].b \in Nat
      BY <3>1 DEF TurnState
    <3>3. GfAdd(turn[k].p, turn[k].a) \in Byte /\ Doubled(turn[k].a) \in Byte
      BY <3>2, AddType, DoubledType
    <3>4. turn[k].b \div 2 \in Nat
      BY <3>2
    <3>5. turn[k + 1] \in TurnState
      BY <1>3, <3>2, <3>3, <3>4 DEF TurnState
    <3> QED  BY <3>1, <3>5
  <2> HIDE DEF typed
  <2>4. \A k \in 0..8 : k \in typed
    BY <2>2, <2>3, EightSteps
  <2>1. \A k \in 0..8 : turn[k] \in TurnState
    BY <2>4 DEF typed
  <2> QED  BY <2>1 DEF TurnState
<1>5. d[0] = a /\ p[0] = 0 /\ s[0] = b
  BY <1>2
<1>6. ASSUME NEW k \in 0..7
      PROVE  /\ d[k + 1] = Doubled(d[k]) /\ s[k + 1] = s[k] \div 2
             /\ p[k + 1] = IF s[k] % 2 = 1 THEN GfAdd(p[k], d[k]) ELSE p[k]
  <2>1. k + 1 \in 0..8 /\ k \in 0..8
    OBVIOUS
  <2> QED  BY <1>3, <2>1
<1>7. GfMul(a, b) = p[8]
  BY <1>1
<1> HIDE DEF d, p, s
<1>8. \A k \in 0..7 : s[k] % 2 = Bit(b, k + 1)
  BY <1>5, <1>6, TurnBits
<1>9. Turns(a, b, d, p)
  BY <1>4, <1>5, <1>6, <1>8 DEF Turns
<1> QED
  BY <1>7, <1>9

(* The turns are determined by what they begin with.                         *)
LEMMA TurnsAgree ==
  ASSUME NEW a \in Byte, NEW b \in Byte, NEW d, NEW p, Turns(a, b, d, p)
  PROVE  GfMul(a, b) = p[8]
<1>1. PICK e, q : Turns(a, b, e, q) /\ GfMul(a, b) = q[8]
  BY MulTurns
<1> DEFINE T == {k \in 0..8 : d[k] = e[k] /\ p[k] = q[k]}
<1>2. 0 \in T
  BY <1>1 DEF Turns
<1>3. ASSUME NEW k \in 0..7, k \in T PROVE k + 1 \in T
  <2>1. k + 1 \in 0..8
    OBVIOUS
  <2> QED  BY <1>1, <1>3, <2>1 DEF Turns
<1> HIDE DEF T
<1>4. \A k \in 0..8 : k \in T
  BY <1>2, <1>3, EightSteps
<1>5. 8 \in T
  BY <1>4
<1> QED
  BY <1>1, <1>5 DEF T

(* The product of two bytes is a byte.                                       *)
LEMMA MulType ==
  ASSUME NEW a \in Byte, NEW b \in Byte
  PROVE  GfMul(a, b) \in Byte
<1>1. PICK d, p : Turns(a, b, d, p) /\ GfMul(a, b) = p[8]
  BY MulTurns
<1>2. p[8] \in Byte
  BY <1>1 DEF Turns
<1> QED
  BY <1>1, <1>2

(* It distributes over adding, on either side.                               *)
LEMMA MulAddsLeft ==
  ASSUME NEW a \in Byte, NEW c \in Byte, NEW b \in Byte
  PROVE  GfMul(GfAdd(a, c), b) = GfAdd(GfMul(a, b), GfMul(c, b))
<1>1. PICK d, p : Turns(a, b, d, p) /\ GfMul(a, b) = p[8]
  BY MulTurns
<1>2. PICK e, q : Turns(c, b, e, q) /\ GfMul(c, b) = q[8]
  BY MulTurns
<1> DEFINE f == [k \in 0..8 |-> GfAdd(d[k], e[k])]
           r == [k \in 0..8 |-> GfAdd(p[k], q[k])]
<1>3. \A k \in 0..8 : d[k] \in Byte /\ e[k] \in Byte /\ p[k] \in Byte /\ q[k] \in Byte
  BY <1>1, <1>2 DEF Turns
<1>4. f \in [0..8 -> Byte] /\ r \in [0..8 -> Byte]
  BY <1>3, AddType
<1>5. f[0] = GfAdd(a, c) /\ r[0] = 0
  BY <1>1, <1>2, SomeBytes, AddNeutral DEF Turns
<1>6. ASSUME NEW k \in 0..7
      PROVE  /\ f[k + 1] = Doubled(f[k])
             /\ r[k + 1] = IF Bit(b, k + 1) = 1 THEN GfAdd(r[k], f[k]) ELSE r[k]
  <2>1. k \in 0..8 /\ k + 1 \in 0..8
    OBVIOUS
  <2>2. /\ d[k + 1] = Doubled(d[k]) /\ e[k + 1] = Doubled(e[k])
        /\ p[k + 1] = IF Bit(b, k + 1) = 1 THEN GfAdd(p[k], d[k]) ELSE p[k]
        /\ q[k + 1] = IF Bit(b, k + 1) = 1 THEN GfAdd(q[k], e[k]) ELSE q[k]
    BY <1>1, <1>2 DEF Turns
  <2>3. /\ f[k + 1] = GfAdd(d[k + 1], e[k + 1]) /\ f[k] = GfAdd(d[k], e[k])
        /\ r[k + 1] = GfAdd(p[k + 1], q[k + 1]) /\ r[k] = GfAdd(p[k], q[k])
    BY <2>1
  <2> HIDE DEF f, r
  <2>4. d[k] \in Byte /\ e[k] \in Byte /\ p[k] \in Byte /\ q[k] \in Byte
    BY <1>3, <2>1
  <2>5. Doubled(GfAdd(d[k], e[k])) = GfAdd(Doubled(d[k]), Doubled(e[k]))
    BY <2>4, DoubledAdds
  <2>6. GfAdd(GfAdd(p[k], d[k]), GfAdd(q[k], e[k])) = GfAdd(GfAdd(p[k], q[k]), GfAdd(d[k], e[k]))
    BY <2>4, AddMedial
  <2> QED  BY <2>2, <2>3, <2>5, <2>6
<1>7. r[8] = GfAdd(p[8], q[8])
  OBVIOUS
<1> HIDE DEF f, r
<1>8. Turns(GfAdd(a, c), b, f, r)
  BY <1>4, <1>5, <1>6 DEF Turns
<1> QED
  BY <1>1, <1>2, <1>7, <1>8, AddType, TurnsAgree

(* The product distributes over a sum on its right.                          *)
LEMMA MulAddsRight ==
  ASSUME NEW a \in Byte, NEW b \in Byte, NEW c \in Byte
  PROVE  GfMul(a, GfAdd(b, c)) = GfAdd(GfMul(a, b), GfMul(a, c))
<1>1. PICK d, p : Turns(a, b, d, p) /\ GfMul(a, b) = p[8]
  BY MulTurns
<1>2. PICK e, q : Turns(a, c, e, q) /\ GfMul(a, c) = q[8]
  BY MulTurns
<1> DEFINE same == {k \in 0..8 : d[k] = e[k]}
<1>3. \A k \in 0..8 : k \in same
  <2>1. 0 \in same
    BY <1>1, <1>2 DEF Turns
  <2>2. ASSUME NEW k \in 0..7, k \in same PROVE k + 1 \in same
    <3>1. k + 1 \in 0..8
      OBVIOUS
    <3> QED  BY <1>1, <1>2, <2>2, <3>1 DEF Turns
  <2> HIDE DEF same
  <2> QED  BY <2>1, <2>2, EightSteps
<1> DEFINE r == [k \in 0..8 |-> GfAdd(p[k], q[k])]
<1>4. \A k \in 0..8 : d[k] \in Byte /\ p[k] \in Byte /\ q[k] \in Byte
  BY <1>1, <1>2 DEF Turns
<1>5. r \in [0..8 -> Byte] /\ r[0] = 0
  <2>1. r \in [0..8 -> Byte]
    BY <1>4, AddType
  <2>2. r[0] = GfAdd(0, 0)
    BY <1>1, <1>2 DEF Turns
  <2> QED  BY <2>1, <2>2, SomeBytes, AddNeutral
<1>6. ASSUME NEW k \in 0..7
      PROVE  r[k + 1] = IF Bit(GfAdd(b, c), k + 1) = 1 THEN GfAdd(r[k], d[k]) ELSE r[k]
  <2>1. k \in 0..8 /\ k + 1 \in 0..8 /\ k + 1 \in 1..8
    OBVIOUS
  <2>2. /\ p[k + 1] = IF Bit(b, k + 1) = 1 THEN GfAdd(p[k], d[k]) ELSE p[k]
        /\ q[k + 1] = IF Bit(c, k + 1) = 1 THEN GfAdd(q[k], e[k]) ELSE q[k]
    BY <1>1, <1>2 DEF Turns
  <2>3. d[k] = e[k]
    BY <1>3, <2>1
  <2>4. r[k + 1] = GfAdd(p[k + 1], q[k + 1]) /\ r[k] = GfAdd(p[k], q[k])
    BY <2>1
  <2> HIDE DEF r
  <2>5. d[k] \in Byte /\ p[k] \in Byte /\ q[k] \in Byte
    BY <1>4, <2>1
  <2>6. /\ Bit(GfAdd(b, c), k + 1) = (Bit(b, k + 1) + Bit(c, k + 1)) % 2
        /\ Bit(b, k + 1) \in {0, 1} /\ Bit(c, k + 1) \in {0, 1}
    BY <2>1, AddBits, BitValues
  <2>7. CASE Bit(b, k + 1) = 0 /\ Bit(c, k + 1) = 0
    <3>1. Bit(GfAdd(b, c), k + 1) = 0
      BY <2>6, <2>7
    <3> QED  BY <2>2, <2>4, <2>7, <3>1
  <2>8. CASE Bit(b, k + 1) = 1 /\ Bit(c, k + 1) = 0
    <3>1. Bit(GfAdd(b, c), k + 1) = 1
      BY <2>6, <2>8
    <3>2. GfAdd(GfAdd(p[k], d[k]), q[k]) = GfAdd(GfAdd(p[k], q[k]), d[k])
      BY <2>5, AddAssociates, AddCommutes
    <3> QED  BY <2>2, <2>4, <2>8, <3>1, <3>2
  <2>9. CASE Bit(b, k + 1) = 0 /\ Bit(c, k + 1) = 1
    <3>1. Bit(GfAdd(b, c), k + 1) = 1
      BY <2>6, <2>9
    <3>2. GfAdd(p[k], GfAdd(q[k], d[k])) = GfAdd(GfAdd(p[k], q[k]), d[k])
      BY <2>5, AddAssociates
    <3> QED  BY <2>2, <2>3, <2>4, <2>9, <3>1, <3>2
  <2>10. CASE Bit(b, k + 1) = 1 /\ Bit(c, k + 1) = 1
    <3>1. Bit(GfAdd(b, c), k + 1) = 0
      BY <2>6, <2>10
    <3>2. GfAdd(GfAdd(p[k], d[k]), GfAdd(q[k], d[k])) = GfAdd(GfAdd(p[k], q[k]), GfAdd(d[k], d[k]))
      BY <2>5, AddMedial
    <3>3. GfAdd(d[k], d[k]) = 0 /\ GfAdd(GfAdd(p[k], q[k]), 0) = GfAdd(p[k], q[k])
      BY <2>5, AddNeutral, AddType
    <3> QED  BY <2>2, <2>3, <2>4, <2>10, <3>1, <3>2, <3>3
  <2> QED  BY <2>6, <2>7, <2>8, <2>9, <2>10
<1>7. r[8] = GfAdd(p[8], q[8])
  OBVIOUS
<1> HIDE DEF r
<1>8. Turns(a, GfAdd(b, c), d, r)
  <2>1. /\ d \in [0..8 -> Byte] /\ d[0] = a
        /\ \A k \in 0..7 : d[k + 1] = Doubled(d[k])
    BY <1>1 DEF Turns
  <2> QED  BY <1>5, <1>6, <2>1 DEF Turns
<1> QED
  BY <1>1, <1>2, <1>7, <1>8, AddType, TurnsAgree

(* Doubling either factor doubles the product.                               *)
LEMMA DoubledZero ==
  Doubled(0) = 0
BY DEF Doubled

(* The product of a factor doubled is the product doubled: so for either     *)
(* factor.                                                                   *)
LEMMA MulDoubledLeft ==
  ASSUME NEW a \in Byte, NEW b \in Byte
  PROVE  GfMul(Doubled(a), b) = Doubled(GfMul(a, b))
<1>1. PICK d, p : Turns(a, b, d, p) /\ GfMul(a, b) = p[8]
  BY MulTurns
<1> DEFINE f == [k \in 0..8 |-> Doubled(d[k])]
           r == [k \in 0..8 |-> Doubled(p[k])]
<1>2. \A k \in 0..8 : d[k] \in Byte /\ p[k] \in Byte
  BY <1>1 DEF Turns
<1>3. /\ f \in [0..8 -> Byte] /\ r \in [0..8 -> Byte]
      /\ f[0] = Doubled(a) /\ r[0] = 0
  BY <1>1, <1>2, DoubledType, DoubledZero DEF Turns
<1>4. ASSUME NEW k \in 0..7
      PROVE  /\ f[k + 1] = Doubled(f[k])
             /\ r[k + 1] = IF Bit(b, k + 1) = 1 THEN GfAdd(r[k], f[k]) ELSE r[k]
  <2>1. k \in 0..8 /\ k + 1 \in 0..8
    OBVIOUS
  <2>2. /\ d[k + 1] = Doubled(d[k])
        /\ p[k + 1] = IF Bit(b, k + 1) = 1 THEN GfAdd(p[k], d[k]) ELSE p[k]
    BY <1>1 DEF Turns
  <2>3. /\ f[k + 1] = Doubled(d[k + 1]) /\ f[k] = Doubled(d[k])
        /\ r[k + 1] = Doubled(p[k + 1]) /\ r[k] = Doubled(p[k])
    BY <2>1
  <2> HIDE DEF f, r
  <2>4. Doubled(GfAdd(p[k], d[k])) = GfAdd(Doubled(p[k]), Doubled(d[k]))
    BY <1>2, <2>1, DoubledAdds
  <2> QED  BY <2>2, <2>3, <2>4
<1>5. r[8] = Doubled(p[8])
  OBVIOUS
<1> HIDE DEF f, r
<1>6. Turns(Doubled(a), b, f, r)
  BY <1>3, <1>4 DEF Turns
<1> QED
  BY <1>1, <1>5, <1>6, DoubledType, TurnsAgree

(* The product with a place is what as many doublings give.                  *)
LEMMA TurnsOfPlace ==
  ASSUME NEW a \in Byte, NEW i \in 1..8, NEW d, NEW p, Turns(a, Places[i], d, p)
  PROVE  GfMul(a, Places[i]) = d[i - 1]
<1> DEFINE T == {k \in 0..8 : p[k] = IF k < i THEN 0 ELSE d[i - 1]}
<1>1. Places[i] \in Byte
  BY PlaceBits
<1>2. 0 \in T
  BY DEF Turns
<1>3. ASSUME NEW k \in 0..7, k \in T PROVE k + 1 \in T
  <2>1. k + 1 \in 0..8 /\ k + 1 \in 1..8
    OBVIOUS
  <2>2. p[k + 1] = IF Bit(Places[i], k + 1) = 1 THEN GfAdd(p[k], d[k]) ELSE p[k]
    BY DEF Turns
  <2>3. Bit(Places[i], k + 1) = IF i = k + 1 THEN 1 ELSE 0
    BY <2>1, PlaceBits
  <2>4. p[k] = IF k < i THEN 0 ELSE d[i - 1]
    BY <1>3
  <2>5. d[k] \in Byte
    BY DEF Turns
  <2>6. GfAdd(0, d[k]) = d[k]
    BY <2>5, AddNeutral
  <2>7. CASE i = k + 1
    <3>1. k < i /\ ~(k + 1 < i) /\ i - 1 = k
      BY <2>7
    <3>2. p[k + 1] = d[i - 1]
      BY <2>2, <2>3, <2>4, <2>6, <2>7, <3>1
    <3> QED  BY <2>1, <3>1, <3>2
  <2>8. CASE i # k + 1
    <3>1. p[k + 1] = p[k]
      BY <2>2, <2>3, <2>8
    <3>2. k < i <=> k + 1 < i
      BY <2>8
    <3> QED  BY <2>1, <2>4, <3>1, <3>2
  <2> QED  BY <2>7, <2>8
<1> HIDE DEF T
<1>4. \A k \in 0..8 : k \in T
  BY <1>2, <1>3, EightSteps
<1>5. p[8] = d[i - 1]
  BY <1>4 DEF T
<1> QED
  BY <1>1, <1>5, TurnsAgree

(* Multiplying by 1 changes nothing; by the next place it doubles once more. *)
LEMMA MulPlaces ==
  ASSUME NEW a \in Byte
  PROVE  /\ GfMul(a, 1) = a
         /\ \A i \in 1..7 : GfMul(a, Places[i + 1]) = Doubled(GfMul(a, Places[i]))
<1>1. GfMul(a, 1) = a
  <2>1. 1 \in 1..8 /\ Places[1] = 1 /\ Places[1] \in Byte
    BY PlaceValues, PlaceBits
  <2>2. PICK d, p : Turns(a, Places[1], d, p)
    BY <2>1, MulTurns
  <2>3. GfMul(a, Places[1]) = d[1 - 1]
    BY <2>1, <2>2, TurnsOfPlace
  <2>4. d[0] = a
    BY <2>2 DEF Turns
  <2> QED  BY <2>1, <2>3, <2>4
<1>2. ASSUME NEW i \in 1..7
      PROVE  GfMul(a, Places[i + 1]) = Doubled(GfMul(a, Places[i]))
  <2>1. i \in 1..8 /\ i + 1 \in 1..8
    OBVIOUS
  <2>2. Places[i] \in Byte /\ Places[i + 1] \in Byte
    BY <2>1, PlaceBits
  <2>3. PICK d, p : Turns(a, Places[i], d, p)
    BY <2>2, MulTurns
  <2>4. PICK e, q : Turns(a, Places[i + 1], e, q)
    BY <2>2, MulTurns
  <2> DEFINE same == {k \in 0..8 : d[k] = e[k]}
  <2>5. \A k \in 0..8 : k \in same
    <3>1. 0 \in same
      BY <2>3, <2>4 DEF Turns
    <3>2. ASSUME NEW k \in 0..7, k \in same PROVE k + 1 \in same
      <4>1. k + 1 \in 0..8
        OBVIOUS
      <4> QED  BY <2>3, <2>4, <3>2, <4>1 DEF Turns
    <3> HIDE DEF same
    <3> QED  BY <3>1, <3>2, EightSteps
  <2>6. GfMul(a, Places[i]) = d[i - 1]
    BY <2>1, <2>3, TurnsOfPlace
  <2>7. GfMul(a, Places[i + 1]) = e[i]
    <3>1. (i + 1) - 1 = i
      OBVIOUS
    <3> QED  BY <2>1, <2>4, <3>1, TurnsOfPlace
  <2>8. i - 1 \in 0..7 /\ (i - 1) + 1 = i /\ i \in 0..8
    OBVIOUS
  <2>9. d[i] = Doubled(d[i - 1])
    BY <2>3, <2>8 DEF Turns
  <2> QED  BY <2>5, <2>6, <2>7, <2>8, <2>9
<1> QED
  BY <1>1, <1>2

(* Every place but the first is the one before it doubled.                   *)
LEMMA PlacesDouble ==
  \A i \in 1..7 : Places[i + 1] = Doubled(Places[i])
<1> SUFFICES ASSUME NEW i \in 1..7 PROVE Places[i + 1] = Doubled(Places[i])
  OBVIOUS
<1>1. i = 1 \/ i = 2 \/ i = 3 \/ i = 4 \/ i = 5 \/ i = 6 \/ i = 7
  OBVIOUS
<1> QED
  BY <1>1, PlaceValues, DoubledOnes

(* 1 is neutral on either side.                                              *)
LEMMA MulOne ==
  ASSUME NEW a \in Byte
  PROVE  GfMul(a, 1) = a /\ GfMul(1, a) = a
<1> DEFINE T == {b \in Byte : GfMul(1, b) = b}
<1>1. 1 \in Byte /\ \A i \in 1..8 : Places[i] \in Byte
  BY SomeBytes, PlaceBits
<1>2. \A i \in 1..8 : Places[i] \in T
  <2> DEFINE U == {k \in 0..8 : k < 8 => Places[k + 1] \in T}
  <2>1. 0 \in U
    BY <1>1, MulPlaces, PlaceValues
  <2>2. ASSUME NEW k \in 0..7, k \in U PROVE k + 1 \in U
    <3>1. k + 1 \in 0..8
      OBVIOUS
    <3>2. ASSUME k + 1 < 8 PROVE Places[(k + 1) + 1] \in T
      <4>1. k + 1 \in 1..7 /\ k < 8 /\ (k + 1) + 1 \in 1..8
        BY <3>2
      <4>2. GfMul(1, Places[(k + 1) + 1]) = Doubled(GfMul(1, Places[k + 1]))
        BY <1>1, <4>1, MulPlaces
      <4>3. GfMul(1, Places[k + 1]) = Places[k + 1]
        BY <2>2, <4>1
      <4>4. Places[(k + 1) + 1] = Doubled(Places[k + 1])
        BY <4>1, PlacesDouble
      <4> QED  BY <1>1, <4>1, <4>2, <4>3, <4>4
    <3> QED  BY <3>1, <3>2
  <2> HIDE DEF U
  <2>3. \A k \in 0..8 : k \in U
    BY <2>1, <2>2, EightSteps
  <2>4. ASSUME NEW i \in 1..8 PROVE Places[i] \in T
    <3>1. i - 1 \in 0..8 /\ i - 1 < 8 /\ (i - 1) + 1 = i
      OBVIOUS
    <3>2. i - 1 < 8 => Places[(i - 1) + 1] \in T
      BY <2>3, <3>1 DEF U
    <3> HIDE DEF T
    <3> QED  BY <3>1, <3>2
  <2> QED  BY <2>4
<1>3. \A x, y \in Byte : x \in T /\ y \in T => GfAdd(x, y) \in T
  BY <1>1, AddType, MulAddsRight
<1>4. Byte \subseteq T
  <2> HIDE DEF T
  <2> QED  BY <1>2, <1>3, PlacesSpan
<1> QED
  BY <1>4, MulPlaces

(* The same for the second factor, as every byte is a sum of places.         *)
LEMMA MulDoubledRight ==
  ASSUME NEW a \in Byte, NEW b \in Byte
  PROVE  GfMul(a, Doubled(b)) = Doubled(GfMul(a, b))
<1>1. 27 \in Byte /\ 128 \in Byte /\ 1 \in Byte /\ \A i \in 1..8 : Places[i] \in Byte
  <2>1. 27 \in Byte
    BY SomeBytes, DoubledOnes, DoubledType
  <2> QED  BY <2>1, SomeBytes, PlaceBits
<1> DEFINE T == {x \in Byte : GfMul(x, Doubled(128)) = Doubled(GfMul(x, 128))}
<1>2. 1 \in T
  BY <1>1, MulOne, DoubledType
<1>3. \A x \in Byte : x \in T => Doubled(x) \in T
  BY <1>1, DoubledType, MulDoubledLeft
<1>4. \A x, y \in Byte : x \in T /\ y \in T => GfAdd(x, y) \in T
  <2> SUFFICES ASSUME NEW x \in Byte, NEW y \in Byte, x \in T, y \in T
               PROVE  GfAdd(x, y) \in T
    OBVIOUS
  <2>1. GfMul(GfAdd(x, y), Doubled(128)) = GfAdd(GfMul(x, Doubled(128)), GfMul(y, Doubled(128)))
    BY <1>1, DoubledType, MulAddsLeft
  <2>2. GfMul(GfAdd(x, y), 128) = GfAdd(GfMul(x, 128), GfMul(y, 128))
    BY <1>1, MulAddsLeft
  <2>3. GfMul(x, 128) \in Byte /\ GfMul(y, 128) \in Byte
    BY <1>1, MulType
  <2>4. Doubled(GfAdd(GfMul(x, 128), GfMul(y, 128)))
          = GfAdd(Doubled(GfMul(x, 128)), Doubled(GfMul(y, 128)))
    BY <2>3, DoubledAdds
  <2> QED  BY <2>1, <2>2, <2>4, AddType
<1>5. Byte \subseteq T
  <2> HIDE DEF T
  <2> QED  BY <1>2, <1>3, <1>4, DoublingSpans
<1>6. GfMul(a, Doubled(128)) = Doubled(GfMul(a, 128))
  BY <1>5
<1> HIDE DEF T
<1> DEFINE U == {x \in Byte : GfMul(a, Doubled(x)) = Doubled(GfMul(a, x))}
<1>7. ASSUME NEW i \in 1..8 PROVE Places[i] \in U
  <2>1. CASE i = 8
    BY <1>1, <1>6, <2>1, PlaceValues
  <2>2. CASE i # 8
    <3>1. i \in 1..7
      BY <2>2
    <3>2. Places[i + 1] = Doubled(Places[i])
      BY <3>1, PlacesDouble
    <3>3. GfMul(a, Places[i + 1]) = Doubled(GfMul(a, Places[i]))
      BY <3>1, MulPlaces
    <3> QED  BY <1>1, <3>2, <3>3
  <2> QED  BY <2>1, <2>2
<1>8. ASSUME NEW x \in Byte, NEW y \in Byte, x \in U, y \in U
      PROVE  GfAdd(x, y) \in U
  <2>1. /\ Doubled(x) \in Byte /\ Doubled(y) \in Byte
        /\ GfMul(a, x) \in Byte /\ GfMul(a, y) \in Byte
    BY DoubledType, MulType
  <2>2. Doubled(GfAdd(x, y)) = GfAdd(Doubled(x), Doubled(y))
    BY DoubledAdds
  <2>3. GfMul(a, GfAdd(Doubled(x), Doubled(y))) = GfAdd(GfMul(a, Doubled(x)), GfMul(a, Doubled(y)))
    BY <2>1, MulAddsRight
  <2>4. Doubled(GfMul(a, GfAdd(x, y))) = GfAdd(Doubled(GfMul(a, x)), Doubled(GfMul(a, y)))
    BY <2>1, MulAddsRight, DoubledAdds
  <2> QED  BY <1>8, <2>2, <2>3, <2>4, AddType
<1>9. Byte \subseteq U
  <2>1. /\ \A i \in 1..8 : Places[i] \in U
        /\ \A x, y \in Byte : x \in U /\ y \in U => GfAdd(x, y) \in U
    BY <1>7, <1>8
  <2> HIDE DEF U
  <2> QED  BY <2>1, PlacesSpan
<1> QED
  BY <1>9

(* The product commutes: true of 1, and kept by doubling and by adding.      *)
LEMMA MulCommutes ==
  ASSUME NEW a \in Byte, NEW b \in Byte
  PROVE  GfMul(a, b) = GfMul(b, a)
<1> DEFINE T == {x \in Byte : GfMul(x, b) = GfMul(b, x)}
<1>1. 1 \in T
  BY SomeBytes, MulOne
<1>2. \A x \in Byte : x \in T => Doubled(x) \in T
  BY DoubledType, MulDoubledLeft, MulDoubledRight
<1>3. \A x, y \in Byte : x \in T /\ y \in T => GfAdd(x, y) \in T
  BY AddType, MulAddsLeft, MulAddsRight
<1>4. Byte \subseteq T
  <2> HIDE DEF T
  <2> QED  BY <1>1, <1>2, <1>3, DoublingSpans
<1> QED
  BY <1>4

(* The product associates: again true of 1, and kept by doubling and by      *)
(* adding.                                                                   *)
LEMMA MulAssociates ==
  ASSUME NEW a \in Byte, NEW b \in Byte, NEW c \in Byte
  PROVE  GfMul(GfMul(a, b), c) = GfMul(a, GfMul(b, c))
<1> DEFINE T == {x \in Byte : GfMul(GfMul(x, b), c) = GfMul(x, GfMul(b, c))}
<1>1. GfMul(b, c) \in Byte
  BY MulType
<1>2. 1 \in T
  BY <1>1, SomeBytes, MulOne
<1>3. ASSUME NEW x \in Byte, x \in T PROVE Doubled(x) \in T
  <2>1. GfMul(x, b) \in Byte /\ Doubled(x) \in Byte
    BY MulType, DoubledType
  <2>2. GfMul(GfMul(Doubled(x), b), c) = Doubled(GfMul(GfMul(x, b), c))
    BY <2>1, MulDoubledLeft
  <2>3. GfMul(Doubled(x), GfMul(b, c)) = Doubled(GfMul(x, GfMul(b, c)))
    BY <1>1, MulDoubledLeft
  <2> QED  BY <1>3, <2>1, <2>2, <2>3
<1>4. ASSUME NEW x \in Byte, NEW y \in Byte, x \in T, y \in T PROVE GfAdd(x, y) \in T
  <2>1. GfMul(x, b) \in Byte /\ GfMul(y, b) \in Byte /\ GfAdd(x, y) \in Byte
    BY MulType, AddType
  <2>2. GfMul(GfMul(GfAdd(x, y), b), c) = GfAdd(GfMul(GfMul(x, b), c), GfMul(GfMul(y, b), c))
    BY <2>1, MulAddsLeft
  <2>3. GfMul(GfAdd(x, y), GfMul(b, c)) = GfAdd(GfMul(x, GfMul(b, c)), GfMul(y, GfMul(b, c)))
    BY <1>1, MulAddsLeft
  <2> QED  BY <1>4, <2>1, <2>2, <2>3
<1>5. Byte \subseteq T
  <2>1. /\ \A x \in Byte : x \in T => Doubled(x) \in T
        /\ \A x, y \in Byte : x \in T /\ y \in T => GfAdd(x, y) \in T
    BY <1>3, <1>4
  <2> HIDE DEF T
  <2> QED  BY <1>2, <2>1, DoublingSpans
<1> QED
  BY <1>5

(* The product with 0 is 0.                                                  *)
LEMMA MulZero ==
  ASSUME NEW a \in Byte
  PROVE  GfMul(a, 0) = 0 /\ GfMul(0, a) = 0
<1>1. 0 \in Byte /\ GfAdd(a, a) = 0 /\ GfMul(a, a) \in Byte
  BY SomeBytes, AddNeutral, MulType
<1>2. GfMul(GfAdd(a, a), a) = GfAdd(GfMul(a, a), GfMul(a, a))
  BY MulAddsLeft
<1>3. GfMul(0, a) = 0
  BY <1>1, <1>2, AddNeutral
<1> QED
  BY <1>1, <1>3, MulCommutes

-----------------------------------------------------------------------------
(* Squares *)

Sq(a) == GfMul(a, a)

(* Of four factors the middle two may change places.                         *)
LEMMA MulMedial ==
  ASSUME NEW a \in Byte, NEW b \in Byte, NEW c \in Byte, NEW d \in Byte
  PROVE  GfMul(GfMul(a, b), GfMul(c, d)) = GfMul(GfMul(a, c), GfMul(b, d))
<1>1. GfMul(c, d) \in Byte /\ GfMul(b, d) \in Byte /\ GfMul(b, c) \in Byte
  BY MulType
<1>2. GfMul(GfMul(a, b), GfMul(c, d)) = GfMul(a, GfMul(b, GfMul(c, d)))
  BY <1>1, MulAssociates
<1>3. GfMul(b, GfMul(c, d)) = GfMul(GfMul(b, c), d)
  BY MulAssociates
<1>4. GfMul(GfMul(b, c), d) = GfMul(GfMul(c, b), d)
  BY MulCommutes
<1>5. GfMul(GfMul(c, b), d) = GfMul(c, GfMul(b, d))
  BY MulAssociates
<1>6. GfMul(GfMul(a, c), GfMul(b, d)) = GfMul(a, GfMul(c, GfMul(b, d)))
  BY <1>1, MulAssociates
<1> QED
  BY <1>2, <1>3, <1>4, <1>5, <1>6

(* The square of a byte is a byte.                                           *)
LEMMA SqType ==
  ASSUME NEW a \in Byte PROVE Sq(a) \in Byte
BY MulType DEF Sq

(* The square of a product is the product of the squares.                    *)
LEMMA SqMultiplies ==
  ASSUME NEW a \in Byte, NEW b \in Byte
  PROVE  Sq(GfMul(a, b)) = GfMul(Sq(a), Sq(b))
BY MulMedial DEF Sq

(* The square of a sum is the sum of the squares: the mixed terms come twice *)
(* and cancel.                                                               *)
LEMMA SqAdds ==
  ASSUME NEW a \in Byte, NEW b \in Byte
  PROVE  Sq(GfAdd(a, b)) = GfAdd(Sq(a), Sq(b))
<1> DEFINE c == GfAdd(a, b)
           m == GfMul(a, b)
<1>1. /\ c \in Byte /\ m \in Byte /\ GfMul(a, a) \in Byte /\ GfMul(b, b) \in Byte
      /\ GfMul(b, a) = m
  BY AddType, MulType, MulCommutes
<1>2. GfMul(c, c) = GfAdd(GfMul(a, c), GfMul(b, c))
  BY <1>1, MulAddsLeft
<1>3. GfMul(a, c) = GfAdd(GfMul(a, a), m) /\ GfMul(b, c) = GfAdd(m, GfMul(b, b))
  BY <1>1, MulAddsRight
<1> HIDE DEF c, m
<1>4. GfAdd(GfAdd(GfMul(a, a), m), GfAdd(m, GfMul(b, b)))
        = GfAdd(GfMul(a, a), GfAdd(m, GfAdd(m, GfMul(b, b))))
  BY <1>1, AddAssociates, AddType
<1>5. GfAdd(m, GfAdd(m, GfMul(b, b))) = GfAdd(GfAdd(m, m), GfMul(b, b))
  BY <1>1, AddAssociates
<1>6. GfAdd(GfAdd(m, m), GfMul(b, b)) = GfMul(b, b)
  BY <1>1, AddNeutral
<1> QED
  BY <1>2, <1>3, <1>4, <1>5, <1>6 DEF Sq, c

(* Multiplying by a place is doubling as often as it takes.                  *)
LEMMA MulPowers ==
  ASSUME NEW a \in Byte
  PROVE  /\ GfMul(a, 2) = Doubled(a) /\ GfMul(a, 4) = Doubled(GfMul(a, 2))
         /\ GfMul(a, 8) = Doubled(GfMul(a, 4)) /\ GfMul(a, 16) = Doubled(GfMul(a, 8))
         /\ GfMul(a, 32) = Doubled(GfMul(a, 16)) /\ GfMul(a, 64) = Doubled(GfMul(a, 32))
         /\ GfMul(a, 128) = Doubled(GfMul(a, 64))
<1>1. GfMul(a, 1) = a /\ \A i \in 1..7 : GfMul(a, Places[i + 1]) = Doubled(GfMul(a, Places[i]))
  BY MulPlaces
<1>2. /\ GfMul(a, Places[1 + 1]) = Doubled(GfMul(a, Places[1]))
      /\ GfMul(a, Places[2 + 1]) = Doubled(GfMul(a, Places[2]))
      /\ GfMul(a, Places[3 + 1]) = Doubled(GfMul(a, Places[3]))
      /\ GfMul(a, Places[4 + 1]) = Doubled(GfMul(a, Places[4]))
      /\ GfMul(a, Places[5 + 1]) = Doubled(GfMul(a, Places[5]))
      /\ GfMul(a, Places[6 + 1]) = Doubled(GfMul(a, Places[6]))
      /\ GfMul(a, Places[7 + 1]) = Doubled(GfMul(a, Places[7]))
  BY <1>1
<1> QED
  BY <1>1, <1>2, PlaceValues

(* The bits of the bytes met in squaring the places.                         *)
LEMMA SomeBits ==
  /\ 27 \in Byte /\ Bit(27, 1) = 1 /\ Bit(27, 2) = 1 /\ Bit(27, 3) = 0 /\ Bit(27, 4) = 1
  /\ Bit(27, 5) = 1 /\ Bit(27, 6) = 0 /\ Bit(27, 7) = 0 /\ Bit(27, 8) = 0
  /\ 108 \in Byte /\ Bit(108, 1) = 0 /\ Bit(108, 2) = 0 /\ Bit(108, 3) = 1 /\ Bit(108, 4) = 1
  /\ Bit(108, 5) = 0 /\ Bit(108, 6) = 1 /\ Bit(108, 7) = 1 /\ Bit(108, 8) = 0
  /\ 216 \in Byte /\ Bit(216, 1) = 0 /\ Bit(216, 2) = 0 /\ Bit(216, 3) = 0 /\ Bit(216, 4) = 1
  /\ Bit(216, 5) = 1 /\ Bit(216, 6) = 0 /\ Bit(216, 7) = 1 /\ Bit(216, 8) = 1
  /\ 171 \in Byte /\ Bit(171, 1) = 1 /\ Bit(171, 2) = 1 /\ Bit(171, 3) = 0 /\ Bit(171, 4) = 1
  /\ Bit(171, 5) = 0 /\ Bit(171, 6) = 1 /\ Bit(171, 7) = 0 /\ Bit(171, 8) = 1
  /\ 154 \in Byte /\ Bit(154, 1) = 0 /\ Bit(154, 2) = 1 /\ Bit(154, 3) = 0 /\ Bit(154, 4) = 1
  /\ Bit(154, 5) = 1 /\ Bit(154, 6) = 0 /\ Bit(154, 7) = 0 /\ Bit(154, 8) = 1
<1>1. 27 = 1 + 2 * 1 + 4 * 0 + 8 * 1 + 16 * 1 + 32 * 0 + 64 * 0 + 128 * 0
  OBVIOUS
<1>2. 108 = 0 + 2 * 0 + 4 * 1 + 8 * 1 + 16 * 0 + 32 * 1 + 64 * 1 + 128 * 0
  OBVIOUS
<1>3. 216 = 0 + 2 * 0 + 4 * 0 + 8 * 1 + 16 * 1 + 32 * 0 + 64 * 1 + 128 * 1
  OBVIOUS
<1>4. 171 = 1 + 2 * 1 + 4 * 0 + 8 * 1 + 16 * 0 + 32 * 1 + 64 * 0 + 128 * 1
  OBVIOUS
<1>5. 154 = 0 + 2 * 1 + 4 * 0 + 8 * 1 + 16 * 1 + 32 * 0 + 64 * 0 + 128 * 1
  OBVIOUS
<1>6. /\ 27 \in Byte /\ Bit(27, 1) = 1 /\ Bit(27, 2) = 1 /\ Bit(27, 3) = 0 /\ Bit(27, 4) = 1
      /\ Bit(27, 5) = 1 /\ Bit(27, 6) = 0 /\ Bit(27, 7) = 0 /\ Bit(27, 8) = 0
  BY <1>1, BitsOfSum
<1>7. /\ 108 \in Byte /\ Bit(108, 1) = 0 /\ Bit(108, 2) = 0 /\ Bit(108, 3) = 1
      /\ Bit(108, 4) = 1 /\ Bit(108, 5) = 0 /\ Bit(108, 6) = 1 /\ Bit(108, 7) = 1
      /\ Bit(108, 8) = 0
  BY <1>2, BitsOfSum
<1>8. /\ 216 \in Byte /\ Bit(216, 1) = 0 /\ Bit(216, 2) = 0 /\ Bit(216, 3) = 0
      /\ Bit(216, 4) = 1 /\ Bit(216, 5) = 1 /\ Bit(216, 6) = 0 /\ Bit(216, 7) = 1
      /\ Bit(216, 8) = 1
  BY <1>3, BitsOfSum
<1>9. /\ 171 \in Byte /\ Bit(171, 1) = 1 /\ Bit(171, 2) = 1 /\ Bit(171, 3) = 0
      /\ Bit(171, 4) = 1 /\ Bit(171, 5) = 0 /\ Bit(171, 6) = 1 /\ Bit(171, 7) = 0
      /\ Bit(171, 8) = 1
  BY <1>4, BitsOfSum
<1>10. /\ 154 \in Byte /\ Bit(154, 1) = 0 /\ Bit(154, 2) = 1 /\ Bit(154, 3) = 0
       /\ Bit(154, 4) = 1 /\ Bit(154, 5) = 1 /\ Bit(154, 6) = 0 /\ Bit(154, 7) = 0
       /\ Bit(154, 8) = 1
  BY <1>5, BitsOfSum
<1> QED
  BY <1>6, <1>7, <1>8, <1>9, <1>10

(* What doubling makes of them.                                              *)
LEMMA DoubledMore ==
  /\ Doubled(27) = 54 /\ Doubled(54) = 108 /\ Doubled(108) = 216
  /\ Doubled(216) = 171 /\ Doubled(171) = 77 /\ Doubled(77) = 154
<1>1. Doubled(27) = 54 /\ Doubled(54) = 108 /\ Doubled(108) = 216 /\ Doubled(77) = 154
  BY DEF Doubled
<1>2. Doubled(216) = 171
  <2>1. Doubled(216) \in Byte /\ 216 \in Byte /\ 171 \in Byte
    BY SomeBits, DoubledType
  <2>2. /\ Bit(Doubled(216), 1) = 1 /\ Bit(Doubled(216), 2) = 1 /\ Bit(Doubled(216), 3) = 0
        /\ Bit(Doubled(216), 4) = 1 /\ Bit(Doubled(216), 5) = 0 /\ Bit(Doubled(216), 6) = 1
        /\ Bit(Doubled(216), 7) = 0 /\ Bit(Doubled(216), 8) = 1
    BY <2>1, SomeBits, DoubledBits
  <2> QED  BY <2>1, <2>2, BitValues
<1>3. Doubled(171) = 77
  <2>1. Doubled(171) \in Byte /\ 171 \in Byte
    BY SomeBits, DoubledType
  <2>2. /\ Bit(Doubled(171), 1) = 1 /\ Bit(Doubled(171), 2) = 0 /\ Bit(Doubled(171), 3) = 1
        /\ Bit(Doubled(171), 4) = 1 /\ Bit(Doubled(171), 5) = 0 /\ Bit(Doubled(171), 6) = 0
        /\ Bit(Doubled(171), 7) = 1 /\ Bit(Doubled(171), 8) = 0
    BY <2>1, SomeBits, DoubledBits
  <2> QED  BY <2>1, <2>2, BitValues
<1> QED
  BY <1>1, <1>2, <1>3

(* The squares of the eight places.                                          *)
LEMMA SqOfPlaces ==
  /\ Sq(1) = 1 /\ Sq(2) = 4 /\ Sq(4) = 16 /\ Sq(8) = 64
  /\ Sq(16) = 27 /\ Sq(32) = 108 /\ Sq(64) = 171 /\ Sq(128) = 154
<1>1. Sq(1) = 1
  BY SomeBytes, MulOne DEF Sq
<1>2. GfMul(2, 2) = 4
  BY SomeBytes, MulPowers, DoubledOnes
<1>3. GfMul(4, 2) = 8 /\ GfMul(4, 4) = 16
  BY SomeBytes, MulPowers, DoubledOnes
<1>4. GfMul(8, 2) = 16 /\ GfMul(8, 4) = 32 /\ GfMul(8, 8) = 64
  BY SomeBytes, MulPowers, DoubledOnes
<1>5. GfMul(16, 2) = 32 /\ GfMul(16, 4) = 64 /\ GfMul(16, 8) = 128 /\ GfMul(16, 16) = 27
  BY SomeBytes, MulPowers, DoubledOnes
<1>6. /\ GfMul(32, 2) = 64 /\ GfMul(32, 4) = 128 /\ GfMul(32, 8) = 27 /\ GfMul(32, 16) = 54
      /\ GfMul(32, 32) = 108
  BY SomeBytes, MulPowers, DoubledOnes, DoubledMore
<1>7. /\ GfMul(64, 2) = 128 /\ GfMul(64, 4) = 27 /\ GfMul(64, 8) = 54 /\ GfMul(64, 16) = 108
      /\ GfMul(64, 32) = 216 /\ GfMul(64, 64) = 171
  BY SomeBytes, MulPowers, DoubledOnes, DoubledMore
<1>8. /\ GfMul(128, 2) = 27 /\ GfMul(128, 4) = 54 /\ GfMul(128, 8) = 108 /\ GfMul(128, 16) = 216
      /\ GfMul(128, 32) = 171 /\ GfMul(128, 64) = 77 /\ GfMul(128, 128) = 154
  BY SomeBytes, MulPowers, DoubledOnes, DoubledMore
<1> QED
  BY <1>1, <1>2, <1>3, <1>4, <1>5, <1>6, <1>7, <1>8 DEF Sq

(* The bits of a square.                                                     *)
SqBits(a, s) ==
  /\ Bit(s, 1) = (Bit(a, 1) + Bit(a, 5) + Bit(a, 7)) % 2
  /\ Bit(s, 2) = (Bit(a, 5) + Bit(a, 7) + Bit(a, 8)) % 2
  /\ Bit(s, 3) = (Bit(a, 2) + Bit(a, 6)) % 2
  /\ Bit(s, 4) = (Bit(a, 5) + Bit(a, 6) + Bit(a, 7) + Bit(a, 8)) % 2
  /\ Bit(s, 5) = (Bit(a, 3) + Bit(a, 5) + Bit(a, 8)) % 2
  /\ Bit(s, 6) = (Bit(a, 6) + Bit(a, 7)) % 2
  /\ Bit(s, 7) = (Bit(a, 4) + Bit(a, 6)) % 2
  /\ Bit(s, 8) = (Bit(a, 7) + Bit(a, 8)) % 2

(* The bits of the eight places, one by one.                                 *)
LEMMA PlaceBitsEach ==
  /\ \A j \in 1..8 : Bit(1, j) = IF j = 1 THEN 1 ELSE 0
  /\ \A j \in 1..8 : Bit(2, j) = IF j = 2 THEN 1 ELSE 0
  /\ \A j \in 1..8 : Bit(4, j) = IF j = 3 THEN 1 ELSE 0
  /\ \A j \in 1..8 : Bit(8, j) = IF j = 4 THEN 1 ELSE 0
  /\ \A j \in 1..8 : Bit(16, j) = IF j = 5 THEN 1 ELSE 0
  /\ \A j \in 1..8 : Bit(32, j) = IF j = 6 THEN 1 ELSE 0
  /\ \A j \in 1..8 : Bit(64, j) = IF j = 7 THEN 1 ELSE 0
  /\ \A j \in 1..8 : Bit(128, j) = IF j = 8 THEN 1 ELSE 0
BY PlaceBits, PlaceValues

(* SqBits holds of the places.                                               *)
LEMMA SqBitsOfPlaces ==
  \A i \in 1..8 : SqBits(Places[i], Sq(Places[i]))
<1>1. SqBits(1, 1)
  BY PlaceBitsEach DEF SqBits
<1>2. SqBits(2, 4)
  BY PlaceBitsEach DEF SqBits
<1>3. SqBits(4, 16)
  BY PlaceBitsEach DEF SqBits
<1>4. SqBits(8, 64)
  BY PlaceBitsEach DEF SqBits
<1>5. SqBits(16, 27)
  BY PlaceBitsEach, SomeBits DEF SqBits
<1>6. SqBits(32, 108)
  BY PlaceBitsEach, SomeBits DEF SqBits
<1>7. SqBits(64, 171)
  BY PlaceBitsEach, SomeBits DEF SqBits
<1>8. SqBits(128, 154)
  BY PlaceBitsEach, SomeBits DEF SqBits
<1>9. ASSUME NEW i \in 1..8 PROVE SqBits(Places[i], Sq(Places[i]))
  <2>1. i = 1 \/ i = 2 \/ i = 3 \/ i = 4 \/ i = 5 \/ i = 6 \/ i = 7 \/ i = 8
    OBVIOUS
  <2> QED  BY <1>1, <1>2, <1>3, <1>4, <1>5, <1>6, <1>7, <1>8, <2>1, PlaceValues, SqOfPlaces
<1> QED
  BY <1>9

(* AddBits, bit by bit.                                                      *)
LEMMA BitOfSums ==
  ASSUME NEW a \in Byte, NEW b \in Byte
  PROVE  LET c == GfAdd(a, b) IN
         /\ Bit(c, 1) = (Bit(a, 1) + Bit(b, 1)) % 2 /\ Bit(c, 2) = (Bit(a, 2) + Bit(b, 2)) % 2
         /\ Bit(c, 3) = (Bit(a, 3) + Bit(b, 3)) % 2 /\ Bit(c, 4) = (Bit(a, 4) + Bit(b, 4)) % 2
         /\ Bit(c, 5) = (Bit(a, 5) + Bit(b, 5)) % 2 /\ Bit(c, 6) = (Bit(a, 6) + Bit(b, 6)) % 2
         /\ Bit(c, 7) = (Bit(a, 7) + Bit(b, 7)) % 2 /\ Bit(c, 8) = (Bit(a, 8) + Bit(b, 8)) % 2
BY AddBits

(* The bits of a byte, one by one.                                           *)
LEMMA BitsAre ==
  ASSUME NEW a \in Byte
  PROVE  /\ Bit(a, 1) \in {0, 1} /\ Bit(a, 2) \in {0, 1} /\ Bit(a, 3) \in {0, 1}
         /\ Bit(a, 4) \in {0, 1} /\ Bit(a, 5) \in {0, 1} /\ Bit(a, 6) \in {0, 1}
         /\ Bit(a, 7) \in {0, 1} /\ Bit(a, 8) \in {0, 1}
BY BitValues

(* And of every byte, as every byte is a sum of places.                      *)
LEMMA SqHasBits ==
  ASSUME NEW a \in Byte
  PROVE  SqBits(a, Sq(a))
<1> DEFINE T == {x \in Byte : SqBits(x, Sq(x))}
<1>1. \A i \in 1..8 : Places[i] \in T
  BY PlaceBits, SqBitsOfPlaces
<1>2. ASSUME NEW x \in Byte, NEW y \in Byte, SqBits(x, Sq(x)), SqBits(y, Sq(y))
      PROVE  SqBits(GfAdd(x, y), Sq(GfAdd(x, y)))
  <2> DEFINE z == GfAdd(x, y)
             s == Sq(x)
             t == Sq(y)
             u == GfAdd(s, t)
  <2>1. Sq(z) = u
    BY SqAdds
  <2>2. s \in Byte /\ t \in Byte
    BY SqType
  <2>3. /\ Bit(z, 1) = (Bit(x, 1) + Bit(y, 1)) % 2 /\ Bit(z, 2) = (Bit(x, 2) + Bit(y, 2)) % 2
        /\ Bit(z, 3) = (Bit(x, 3) + Bit(y, 3)) % 2 /\ Bit(z, 4) = (Bit(x, 4) + Bit(y, 4)) % 2
        /\ Bit(z, 5) = (Bit(x, 5) + Bit(y, 5)) % 2 /\ Bit(z, 6) = (Bit(x, 6) + Bit(y, 6)) % 2
        /\ Bit(z, 7) = (Bit(x, 7) + Bit(y, 7)) % 2 /\ Bit(z, 8) = (Bit(x, 8) + Bit(y, 8)) % 2
    BY BitOfSums
  <2> HIDE DEF s, t
  <2>4. /\ Bit(u, 1) = (Bit(s, 1) + Bit(t, 1)) % 2 /\ Bit(u, 2) = (Bit(s, 2) + Bit(t, 2)) % 2
        /\ Bit(u, 3) = (Bit(s, 3) + Bit(t, 3)) % 2 /\ Bit(u, 4) = (Bit(s, 4) + Bit(t, 4)) % 2
        /\ Bit(u, 5) = (Bit(s, 5) + Bit(t, 5)) % 2 /\ Bit(u, 6) = (Bit(s, 6) + Bit(t, 6)) % 2
        /\ Bit(u, 7) = (Bit(s, 7) + Bit(t, 7)) % 2 /\ Bit(u, 8) = (Bit(s, 8) + Bit(t, 8)) % 2
    BY <2>2, BitOfSums
  <2>5. SqBits(x, s) /\ SqBits(y, t)
    BY <1>2 DEF s, t
  <2>6. /\ Bit(x, 1) \in {0, 1} /\ Bit(x, 2) \in {0, 1} /\ Bit(x, 3) \in {0, 1}
        /\ Bit(x, 4) \in {0, 1} /\ Bit(x, 5) \in {0, 1} /\ Bit(x, 6) \in {0, 1}
        /\ Bit(x, 7) \in {0, 1} /\ Bit(x, 8) \in {0, 1}
    BY BitsAre
  <2>7. /\ Bit(y, 1) \in {0, 1} /\ Bit(y, 2) \in {0, 1} /\ Bit(y, 3) \in {0, 1}
        /\ Bit(y, 4) \in {0, 1} /\ Bit(y, 5) \in {0, 1} /\ Bit(y, 6) \in {0, 1}
        /\ Bit(y, 7) \in {0, 1} /\ Bit(y, 8) \in {0, 1}
    BY BitsAre
  <2> HIDE DEF z, u
  <2>8. SqBits(z, u)
    <3>1. Bit(u, 1) = (Bit(z, 1) + Bit(z, 5) + Bit(z, 7)) % 2
      BY <2>3, <2>4, <2>5, <2>6, <2>7 DEF SqBits
    <3>2. Bit(u, 2) = (Bit(z, 5) + Bit(z, 7) + Bit(z, 8)) % 2
      BY <2>3, <2>4, <2>5, <2>6, <2>7 DEF SqBits
    <3>3. Bit(u, 3) = (Bit(z, 2) + Bit(z, 6)) % 2
      BY <2>3, <2>4, <2>5, <2>6, <2>7 DEF SqBits
    <3>4. Bit(u, 4) = (Bit(z, 5) + Bit(z, 6) + Bit(z, 7) + Bit(z, 8)) % 2
      BY <2>3, <2>4, <2>5, <2>6, <2>7 DEF SqBits
    <3>5. Bit(u, 5) = (Bit(z, 3) + Bit(z, 5) + Bit(z, 8)) % 2
      BY <2>3, <2>4, <2>5, <2>6, <2>7 DEF SqBits
    <3>6. Bit(u, 6) = (Bit(z, 6) + Bit(z, 7)) % 2
      BY <2>3, <2>4, <2>5, <2>6, <2>7 DEF SqBits
    <3>7. Bit(u, 7) = (Bit(z, 4) + Bit(z, 6)) % 2
      BY <2>3, <2>4, <2>5, <2>6, <2>7 DEF SqBits
    <3>8. Bit(u, 8) = (Bit(z, 7) + Bit(z, 8)) % 2
      BY <2>3, <2>4, <2>5, <2>6, <2>7 DEF SqBits
    <3> QED  BY <3>1, <3>2, <3>3, <3>4, <3>5, <3>6, <3>7, <3>8 DEF SqBits
  <2> QED  BY <2>1, <2>8 DEF z
<1>3. \A x, y \in Byte : x \in T /\ y \in T => GfAdd(x, y) \in T
  BY <1>2, AddType
<1>4. Byte \subseteq T
  <2> HIDE DEF T
  <2> QED  BY <1>1, <1>3, PlacesSpan
<1> QED
  BY <1>4

(* Only 0 and 1 are their own squares.                                       *)
LEMMA OwnSquares ==
  ASSUME NEW a \in Byte, Sq(a) = a
  PROVE  a = 0 \/ a = 1
<1>1. SqBits(a, a)
  BY SqHasBits
<1>2. /\ Bit(a, 1) \in {0, 1} /\ Bit(a, 2) \in {0, 1} /\ Bit(a, 3) \in {0, 1}
      /\ Bit(a, 4) \in {0, 1} /\ Bit(a, 5) \in {0, 1} /\ Bit(a, 6) \in {0, 1}
      /\ Bit(a, 7) \in {0, 1} /\ Bit(a, 8) \in {0, 1}
  BY BitsAre
<1>3. /\ Bit(a, 2) = 0 /\ Bit(a, 3) = 0 /\ Bit(a, 4) = 0 /\ Bit(a, 5) = 0
      /\ Bit(a, 6) = 0 /\ Bit(a, 7) = 0 /\ Bit(a, 8) = 0
  BY <1>1, <1>2 DEF SqBits
<1> QED
  BY <1>2, <1>3, BitValues

(* The bytes are the roots of x to the 256 minus x.                          *)
LEMMA EightSquares ==
  ASSUME NEW a \in Byte
  PROVE  Sq(Sq(Sq(Sq(Sq(Sq(Sq(Sq(a)))))))) = a
<1> DEFINE All(x) == Sq(Sq(Sq(Sq(Sq(Sq(Sq(Sq(x))))))))
           T == {x \in Byte : All(x) = x}
<1>1. ASSUME NEW x \in Byte, NEW y \in Byte
      PROVE  All(GfAdd(x, y)) = GfAdd(All(x), All(y))
  BY SqAdds, SqType
<1>2. ASSUME NEW x \in Byte, NEW y \in Byte
      PROVE  All(GfMul(x, y)) = GfMul(All(x), All(y))
  BY SqMultiplies, SqType
<1>3. All(1) = 1
  BY SqOfPlaces
<1>4. All(2) = 2
  <2> DEFINE s3 == Sq(16)
             s4 == Sq(s3)
             s5 == Sq(s4)
             s6 == Sq(s5)
             s7 == Sq(s6)
             s8 == Sq(s7)
  <2>1. All(2) = s8 /\ s3 = 27
    BY SqOfPlaces
  <2>2. s4 \in Byte /\ s5 \in Byte /\ s6 \in Byte /\ s7 \in Byte /\ s8 \in Byte
    BY SomeBytes, SqType
  <2>3. SqBits(27, s4) /\ SqBits(s4, s5) /\ SqBits(s5, s6) /\ SqBits(s6, s7) /\ SqBits(s7, s8)
    BY <2>1, <2>2, SomeBits, SqHasBits
  <2> HIDE DEF s3, s4, s5, s6, s7, s8
  <2>4. /\ Bit(s4, 1) = 0 /\ Bit(s4, 2) = 1 /\ Bit(s4, 3) = 1 /\ Bit(s4, 4) = 1
        /\ Bit(s4, 5) = 1 /\ Bit(s4, 6) = 0 /\ Bit(s4, 7) = 1 /\ Bit(s4, 8) = 0
    BY <2>3, SomeBits DEF SqBits
  <2>5. /\ Bit(s5, 1) = 0 /\ Bit(s5, 2) = 0 /\ Bit(s5, 3) = 1 /\ Bit(s5, 4) = 0
        /\ Bit(s5, 5) = 0 /\ Bit(s5, 6) = 1 /\ Bit(s5, 7) = 1 /\ Bit(s5, 8) = 1
    BY <2>3, <2>4 DEF SqBits
  <2>6. /\ Bit(s6, 1) = 1 /\ Bit(s6, 2) = 0 /\ Bit(s6, 3) = 1 /\ Bit(s6, 4) = 1
        /\ Bit(s6, 5) = 0 /\ Bit(s6, 6) = 0 /\ Bit(s6, 7) = 1 /\ Bit(s6, 8) = 0
    BY <2>3, <2>5 DEF SqBits
  <2>7. /\ Bit(s7, 1) = 0 /\ Bit(s7, 2) = 1 /\ Bit(s7, 3) = 0 /\ Bit(s7, 4) = 1
        /\ Bit(s7, 5) = 1 /\ Bit(s7, 6) = 1 /\ Bit(s7, 7) = 1 /\ Bit(s7, 8) = 1
    BY <2>3, <2>6 DEF SqBits
  <2>8. /\ Bit(s8, 1) = 0 /\ Bit(s8, 2) = 1 /\ Bit(s8, 3) = 0 /\ Bit(s8, 4) = 0
        /\ Bit(s8, 5) = 0 /\ Bit(s8, 6) = 0 /\ Bit(s8, 7) = 0 /\ Bit(s8, 8) = 0
    BY <2>3, <2>7 DEF SqBits
  <2>9. s8 = 2
    BY <2>2, <2>8, BitValues
  <2> HIDE DEF All
  <2> QED  BY <2>1, <2>9
<1> HIDE DEF All
<1>5. 1 \in T
  BY <1>3, SomeBytes
<1>6. ASSUME NEW x \in Byte, x \in T PROVE Doubled(x) \in T
  <2>1. 2 \in Byte /\ GfMul(x, 2) = Doubled(x) /\ Doubled(x) \in Byte
    BY SomeBytes, MulPowers, DoubledType
  <2>2. All(GfMul(x, 2)) = GfMul(All(x), All(2))
    BY <1>2, <2>1
  <2> QED  BY <1>4, <1>6, <2>1, <2>2
<1>7. \A x, y \in Byte : x \in T /\ y \in T => GfAdd(x, y) \in T
  BY <1>1, AddType
<1>8. Byte \subseteq T
  <2>1. \A x \in Byte : x \in T => Doubled(x) \in T
    BY <1>6
  <2> HIDE DEF T
  <2> QED  BY <1>5, <1>7, <2>1, DoublingSpans
<1> QED
  BY <1>8 DEF All

-----------------------------------------------------------------------------
(* Inverses *)

(* Three factors in other orders.                                            *)
LEMMA MulSwap ==
  ASSUME NEW a \in Byte, NEW b \in Byte, NEW c \in Byte
  PROVE  /\ GfMul(GfMul(a, b), c) = GfMul(b, GfMul(a, c))
         /\ GfMul(a, GfMul(b, c)) = GfMul(GfMul(a, b), c)
<1>1. GfMul(a, b) = GfMul(b, a) /\ GfMul(GfMul(b, a), c) = GfMul(b, GfMul(a, c))
  BY MulCommutes, MulAssociates
<1> QED
  BY <1>1, MulAssociates

(* What is not 0 has an inverse: its 254th power.                            *)
LEMMA HasInverse ==
  ASSUME NEW a \in Byte, a # 0
  PROVE  \E i \in Byte : GfMul(a, i) = 1
<1> DEFINE s1 == Sq(a)  s2 == Sq(s1)  s3 == Sq(s2)  s4 == Sq(s3)
           s5 == Sq(s4)  s6 == Sq(s5)  s7 == Sq(s6)
           t6 == GfMul(s6, s7)  t5 == GfMul(s5, t6)  t4 == GfMul(s4, t5)
           t3 == GfMul(s3, t4)  t2 == GfMul(s2, t3)  t1 == GfMul(s1, t2)
           e == GfMul(a, t1)
<1>1. /\ s1 \in Byte /\ s2 \in Byte /\ s3 \in Byte /\ s4 \in Byte
      /\ s5 \in Byte /\ s6 \in Byte /\ s7 \in Byte
  BY SqType
<1>2. /\ Sq(a) = s1 /\ Sq(s1) = s2 /\ Sq(s2) = s3 /\ Sq(s3) = s4 /\ Sq(s4) = s5
      /\ Sq(s5) = s6 /\ Sq(s6) = s7
  OBVIOUS
<1>3. Sq(s7) = a
  BY EightSquares
<1> HIDE DEF s1, s2, s3, s4, s5, s6, s7
<1>4. /\ t6 \in Byte /\ t5 \in Byte /\ t4 \in Byte /\ t3 \in Byte /\ t2 \in Byte
      /\ t1 \in Byte /\ e \in Byte
  BY <1>1, MulType
<1>5. /\ t6 = GfMul(s6, s7) /\ t5 = GfMul(s5, t6) /\ t4 = GfMul(s4, t5)
      /\ t3 = GfMul(s3, t4) /\ t2 = GfMul(s2, t3) /\ t1 = GfMul(s1, t2) /\ e = GfMul(a, t1)
  OBVIOUS
<1> HIDE DEF t1, t2, t3, t4, t5, t6, e
<1>6. Sq(e) = e
  <2>1. Sq(t6) = GfMul(s7, a)
    BY <1>1, <1>2, <1>3, <1>5, SqMultiplies
  <2>2. Sq(t5) = GfMul(t6, a)
    <3>1. Sq(t5) = GfMul(s6, GfMul(s7, a))
      BY <1>1, <1>2, <1>4, <1>5, <2>1, SqMultiplies
    <3> QED  BY <1>1, <1>5, <3>1, MulSwap
  <2>3. Sq(t4) = GfMul(t5, a)
    <3>1. Sq(t4) = GfMul(s5, GfMul(t6, a))
      BY <1>1, <1>2, <1>4, <1>5, <2>2, SqMultiplies
    <3> QED  BY <1>1, <1>4, <1>5, <3>1, MulSwap
  <2>4. Sq(t3) = GfMul(t4, a)
    <3>1. Sq(t3) = GfMul(s4, GfMul(t5, a))
      BY <1>1, <1>2, <1>4, <1>5, <2>3, SqMultiplies
    <3> QED  BY <1>1, <1>4, <1>5, <3>1, MulSwap
  <2>5. Sq(t2) = GfMul(t3, a)
    <3>1. Sq(t2) = GfMul(s3, GfMul(t4, a))
      BY <1>1, <1>2, <1>4, <1>5, <2>4, SqMultiplies
    <3> QED  BY <1>1, <1>4, <1>5, <3>1, MulSwap
  <2>6. Sq(t1) = GfMul(t2, a)
    <3>1. Sq(t1) = GfMul(s2, GfMul(t3, a))
      BY <1>1, <1>2, <1>4, <1>5, <2>5, SqMultiplies
    <3> QED  BY <1>1, <1>4, <1>5, <3>1, MulSwap
  <2>7. Sq(e) = GfMul(s1, GfMul(t2, a))
    BY <1>1, <1>2, <1>4, <1>5, <2>6, SqMultiplies
  <2>8. GfMul(s1, GfMul(t2, a)) = GfMul(t1, a)
    BY <1>1, <1>4, <1>5, MulSwap
  <2> QED  BY <1>4, <1>5, <2>7, <2>8, MulCommutes
<1>7. GfMul(e, a) = a
  <2>1. GfMul(s7, s7) = a /\ GfMul(s6, s6) = s7 /\ GfMul(s5, s5) = s6 /\ GfMul(s4, s4) = s5
        /\ GfMul(s3, s3) = s4 /\ GfMul(s2, s2) = s3 /\ GfMul(s1, s1) = s2 /\ GfMul(a, a) = s1
    BY <1>2, <1>3 DEF Sq
  <2>2. GfMul(t6, s6) = GfMul(s7, s7)
    BY <1>1, <1>5, <2>1, MulSwap
  <2>3. GfMul(t5, s5) = GfMul(t6, s6)
    BY <1>1, <1>4, <1>5, <2>1, MulSwap
  <2>4. GfMul(t4, s4) = GfMul(t5, s5)
    BY <1>1, <1>4, <1>5, <2>1, MulSwap
  <2>5. GfMul(t3, s3) = GfMul(t4, s4)
    BY <1>1, <1>4, <1>5, <2>1, MulSwap
  <2>6. GfMul(t2, s2) = GfMul(t3, s3)
    BY <1>1, <1>4, <1>5, <2>1, MulSwap
  <2>7. GfMul(t1, s1) = GfMul(t2, s2)
    BY <1>1, <1>4, <1>5, <2>1, MulSwap
  <2>8. GfMul(e, a) = GfMul(t1, s1)
    BY <1>1, <1>4, <1>5, <2>1, MulSwap
  <2> QED  BY <2>1, <2>2, <2>3, <2>4, <2>5, <2>6, <2>7, <2>8
<1>8. e = 0 \/ e = 1
  BY <1>4, <1>6, OwnSquares
<1>9. e # 0
  BY <1>7, MulZero
<1> QED
  BY <1>4, <1>5, <1>8, <1>9

(* GfInv, what gf_inv() returns, is that inverse.                            *)
LEMMA InverseIs ==
  ASSUME NEW a \in Byte, a # 0
  PROVE  /\ GfInv(a) \in Byte /\ GfInv(a) # 0 /\ GfMul(a, GfInv(a)) = 1
<1>1. PICK i \in Byte : GfMul(a, i) = 1
  BY HasInverse
<1>2. i # 0
  BY <1>1, MulZero
<1>3. \A j : j \in 1..255 <=> j \in Byte /\ j # 0
  BY DEF Byte
<1>4. \E j \in 1..255 : GfMul(a, j) = 1
  BY <1>1, <1>2, <1>3
<1>5. GfInv(a) \in 1..255 /\ GfMul(a, GfInv(a)) = 1
  <2>1. GfInv(a) = CHOOSE j \in 1..255 : GfMul(a, j) = 1
    BY DEF GfInv
  <2> QED  BY <1>4, <2>1, Zenon
<1> QED
  BY <1>3, <1>5

(* There are no divisors of zero.                                            *)
LEMMA NoZeroDivisors ==
  ASSUME NEW a \in Byte, a # 0, NEW b \in Byte, NEW c \in Byte, GfMul(a, b) = GfMul(a, c)
  PROVE  b = c
<1> DEFINE i == GfInv(a)
<1>1. i \in Byte /\ GfMul(a, i) = 1 /\ GfMul(i, a) = 1
  BY InverseIs, MulCommutes
<1>2. GfMul(i, GfMul(a, b)) = b
  BY <1>1, MulSwap, MulOne
<1>3. GfMul(i, GfMul(a, c)) = c
  BY <1>1, MulSwap, MulOne
<1> QED
  BY <1>2, <1>3

-----------------------------------------------------------------------------
(* Sums and products of as many bytes *)

Sums(f) == LET s[n \in Nat] == IF n = 0 THEN 0 ELSE GfAdd(s[n - 1], f[n]) IN s
Products(f) == LET s[n \in Nat] == IF n = 0 THEN 1 ELSE GfMul(s[n - 1], f[n]) IN s

(* What the sums are, from one to the next.                                  *)
LEMMA SumsAre ==
  ASSUME NEW f \in [Nat -> Byte]
  PROVE  /\ Sums(f)[0] = 0
         /\ \A n \in Nat : /\ Sums(f)[n] \in Byte
                           /\ Sums(f)[n + 1] = GfAdd(Sums(f)[n], f[n + 1])
<1> DEFINE step == [n \in Nat |-> [v \in Byte |-> GfAdd(v, f[n])]]
           S == Sums(f)
<1>1. step \in [Nat -> [Byte -> Byte]]
  BY AddType
<1>2. PICK g \in [Nat -> Byte] : Iterates(g, Nat, 0, step)
  <2> HIDE DEF step
  <2> QED  BY <1>1, SomeBytes, Recursion
<1>3. ASSUME NEW n \in Nat
      PROVE  g[n] = IF n = 0 THEN 0 ELSE GfAdd(g[n - 1], f[n])
  <2>1. g[n] = IF n = 0 THEN 0 ELSE step[n][g[n - 1]]
    BY <1>2 DEF Iterates
  <2>2. n # 0 => step[n][g[n - 1]] = GfAdd(g[n - 1], f[n])
    OBVIOUS
  <2> QED  BY <2>1, <2>2
<1>4. g = [n \in Nat |-> IF n = 0 THEN 0 ELSE GfAdd(g[n - 1], f[n])]
  BY <1>3
<1>5. S = [n \in Nat |-> IF n = 0 THEN 0 ELSE GfAdd(S[n - 1], f[n])]
  <2> HIDE DEF step
  <2> QED  BY <1>4 DEF Sums
<1> HIDE DEF S, step
<1>6. S[0] = 0
  BY <1>5
<1>7. ASSUME NEW n \in Nat PROVE S[n + 1] = GfAdd(S[n], f[n + 1])
  <2>1. n + 1 \in Nat /\ n + 1 # 0 /\ (n + 1) - 1 = n
    OBVIOUS
  <2> QED  BY <1>5, <2>1
<1> DEFINE T == {n \in Nat : S[n] \in Byte}
<1>8. T = Nat
  <2>1. T \in SUBSET Nat /\ 0 \in T
    BY <1>6, SomeBytes
  <2>2. ASSUME NEW n \in T PROVE n + 1 \in T
    <3>1. n \in Nat /\ S[n] \in Byte /\ n + 1 \in Nat
      OBVIOUS
    <3>2. f[n + 1] \in Byte
      BY <3>1
    <3>3. S[n + 1] \in Byte
      BY <1>7, <3>1, <3>2, AddType
    <3> QED  BY <3>1, <3>3
  <2> HIDE DEF T
  <2> QED  BY <2>1, <2>2, NatSet
<1>9. \A n \in Nat : S[n] \in Byte
  <2>1. \A n \in T : S[n] \in Byte
    OBVIOUS
  <2> HIDE DEF T
  <2> QED  BY <1>8, <2>1
<1> HIDE DEF T
<1> QED
  BY <1>6, <1>7, <1>9 DEF S

(* What the products are, from one to the next.                              *)
LEMMA ProductsAre ==
  ASSUME NEW f \in [Nat -> Byte]
  PROVE  /\ Products(f)[0] = 1
         /\ \A n \in Nat : /\ Products(f)[n] \in Byte
                           /\ Products(f)[n + 1] = GfMul(Products(f)[n], f[n + 1])
<1> DEFINE step == [n \in Nat |-> [v \in Byte |-> GfMul(v, f[n])]]
           S == Products(f)
<1>1. step \in [Nat -> [Byte -> Byte]]
  BY MulType
<1>2. PICK g \in [Nat -> Byte] : Iterates(g, Nat, 1, step)
  <2> HIDE DEF step
  <2> QED  BY <1>1, SomeBytes, Recursion
<1>3. ASSUME NEW n \in Nat
      PROVE  g[n] = IF n = 0 THEN 1 ELSE GfMul(g[n - 1], f[n])
  <2>1. g[n] = IF n = 0 THEN 1 ELSE step[n][g[n - 1]]
    BY <1>2 DEF Iterates
  <2>2. n # 0 => step[n][g[n - 1]] = GfMul(g[n - 1], f[n])
    OBVIOUS
  <2> QED  BY <2>1, <2>2
<1>4. g = [n \in Nat |-> IF n = 0 THEN 1 ELSE GfMul(g[n - 1], f[n])]
  BY <1>3
<1>5. S = [n \in Nat |-> IF n = 0 THEN 1 ELSE GfMul(S[n - 1], f[n])]
  <2> HIDE DEF step
  <2> QED  BY <1>4 DEF Products
<1> HIDE DEF S, step
<1>6. S[0] = 1
  BY <1>5
<1>7. ASSUME NEW n \in Nat PROVE S[n + 1] = GfMul(S[n], f[n + 1])
  <2>1. n + 1 \in Nat /\ n + 1 # 0 /\ (n + 1) - 1 = n
    OBVIOUS
  <2> QED  BY <1>5, <2>1
<1> DEFINE T == {n \in Nat : S[n] \in Byte}
<1>8. T = Nat
  <2>1. T \in SUBSET Nat /\ 0 \in T
    BY <1>6, SomeBytes
  <2>2. ASSUME NEW n \in T PROVE n + 1 \in T
    <3>1. n \in Nat /\ S[n] \in Byte /\ n + 1 \in Nat
      OBVIOUS
    <3>2. f[n + 1] \in Byte
      BY <3>1
    <3>3. S[n + 1] \in Byte
      BY <1>7, <3>1, <3>2, MulType
    <3> QED  BY <3>1, <3>3
  <2> HIDE DEF T
  <2> QED  BY <2>1, <2>2, NatSet
<1>9. \A n \in Nat : S[n] \in Byte
  <2>1. \A n \in T : S[n] \in Byte
    OBVIOUS
  <2> HIDE DEF T
  <2> QED  BY <1>8, <2>1
<1> HIDE DEF T
<1> QED
  BY <1>6, <1>7, <1>9 DEF S

(* Only the terms up to the last one count.                                  *)
LEMMA SameSums ==
  ASSUME NEW f \in [Nat -> Byte], NEW g \in [Nat -> Byte], NEW n \in Nat,
         \A i \in 1..n : f[i] = g[i]
  PROVE  Sums(f)[n] = Sums(g)[n]
<1> DEFINE T == {k \in Nat : k <= n => Sums(f)[k] = Sums(g)[k]}
<1>1. T \in SUBSET Nat /\ 0 \in T
  BY SumsAre
<1>2. ASSUME NEW k \in T PROVE k + 1 \in T
  <2>1. k \in Nat /\ k + 1 \in Nat
    OBVIOUS
  <2>2. ASSUME k + 1 <= n PROVE Sums(f)[k + 1] = Sums(g)[k + 1]
    <3>1. k <= n /\ k + 1 \in 1..n
      BY <2>1, <2>2
    <3>2. Sums(f)[k] = Sums(g)[k] /\ f[k + 1] = g[k + 1]
      BY <3>1
    <3> QED  BY <2>1, <3>2, SumsAre
  <2> QED  BY <2>1, <2>2
<1> HIDE DEF T
<1>3. n \in T
  BY <1>1, <1>2, NatSet
<1> QED
  BY <1>3 DEF T

(* The same for products.                                                    *)
LEMMA SameProducts ==
  ASSUME NEW f \in [Nat -> Byte], NEW g \in [Nat -> Byte], NEW n \in Nat,
         \A i \in 1..n : f[i] = g[i]
  PROVE  Products(f)[n] = Products(g)[n]
<1> DEFINE T == {k \in Nat : k <= n => Products(f)[k] = Products(g)[k]}
<1>1. T \in SUBSET Nat /\ 0 \in T
  BY ProductsAre
<1>2. ASSUME NEW k \in T PROVE k + 1 \in T
  <2>1. k \in Nat /\ k + 1 \in Nat
    OBVIOUS
  <2>2. ASSUME k + 1 <= n PROVE Products(f)[k + 1] = Products(g)[k + 1]
    <3>1. k <= n /\ k + 1 \in 1..n
      BY <2>1, <2>2
    <3>2. Products(f)[k] = Products(g)[k] /\ f[k + 1] = g[k + 1]
      BY <3>1
    <3> QED  BY <2>1, <3>2, ProductsAre
  <2> QED  BY <2>1, <2>2
<1> HIDE DEF T
<1>3. n \in T
  BY <1>1, <1>2, NatSet
<1> QED
  BY <1>3 DEF T

(* Sums are linear.                                                          *)
IsSum(h, f, g, n) == \A i \in 1..n : h[i] = GfAdd(f[i], g[i])
IsMultiple(h, c, f, n) == \A i \in 1..n : h[i] = GfMul(c, f[i])

(* Sums add.                                                                 *)
LEMMA SumOfSums ==
  ASSUME NEW f \in [Nat -> Byte], NEW g \in [Nat -> Byte], NEW h \in [Nat -> Byte],
         NEW n \in Nat, IsSum(h, f, g, n)
  PROVE  Sums(h)[n] = GfAdd(Sums(f)[n], Sums(g)[n])
<1> DEFINE T == {k \in Nat : k <= n => Sums(h)[k] = GfAdd(Sums(f)[k], Sums(g)[k])}
<1>1. T \in SUBSET Nat /\ 0 \in T
  BY SumsAre, SomeBytes, AddNeutral
<1>2. ASSUME NEW k \in T PROVE k + 1 \in T
  <2>1. k \in Nat /\ k + 1 \in Nat
    OBVIOUS
  <2>2. ASSUME k + 1 <= n PROVE Sums(h)[k + 1] = GfAdd(Sums(f)[k + 1], Sums(g)[k + 1])
    <3>1. k <= n /\ k + 1 \in 1..n
      BY <2>1, <2>2
    <3>2. /\ Sums(h)[k] = GfAdd(Sums(f)[k], Sums(g)[k])
          /\ h[k + 1] = GfAdd(f[k + 1], g[k + 1])
      BY <3>1 DEF IsSum
    <3>3. /\ Sums(h)[k + 1] = GfAdd(Sums(h)[k], h[k + 1])
          /\ Sums(f)[k + 1] = GfAdd(Sums(f)[k], f[k + 1])
          /\ Sums(g)[k + 1] = GfAdd(Sums(g)[k], g[k + 1])
          /\ Sums(f)[k] \in Byte /\ Sums(g)[k] \in Byte
      BY <2>1, SumsAre
    <3>4. f[k + 1] \in Byte /\ g[k + 1] \in Byte
      BY <2>1
    <3>5. GfAdd(GfAdd(Sums(f)[k], Sums(g)[k]), GfAdd(f[k + 1], g[k + 1]))
            = GfAdd(GfAdd(Sums(f)[k], f[k + 1]), GfAdd(Sums(g)[k], g[k + 1]))
      BY <3>3, <3>4, AddMedial
    <3> QED  BY <3>2, <3>3, <3>5
  <2> QED  BY <2>1, <2>2
<1> HIDE DEF T
<1>3. n \in T
  BY <1>1, <1>2, NatSet
<1> QED
  BY <1>3 DEF T

(* A constant factor can be taken out of a sum.                              *)
LEMMA SumOfMultiples ==
  ASSUME NEW f \in [Nat -> Byte], NEW h \in [Nat -> Byte], NEW c \in Byte,
         NEW n \in Nat, IsMultiple(h, c, f, n)
  PROVE  Sums(h)[n] = GfMul(c, Sums(f)[n])
<1> DEFINE T == {k \in Nat : k <= n => Sums(h)[k] = GfMul(c, Sums(f)[k])}
<1>1. T \in SUBSET Nat /\ 0 \in T
  BY SumsAre, MulZero
<1>2. ASSUME NEW k \in T PROVE k + 1 \in T
  <2>1. k \in Nat /\ k + 1 \in Nat
    OBVIOUS
  <2>2. ASSUME k + 1 <= n PROVE Sums(h)[k + 1] = GfMul(c, Sums(f)[k + 1])
    <3>1. k <= n /\ k + 1 \in 1..n
      BY <2>1, <2>2
    <3>2. Sums(h)[k] = GfMul(c, Sums(f)[k]) /\ h[k + 1] = GfMul(c, f[k + 1])
      BY <3>1 DEF IsMultiple
    <3>3. /\ Sums(h)[k + 1] = GfAdd(Sums(h)[k], h[k + 1])
          /\ Sums(f)[k + 1] = GfAdd(Sums(f)[k], f[k + 1])
          /\ Sums(f)[k] \in Byte
      BY <2>1, SumsAre
    <3>4. f[k + 1] \in Byte
      BY <2>1
    <3>5. GfMul(c, GfAdd(Sums(f)[k], f[k + 1])) = GfAdd(GfMul(c, Sums(f)[k]), GfMul(c, f[k + 1]))
      BY <3>3, <3>4, MulAddsRight
    <3> QED  BY <3>2, <3>3, <3>5
  <2> QED  BY <2>1, <2>2
<1> HIDE DEF T
<1>3. n \in T
  BY <1>1, <1>2, NatSet
<1> QED
  BY <1>3 DEF T

-----------------------------------------------------------------------------
(* Interpolation at 0 *)

(* Points are a function x, of which the first n count.                      *)
Distinct(x, n) == \A i, j \in 1..n : x[i] = x[j] => i = j

Ratio(x, i, j) == IF j = i THEN 1 ELSE GfMul(x[j], GfInv(GfAdd(x[i], x[j])))
Ratios(x, i) == [j \in Nat |-> Ratio(x, i, j)]
W(x, i, n) == Products(Ratios(x, i))[n]
Terms(x, g, n) == [i \in Nat |-> GfMul(g[i], W(x, i, n))]
At0(x, g, n) == Sums(Terms(x, g, n))[n]

Points == [Nat -> Byte]
Ones == [i \in Nat |-> 1]

(* gf_inv() returns a byte, for 0 as well.                                   *)
LEMMA InvType ==
  ASSUME NEW a \in Byte PROVE GfInv(a) \in Byte
<1>1. CASE a = 0
  BY <1>1, SomeBytes DEF GfInv
<1>2. CASE a # 0
  BY <1>2, InverseIs
<1> QED
  BY <1>1, <1>2

(* Ratios are bytes.                                                         *)
LEMMA RatiosType ==
  ASSUME NEW x \in Points, NEW i \in Nat
  PROVE  Ratios(x, i) \in [Nat -> Byte]
<1>1. \A j \in Nat : x[j] \in Byte
  BY DEF Points
<1>2. ASSUME NEW j \in Nat PROVE Ratio(x, i, j) \in Byte
  <2>1. GfInv(GfAdd(x[i], x[j])) \in Byte
    BY <1>1, AddType, InvType
  <2> QED  BY <1>1, <2>1, MulType, SomeBytes DEF Ratio
<1> QED
  BY <1>2 DEF Ratios

(* The weight of a point, as further points come.                            *)
LEMMA WIs ==
  ASSUME NEW x \in Points, NEW i \in Nat, NEW n \in Nat
  PROVE  /\ W(x, i, 0) = 1 /\ W(x, i, n) \in Byte
         /\ W(x, i, n + 1) = GfMul(W(x, i, n), Ratio(x, i, n + 1))
<1>1. Ratios(x, i) \in [Nat -> Byte] /\ Ratios(x, i)[n + 1] = Ratio(x, i, n + 1)
  BY RatiosType DEF Ratios
<1> QED
  BY <1>1, ProductsAre DEF W

(* Terms are bytes.                                                          *)
LEMMA TermsType ==
  ASSUME NEW x \in Points, NEW g \in [Nat -> Byte], NEW n \in Nat
  PROVE  Terms(x, g, n) \in [Nat -> Byte]
<1>1. \A i \in Nat : g[i] \in Byte /\ W(x, i, n) \in Byte
  BY WIs
<1> QED
  BY <1>1, MulType DEF Terms

(* The value at 0 is a byte.                                                 *)
LEMMA At0Type ==
  ASSUME NEW x \in Points, NEW g \in [Nat -> Byte], NEW n \in Nat
  PROVE  At0(x, g, n) \in Byte
BY TermsType, SumsAre DEF At0

(* Interpolation is linear: it adds ...                                      *)
LEMMA At0Adds ==
  ASSUME NEW x \in Points, NEW f \in [Nat -> Byte], NEW g \in [Nat -> Byte],
         NEW h \in [Nat -> Byte], NEW n \in Nat, IsSum(h, f, g, n)
  PROVE  At0(x, h, n) = GfAdd(At0(x, f, n), At0(x, g, n))
<1> DEFINE a == Terms(x, f, n)
           b == Terms(x, g, n)
           c == Terms(x, h, n)
<1>1. a \in [Nat -> Byte] /\ b \in [Nat -> Byte] /\ c \in [Nat -> Byte]
  BY TermsType
<1>2. ASSUME NEW i \in 1..n PROVE c[i] = GfAdd(a[i], b[i])
  <2>1. i \in Nat /\ f[i] \in Byte /\ g[i] \in Byte /\ W(x, i, n) \in Byte
    BY WIs
  <2>2. /\ a[i] = GfMul(f[i], W(x, i, n)) /\ b[i] = GfMul(g[i], W(x, i, n))
        /\ c[i] = GfMul(h[i], W(x, i, n))
    BY <2>1 DEF Terms
  <2>3. h[i] = GfAdd(f[i], g[i])
    BY DEF IsSum
  <2> HIDE DEF a, b, c
  <2> QED  BY <2>1, <2>2, <2>3, MulAddsLeft
<1> HIDE DEF a, b, c
<1>3. Sums(c)[n] = GfAdd(Sums(a)[n], Sums(b)[n])
  <2>1. IsSum(c, a, b, n)
    BY <1>2 DEF IsSum
  <2> QED  BY <1>1, <2>1, SumOfSums
<1> QED
  BY <1>3 DEF At0, a, b, c

(* ... and takes constant factors out.                                       *)
LEMMA At0Multiplies ==
  ASSUME NEW x \in Points, NEW f \in [Nat -> Byte], NEW h \in [Nat -> Byte],
         NEW e \in Byte, NEW n \in Nat, IsMultiple(h, e, f, n)
  PROVE  At0(x, h, n) = GfMul(e, At0(x, f, n))
<1> DEFINE a == Terms(x, f, n)
           c == Terms(x, h, n)
<1>1. a \in [Nat -> Byte] /\ c \in [Nat -> Byte]
  BY TermsType
<1>2. ASSUME NEW i \in 1..n PROVE c[i] = GfMul(e, a[i])
  <2>1. i \in Nat /\ f[i] \in Byte /\ W(x, i, n) \in Byte
    BY WIs
  <2>2. a[i] = GfMul(f[i], W(x, i, n)) /\ c[i] = GfMul(h[i], W(x, i, n))
    BY <2>1 DEF Terms
  <2>3. h[i] = GfMul(e, f[i])
    BY DEF IsMultiple
  <2> HIDE DEF a, c
  <2> QED  BY <2>1, <2>2, <2>3, MulAssociates
<1> HIDE DEF a, c
<1>3. Sums(c)[n] = GfMul(e, Sums(a)[n])
  <2>1. IsMultiple(c, e, a, n)
    BY <1>2 DEF IsMultiple
  <2> QED  BY <1>1, <2>1, SumOfMultiples
<1> QED
  BY <1>3 DEF At0, a, c

(* It depends on the values at the points alone.                             *)
LEMMA At0Same ==
  ASSUME NEW x \in Points, NEW f \in [Nat -> Byte], NEW h \in [Nat -> Byte],
         NEW n \in Nat, \A i \in 1..n : h[i] = f[i]
  PROVE  At0(x, h, n) = At0(x, f, n)
<1>1. IsMultiple(h, 1, f, n)
  <2>1. \A i \in 1..n : f[i] \in Byte /\ h[i] = GfMul(1, f[i])
    BY MulOne
  <2> QED  BY <2>1 DEF IsMultiple
<1>2. At0(x, h, n) = GfMul(1, At0(x, f, n))
  BY <1>1, SomeBytes, At0Multiplies
<1> QED
  BY <1>2, At0Type, MulOne

(* Bytes that differ have a sum that is not 0.                               *)
LEMMA AddOfDifferent ==
  ASSUME NEW a \in Byte, NEW b \in Byte, GfAdd(a, b) = 0
  PROVE  a = b
<1>1. GfAdd(GfAdd(a, b), b) = a
  <2>1. GfAdd(GfAdd(a, b), b) = GfAdd(a, GfAdd(b, b))
    BY AddAssociates
  <2> QED  BY <2>1, AddNeutral
<1> QED
  BY <1>1, AddNeutral

(* One point less: what is a multiple of the distance to the last.           *)
LEMMA LessOnePoint ==
  ASSUME NEW x \in Points, NEW f \in [Nat -> Byte], NEW h \in [Nat -> Byte], NEW n \in Nat,
         Distinct(x, n + 1),
         \A i \in 1..(n + 1) : h[i] = GfMul(GfAdd(x[n + 1], x[i]), f[i])
  PROVE  At0(x, h, n + 1) = GfMul(x[n + 1], At0(x, f, n))
<1> DEFINE a == Terms(x, f, n)
           c == Terms(x, h, n + 1)
           last == x[n + 1]
<1>1. a \in [Nat -> Byte] /\ c \in [Nat -> Byte] /\ n + 1 \in Nat
  BY TermsType
<1>2. \A i \in Nat : x[i] \in Byte
  BY DEF Points
<1>3. c[n + 1] = 0
  <2>1. n + 1 \in Nat /\ n + 1 \in 1..(n + 1)
    OBVIOUS
  <2>2. h[n + 1] = GfMul(GfAdd(last, last), f[n + 1]) /\ last \in Byte /\ f[n + 1] \in Byte
    BY <1>2, <2>1
  <2>3. h[n + 1] = 0
    BY <2>2, AddNeutral, MulZero
  <2>4. c[n + 1] = GfMul(h[n + 1], W(x, n + 1, n + 1))
    BY <2>1 DEF Terms
  <2>5. W(x, n + 1, n + 1) \in Byte
    BY <2>1, WIs
  <2> QED  BY <2>3, <2>4, <2>5, MulZero
<1>4. ASSUME NEW i \in 1..n PROVE c[i] = GfMul(last, a[i])
  <2> DEFINE d == GfAdd(last, x[i])
             w == W(x, i, n)
  <2>1. i \in Nat /\ i \in 1..(n + 1) /\ n + 1 \in 1..(n + 1) /\ i # n + 1
    OBVIOUS
  <2>2. x[i] \in Byte /\ last \in Byte /\ f[i] \in Byte /\ w \in Byte /\ d \in Byte
    BY <1>1, <1>2, <2>1, WIs, AddType
  <2>3. GfAdd(x[i], last) = d
    BY <2>2, AddCommutes
  <2>4. d # 0
    BY <2>1, <2>2, AddOfDifferent DEF Distinct
  <2>5. GfInv(d) \in Byte /\ GfMul(d, GfInv(d)) = 1
    BY <2>2, <2>4, InverseIs
  <2>6. W(x, i, n + 1) = GfMul(w, Ratio(x, i, n + 1))
    BY <2>1, WIs
  <2>7. Ratio(x, i, n + 1) = GfMul(last, GfInv(d))
    BY <2>1, <2>3 DEF Ratio
  <2>8. c[i] = GfMul(GfMul(d, f[i]), GfMul(w, GfMul(last, GfInv(d)))) /\ a[i] = GfMul(f[i], w)
    BY <2>1, <2>6, <2>7 DEF Terms
  <2> HIDE DEF a, c, d, w, last
  <2>9. GfMul(GfMul(d, f[i]), GfMul(w, GfMul(last, GfInv(d))))
          = GfMul(last, GfMul(f[i], w))
    <3> DEFINE e == GfInv(d)
               m == GfMul(f[i], w)
               q == GfMul(last, e)
    <3>1. m \in Byte /\ q \in Byte
      BY <2>2, <2>5, MulType
    <3>2. GfMul(GfMul(d, f[i]), GfMul(w, q)) = GfMul(d, GfMul(f[i], GfMul(w, q)))
      BY <2>2, <3>1, MulAssociates, MulType
    <3>3. GfMul(f[i], GfMul(w, q)) = GfMul(m, q)
      BY <2>2, <3>1, MulAssociates
    <3>4. GfMul(m, q) = GfMul(q, m)
      BY <3>1, MulCommutes
    <3>5. q = GfMul(e, last) /\ GfMul(q, m) = GfMul(e, GfMul(last, m))
      BY <2>2, <2>5, <3>1, MulAssociates, MulCommutes
    <3>6. GfMul(last, m) \in Byte
      BY <2>2, <3>1, MulType
    <3> HIDE DEF e, m, q
    <3>7. GfMul(d, GfMul(e, GfMul(last, m))) = GfMul(GfMul(d, e), GfMul(last, m))
      BY <2>2, <2>5, <3>6, MulAssociates DEF e
    <3>8. GfMul(GfMul(d, e), GfMul(last, m)) = GfMul(last, m)
      BY <2>5, <3>6, MulOne DEF e
    <3> QED  BY <3>2, <3>3, <3>4, <3>5, <3>7, <3>8 DEF e, m, q
  <2> QED  BY <2>8, <2>9
<1> HIDE DEF a, c
<1>5. Sums(c)[n] = GfMul(last, Sums(a)[n])
  <2>1. last \in Byte
    BY <1>1, <1>2
  <2>2. IsMultiple(c, last, a, n)
    BY <1>4 DEF IsMultiple
  <2> HIDE DEF last
  <2> QED  BY <1>1, <2>1, <2>2, SumOfMultiples
<1>6. Sums(c)[n + 1] = Sums(c)[n]
  BY <1>1, <1>3, SumsAre, AddNeutral
<1> QED
  BY <1>5, <1>6 DEF At0, a, c

(* The order of the last two points does not matter.                         *)
Swapped(f, n) == [i \in Nat |-> IF i = n + 1 THEN f[n + 2]
                                ELSE IF i = n + 2 THEN f[n + 1] ELSE f[i]]

(* What Swapped is.                                                          *)
LEMMA SwappedIs ==
  ASSUME NEW f \in [Nat -> Byte], NEW n \in Nat
  PROVE  /\ Swapped(f, n) \in [Nat -> Byte]
         /\ Swapped(f, n)[n + 1] = f[n + 2] /\ Swapped(f, n)[n + 2] = f[n + 1]
         /\ \A i \in Nat : i # n + 1 /\ i # n + 2 => Swapped(f, n)[i] = f[i]
<1>1. n + 1 \in Nat /\ n + 2 \in Nat /\ n + 1 # n + 2
  OBVIOUS
<1> QED
  BY <1>1 DEF Swapped

(* Points swapped are still distinct.                                        *)
LEMMA SwappedDistinct ==
  ASSUME NEW x \in Points, NEW n \in Nat, Distinct(x, n + 2)
  PROVE  Distinct(Swapped(x, n), n + 2)
<1> DEFINE y == Swapped(x, n)
           back(i) == IF i = n + 1 THEN n + 2 ELSE IF i = n + 2 THEN n + 1 ELSE i
<1>1. \A i \in 1..(n + 2) : back(i) \in 1..(n + 2) /\ y[i] = x[back(i)]
  BY SwappedIs DEF Points
<1>2. \A i, j \in 1..(n + 2) : back(i) = back(j) => i = j
  OBVIOUS
<1> HIDE DEF y, back
<1>3. \A i, j \in 1..(n + 2) : y[i] = y[j] => i = j
  BY <1>1, <1>2 DEF Distinct
<1> QED
  BY <1>3 DEF Distinct, y

(* The value at 0 does not depend on the order of the last two points.       *)
LEMMA SwapPoints ==
  ASSUME NEW x \in Points, NEW f \in [Nat -> Byte], NEW n \in Nat
  PROVE  At0(Swapped(x, n), Swapped(f, n), n + 2) = At0(x, f, n + 2)
<1> DEFINE y == Swapped(x, n)
           g == Swapped(f, n)
           p == n + 1
           q == n + 2
           a == Terms(x, f, q)
           b == Terms(y, g, q)
<1>1. /\ y \in Points /\ y[p] = x[q] /\ y[q] = x[p]
      /\ \A i \in Nat : i # p /\ i # q => y[i] = x[i]
      /\ g \in [Nat -> Byte] /\ g[p] = f[q] /\ g[q] = f[p]
      /\ \A i \in Nat : i # p /\ i # q => g[i] = f[i]
  BY SwappedIs DEF Points
<1>2. p \in Nat /\ q \in Nat /\ q = p + 1 /\ p = n + 1 /\ p # q
  OBVIOUS
<1>3. /\ \A i \in Nat : a[i] = GfMul(f[i], W(x, i, q))
      /\ \A i \in Nat : b[i] = GfMul(g[i], W(y, i, q))
  BY DEF Terms
<1>4. a \in [Nat -> Byte] /\ b \in [Nat -> Byte]
  BY <1>1, <1>2, TermsType
<1> HIDE DEF y, g, p, q, a, b
<1>5. \A i \in Nat : x[i] \in Byte /\ y[i] \in Byte
  BY <1>1 DEF Points
<1>6. ASSUME NEW z \in Points, NEW i \in Nat
      PROVE  /\ W(z, i, n) \in Byte /\ Ratio(z, i, p) \in Byte /\ Ratio(z, i, q) \in Byte
             /\ W(z, i, q) = GfMul(GfMul(W(z, i, n), Ratio(z, i, p)), Ratio(z, i, q))
  <2>1. Ratios(z, i)[p] = Ratio(z, i, p) /\ Ratios(z, i)[q] = Ratio(z, i, q)
    BY <1>2 DEF Ratios
  <2>2. Ratio(z, i, p) \in Byte /\ Ratio(z, i, q) \in Byte
    BY <1>2, <2>1, RatiosType
  <2>3. W(z, i, p) = GfMul(W(z, i, n), Ratio(z, i, p)) /\ W(z, i, n) \in Byte
    BY <1>2, WIs
  <2>4. W(z, i, q) = GfMul(W(z, i, p), Ratio(z, i, q))
    BY <1>2, WIs
  <2> QED  BY <2>2, <2>3, <2>4
<1>7. ASSUME NEW i \in 1..n PROVE b[i] = a[i]
  <2>1. i \in Nat /\ i # p /\ i # q
    BY <1>2
  <2>2. y[i] = x[i] /\ g[i] = f[i]
    BY <1>1, <2>1
  <2>3. Ratio(y, i, p) = Ratio(x, i, q) /\ Ratio(y, i, q) = Ratio(x, i, p)
    BY <1>1, <2>1, <2>2 DEF Ratio
  <2>4. W(y, i, n) = W(x, i, n)
    <3>1. ASSUME NEW j \in 1..n PROVE Ratios(y, i)[j] = Ratios(x, i)[j]
      <4>1. j \in Nat /\ j # p /\ j # q
        BY <1>2
      <4>2. y[j] = x[j]
        BY <1>1, <4>1
      <4>3. Ratios(y, i)[j] = Ratio(y, i, j) /\ Ratios(x, i)[j] = Ratio(x, i, j)
        BY <4>1 DEF Ratios
      <4> QED  BY <2>2, <4>2, <4>3 DEF Ratio
    <3>2. Ratios(y, i) \in [Nat -> Byte] /\ Ratios(x, i) \in [Nat -> Byte]
      BY <1>1, <2>1, RatiosType
    <3> QED  BY <3>1, <3>2, SameProducts DEF W
  <2>5. /\ W(x, i, q) = GfMul(GfMul(W(x, i, n), Ratio(x, i, p)), Ratio(x, i, q))
        /\ W(y, i, q) = GfMul(GfMul(W(x, i, n), Ratio(x, i, q)), Ratio(x, i, p))
        /\ W(x, i, n) \in Byte /\ Ratio(x, i, p) \in Byte /\ Ratio(x, i, q) \in Byte
    BY <1>1, <1>6, <2>1, <2>3, <2>4
  <2>6. W(y, i, q) = W(x, i, q)
    <3> DEFINE w == W(x, i, n)
               r == Ratio(x, i, p)
               s == Ratio(x, i, q)
    <3>1. w \in Byte /\ r \in Byte /\ s \in Byte
      BY <2>5
    <3> HIDE DEF w, r, s
    <3>2. GfMul(GfMul(w, r), s) = GfMul(w, GfMul(r, s))
      BY <3>1, MulAssociates
    <3>3. GfMul(GfMul(w, s), r) = GfMul(w, GfMul(s, r))
      BY <3>1, MulAssociates
    <3>4. GfMul(r, s) = GfMul(s, r)
      BY <3>1, MulCommutes
    <3> QED  BY <2>5, <3>2, <3>3, <3>4 DEF w, r, s
  <2> QED  BY <1>3, <2>1, <2>2, <2>6
<1>8. ASSUME NEW i \in {p, q}, NEW j \in {p, q}, i # j
      PROVE  b[i] = a[j]
  <2>1. i \in Nat /\ j \in Nat /\ y[i] = x[j] /\ y[j] = x[i] /\ g[i] = f[j]
    BY <1>1, <1>2, <1>8
  <2>2. Ratio(y, i, i) = 1 /\ Ratio(x, j, j) = 1 /\ Ratio(y, i, j) = Ratio(x, j, i)
    BY <1>8, <2>1 DEF Ratio
  <2>3. W(y, i, n) = W(x, j, n)
    <3>1. ASSUME NEW k \in 1..n PROVE Ratios(y, i)[k] = Ratios(x, j)[k]
      <4>1. k \in Nat /\ k # p /\ k # q
        BY <1>2
      <4>2. y[k] = x[k]
        BY <1>1, <4>1
      <4>3. Ratios(y, i)[k] = Ratio(y, i, k) /\ Ratios(x, j)[k] = Ratio(x, j, k)
        BY <4>1 DEF Ratios
      <4> QED  BY <2>1, <4>1, <4>2, <4>3 DEF Ratio
    <3>2. Ratios(y, i) \in [Nat -> Byte] /\ Ratios(x, j) \in [Nat -> Byte]
      BY <1>1, <2>1, RatiosType
    <3> QED  BY <3>1, <3>2, SameProducts DEF W
  <2>4. W(x, j, n) \in Byte /\ Ratio(x, j, i) \in Byte
    BY <1>6, <2>1
  <2>5. W(y, i, q) = GfMul(W(x, j, n), Ratio(x, j, i))
    <3>1. W(y, i, q) = GfMul(GfMul(W(x, j, n), Ratio(y, i, p)), Ratio(y, i, q))
      BY <1>1, <1>6, <2>1, <2>3
    <3>2. \/ Ratio(y, i, p) = 1 /\ Ratio(y, i, q) = Ratio(x, j, i)
          \/ Ratio(y, i, q) = 1 /\ Ratio(y, i, p) = Ratio(x, j, i)
      BY <1>8, <2>2
    <3> QED  BY <2>4, <3>1, <3>2, MulOne, MulType
  <2>6. W(x, j, q) = GfMul(W(x, j, n), Ratio(x, j, i))
    <3>1. W(x, j, q) = GfMul(GfMul(W(x, j, n), Ratio(x, j, p)), Ratio(x, j, q))
      BY <1>6, <2>1
    <3>2. \/ Ratio(x, j, p) = 1 /\ Ratio(x, j, q) = Ratio(x, j, i)
          \/ Ratio(x, j, q) = 1 /\ Ratio(x, j, p) = Ratio(x, j, i)
      BY <1>8, <2>2
    <3> QED  BY <2>4, <3>1, <3>2, MulOne, MulType
  <2> QED  BY <1>3, <2>1, <2>5, <2>6
<1>9. b[p] = a[q] /\ b[q] = a[p]
  BY <1>2, <1>8
<1>10. Sums(b)[n] = Sums(a)[n]
  BY <1>4, <1>7, SameSums
<1>11. /\ Sums(a)[q] = GfAdd(GfAdd(Sums(a)[n], a[p]), a[q])
       /\ Sums(b)[q] = GfAdd(GfAdd(Sums(a)[n], a[q]), a[p])
  <2>1. /\ Sums(a)[p] = GfAdd(Sums(a)[n], a[p]) /\ Sums(b)[p] = GfAdd(Sums(b)[n], b[p])
    BY <1>2, <1>4, SumsAre
  <2>2. /\ Sums(a)[q] = GfAdd(Sums(a)[p], a[q]) /\ Sums(b)[q] = GfAdd(Sums(b)[p], b[q])
    BY <1>2, <1>4, SumsAre
  <2> QED  BY <1>9, <1>10, <2>1, <2>2
<1>12. Sums(a)[q] = Sums(b)[q]
  <2> DEFINE s == Sums(a)[n]
             u == a[p]
             v == a[q]
  <2>1. s \in Byte /\ u \in Byte /\ v \in Byte
    BY <1>2, <1>4, SumsAre
  <2> HIDE DEF s, u, v
  <2>2. GfAdd(GfAdd(s, u), v) = GfAdd(s, GfAdd(u, v))
    BY <2>1, AddAssociates
  <2>3. GfAdd(GfAdd(s, v), u) = GfAdd(s, GfAdd(v, u))
    BY <2>1, AddAssociates
  <2>4. GfAdd(u, v) = GfAdd(v, u)
    BY <2>1, AddCommutes
  <2> QED  BY <1>11, <2>2, <2>3, <2>4 DEF s, u, v
<1> QED
  BY <1>12 DEF At0, a, b, y, g, q

(* The constant 1 is 1 at 0, whatever the points.                            *)
OnesAt0(n) == \A x \in Points : Distinct(x, n + 1) => At0(x, Ones, n + 1) = 1

(* What Ones is.                                                             *)
LEMMA OnesType ==
  Ones \in [Nat -> Byte] /\ \A i \in Nat : Ones[i] = 1
BY SomeBytes DEF Ones

(* What the points themselves are at 0, with one point less or as many.      *)
LEMMA PointsAt0 ==
  ASSUME NEW x \in Points, NEW n \in Nat, Distinct(x, n + 1)
  PROVE  GfMul(x[n + 1], At0(x, Ones, n))
           = GfAdd(GfMul(x[n + 1], At0(x, Ones, n + 1)), At0(x, x, n + 1))
<1> DEFINE last == x[n + 1]
           h == [i \in Nat |-> GfAdd(last, x[i])]
           m == [i \in Nat |-> last]
<1>1. n + 1 \in Nat /\ \A i \in Nat : x[i] \in Byte
  BY DEF Points
<1>2. last \in Byte /\ h \in [Nat -> Byte] /\ m \in [Nat -> Byte] /\ x \in [Nat -> Byte]
  BY <1>1, AddType DEF Points
<1>3. \A i \in Nat : h[i] = GfAdd(m[i], x[i]) /\ h[i] = GfAdd(last, x[i]) /\ m[i] = last
  OBVIOUS
<1>4. \A i \in Nat : GfMul(GfAdd(last, x[i]), 1) = GfAdd(last, x[i]) /\ GfMul(last, 1) = last
  BY <1>1, <1>2, AddType, MulOne
<1> HIDE DEF h, m
<1>5. At0(x, h, n + 1) = GfMul(last, At0(x, Ones, n))
  <2>1. \A i \in 1..(n + 1) : h[i] = GfMul(GfAdd(x[n + 1], x[i]), Ones[i])
    BY <1>3, <1>4, OnesType
  <2> QED  BY <1>2, <2>1, OnesType, LessOnePoint
<1>6. At0(x, h, n + 1) = GfAdd(At0(x, m, n + 1), At0(x, x, n + 1))
  <2>1. IsSum(h, m, x, n + 1)
    BY <1>3 DEF IsSum
  <2> QED  BY <1>1, <1>2, <2>1, At0Adds
<1>7. At0(x, m, n + 1) = GfMul(last, At0(x, Ones, n + 1))
  <2>1. IsMultiple(m, last, Ones, n + 1)
    BY <1>3, <1>4, OnesType DEF IsMultiple
  <2> HIDE DEF last
  <2> QED  BY <1>1, <1>2, <2>1, OnesType, At0Multiplies
<1> QED
  BY <1>5, <1>6, <1>7

(* Of distinct points the first are distinct.                                *)
LEMMA FewerDistinct ==
  ASSUME NEW x, NEW n \in Nat, Distinct(x, n + 1) PROVE Distinct(x, n)
BY DEF Distinct

(* One point more: by SwapPoints the last two points give the same value,    *)
(* and by PointsAt0 two different points could not if it were not 1.         *)
LEMMA OnesStep ==
  ASSUME NEW n \in Nat, OnesAt0(n) PROVE OnesAt0(n + 1)
<1> SUFFICES ASSUME NEW x \in Points, Distinct(x, n + 2)
             PROVE  At0(x, Ones, n + 2) = 1
  <2>1. (n + 1) + 1 = n + 2
    OBVIOUS
  <2> QED  BY <2>1 DEF OnesAt0
<1> DEFINE y == Swapped(x, n)
           p == n + 1
           q == n + 2
           s == At0(x, Ones, q)
           u == At0(x, x, q)
<1>1. /\ y \in Points /\ y[p] = x[q] /\ y[q] = x[p] /\ Distinct(y, q)
  BY SwappedIs, SwappedDistinct DEF Points
<1>2. p \in Nat /\ q \in Nat /\ p + 1 = q /\ n + 1 = p
  OBVIOUS
<1>3. x[p] \in Byte /\ x[q] \in Byte /\ x \in [Nat -> Byte]
  BY <1>2 DEF Points
<1>4. s \in Byte /\ u \in Byte
  BY <1>2, <1>3, OnesType, At0Type
<1>5. At0(y, Ones, q) = s
  <2>1. At0(y, Swapped(Ones, n), q) = s
    BY OnesType, SwapPoints
  <2>2. Swapped(Ones, n) = Ones
    BY DEF Swapped, Ones
  <2> QED  BY <2>1, <2>2
<1>6. At0(y, y, q) = u
  BY <1>3, SwapPoints
<1> HIDE DEF y, s, u, p, q
<1>7. Distinct(x, q) /\ Distinct(x, p) /\ Distinct(y, p)
  <2>1. Distinct(x, q)
    BY DEF q
  <2> QED  BY <1>1, <1>2, <2>1, FewerDistinct
<1>8. At0(x, Ones, p) = 1 /\ At0(y, Ones, p) = 1
  BY <1>1, <1>2, <1>7 DEF OnesAt0
<1>9. x[q] = GfAdd(GfMul(x[q], s), u)
  <2>1. GfMul(x[q], At0(x, Ones, p)) = GfAdd(GfMul(x[q], s), u)
    <3>1. /\ At0(x, Ones, p + 1) = s /\ At0(x, x, p + 1) = u /\ Distinct(x, p + 1)
      BY <1>2, <1>7 DEF s, u
    <3> QED  BY <1>2, <3>1, PointsAt0
  <2> QED  BY <1>3, <1>8, <2>1, MulOne
<1>10. x[p] = GfAdd(GfMul(x[p], s), u)
  <2>1. GfMul(y[q], At0(y, Ones, p)) = GfAdd(GfMul(y[q], s), u)
    <3>1. /\ At0(y, Ones, p + 1) = s /\ At0(y, y, p + 1) = u /\ Distinct(y, p + 1)
      BY <1>1, <1>2, <1>5, <1>6
    <3> QED  BY <1>1, <1>2, <3>1, PointsAt0
  <2> QED  BY <1>1, <1>3, <1>8, <2>1, MulOne
<1> DEFINE d == GfAdd(x[p], x[q])
<1>11. d \in Byte /\ d # 0
  <2>1. x[p] # x[q]
    <3>1. p \in 1..q /\ q \in 1..q /\ p # q
      BY <1>2
    <3> QED  BY <1>7, <3>1 DEF Distinct
  <2> QED  BY <1>3, <2>1, AddType, AddOfDifferent
<1>12. GfMul(d, s) = d
  <2> DEFINE v == GfMul(x[p], s)
             w == GfMul(x[q], s)
  <2>1. v \in Byte /\ w \in Byte /\ GfMul(d, s) = GfAdd(v, w)
    BY <1>3, <1>4, MulType, MulAddsLeft
  <2>2. d = GfAdd(GfAdd(v, u), GfAdd(w, u))
    BY <1>9, <1>10
  <2> HIDE DEF v, w
  <2>3. GfAdd(GfAdd(v, u), GfAdd(w, u)) = GfAdd(GfAdd(v, w), GfAdd(u, u))
    BY <1>4, <2>1, AddMedial
  <2>4. GfAdd(u, u) = 0 /\ GfAdd(GfAdd(v, w), 0) = GfAdd(v, w)
    BY <1>4, <2>1, AddNeutral, AddType
  <2> QED  BY <2>1, <2>2, <2>3, <2>4
<1> HIDE DEF d
<1>13. GfMul(d, s) = GfMul(d, 1)
  BY <1>11, <1>12, MulOne
<1>14. s = 1
  BY <1>4, <1>11, <1>13, SomeBytes, NoZeroDivisors
<1> QED
  BY <1>14 DEF s, q

(* So for every number of points, by induction over it.                      *)
LEMMA OnesAlways ==
  \A n \in Nat : OnesAt0(n)
<1> DEFINE T == {n \in Nat : OnesAt0(n)}
<1>1. OnesAt0(0)
  <2> SUFFICES ASSUME NEW x \in Points PROVE At0(x, Ones, 1) = 1
    BY DEF OnesAt0
  <2> DEFINE a == Terms(x, Ones, 1)
  <2>1. a \in [Nat -> Byte]
    BY OnesType, TermsType
  <2>2. W(x, 1, 1) = 1
    <3>1. W(x, 1, 0 + 1) = GfMul(W(x, 1, 0), Ratio(x, 1, 0 + 1)) /\ W(x, 1, 0) = 1
      BY WIs
    <3>2. Ratio(x, 1, 1) = 1
      BY DEF Ratio
    <3> QED  BY <3>1, <3>2, SomeBytes, MulOne
  <2>3. a[1] = GfMul(Ones[1], W(x, 1, 1))
    BY DEF Terms
  <2>4. a[1] = 1
    BY <2>2, <2>3, OnesType, SomeBytes, MulOne
  <2> HIDE DEF a
  <2>5. Sums(a)[0 + 1] = GfAdd(Sums(a)[0], a[0 + 1]) /\ Sums(a)[0] = 0
    BY <2>1, SumsAre
  <2>6. Sums(a)[1] = 1
    BY <2>4, <2>5, SomeBytes, AddNeutral
  <2> QED  BY <2>6 DEF At0, a
<1>2. ASSUME NEW n \in T PROVE n + 1 \in T
  BY OnesStep
<1>3. T = Nat
  <2>1. T \in SUBSET Nat /\ 0 \in T
    BY <1>1
  <2> HIDE DEF T
  <2> QED  BY <1>2, <2>1, NatSet
<1> QED
  BY <1>3

-----------------------------------------------------------------------------
(* Powers *)

Power(b, k) == Products([j \in Nat |-> b])[k]
Powers(x, k) == [i \in Nat |-> Power(x[i], k)]

(* What a power is.                                                          *)
LEMMA PowerIs ==
  ASSUME NEW b \in Byte, NEW k \in Nat
  PROVE  /\ Power(b, 0) = 1 /\ Power(b, k) \in Byte
         /\ Power(b, k + 1) = GfMul(Power(b, k), b)
<1> DEFINE f == [j \in Nat |-> b]
<1>1. f \in [Nat -> Byte] /\ f[k + 1] = b
  OBVIOUS
<1> HIDE DEF f
<1>2. /\ Products(f)[0] = 1 /\ Products(f)[k] \in Byte
      /\ Products(f)[k + 1] = GfMul(Products(f)[k], f[k + 1])
  BY <1>1, ProductsAre
<1> QED
  BY <1>1, <1>2 DEF Power, f

(* Powers are bytes.                                                         *)
LEMMA PowersType ==
  ASSUME NEW x \in Points, NEW k \in Nat
  PROVE  Powers(x, k) \in [Nat -> Byte] /\ \A i \in Nat : Powers(x, k)[i] = Power(x[i], k)
<1>1. \A i \in Nat : x[i] \in Byte
  BY DEF Points
<1> QED
  BY <1>1, PowerIs DEF Powers

(* The powers below the number of points are 0 at 0.                         *)
PowersAt0(n) ==
  \A x \in Points : Distinct(x, n + 1) => \A k \in 1..n : At0(x, Powers(x, k), n + 1) = 0

(* From one power to the next, with one point less.                          *)
LEMMA NextPowerAt0 ==
  ASSUME NEW x \in Points, NEW n \in Nat, NEW k \in Nat, Distinct(x, n + 1)
  PROVE  GfMul(x[n + 1], At0(x, Powers(x, k), n))
           = GfAdd(GfMul(x[n + 1], At0(x, Powers(x, k), n + 1)), At0(x, Powers(x, k + 1), n + 1))
<1> DEFINE last == x[n + 1]
           f == Powers(x, k)
           g == Powers(x, k + 1)
           h == [i \in Nat |-> GfMul(GfAdd(last, x[i]), f[i])]
           m == [i \in Nat |-> GfMul(last, f[i])]
<1>1. n + 1 \in Nat /\ k + 1 \in Nat /\ \A i \in Nat : x[i] \in Byte
  BY DEF Points
<1>2. last \in Byte /\ f \in [Nat -> Byte] /\ g \in [Nat -> Byte]
  BY <1>1, PowersType
<1>3. \A i \in Nat : g[i] = GfMul(f[i], x[i]) /\ f[i] \in Byte
  <2> SUFFICES ASSUME NEW i \in Nat PROVE g[i] = GfMul(f[i], x[i]) /\ f[i] \in Byte
    OBVIOUS
  <2>1. g[i] = Power(x[i], k + 1) /\ f[i] = Power(x[i], k)
    BY <1>1, PowersType
  <2> QED  BY <1>1, <2>1, PowerIs
<1> HIDE DEF last, f, g
<1>4. h \in [Nat -> Byte] /\ m \in [Nat -> Byte]
  BY <1>1, <1>2, <1>3, AddType, MulType
<1>5. \A i \in Nat : /\ h[i] = GfMul(GfAdd(last, x[i]), f[i])
                     /\ m[i] = GfMul(last, f[i])
  OBVIOUS
<1> HIDE DEF h, m
<1>6. ASSUME NEW i \in 1..(n + 1) PROVE h[i] = GfAdd(m[i], g[i])
  <2>1. i \in Nat
    OBVIOUS
  <2>2. x[i] \in Byte /\ f[i] \in Byte
    BY <1>1, <1>3, <2>1
  <2>3. GfMul(GfAdd(last, x[i]), f[i]) = GfAdd(GfMul(last, f[i]), GfMul(x[i], f[i]))
    BY <1>2, <2>2, MulAddsLeft
  <2>4. GfMul(x[i], f[i]) = GfMul(f[i], x[i])
    BY <2>2, MulCommutes
  <2> QED  BY <1>3, <1>5, <2>1, <2>3, <2>4
<1>7. At0(x, h, n + 1) = GfMul(last, At0(x, f, n))
  <2>1. \A i \in 1..(n + 1) : h[i] = GfMul(GfAdd(x[n + 1], x[i]), f[i])
    BY <1>5 DEF last
  <2> QED  BY <1>2, <1>4, <2>1, LessOnePoint DEF last
<1>8. At0(x, h, n + 1) = GfAdd(At0(x, m, n + 1), At0(x, g, n + 1))
  <2>1. IsSum(h, m, g, n + 1)
    BY <1>6 DEF IsSum
  <2> QED  BY <1>1, <1>2, <1>4, <2>1, At0Adds
<1>9. At0(x, m, n + 1) = GfMul(last, At0(x, f, n + 1))
  <2>1. IsMultiple(m, last, f, n + 1)
    BY <1>5 DEF IsMultiple
  <2> QED  BY <1>1, <1>2, <1>4, <2>1, At0Multiplies
<1> QED
  BY <1>7, <1>8, <1>9 DEF last, f, g

(* One point more: every power from 1 on, with one point more, comes from    *)
(* the power below it.                                                       *)
LEMMA PowersStep ==
  ASSUME NEW n \in Nat, PowersAt0(n) PROVE PowersAt0(n + 1)
<1> SUFFICES ASSUME NEW x \in Points, Distinct(x, n + 2)
             PROVE  \A k \in 1..(n + 1) : At0(x, Powers(x, k), n + 2) = 0
  <2>1. (n + 1) + 1 = n + 2
    OBVIOUS
  <2> QED  BY <2>1 DEF PowersAt0
<1> DEFINE p == n + 1
           q == n + 2
           at(k) == At0(x, Powers(x, k), q)
           T == {k \in Nat : k <= n => at(k + 1) = 0}
<1>1. p \in Nat /\ q \in Nat /\ p + 1 = q /\ n + 1 = p
  OBVIOUS
<1>2. Distinct(x, q) /\ Distinct(x, p)
  BY <1>1, FewerDistinct
<1>3. x[q] \in Byte
  BY <1>1 DEF Points
<1> HIDE DEF p, q
<1>4. ASSUME NEW k \in Nat
      PROVE  /\ at(k) \in Byte /\ At0(x, Powers(x, k), p) \in Byte
             /\ GfMul(x[q], At0(x, Powers(x, k), p)) = GfAdd(GfMul(x[q], at(k)), at(k + 1))
  <2>1. Powers(x, k) \in [Nat -> Byte]
    BY PowersType
  <2>2. Distinct(x, p + 1)
    BY <1>1, <1>2
  <2>3. GfMul(x[p + 1], At0(x, Powers(x, k), p))
          = GfAdd(GfMul(x[p + 1], At0(x, Powers(x, k), p + 1)), At0(x, Powers(x, k + 1), p + 1))
    BY <1>1, <2>2, NextPowerAt0
  <2> QED  BY <1>1, <2>1, <2>3, At0Type
<1>5. at(0) = 1 /\ At0(x, Powers(x, 0), p) = 1
  <2>1. Powers(x, 0) = Ones
    <3>1. \A i \in Nat : Power(x[i], 0) = 1
      BY PowerIs DEF Points
    <3> QED  BY <3>1 DEF Powers, Ones
  <2>2. At0(x, Ones, n + 1) = 1
    BY <1>1, <1>2, OnesAlways DEF OnesAt0
  <2>3. At0(x, Ones, p + 1) = 1
    BY <1>1, <1>2, OnesAlways DEF OnesAt0
  <2> QED  BY <1>1, <2>1, <2>2, <2>3
<1> HIDE DEF at
<1>6. \A k \in Nat : at(k) \in Byte
  BY <1>4
<1>7. 0 \in T
  <2>1. GfMul(x[q], 1) = GfAdd(GfMul(x[q], 1), at(0 + 1)) /\ at(0 + 1) \in Byte
    BY <1>4, <1>5
  <2>2. x[q] = GfAdd(x[q], at(0 + 1))
    BY <1>3, <2>1, MulOne
  <2>3. GfAdd(x[q], x[q]) = GfAdd(GfAdd(x[q], x[q]), at(0 + 1))
    BY <1>3, <2>1, <2>2, AddAssociates
  <2>4. at(0 + 1) = 0
    BY <1>3, <2>1, <2>3, AddNeutral
  <2> QED  BY <2>4
<1>8. ASSUME NEW k \in T PROVE k + 1 \in T
  <2>1. k \in Nat /\ k + 1 \in Nat
    OBVIOUS
  <2>2. ASSUME k + 1 <= n PROVE at((k + 1) + 1) = 0
    <3>1. at(k + 1) = 0
      BY <1>8, <2>1, <2>2
    <3>2. At0(x, Powers(x, k + 1), p) = 0
      <4>1. k + 1 \in 1..n
        BY <2>1, <2>2
      <4> QED  BY <1>1, <1>2, <4>1 DEF PowersAt0
    <3>3. GfMul(x[q], 0) = GfAdd(GfMul(x[q], 0), at((k + 1) + 1))
      BY <1>4, <2>1, <3>1, <3>2
    <3> QED  BY <1>3, <1>6, <2>1, <3>3, MulZero, AddNeutral
  <2> QED  BY <2>1, <2>2
<1> HIDE DEF T
<1>9. T = Nat
  <2>1. T \in SUBSET Nat
    BY DEF T
  <2> QED  BY <1>7, <1>8, <2>1, NatSet
<1>10. ASSUME NEW k \in 1..(n + 1) PROVE at(k) = 0
  <2>1. k - 1 \in Nat /\ k - 1 <= n /\ (k - 1) + 1 = k
    OBVIOUS
  <2>2. k - 1 \in T
    BY <1>9, <2>1
  <2> QED  BY <2>1, <2>2 DEF T
<1> QED
  BY <1>10 DEF at, q

(* So for every number of points, by induction over it.                      *)
LEMMA PowersAlways ==
  \A n \in Nat : PowersAt0(n)
<1> DEFINE T == {n \in Nat : PowersAt0(n)}
<1>1. T \in SUBSET Nat /\ 0 \in T
  BY DEF PowersAt0
<1>2. ASSUME NEW n \in T PROVE n + 1 \in T
  BY PowersStep
<1>3. T = Nat
  <2> HIDE DEF T
  <2> QED  BY <1>1, <1>2, NatSet
<1> QED
  BY <1>3

-----------------------------------------------------------------------------
(* Polynomials *)

PolyTerms(c, x) == [k \in Nat |-> IF k \in 1..Len(c) THEN GfMul(c[k], Power(x, k - 1)) ELSE 0]

(* The terms of a polynomial are bytes.                                      *)
LEMMA PolyTermsType ==
  ASSUME NEW c \in Seq(Byte), NEW x \in Byte
  PROVE  /\ PolyTerms(c, x) \in [Nat -> Byte]
         /\ \A k \in 1..Len(c) : PolyTerms(c, x)[k] = GfMul(c[k], Power(x, k - 1))
<1>1. Len(c) \in Nat /\ \A k \in 1..Len(c) : c[k] \in Byte
  BY LenProperties, ElementOfSeq
<1>2. ASSUME NEW k \in Nat
      PROVE  (IF k \in 1..Len(c) THEN GfMul(c[k], Power(x, k - 1)) ELSE 0) \in Byte
  <2>1. CASE k \in 1..Len(c)
    <3>1. k - 1 \in Nat /\ c[k] \in Byte
      BY <1>1, <2>1
    <3>2. Power(x, k - 1) \in Byte
      BY <3>1, PowerIs
    <3> QED  BY <2>1, <3>1, <3>2, MulType
  <2>2. CASE k \notin 1..Len(c)
    BY <2>2, SomeBytes
  <2> QED  BY <2>1, <2>2
<1>3. \A k \in 1..Len(c) : k \in Nat
  BY <1>1
<1> QED
  BY <1>2, <1>3 DEF PolyTerms

(* eval_polynomial() returns the sum of the terms.                           *)
LEMMA EvalIs ==
  ASSUME NEW c \in Seq(Byte), NEW x \in Byte
  PROVE  EvalPolynomial(c, x) = Sums(PolyTerms(c, x))[Len(c)]
<1> DEFINE t == PolyTerms(c, x)
           m == Len(c)
           State(n) == [sum |-> Sums(t)[n], power |-> Power(x, n)]
           Next1(s, n) == [sum |-> GfAdd(s.sum, GfMul(c[n], s.power)), power |-> GfMul(s.power, x)]
           First == [sum |-> 0, power |-> 1]
           f == [n \in 0..m |-> State(n)]
<1>1. m \in Nat
  BY LenProperties
<1>2. ASSUME NEW n \in 0..m
      PROVE  State(n) = IF n = 0 THEN First ELSE Next1(State(n - 1), n)
  <2>1. t \in [Nat -> Byte] /\ \A k \in 1..m : t[k] = GfMul(c[k], Power(x, k - 1))
    BY PolyTermsType
  <2> HIDE DEF t
  <2>2. CASE n = 0
    <3>1. Sums(t)[0] = 0 /\ Power(x, 0) = 1
      BY <2>1, SumsAre, PowerIs
    <3> QED  BY <2>2, <3>1
  <2>3. CASE n # 0
    <3>1. n - 1 \in Nat /\ (n - 1) + 1 = n /\ n \in 1..m
      BY <1>1, <2>3
    <3>2. /\ Sums(t)[n] = GfAdd(Sums(t)[n - 1], t[n])
          /\ Power(x, n) = GfMul(Power(x, n - 1), x)
      <4>1. Sums(t)[(n - 1) + 1] = GfAdd(Sums(t)[n - 1], t[(n - 1) + 1])
        BY <2>1, <3>1, SumsAre
      <4>2. Power(x, (n - 1) + 1) = GfMul(Power(x, n - 1), x)
        BY <3>1, PowerIs
      <4> QED  BY <3>1, <4>1, <4>2
    <3>3. t[n] = GfMul(c[n], Power(x, n - 1))
      BY <2>1, <3>1
    <3> QED  BY <2>3, <3>2, <3>3
  <2> QED  BY <2>2, <2>3
<1> HIDE DEF State, Next1, First
<1>3. f = [n \in 0..m |-> IF n = 0 THEN First ELSE Next1(f[n - 1], n)]
  <2>1. ASSUME NEW n \in 0..m PROVE f[n] = IF n = 0 THEN First ELSE Next1(f[n - 1], n)
    <3>1. n # 0 => n - 1 \in 0..m
      BY <1>1
    <3> QED  BY <1>2, <3>1
  <2> QED  BY <2>1
<1>4. \E g : /\ g = [n \in 0..m |-> IF n = 0 THEN First ELSE Next1(g[n - 1], n)]
             /\ EvalPolynomial(c, x) = g[m].sum
  <2> HIDE DEF f
  <2> QED  BY <1>3 DEF EvalPolynomial, First, Next1
<1>5. PICK g : /\ g = [n \in 0..m |-> IF n = 0 THEN First ELSE Next1(g[n - 1], n)]
               /\ EvalPolynomial(c, x) = g[m].sum
  BY <1>4
<1> DEFINE T == {n \in Nat : n <= m => g[n] = State(n)}
<1>6. 0 \in T
  <2>1. 0 \in 0..m
    BY <1>1
  <2> QED  BY <1>2, <1>5, <2>1
<1>7. ASSUME NEW n \in T PROVE n + 1 \in T
  <2>1. n \in Nat /\ n + 1 \in Nat
    OBVIOUS
  <2>2. ASSUME n + 1 <= m PROVE g[n + 1] = State(n + 1)
    <3>1. n + 1 \in 0..m /\ n + 1 # 0 /\ (n + 1) - 1 = n /\ n <= m
      BY <1>1, <2>1, <2>2
    <3>2. g[n + 1] = Next1(g[n], n + 1)
      BY <1>5, <3>1
    <3>3. State(n + 1) = Next1(State(n), n + 1)
      BY <1>2, <3>1
    <3>4. g[n] = State(n)
      BY <1>7, <3>1
    <3> QED  BY <3>2, <3>3, <3>4
  <2> QED  BY <2>1, <2>2
<1>8. m \in T
  <2>1. T \in SUBSET Nat
    OBVIOUS
  <2> HIDE DEF T
  <2> QED  BY <1>1, <1>6, <1>7, <2>1, NatSet
<1>9. g[m] = State(m)
  BY <1>1, <1>8
<1>10. State(m).sum = Sums(t)[m]
  BY DEF State
<1> QED
  BY <1>5, <1>9, <1>10

(* The sum over the values of a polynomial is its lowest coefficient.        *)
LEMMA Interpolates ==
  ASSUME NEW n \in Nat, NEW x \in Points, Distinct(x, n + 1),
         NEW c \in Seq(Byte), Len(c) = n + 1,
         NEW g \in [Nat -> Byte], \A i \in 1..(n + 1) : g[i] = EvalPolynomial(c, x[i])
  PROVE  At0(x, g, n + 1) = c[1]
<1> DEFINE G(m) == [i \in Nat |-> Sums(PolyTerms(c, x[i]))[m]]
           H(k) == [i \in Nat |-> GfMul(c[k + 1], Power(x[i], k))]
           T == {m \in Nat : m <= n => At0(x, G(m + 1), n + 1) = c[1]}
           N == n + 1
<1>1. /\ N \in Nat /\ N = n + 1 /\ \A i \in Nat : x[i] \in Byte
      /\ \A k \in 1..N : c[k] \in Byte
  BY ElementOfSeq DEF Points
<1>2. ASSUME NEW m \in Nat
      PROVE  G(m) \in [Nat -> Byte]
  <2>1. \A i \in Nat : Sums(PolyTerms(c, x[i]))[m] \in Byte
    BY <1>1, PolyTermsType, SumsAre
  <2> QED  BY <2>1
<1>3. ASSUME NEW k \in 0..n
      PROVE  /\ H(k) \in [Nat -> Byte] /\ IsMultiple(H(k), c[k + 1], Powers(x, k), N)
             /\ IsSum(G(k + 1), G(k), H(k), N)
  <2>1. k \in Nat /\ k + 1 \in 1..N /\ (k + 1) - 1 = k /\ k + 1 \in Nat
    BY <1>1
  <2>2. c[k + 1] \in Byte
    BY <1>1, <2>1
  <2>3. \A i \in Nat : Power(x[i], k) \in Byte
    BY <1>1, <2>1, PowerIs
  <2>4. H(k) \in [Nat -> Byte]
    BY <2>2, <2>3, MulType
  <2>5. IsMultiple(H(k), c[k + 1], Powers(x, k), N)
    <3>1. \A i \in 1..N : i \in Nat
      BY <1>1
    <3>2. \A i \in Nat : Powers(x, k)[i] = Power(x[i], k)
      BY <2>1, PowersType
    <3> QED  BY <3>1, <3>2 DEF IsMultiple
  <2>6. ASSUME NEW i \in 1..N PROVE G(k + 1)[i] = GfAdd(G(k)[i], H(k)[i])
    <3> DEFINE t == PolyTerms(c, x[i])
    <3>1. i \in Nat /\ x[i] \in Byte
      BY <1>1
    <3>2. t \in [Nat -> Byte] /\ \A j \in 1..N : t[j] = GfMul(c[j], Power(x[i], j - 1))
      BY <1>1, <3>1, PolyTermsType
    <3>3. G(k + 1)[i] = Sums(t)[k + 1] /\ G(k)[i] = Sums(t)[k]
          /\ H(k)[i] = GfMul(c[k + 1], Power(x[i], k))
      BY <3>1
    <3> HIDE DEF t, G, H
    <3>4. Sums(t)[k + 1] = GfAdd(Sums(t)[k], t[k + 1])
      BY <2>1, <3>2, SumsAre
    <3>5. t[k + 1] = GfMul(c[k + 1], Power(x[i], k))
      BY <2>1, <3>2
    <3> QED  BY <3>3, <3>4, <3>5
  <2> HIDE DEF G, H
  <2>7. IsSum(G(k + 1), G(k), H(k), N)
    BY <2>6 DEF IsSum
  <2> QED  BY <2>4, <2>5, <2>7
<1>4. \A i \in Nat : G(0)[i] = 0
  BY <1>1, PolyTermsType, SumsAre
<1> HIDE DEF G, H, N
<1>5. ASSUME NEW k \in 0..n
      PROVE  At0(x, G(k + 1), N) = GfAdd(At0(x, G(k), N), GfMul(c[k + 1], At0(x, Powers(x, k), N)))
  <2>1. k \in Nat /\ k + 1 \in Nat /\ k + 1 \in 1..N
    BY <1>1
  <2>2. c[k + 1] \in Byte /\ Powers(x, k) \in [Nat -> Byte]
    BY <1>1, <2>1, PowersType
  <2>3. /\ G(k) \in [Nat -> Byte] /\ G(k + 1) \in [Nat -> Byte]
    BY <1>2, <2>1
  <2>4. /\ H(k) \in [Nat -> Byte] /\ IsMultiple(H(k), c[k + 1], Powers(x, k), N)
        /\ IsSum(G(k + 1), G(k), H(k), N)
    BY <1>3
  <2>5. At0(x, G(k + 1), N) = GfAdd(At0(x, G(k), N), At0(x, H(k), N))
    BY <1>1, <2>3, <2>4, At0Adds
  <2>6. At0(x, H(k), N) = GfMul(c[k + 1], At0(x, Powers(x, k), N))
    BY <1>1, <2>2, <2>4, At0Multiplies
  <2> QED  BY <2>5, <2>6
<1>6. At0(x, G(0), N) = 0
  <2>1. \A i \in 1..N : i \in Nat
    BY <1>1
  <2>2. IsMultiple(G(0), 0, Ones, N)
    BY <1>4, <2>1, OnesType, SomeBytes, MulZero DEF IsMultiple
  <2>3. At0(x, G(0), N) = GfMul(0, At0(x, Ones, N))
    <3>1. G(0) \in [Nat -> Byte] /\ Ones \in [Nat -> Byte] /\ 0 \in Byte
      BY <1>2, SomeBytes, OnesType
    <3> QED  BY <1>1, <2>2, <3>1, At0Multiplies
  <2> QED  BY <1>1, <2>3, OnesType, At0Type, MulZero
<1>7. At0(x, Powers(x, 0), N) = 1
  <2>1. Powers(x, 0) = Ones
    <3>1. \A i \in Nat : Power(x[i], 0) = 1
      BY <1>1, PowerIs
    <3> QED  BY <3>1 DEF Powers, Ones
  <2>2. At0(x, Ones, n + 1) = 1
    BY OnesAlways DEF OnesAt0
  <2> QED  BY <1>1, <2>1, <2>2
<1>8. 0 \in T
  <2>1. At0(x, G(0 + 1), N) = GfAdd(At0(x, G(0), N), GfMul(c[0 + 1], At0(x, Powers(x, 0), N)))
    BY <1>5
  <2>2. c[1] \in Byte
    BY <1>1
  <2>3. GfAdd(0, GfMul(c[1], 1)) = c[1]
    BY <2>2, MulOne, AddNeutral
  <2>4. At0(x, G(0 + 1), N) = c[1]
    BY <1>6, <1>7, <2>1, <2>3
  <2> QED  BY <1>1, <2>4
<1>9. ASSUME NEW m \in T PROVE m + 1 \in T
  <2>1. m \in Nat /\ m + 1 \in Nat
    OBVIOUS
  <2>2. ASSUME m + 1 <= n PROVE At0(x, G((m + 1) + 1), N) = c[1]
    <3>1. m + 1 \in 0..n /\ m <= n /\ m + 1 \in 1..n /\ (m + 1) + 1 \in 1..N
      BY <1>1, <2>1, <2>2
    <3>2. At0(x, G(m + 1), N) = c[1]
      BY <1>1, <1>9, <3>1
    <3>3. At0(x, Powers(x, m + 1), N) = 0
      BY <1>1, <3>1, PowersAlways DEF PowersAt0
    <3>4. At0(x, G((m + 1) + 1), N)
            = GfAdd(At0(x, G(m + 1), N), GfMul(c[(m + 1) + 1], At0(x, Powers(x, m + 1), N)))
      BY <1>5, <3>1
    <3>5. c[1] \in Byte /\ c[(m + 1) + 1] \in Byte
      BY <1>1, <3>1
    <3>6. GfAdd(c[1], GfMul(c[(m + 1) + 1], 0)) = c[1]
      BY <3>5, MulZero, AddNeutral
    <3> QED  BY <3>2, <3>3, <3>4, <3>6
  <2> QED  BY <1>1, <2>1, <2>2
<1>10. n \in T
  <2>1. T \in SUBSET Nat
    OBVIOUS
  <2> HIDE DEF T
  <2> QED  BY <1>8, <1>9, <2>1, NatSet
<1>11. At0(x, G(N), N) = c[1]
  BY <1>1, <1>10
<1> HIDE DEF T
<1>12. \A i \in 1..N : g[i] = G(N)[i]
  <2>1. ASSUME NEW i \in 1..N PROVE g[i] = G(N)[i]
    <3>1. i \in Nat /\ x[i] \in Byte /\ i \in 1..(n + 1) /\ Len(c) = N
      BY <1>1
    <3>2. g[i] = Sums(PolyTerms(c, x[i]))[N]
      BY <3>1, EvalIs
    <3> QED  BY <3>1, <3>2 DEF G
  <2> QED  BY <2>1
<1>13. At0(x, g, N) = At0(x, G(N), N)
  BY <1>1, <1>2, <1>12, At0Same
<1> QED
  BY <1>1, <1>11, <1>13

-----------------------------------------------------------------------------
(* What reconstruct() computes *)

(* The inverse of a product is the product of the inverses, as the code      *)
(* divides once where W divides by each factor.                              *)
LEMMA InvMultiplies ==
  ASSUME NEW a \in Byte, NEW b \in Byte
  PROVE  GfInv(GfMul(a, b)) = GfMul(GfInv(a), GfInv(b))
<1>1. GfInv(a) \in Byte /\ GfInv(b) \in Byte /\ GfInv(0) = 0
  BY InvType DEF GfInv
<1>2. CASE a = 0 \/ b = 0
  <2>1. GfMul(a, b) = 0
    BY <1>2, MulZero
  <2>2. GfMul(GfInv(a), GfInv(b)) = 0
    BY <1>1, <1>2, MulZero
  <2> QED  BY <1>1, <2>1, <2>2
<1>3. CASE a # 0 /\ b # 0
  <2> DEFINE m == GfMul(a, b)
             i == GfMul(GfInv(a), GfInv(b))
  <2>1. m \in Byte /\ i \in Byte
    BY <1>1, MulType
  <2>2. m # 0
    <3>1. ASSUME m = 0 PROVE FALSE
      <4>1. GfMul(a, b) = GfMul(a, 0)
        BY <3>1, MulZero
      <4> QED  BY <1>3, <4>1, SomeBytes, NoZeroDivisors
    <3> QED  BY <3>1
  <2>3. GfMul(m, i) = GfMul(GfMul(a, GfInv(a)), GfMul(b, GfInv(b)))
    BY <1>1, MulMedial
  <2>4. GfMul(a, GfInv(a)) = 1 /\ GfMul(b, GfInv(b)) = 1
    BY <1>3, InverseIs
  <2>5. GfMul(m, i) = 1
    BY <2>3, <2>4, SomeBytes, MulOne
  <2>6. GfMul(m, GfInv(m)) = 1 /\ GfInv(m) \in Byte
    BY <2>1, <2>2, InverseIs
  <2> HIDE DEF m, i
  <2>7. GfInv(m) = i
    BY <2>1, <2>2, <2>5, <2>6, NoZeroDivisors
  <2> QED  BY <2>7 DEF m, i
<1> QED
  BY <1>2, <1>3

(* The points are the first Threshold of a sequence of indices.              *)
PointsOf(points) == [j \in Nat |-> IF j \in 1..Threshold THEN points[j] ELSE 0]

(* The weight that reconstruct_byte() computes is W.                         *)
LEMMA WeightIs ==
  ASSUME NEW points, NEW x \in Points, \A j \in 1..Threshold : points[j] = x[j],
         NEW i \in 1..Threshold, Threshold \in Nat
  PROVE  Weight(points, i) = W(x, i, Threshold)
<1> DEFINE First == [num |-> 1, den |-> 1]
           Next1(s, j) == IF j = i THEN s
                          ELSE [num |-> GfMul(s.num, points[j]),
                                den |-> GfMul(s.den, GfAdd(points[i], points[j]))]
           IsProduct(f) == f = [j \in 0..Threshold |-> IF j = 0 THEN First ELSE Next1(f[j - 1], j)]
           S == [num : Byte, den : Byte]
           step == [j \in Nat |-> [s \in S |-> IF j \in 1..Threshold THEN Next1(s, j) ELSE s]]
<1>1. \A j \in 1..Threshold : points[j] \in Byte /\ x[j] = points[j] /\ j \in Nat
  BY DEF Points
<1>2. First \in S
  BY SomeBytes
<1>3. ASSUME NEW s \in S, NEW j \in 1..Threshold
      PROVE  Next1(s, j) \in S
  <2>1. s.num \in Byte /\ s.den \in Byte /\ points[i] \in Byte /\ points[j] \in Byte
    BY <1>1
  <2>2. GfMul(s.num, points[j]) \in Byte /\ GfMul(s.den, GfAdd(points[i], points[j])) \in Byte
    BY <2>1, AddType, MulType
  <2> QED  BY <2>2
<1> HIDE DEF First, Next1, S
<1>4. step \in [Nat -> [S -> S]]
  BY <1>3
<1>5. PICK f \in [0..Threshold -> S] : Iterates(f, 0..Threshold, First, step)
  <2> HIDE DEF step
  <2> QED  BY <1>2, <1>4, RecursionUpTo
<1>6. ASSUME NEW j \in 0..Threshold
      PROVE  f[j] = IF j = 0 THEN First ELSE Next1(f[j - 1], j)
  <2>1. f[j] = IF j = 0 THEN First ELSE step[j][f[j - 1]]
    <3> HIDE DEF step
    <3> QED  BY <1>5 DEF Iterates
  <2>2. j # 0 => j - 1 \in 0..Threshold /\ j \in Nat /\ j \in 1..Threshold
    OBVIOUS
  <2>3. j # 0 => f[j - 1] \in S
    BY <2>2
  <2>4. j # 0 => step[j][f[j - 1]] = Next1(f[j - 1], j)
    BY <2>2, <2>3
  <2> HIDE DEF step
  <2> QED  BY <2>1, <2>4
<1> HIDE DEF step
<1>7. IsProduct(f)
  BY <1>6
<1>8. \E g : IsProduct(g) /\ Weight(points, i) = GfMul(g[Threshold].num, GfInv(g[Threshold].den))
  BY <1>7 DEF Weight, First, Next1
<1>9. PICK g : IsProduct(g) /\ Weight(points, i) = GfMul(g[Threshold].num, GfInv(g[Threshold].den))
  BY <1>8
<1>10. g[0] = First /\ \A j \in 1..Threshold : g[j] = Next1(g[j - 1], j)
  <2>1. 0 \in 0..Threshold /\ \A j \in 1..Threshold : j \in 0..Threshold /\ j # 0
    OBVIOUS
  <2> QED  BY <1>9, <2>1
<1> DEFINE T == {j \in Nat : j <= Threshold =>
                   /\ g[j].num \in Byte /\ g[j].den \in Byte
                   /\ GfMul(g[j].num, GfInv(g[j].den)) = W(x, i, j)}
<1>11. 0 \in T
  <2>1. g[0].num = 1 /\ g[0].den = 1
    BY <1>10 DEF First
  <2>2. GfInv(1) \in Byte /\ GfMul(1, GfInv(1)) = 1
    BY SomeBytes, InverseIs, InvType
  <2>3. W(x, i, 0) = 1
    BY <1>1, WIs
  <2> QED  BY <2>1, <2>2, <2>3, SomeBytes
<1>12. ASSUME NEW j \in T PROVE j + 1 \in T
  <2>1. j \in Nat /\ j + 1 \in Nat
    OBVIOUS
  <2>2. ASSUME j + 1 <= Threshold
        PROVE  /\ g[j + 1].num \in Byte /\ g[j + 1].den \in Byte
               /\ GfMul(g[j + 1].num, GfInv(g[j + 1].den)) = W(x, i, j + 1)
    <3> DEFINE k == j + 1
               p == g[j].num
               q == g[j].den
    <3>1. k \in 1..Threshold /\ k - 1 = j /\ k \in Nat /\ j <= Threshold
      BY <2>1, <2>2
    <3>2. p \in Byte /\ q \in Byte /\ GfMul(p, GfInv(q)) = W(x, i, j)
      BY <1>12, <3>1
    <3>3. g[k] = Next1(g[j], k)
      BY <1>10, <3>1
    <3>4. W(x, i, k) = GfMul(W(x, i, j), Ratio(x, i, k)) /\ W(x, i, j) \in Byte
      BY <1>1, <2>1, WIs
    <3> HIDE DEF k
    <3>5. CASE k = i
      <4>1. g[k] = g[j] /\ Ratio(x, i, k) = 1
        BY <3>3, <3>5 DEF Next1, Ratio
      <4>2. W(x, i, k) = W(x, i, j)
        BY <3>4, <4>1, MulOne
      <4> QED  BY <3>2, <4>1, <4>2 DEF k
    <3>6. CASE k # i
      <4> DEFINE a == x[k]
                 d == GfAdd(x[i], x[k])
      <4>1. a \in Byte /\ d \in Byte /\ GfInv(d) \in Byte /\ GfInv(q) \in Byte
        BY <1>1, <3>1, <3>2, AddType, InvType
      <4>2. g[k].num = GfMul(p, a) /\ g[k].den = GfMul(q, d)
        BY <1>1, <3>1, <3>3, <3>6 DEF Next1
      <4>3. Ratio(x, i, k) = GfMul(a, GfInv(d))
        BY <3>6 DEF Ratio
      <4> HIDE DEF a, d, p, q
      <4>4. GfInv(GfMul(q, d)) = GfMul(GfInv(q), GfInv(d))
        BY <3>2, <4>1, InvMultiplies
      <4>5. GfMul(GfMul(p, a), GfMul(GfInv(q), GfInv(d)))
              = GfMul(GfMul(p, GfInv(q)), GfMul(a, GfInv(d)))
        BY <3>2, <4>1, MulMedial
      <4>6. GfMul(g[k].num, GfInv(g[k].den)) = W(x, i, k)
        BY <3>2, <3>4, <4>2, <4>3, <4>4, <4>5
      <4> QED  BY <3>2, <4>1, <4>2, <4>6, MulType DEF k
    <3> QED  BY <3>5, <3>6
  <2> QED  BY <2>1, <2>2
<1>13. Threshold \in T
  <2>1. T \in SUBSET Nat
    OBVIOUS
  <2> HIDE DEF T
  <2> QED  BY <1>11, <1>12, <2>1, NatSet
<1>14. GfMul(g[Threshold].num, GfInv(g[Threshold].den)) = W(x, i, Threshold)
  BY <1>13
<1> QED
  BY <1>9, <1>14

(* reconstruct_byte() returns the interpolated value at 0.                   *)
LEMMA ReconstructIs ==
  ASSUME NEW points, NEW x \in Points, \A j \in 1..Threshold : points[j] = x[j],
         NEW g \in [Nat -> Byte], \A j \in 1..Threshold : shares[points[j]] = g[j],
         Threshold \in Nat
  PROVE  ReconstructByte(points) = At0(x, g, Threshold)
<1> DEFINE t == Terms(x, g, Threshold)
           IsRun(f) == f = [i \in 0..Threshold |->
                             IF i = 0 THEN 0
                             ELSE GfAdd(f[i - 1], GfMul(shares[points[i]], Weight(points, i)))]
           s == [i \in 0..Threshold |-> Sums(t)[i]]
<1>1. t \in [Nat -> Byte]
  BY TermsType
<1>2. ASSUME NEW i \in 1..Threshold
      PROVE  t[i] = GfMul(shares[points[i]], Weight(points, i))
  <2>1. Weight(points, i) = W(x, i, Threshold)
    BY WeightIs
  <2>2. i \in Nat
    OBVIOUS
  <2> QED  BY <2>1, <2>2 DEF Terms
<1> HIDE DEF t
<1>3. ASSUME NEW i \in 1..Threshold
      PROVE  Sums(t)[i] = GfAdd(Sums(t)[i - 1], t[i])
  <2>1. i - 1 \in Nat /\ (i - 1) + 1 = i
    OBVIOUS
  <2>2. Sums(t)[(i - 1) + 1] = GfAdd(Sums(t)[i - 1], t[(i - 1) + 1])
    BY <1>1, <2>1, SumsAre
  <2> QED  BY <2>1, <2>2
<1>4. Sums(t)[0] = 0
  BY <1>1, SumsAre
<1>5. IsRun(s)
  <2>1. ASSUME NEW i \in 0..Threshold
        PROVE  s[i] = IF i = 0 THEN 0
                      ELSE GfAdd(s[i - 1], GfMul(shares[points[i]], Weight(points, i)))
    <3>1. CASE i = 0
      BY <1>4, <3>1
    <3>2. CASE i # 0
      <4>1. i \in 1..Threshold /\ i - 1 \in 0..Threshold
        BY <3>2
      <4>2. s[i] = Sums(t)[i] /\ s[i - 1] = Sums(t)[i - 1]
        BY <4>1
      <4> HIDE DEF s
      <4> QED  BY <1>2, <1>3, <3>2, <4>1, <4>2
    <3> QED  BY <3>1, <3>2
  <2> QED  BY <2>1
<1>6. \E f : IsRun(f) /\ ReconstructByte(points) = f[Threshold]
  <2> HIDE DEF s
  <2> QED  BY <1>5 DEF ReconstructByte
<1>7. PICK f : IsRun(f) /\ ReconstructByte(points) = f[Threshold]
  BY <1>6
<1> DEFINE T == {i \in Nat : i <= Threshold => f[i] = Sums(t)[i]}
<1>8. 0 \in T
  <2>1. 0 \in 0..Threshold
    OBVIOUS
  <2> QED  BY <1>4, <1>7, <2>1
<1>9. ASSUME NEW i \in T PROVE i + 1 \in T
  <2>1. i \in Nat /\ i + 1 \in Nat
    OBVIOUS
  <2>2. ASSUME i + 1 <= Threshold PROVE f[i + 1] = Sums(t)[i + 1]
    <3>1. i + 1 \in 0..Threshold /\ i + 1 # 0 /\ (i + 1) - 1 = i /\ i <= Threshold /\ i + 1 \in 1..Threshold
      BY <2>1, <2>2
    <3>2. f[i + 1] = GfAdd(f[i], GfMul(shares[points[i + 1]], Weight(points, i + 1)))
      BY <1>7, <3>1
    <3>3. f[i] = Sums(t)[i]
      BY <1>9, <3>1
    <3>4. Sums(t)[i + 1] = GfAdd(Sums(t)[i], t[i + 1])
      BY <1>3, <3>1
    <3> QED  BY <1>2, <3>1, <3>2, <3>3, <3>4
  <2> QED  BY <2>1, <2>2
<1>10. Threshold \in T
  <2>1. T \in SUBSET Nat
    OBVIOUS
  <2> HIDE DEF T
  <2> QED  BY <1>8, <1>9, <2>1, NatSet
<1> QED
  BY <1>7, <1>10 DEF At0, t

-----------------------------------------------------------------------------
(* The specification *)

Coefs(secret, random) == <<secret>> \o random

(* The shares are the values of one polynomial whose lowest coefficient is   *)
(* the secret, and what is collected are indices of shares.                  *)
Split ==
  /\ shareSecret \in ShareSecrets
  /\ \E random \in [1..(Threshold - 1) -> Coefficients] :
       shares = [i \in 1..TotalShares |-> EvalPolynomial(Coefs(shareSecret, random), i)]

ShareInv ==
  /\ shareSecret \in ShareSecrets \cup {0}
  /\ shares = << >> \/ Split
  /\ collected \in Seq(1..TotalShares) /\ Len(collected) <= Threshold + 1
  /\ shares = << >> => collected = << >>
  /\ shareResult \in -2..255
  /\ SecretComesBack

(* What ThresholdConfig::new() and the types say of the constants.           *)
LEMMA ShareConstants ==
  /\ Threshold \in Nat /\ Threshold >= 1 /\ TotalShares \in Nat
  /\ Threshold <= TotalShares /\ TotalShares <= 255
  /\ ShareSecrets \subseteq Byte /\ Coefficients \subseteq Byte
  /\ \A i \in 1..TotalShares : i \in Byte /\ i # 0
<1>1. /\ Threshold \in 1..TotalShares /\ TotalShares \in 1..255
      /\ ShareSecrets \subseteq 0..255 /\ Coefficients \subseteq 0..255
  BY ShareAssumption DEF ShareAssumption
<1>2. \A i \in 1..TotalShares : i \in 0..255 /\ i # 0
  BY <1>1
<1> QED
  BY <1>1, <1>2 DEF Byte

(* A function over a segment of the numbers from 1 is a sequence.            *)
LEMMA SegmentIsSequence ==
  ASSUME NEW S, NEW n \in Nat, NEW f \in [1..n -> S]
  PROVE  f \in Seq(S) /\ Len(f) = n
<1>1. f \in Seq(S)
  OBVIOUS
<1>2. DOMAIN f = 1..n /\ DOMAIN f = 1..Len(f) /\ Len(f) \in Nat
  BY <1>1, LenProperties
<1>3. Len(f) = n
  BY <1>2
<1> QED BY <1>1, <1>3

(* The coefficients are bytes, one per share needed, the secret the lowest   *)
(* and the others those drawn.                                               *)
LEMMA CoefsAre ==
  ASSUME NEW secret \in Byte, NEW random \in [1..(Threshold - 1) -> Byte]
  PROVE  /\ Coefs(secret, random) \in Seq(Byte)
         /\ Len(Coefs(secret, random)) = Threshold
         /\ Coefs(secret, random)[1] = secret
         /\ \A k \in 1..(Threshold - 1) : Coefs(secret, random)[k + 1] = random[k]
<1>1. Threshold - 1 \in Nat /\ Threshold \in Nat
  BY ShareConstants
<1>2. random \in Seq(Byte) /\ Len(random) = Threshold - 1
  BY <1>1, SegmentIsSequence
<1>3. <<secret>> \in Seq(Byte) /\ Len(<<secret>>) = 1 /\ <<secret>>[1] = secret
  OBVIOUS
<1> DEFINE s == <<secret>>
<1> HIDE DEF s
<1>4. /\ s \o random \in Seq(Byte) /\ Len(s \o random) = Len(s) + Len(random)
      /\ \A i \in 1..(Len(s) + Len(random)) :
           (s \o random)[i] = IF i <= Len(s) THEN s[i] ELSE random[i - Len(s)]
  BY <1>2, <1>3, ConcatProperties DEF s
<1>5. (s \o random)[1] = s[1]
  BY <1>1, <1>2, <1>3, <1>4 DEF s
<1>6. ASSUME NEW k \in 1..(Threshold - 1) PROVE (s \o random)[k + 1] = random[k]
  <2>1. k + 1 \in 1..(1 + (Threshold - 1)) /\ ~(k + 1 <= 1) /\ (k + 1) - 1 = k
    BY <1>1
  <2> QED  BY <1>2, <1>3, <1>4, <2>1 DEF s
<1> QED
  BY <1>1, <1>2, <1>3, <1>4, <1>5, <1>6 DEF s, Coefs

(* The value of a polynomial is a byte.                                      *)
LEMMA EvalType ==
  ASSUME NEW c \in Seq(Byte), NEW x \in Byte
  PROVE  EvalPolynomial(c, x) \in Byte
BY EvalIs, PolyTermsType, SumsAre, LenProperties

(* What the shares are.                                                      *)
LEMMA SharesAre ==
  ASSUME ShareInv, shares # << >>
  PROVE  \E random \in [1..(Threshold - 1) -> Coefficients] :
           /\ shareSecret \in ShareSecrets
           /\ Len(shares) = TotalShares
           /\ \A i \in 1..TotalShares : /\ shares[i] = EvalPolynomial(Coefs(shareSecret, random), i)
                                        /\ shares[i] \in Byte
<1>1. PICK random \in [1..(Threshold - 1) -> Coefficients] :
        /\ shareSecret \in ShareSecrets
        /\ shares = [i \in 1..TotalShares |-> EvalPolynomial(Coefs(shareSecret, random), i)]
  BY DEF ShareInv, Split
<1>2. \A i \in 1..TotalShares : shares[i] = EvalPolynomial(Coefs(shareSecret, random), i)
  BY <1>1
<1>3. \A i \in 1..TotalShares : EvalPolynomial(Coefs(shareSecret, random), i) \in Byte
  <2>1. shareSecret \in Byte /\ random \in [1..(Threshold - 1) -> Byte]
    BY <1>1, ShareConstants
  <2> QED  BY <2>1, CoefsAre, EvalType, ShareConstants
<1>4. Len(shares) = TotalShares
  <2>1. shares \in [1..TotalShares -> Byte]
    BY <1>1, <1>3
  <2> QED  BY <2>1, ShareConstants, SegmentIsSequence
<1> QED
  BY <1>1, <1>2, <1>3, <1>4

(* The theorem about the code: what is reconstructed from different devices  *)
(* is the secret.                                                            *)
LEMMA ReconstructsSecret ==
  ASSUME ShareInv, Len(collected) >= Threshold
  PROVE  /\ ReconstructByte(collected) \in Byte
         /\ IsInjective(SubSeq(collected, 1, Threshold)) => ReconstructByte(collected) = shareSecret
<1> DEFINE x == PointsOf(collected)
           g == [j \in Nat |-> IF j \in 1..Threshold THEN shares[collected[j]] ELSE 0]
<1>1. collected \in Seq(1..TotalShares) /\ Threshold \in Nat /\ Threshold >= 1
      /\ Len(collected) \in Nat
  BY ShareConstants, LenProperties DEF ShareInv
<1>2. ASSUME NEW j \in 1..Threshold
      PROVE  collected[j] \in 1..TotalShares /\ j \in 1..Len(collected)
  <2>1. j \in 1..Len(collected)
    BY <1>1
  <2> QED  BY <1>1, <2>1, ElementOfSeq
<1>3. shares # << >>
  BY <1>1, EmptySeq DEF ShareInv
<1>4. PICK random \in [1..(Threshold - 1) -> Coefficients] :
        /\ shareSecret \in ShareSecrets
        /\ \A i \in 1..TotalShares : /\ shares[i] = EvalPolynomial(Coefs(shareSecret, random), i)
                                     /\ shares[i] \in Byte
  BY <1>3, SharesAre
<1> DEFINE c == Coefs(shareSecret, random)
<1>5. c \in Seq(Byte) /\ Len(c) = Threshold /\ c[1] = shareSecret
  <2>1. shareSecret \in Byte /\ random \in [1..(Threshold - 1) -> Byte]
    BY <1>4, ShareConstants
  <2> QED  BY <2>1, CoefsAre
<1> HIDE DEF c
<1>6. \A j \in 1..Threshold : j \in Nat /\ collected[j] \in Byte /\ shares[collected[j]] \in Byte
  BY <1>1, <1>2, <1>4, ShareConstants
<1>7. x \in Points /\ g \in [Nat -> Byte]
  BY <1>6, SomeBytes DEF PointsOf, Points
<1>8. \A j \in 1..Threshold : collected[j] = x[j] /\ shares[collected[j]] = g[j]
  BY <1>6 DEF PointsOf
<1> HIDE DEF x, g
<1>9. ReconstructByte(collected) = At0(x, g, Threshold)
  BY <1>1, <1>7, <1>8, ReconstructIs
<1>10. At0(x, g, Threshold) \in Byte
  BY <1>1, <1>7, At0Type
<1>11. ASSUME IsInjective(SubSeq(collected, 1, Threshold))
       PROVE  At0(x, g, Threshold) = shareSecret
  <2> DEFINE n == Threshold - 1
             used == SubSeq(collected, 1, Threshold)
  <2>1. n \in Nat /\ n + 1 = Threshold
    BY <1>1
  <2>2. Distinct(x, n + 1)
    <3>1. Len(used) = Threshold /\ \A j \in 1..Threshold : used[j] = collected[j]
      BY <1>1, SubSeqProperties
    <3>2. used \in Seq(1..TotalShares)
      <4>1. \A j \in 1..Threshold : collected[j] \in 1..TotalShares
        BY <1>2
      <4> QED  BY <1>1, <4>1, SubSeqProperties
    <3>3. DOMAIN used = 1..Threshold
      BY <3>1, <3>2, LenProperties
    <3> HIDE DEF used
    <3>4. \A i, j \in 1..Threshold : used[i] = used[j] => i = j
      BY <1>11, <3>3 DEF IsInjective, used
    <3>5. ASSUME NEW i \in 1..Threshold, NEW j \in 1..Threshold, x[i] = x[j] PROVE i = j
      <4>1. used[i] = x[i] /\ used[j] = x[j]
        BY <1>8, <3>1
      <4> QED  BY <3>4, <3>5, <4>1
    <3> HIDE DEF n
    <3> QED  BY <2>1, <3>5 DEF Distinct
  <2>3. \A j \in 1..(n + 1) : g[j] = EvalPolynomial(c, x[j])
    BY <1>2, <1>4, <1>8, <2>1 DEF c
  <2> HIDE DEF n
  <2>4. Len(c) = n + 1
    BY <1>5, <2>1
  <2>5. At0(x, g, n + 1) = c[1]
    BY <1>5, <1>7, <2>1, <2>2, <2>3, <2>4, Interpolates
  <2> QED  BY <1>5, <2>1, <2>5
<1> QED
  BY <1>9, <1>10, <1>11

(* Before split() there is nothing.                                          *)
LEMMA ShareInitInv ==
  ShareInit => ShareInv
<1> SUFFICES ASSUME ShareInit PROVE ShareInv
  OBVIOUS
<1>1. shareSecret = 0 /\ shares = << >> /\ collected = << >> /\ shareResult = -2
  BY DEF ShareInit
<1>2. << >> \in Seq(1..TotalShares) /\ Len(<< >>) = 0
  BY EmptySeq
<1>3. -2 \in -2..255
  OBVIOUS
<1>4. SecretComesBack
  BY <1>1 DEF SecretComesBack
<1> QED
  BY <1>1, <1>2, <1>3, <1>4, ShareConstants DEF ShareInv

(* Every step keeps the invariant: SplitByte makes it, CollectShare adds an  *)
(* index, and Reconstruct relies on ReconstructsSecret.                      *)
LEMMA ShareStepInv ==
  ShareInv /\ [ShareNext]_shareVars => ShareInv'
<1> SUFFICES ASSUME ShareInv, [ShareNext]_shareVars PROVE ShareInv'
  OBVIOUS
<1>1. -2 \in -2..255 /\ -1 \in -2..255
  OBVIOUS
<1>2. CASE SplitByte
  <2>1. PICK secret \in ShareSecrets, random \in [1..(Threshold - 1) -> Coefficients] :
          /\ shareSecret' = secret
          /\ shares' = [x \in 1..TotalShares |-> EvalPolynomial(<<secret>> \o random, x)]
    BY <1>2 DEF SplitByte
  <2>2. collected' = << >> /\ shareResult' = -2
    BY <1>2 DEF SplitByte
  <2>3. Split'
    BY <2>1 DEF Split, Coefs
  <2>4. << >> \in Seq(1..TotalShares) /\ Len(<< >>) = 0
    BY EmptySeq
  <2>5. SecretComesBack'
    BY <2>2 DEF SecretComesBack
  <2> QED  BY <1>1, <2>1, <2>2, <2>3, <2>4, <2>5, ShareConstants DEF ShareInv
<1>3. CASE CollectShare
  <2>1. PICK i \in 1..Len(shares) : collected' = Append(collected, i)
    BY <1>3 DEF CollectShare
  <2>2. /\ Len(collected) <= Threshold /\ shareResult' = -2
        /\ shares' = shares /\ shareSecret' = shareSecret
    BY <1>3 DEF CollectShare
  <2>3. shares # << >>
    <3>1. Len(<< >>) = 0
      BY EmptySeq
    <3> QED  BY <2>1, <3>1
  <2>4. Len(shares) = TotalShares
    BY <2>3, SharesAre
  <2>5. collected \in Seq(1..TotalShares) /\ i \in 1..TotalShares
    BY <2>1, <2>4 DEF ShareInv
  <2>6. collected' \in Seq(1..TotalShares) /\ Len(collected') = Len(collected) + 1 /\ Len(collected) \in Nat
    BY <2>1, <2>5, AppendProperties, LenProperties
  <2>7. Len(collected') <= Threshold + 1
    BY <2>2, <2>6, ShareConstants
  <2>8. SecretComesBack'
    BY <2>2 DEF SecretComesBack
  <2>9. Split'
    BY <2>2, <2>3 DEF ShareInv, Split
  <2> QED  BY <1>1, <2>2, <2>3, <2>6, <2>7, <2>8, <2>9 DEF ShareInv
<1>4. CASE Reconstruct
  <2>1. /\ shares' = shares /\ shareSecret' = shareSecret /\ collected' = collected
        /\ shareResult' = IF Len(collected) < Threshold THEN -1 ELSE ReconstructByte(collected)
    BY <1>4 DEF Reconstruct
  <2>2. Len(collected) \in Nat /\ Threshold \in Nat
    BY ShareConstants, LenProperties DEF ShareInv
  <2>3. Len(collected) >= Threshold =>
          /\ ReconstructByte(collected) \in Byte
          /\ IsInjective(SubSeq(collected, 1, Threshold)) => ReconstructByte(collected) = shareSecret
    BY ReconstructsSecret
  <2>4. /\ shareResult' \in -2..255
        /\ shareResult' = -1 => Len(collected) < Threshold
        /\ shareResult' >= 0 /\ IsInjective(SubSeq(collected, 1, Threshold)) => shareResult' = shareSecret
    <3>1. CASE Len(collected) < Threshold
      BY <2>1, <3>1
    <3>2. CASE ~(Len(collected) < Threshold)
      <4>1. Len(collected) >= Threshold
        BY <2>2, <3>2
      <4>2. ReconstructByte(collected) \in 0..255
        BY <2>3, <4>1 DEF Byte
      <4>3. shareResult' = ReconstructByte(collected)
        BY <2>1, <3>2
      <4>4. shareResult' \in 0..255 /\ shareResult' # -1 /\ shareResult' \in -2..255
        BY <4>2, <4>3
      <4> QED  BY <2>3, <4>1, <4>3, <4>4
    <3> QED  BY <3>1, <3>2
  <2>5. SecretComesBack'
    BY <2>1, <2>4 DEF SecretComesBack
  <2>6. Split' <=> Split
    BY <2>1 DEF Split
  <2> QED  BY <2>1, <2>4, <2>5, <2>6 DEF ShareInv
<1>5. CASE UNCHANGED shareVars
  <2>1. /\ shares' = shares /\ shareSecret' = shareSecret /\ collected' = collected
        /\ shareResult' = shareResult
    BY <1>5 DEF shareVars
  <2>2. SecretComesBack' <=> SecretComesBack
    BY <2>1 DEF SecretComesBack
  <2>3. Split' <=> Split
    BY <2>1 DEF Split
  <2> QED  BY <2>1, <2>2, <2>3 DEF ShareInv
<1> QED
  BY <1>2, <1>3, <1>4, <1>5 DEF ShareNext

(* So it holds in every state.                                               *)
LEMMA ShareInvAlways ==
  ShareSpec => []ShareInv
BY ShareInitInv, ShareStepInv, PTL DEF ShareSpec

(* It says more than the types.                                              *)
LEMMA ShareInvTypes ==
  ShareInv => ShareTypeOK
<1> SUFFICES ASSUME ShareInv PROVE ShareTypeOK
  OBVIOUS
<1>1. CASE shares = << >>
  <2>1. Len(shares) = 0
    BY <1>1, EmptySeq
  <2> QED  BY <2>1 DEF ShareInv, ShareTypeOK
<1>2. CASE shares # << >>
  <2>1. Len(shares) = TotalShares /\ \A i \in 1..TotalShares : shares[i] \in 0..255
    BY <1>2, SharesAre DEF Byte
  <2> QED  BY <2>1 DEF ShareInv, ShareTypeOK
<1> QED
  BY <1>1, <1>2

(* The coefficient i of a polynomial, 0 beyond its end.                      *)
CoefAt(c, i) == IF i \in 1..Len(c) THEN c[i] ELSE 0

\* d has the coefficients of the polynomial q + (x + r) * c.
Raises(d, c, q, r) ==
  /\ Len(d) = Len(c) + 1 /\ d[1] = GfAdd(q, GfMul(r, CoefAt(c, 1)))
  /\ \A k \in 1..Len(c) : d[k + 1] = GfAdd(c[k], GfMul(r, CoefAt(c, k + 1)))

(* So its values are those: the terms of d are made of the terms of c, and   *)
(* so are their sums.                                                        *)
LEMMA RaisedPolynomial ==
  ASSUME NEW c \in Seq(Byte), NEW d \in Seq(Byte), NEW x \in Byte, NEW q \in Byte, NEW r \in Byte,
         Raises(d, c, q, r)
  PROVE  EvalPolynomial(d, x) = GfAdd(q, GfMul(GfAdd(x, r), EvalPolynomial(c, x)))
<1> DEFINE n == Len(c)
           t == PolyTerms(c, x)
           u == PolyTerms(d, x)
           S == Sums(t)
           D == Sums(u)
           Value(m) == GfAdd(q, GfAdd(GfMul(x, S[m]), GfMul(r, S[m + 1])))
<1>1. n \in Nat /\ Len(d) = n + 1 /\ \A k \in 1..n : c[k] \in Byte
  BY LenProperties, ElementOfSeq DEF Raises
<1>2. \A k \in Nat : CoefAt(c, k) \in Byte
  BY <1>1, SomeBytes DEF CoefAt
<1>3. t \in [Nat -> Byte] /\ u \in [Nat -> Byte]
  BY PolyTermsType
<1>4. ASSUME NEW k \in Nat, k \in 1..(n + 1) PROVE t[k] = GfMul(CoefAt(c, k), Power(x, k - 1))
  <2>1. CASE k \in 1..n
    BY <2>1, PolyTermsType DEF CoefAt
  <2>2. CASE k \notin 1..n
    <3>1. t[k] = 0 /\ CoefAt(c, k) = 0
      BY <2>2 DEF CoefAt, PolyTerms
    <3>2. k - 1 \in Nat
      BY <1>4
    <3>3. Power(x, k - 1) \in Byte
      BY <3>2, PowerIs
    <3> QED  BY <3>1, <3>3, MulZero
  <2> QED  BY <2>1, <2>2
<1>5. \A k \in 1..(n + 1) : u[k] = GfMul(d[k], Power(x, k - 1))
  BY <1>1, PolyTermsType
<1>6. t[n + 1] = 0
  BY <1>1 DEF PolyTerms
<1>7. \A m \in Nat : /\ S[0] = 0 /\ S[m] \in Byte /\ S[m + 1] = GfAdd(S[m], t[m + 1])
                     /\ D[0] = 0 /\ D[m] \in Byte /\ D[m + 1] = GfAdd(D[m], u[m + 1])
  BY <1>3, SumsAre
<1>8. EvalPolynomial(c, x) = S[n] /\ EvalPolynomial(d, x) = D[n + 1]
  BY <1>1, EvalIs
<1> HIDE DEF t, u, S, D, n
<1>9. u[1] = GfAdd(q, GfMul(r, t[1]))
  <2>1. /\ 1 \in 1..(n + 1) /\ 1 - 1 = 0 /\ 1 \in Nat
    BY <1>1
  <2>2. t[1] = GfMul(CoefAt(c, 1), Power(x, 0)) /\ u[1] = GfMul(d[1], Power(x, 0))
    <3>1. t[1] = GfMul(CoefAt(c, 1), Power(x, 1 - 1)) /\ u[1] = GfMul(d[1], Power(x, 1 - 1))
      BY <2>1, <1>4, <1>5
    <3> QED  BY <2>1, <3>1
  <2>3. Power(x, 0) = 1
    BY PowerIs, 0 \in Nat
  <2>4. CoefAt(c, 1) \in Byte /\ d[1] = GfAdd(q, GfMul(r, CoefAt(c, 1)))
    BY <1>2 DEF Raises
  <2>5. d[1] \in Byte
    BY <2>4, MulType, AddType
  <2> QED  BY <2>2, <2>3, <2>4, <2>5, MulOne
<1>10. ASSUME NEW k \in 1..n PROVE u[k + 1] = GfAdd(GfMul(x, t[k]), GfMul(r, t[k + 1]))
  <2> DEFINE a == CoefAt(c, k)
             b == CoefAt(c, k + 1)
             p == Power(x, k)
             o == Power(x, k - 1)
  <2>1. k \in Nat /\ k - 1 \in Nat /\ (k - 1) + 1 = k /\ k + 1 \in 1..(n + 1) /\ k \in 1..(n + 1)
        /\ (k + 1) - 1 = k /\ k + 1 \in Nat
    BY <1>1
  <2>2. a \in Byte /\ b \in Byte /\ p \in Byte /\ o \in Byte
    BY <1>2, <2>1, PowerIs
  <2>3. p = GfMul(o, x)
    <3>1. Power(x, (k - 1) + 1) = GfMul(Power(x, k - 1), x)
      BY <2>1, PowerIs
    <3> QED  BY <2>1, <3>1
  <2>4. t[k] = GfMul(a, o)
    BY <1>4, <2>1
  <2>5. t[k + 1] = GfMul(b, p)
    <3>1. t[k + 1] = GfMul(CoefAt(c, k + 1), Power(x, (k + 1) - 1))
      BY <1>4, <2>1
    <3> QED  BY <2>1, <3>1
  <2>6. u[k + 1] = GfMul(d[k + 1], p)
    <3>1. u[k + 1] = GfMul(d[k + 1], Power(x, (k + 1) - 1))
      BY <1>5, <2>1
    <3> QED  BY <2>1, <3>1
  <2>7. d[k + 1] = GfAdd(a, GfMul(r, b))
    BY DEF n, CoefAt, Raises
  <2> HIDE DEF a, b, p, o
  <2>8. u[k + 1] = GfAdd(GfMul(a, p), GfMul(GfMul(r, b), p))
    BY <2>2, <2>6, <2>7, MulType, MulAddsLeft
  <2>9. GfMul(GfMul(r, b), p) = GfMul(r, t[k + 1])
    BY <2>2, <2>5, MulAssociates
  <2>10. GfMul(a, p) = GfMul(x, t[k])
    <3>1. GfMul(a, p) = GfMul(GfMul(a, o), x)
      BY <2>2, <2>3, MulAssociates
    <3>2. GfMul(a, o) \in Byte
      BY <2>2, MulType
    <3> QED  BY <2>4, <3>1, <3>2, MulCommutes
  <2> QED  BY <2>8, <2>9, <2>10
<1> DEFINE T == {m \in Nat : m <= n => D[m + 1] = Value(m)}
<1>11. 0 \in T
  <2>1. S[0] = 0 /\ S[0 + 1] = GfAdd(S[0], t[0 + 1]) /\ D[0 + 1] = GfAdd(D[0], u[0 + 1]) /\ D[0] = 0
    BY <1>7, 0 \in Nat
  <2>2. t[1] \in Byte /\ u[1] \in Byte
    BY <1>3
  <2>3. S[0 + 1] = t[1] /\ D[0 + 1] = u[1]
    BY <2>1, <2>2, AddNeutral
  <2>4. GfMul(x, 0) = 0 /\ GfMul(r, t[1]) \in Byte
    BY <2>2, MulZero, MulType
  <2>5. Value(0) = GfAdd(q, GfMul(r, t[1]))
    BY <2>1, <2>3, <2>4, AddNeutral
  <2> QED  BY <1>9, <2>3, <2>5
<1>12. ASSUME NEW m \in T PROVE m + 1 \in T
  <2>1. m \in Nat /\ m + 1 \in Nat
    OBVIOUS
  <2>2. SUFFICES ASSUME m + 1 <= n PROVE D[(m + 1) + 1] = Value(m + 1)
    BY <2>1
  <2>3. D[m + 1] = Value(m) /\ m + 1 \in 1..n
    BY <1>1, <2>1, <2>2
  <2> DEFINE k == m + 1
             A == GfMul(x, S[m])
             B == GfMul(r, S[k])
             E == GfMul(x, t[k])
             F == GfMul(r, t[k + 1])
  <2>4. D[k + 1] = GfAdd(D[k], u[k + 1]) /\ u[k + 1] = GfAdd(E, F)
    BY <1>7, <1>10, <2>1, <2>3
  <2>5. /\ S[m] \in Byte /\ S[k] \in Byte /\ t[k] \in Byte /\ t[k + 1] \in Byte
        /\ S[k] = GfAdd(S[m], t[k]) /\ S[k + 1] = GfAdd(S[k], t[k + 1])
    <3>1. k \in Nat /\ k + 1 \in Nat
      BY <2>1
    <3>2. t[k] \in Byte /\ t[k + 1] \in Byte
      BY <1>3, <3>1
    <3>3. S[m] \in Byte /\ S[k] = GfAdd(S[m], t[k])
      BY <1>7, <2>1
    <3> HIDE DEF k
    <3>4. S[k] \in Byte /\ S[k + 1] = GfAdd(S[k], t[k + 1])
      BY <1>7, <3>1
    <3> QED  BY <3>2, <3>3, <3>4
  <2>6. A \in Byte /\ B \in Byte /\ E \in Byte /\ F \in Byte
    BY <2>5, MulType
  <2>7. GfMul(x, S[k]) = GfAdd(A, E) /\ GfMul(r, S[k + 1]) = GfAdd(B, F)
    BY <2>5, MulAddsRight
  <2>8. D[k] = GfAdd(q, GfAdd(A, B)) /\ Value(k) = GfAdd(q, GfAdd(GfAdd(A, E), GfAdd(B, F)))
    BY <2>3, <2>7
  <2> HIDE DEF A, B, E, F, Value, k
  <2>9. GfAdd(A, B) \in Byte /\ GfAdd(E, F) \in Byte
    BY <2>6, AddType
  <2>10. GfAdd(GfAdd(A, E), GfAdd(B, F)) = GfAdd(GfAdd(A, B), GfAdd(E, F))
    BY <2>6, AddMedial
  <2>11. GfAdd(GfAdd(q, GfAdd(A, B)), GfAdd(E, F)) = GfAdd(q, GfAdd(GfAdd(A, B), GfAdd(E, F)))
    BY <2>9, AddAssociates
  <2>12. D[k + 1] = Value(k)
    BY <2>4, <2>8, <2>10, <2>11
  <2> QED  BY <2>12 DEF k
<1>13. D[n + 1] = Value(n)
  <2>1. T = Nat
    <3>1. T \in SUBSET Nat
      OBVIOUS
    <3> HIDE DEF T
    <3> QED  BY <1>11, <1>12, <3>1, NatSet
  <2>2. n \in T
    BY <1>1, <2>1
  <2> QED  BY <1>1, <2>2
<1>14. S[n + 1] = S[n] /\ S[n] \in Byte
  BY <1>1, <1>6, <1>7, AddNeutral
<1>15. Value(n) = GfAdd(q, GfMul(GfAdd(x, r), S[n]))
  BY <1>14, MulAddsLeft
<1> QED
  BY <1>8, <1>13, <1>15

(* Through any values at n points there is a polynomial of n coefficients:   *)
(* one through the first points, raised by the last.                         *)
LEMMA PolynomialThrough ==
  ASSUME NEW x \in Points, NEW n \in Nat, NEW v \in [Byte -> Byte]
  PROVE  \E c \in Seq(Byte) : /\ Len(c) = n
                              /\ \A i \in 1..n : EvalPolynomial(c, x[i]) = v[x[i]]
<1> DEFINE Fits(c, w, m) == Len(c) = m /\ \A i \in 1..m : EvalPolynomial(c, x[i]) = w[x[i]]
           T == {m \in Nat : \A w \in [Byte -> Byte] : \E c \in Seq(Byte) : Fits(c, w, m)}
<1>1. 0 \in T
  <2>1. << >> \in Seq(Byte) /\ Len(<< >>) = 0 /\ 1..0 = {}
    BY EmptySeq
  <2>2. \A w \in [Byte -> Byte] : Fits(<< >>, w, 0)
    BY <2>1
  <2> HIDE DEF Fits
  <2> QED  BY <2>1, <2>2
<1>2. ASSUME NEW m \in T PROVE m + 1 \in T
  <2>1. m \in Nat /\ m + 1 \in Nat
    OBVIOUS
  <2>2. SUFFICES ASSUME NEW w \in [Byte -> Byte] PROVE \E d \in Seq(Byte) : Fits(d, w, m + 1)
    BY <2>1
  <2> DEFINE r == x[m + 1]
             q == w[r]
             rest == [y \in Byte |-> GfMul(GfAdd(w[y], q), GfInv(GfAdd(y, r)))]
  <2>3. r \in Byte /\ q \in Byte /\ \A i \in 1..(m + 1) : x[i] \in Byte
    BY <2>1 DEF Points
  <2>4. rest \in [Byte -> Byte]
    BY <2>3, AddType, InvType, MulType
  <2>5. PICK c \in Seq(Byte) : Fits(c, rest, m)
    BY <2>4
  <2> HIDE DEF r
  <2> DEFINE d == [k \in 1..(m + 1) |-> IF k = 1 THEN GfAdd(q, GfMul(r, CoefAt(c, 1)))
                                         ELSE GfAdd(c[k - 1], GfMul(r, CoefAt(c, k)))]
  <2>6. Len(c) = m /\ \A k \in 1..m : c[k] \in Byte
    BY <2>5, ElementOfSeq
  <2>7. \A k \in Nat : CoefAt(c, k) \in Byte
    BY <2>6, SomeBytes DEF CoefAt
  <2>8. d \in [1..(m + 1) -> Byte]
    <3>1. ASSUME NEW k \in 1..(m + 1)
          PROVE  (IF k = 1 THEN GfAdd(q, GfMul(r, CoefAt(c, 1)))
                  ELSE GfAdd(c[k - 1], GfMul(r, CoefAt(c, k)))) \in Byte
      <4>1. CoefAt(c, 1) \in Byte /\ CoefAt(c, k) \in Byte /\ (k # 1 => c[k - 1] \in Byte)
        BY <2>1, <2>6, <2>7
      <4> HIDE DEF q
      <4>2. GfMul(r, CoefAt(c, 1)) \in Byte /\ GfMul(r, CoefAt(c, k)) \in Byte
        BY <2>3, <4>1, MulType
      <4> QED  BY <2>3, <4>1, <4>2, AddType
    <3> HIDE DEF q
    <3> QED  BY <3>1
  <2>9. d \in Seq(Byte) /\ Len(d) = m + 1
    <3> HIDE DEF d
    <3> QED  BY <2>1, <2>8, SegmentIsSequence
  <2>10. d[1] = GfAdd(q, GfMul(r, CoefAt(c, 1)))
    BY <2>1
  <2>11. \A k \in 1..Len(c) : d[k + 1] = GfAdd(c[k], GfMul(r, CoefAt(c, k + 1)))
    <3>1. SUFFICES ASSUME NEW k \in 1..m
                   PROVE  d[k + 1] = GfAdd(c[k], GfMul(r, CoefAt(c, k + 1)))
      BY <2>6
    <3>2. k + 1 \in 1..(m + 1) /\ k + 1 # 1 /\ (k + 1) - 1 = k
      BY <2>1
    <3> QED  BY <3>2
  <2> HIDE DEF d
  <2>12. ASSUME NEW i \in 1..(m + 1) PROVE EvalPolynomial(d, x[i]) = w[x[i]]
    <3> DEFINE y == x[i]
               e == EvalPolynomial(c, y)
               s == GfAdd(y, r)
    <3>1. y \in Byte /\ w[y] \in Byte
      BY <2>3
    <3> HIDE DEF y
    <3>2. e \in Byte /\ s \in Byte
      BY <2>3, <3>1, EvalType, AddType
    <3>3. EvalPolynomial(d, y) = GfAdd(q, GfMul(s, e))
      <4> HIDE DEF q
      <4>1. Len(d) = Len(c) + 1
        BY <2>6, <2>9
      <4> HIDE DEF Fits, rest
      <4>2. Raises(d, c, q, r)
        BY <2>10, <2>11, <4>1 DEF Raises
      <4> QED  BY <2>3, <2>9, <3>1, <4>2, RaisedPolynomial
    <3>4. CASE y = r
      <4>1. s = 0
        BY <3>1, <3>4, AddNeutral
      <4>2. GfMul(s, e) = 0
        BY <3>2, <4>1, MulZero
      <4>3. EvalPolynomial(d, y) = q
        BY <2>3, <3>3, <4>2, AddNeutral
      <4> QED  BY <3>4, <4>3 DEF y
    <3>5. CASE y # r
      <4>1. i \in 1..m
        <5>1. i # m + 1
          BY <3>5 DEF r, y
        <5> QED  BY <2>1, <5>1
      <4>2. e = GfMul(GfAdd(w[y], q), GfInv(s))
        <5>1. e = rest[y]
          BY <2>5, <4>1 DEF y
        <5> QED  BY <3>1, <5>1
      <4>3. s # 0
        BY <2>3, <3>1, <3>5, AddOfDifferent
      <4>4. GfInv(s) \in Byte /\ GfMul(s, GfInv(s)) = 1 /\ GfAdd(w[y], q) \in Byte
        BY <2>3, <3>1, <3>2, <4>3, InverseIs, AddType
      <4> HIDE DEF s, e
      <4>5. GfMul(s, e) = GfAdd(w[y], q)
        <5> DEFINE g == GfAdd(w[y], q)
                   j == GfInv(s)
        <5> HIDE DEF g, j
        <5>1. g \in Byte /\ j \in Byte /\ GfMul(s, j) = 1 /\ e = GfMul(g, j)
          BY <4>2, <4>4 DEF g, j
        <5>2. GfMul(s, GfMul(g, j)) = GfMul(s, GfMul(j, g)) /\ GfMul(s, GfMul(j, g)) = GfMul(GfMul(s, j), g)
          BY <3>2, <5>1, MulCommutes, MulAssociates
        <5>3. GfMul(s, e) = g
          BY <5>1, <5>2, MulOne
        <5> QED  BY <5>3 DEF g
      <4>6. GfAdd(q, GfAdd(w[y], q)) = w[y]
        <5> HIDE DEF q
        <5>1. GfAdd(w[y], q) = GfAdd(q, w[y])
          BY <2>3, <3>1, AddCommutes
        <5>2. GfAdd(q, GfAdd(q, w[y])) = GfAdd(GfAdd(q, q), w[y])
          BY <2>3, <3>1, AddAssociates
        <5> QED  BY <2>3, <3>1, <5>1, <5>2, AddNeutral
      <4> QED  BY <3>3, <4>5, <4>6 DEF y
    <3> QED  BY <3>4, <3>5
  <2> QED  BY <2>9, <2>12
<1>3. T = Nat
  <2>1. T \in SUBSET Nat
    OBVIOUS
  <2> HIDE DEF T
  <2> QED  BY <1>1, <1>2, <2>1, NatSet
<1>4. n \in T
  BY <1>3
<1> QED
  BY <1>4

(* Over fewer shares than needed, whatever they are, any secret could have   *)
(* been split.                                                               *)
LEMMA FewerFitAll ==
  ASSUME NEW devices \in SUBSET (1..TotalShares), Cardinality(devices) < Threshold,
         NEW g \in [Byte -> Byte], NEW secret \in Byte
  PROVE  \E random \in [1..(Threshold - 1) -> Byte] :
           \A i \in devices : EvalPolynomial(Coefs(secret, random), i) = g[i]
<1> DEFINE m == Cardinality(devices)
           n == Threshold - 1
           v == [y \in Byte |-> GfMul(GfAdd(secret, g[y]), GfInv(y))]
<1>1. IsFiniteSet(devices)
  <2>1. IsFiniteSet(1..TotalShares)
    BY ShareConstants, FS_Interval
  <2> QED  BY <2>1, FS_Subset
<1>2. PICK f : f \in Bijection(1..m, devices)
  BY <1>1, FS_CardinalityType DEF ExistsBijection
<1>3. f \in [1..m -> devices] /\ \A i \in devices : \E j \in 1..m : f[j] = i
  BY <1>2 DEF Bijection, Surjection
<1>4. m \in Nat /\ n \in Nat /\ m <= n
  BY <1>1, FS_CardinalityType, ShareConstants
<1> HIDE DEF m, n
<1> DEFINE x == [j \in Nat |-> IF j \in 1..m THEN f[j] ELSE 0]
<1>5. x \in Points
  <2>1. \A j \in 1..m : f[j] \in Byte
    BY <1>3, ShareConstants
  <2> QED  BY <2>1, SomeBytes DEF Points
<1>6. v \in [Byte -> Byte]
  BY AddType, InvType, MulType
<1>7. \A i \in devices : \E j \in 1..n : x[j] = i
  BY <1>3, <1>4
<1> HIDE DEF x
<1>8. PICK c \in Seq(Byte) : Len(c) = n /\ \A j \in 1..n : EvalPolynomial(c, x[j]) = v[x[j]]
  <2> HIDE DEF v
  <2> QED  BY <1>4, <1>5, <1>6, PolynomialThrough
<1>9. c \in [1..n -> Byte]
  BY <1>4, <1>8
<1>10. ASSUME NEW i \in devices PROVE EvalPolynomial(Coefs(secret, c), i) = g[i]
  <2> DEFINE d == Coefs(secret, c)
  <2>1. i \in Byte /\ i # 0
    BY ShareConstants
  <2>2. EvalPolynomial(c, i) = GfMul(GfAdd(secret, g[i]), GfInv(i))
    <3>1. EvalPolynomial(c, i) = v[i]
      BY <1>7, <1>8
    <3> QED  BY <2>1, <3>1
  <2>3. Raises(d, c, secret, 0)
    <3>1. d \in Seq(Byte) /\ Len(d) = n + 1 /\ d[1] = secret /\ \A k \in 1..n : d[k + 1] = c[k]
      <4>1. n + 1 = Threshold
        BY <1>4, ShareConstants DEF n
      <4> QED  BY <1>9, <4>1, CoefsAre DEF n
    <3>2. \A k \in Nat : CoefAt(c, k) \in Byte
      BY <1>8, <1>9, SomeBytes DEF CoefAt
    <3>3. \A k \in Nat : GfMul(0, CoefAt(c, k)) = 0
      BY <3>2, MulZero
    <3>4. d[1] = GfAdd(secret, GfMul(0, CoefAt(c, 1)))
      BY <3>1, <3>3, AddNeutral
    <3>5. ASSUME NEW k \in 1..n PROVE d[k + 1] = GfAdd(c[k], GfMul(0, CoefAt(c, k + 1)))
      <4>1. c[k] \in Byte /\ GfMul(0, CoefAt(c, k + 1)) = 0 /\ d[k + 1] = c[k]
        BY <1>4, <1>9, <3>1, <3>3
      <4> QED  BY <4>1, AddNeutral
    <3> HIDE DEF d
    <3> QED  BY <1>8, <3>1, <3>4, <3>5 DEF Raises
  <2>4. d \in Seq(Byte)
    BY <1>9, CoefsAre DEF n
  <2> HIDE DEF d
  <2>5. EvalPolynomial(d, i) = GfAdd(secret, GfMul(GfAdd(i, 0), EvalPolynomial(c, i)))
    BY <2>1, <2>3, <2>4, SomeBytes, RaisedPolynomial
  <2> DEFINE s == GfAdd(secret, g[i])
             j == GfInv(i)
  <2>6. s \in Byte /\ j \in Byte /\ GfMul(i, j) = 1 /\ g[i] \in Byte
    BY <2>1, AddType, InverseIs
  <2>7. GfMul(i, GfMul(s, j)) = s
    <3> HIDE DEF s, j
    <3>1. GfMul(i, GfMul(s, j)) = GfMul(i, GfMul(j, s)) /\ GfMul(i, GfMul(j, s)) = GfMul(GfMul(i, j), s)
      BY <2>1, <2>6, MulCommutes, MulAssociates
    <3> QED  BY <2>6, <3>1, MulOne
  <2>8. GfAdd(secret, s) = g[i]
    <3>1. GfAdd(secret, GfAdd(secret, g[i])) = GfAdd(GfAdd(secret, secret), g[i])
      BY <2>6, AddAssociates
    <3> QED  BY <2>6, <3>1, AddNeutral
  <2> QED  BY <2>1, <2>2, <2>5, <2>7, <2>8, AddNeutral DEF d
<1> QED
  BY <1>9, <1>10 DEF n

(* And it says what the run checks.                                          *)
LEMMA ShareInvHolds ==
  ShareInv => SharesHold
<1> SUFFICES ASSUME ShareInv PROVE SharesHold
  OBVIOUS
<1>1. SecretComesBack
  BY DEF ShareInv
<1> DEFINE devices == Range(collected)
           g == [y \in Byte |-> IF y \in 1..TotalShares /\ shares # << >> THEN shares[y] ELSE 0]
<1>2. devices \in SUBSET (1..TotalShares)
  <2>1. collected \in Seq(1..TotalShares)
    BY DEF ShareInv
  <2>2. DOMAIN collected = 1..Len(collected) /\ \A j \in 1..Len(collected) : collected[j] \in 1..TotalShares
    BY <2>1, LenProperties, ElementOfSeq
  <2> QED  BY <2>2 DEF Range
<1>3. devices # {} => shares # << >>
  <2>1. shares = << >> => collected = << >>
    BY DEF ShareInv
  <2>2. DOMAIN << >> = {}
    OBVIOUS
  <2> QED  BY <2>1, <2>2 DEF Range
<1>4. g \in [Byte -> Byte]
  <2>1. shares # << >> => \A i \in 1..TotalShares : shares[i] \in Byte
    BY SharesAre
  <2> QED  BY <2>1, SomeBytes
<1>5. \A i \in devices : g[i] = shares[i]
  BY <1>2, <1>3, ShareConstants
<1> HIDE DEF devices, g
<1>6. ASSUME Cardinality(devices) < Threshold, NEW secret \in ShareSecrets
      PROVE  \E random \in [1..(Threshold - 1) -> Byte] :
               \A i \in devices : EvalPolynomial(<<secret>> \o random, i) = shares[i]
  <2>1. secret \in Byte
    BY ShareConstants
  <2>2. PICK random \in [1..(Threshold - 1) -> Byte] :
          \A i \in devices : EvalPolynomial(Coefs(secret, random), i) = g[i]
    BY <1>2, <1>4, <1>6, <2>1, FewerFitAll
  <2> QED  BY <1>5, <2>2 DEF Coefs
<1> QED
  BY <1>1, <1>6 DEF SharesHold, FewerTellNothing, devices

(* Every variable of the scheme stays within its type, the collected shares  *)
(* within the one more than needed that the model lets a device send.         *)
THEOREM ShareTypeCorrect == ShareSpec => []ShareTypeOK
BY ShareInvAlways, ShareInvTypes, PTL

(* Shamir's scheme as split() and reconstruct() (threshold.rs:101-239) compute *)
(* it, for every threshold, every number of shares up to 255, every byte and   *)
(* every choice of the random coefficients: the first Threshold shares of      *)
(* different devices, whichever they are and in whatever order they come,      *)
(* reconstruct the byte that was split; fewer are refused, and they fit every  *)
(* other secret as well, so that they tell nothing of the one that was split.  *)
THEOREM ShareSafety == ShareSpec => []SharesHold
BY ShareInvAlways, ShareInvHolds, PTL
=============================================================================

---------------------------- MODULE SecretSharing ----------------------------
(* Shamir's secret sharing over GF(256) as crates/identity/src/threshold.rs    *)
(* computes it for MultiDeviceSync: one byte of a key is split among devices,  *)
(* shares are collected in any order, maybe twice from one device, and the     *)
(* byte is reconstructed.  The bytes of a key are split independently.         *)
EXTENDS Integers, Sequences, SequencesExt

CONSTANTS
  Threshold,       \* threshold of the configuration
  TotalShares,     \* total of the configuration
  ShareSecrets,    \* bytes that are split
  Coefficients     \* what the random coefficients may be

ASSUME ShareAssumption ==
  /\ Threshold \in 1..TotalShares /\ TotalShares \in 1..255   \* ThresholdConfig::new()
  /\ ShareSecrets \subseteq 0..255 /\ Coefficients \subseteq 0..255

VARIABLES
  shareSecret,     \* the byte that was split
  shares,          \* its shares, by index - empty before split()
  collected,       \* the indices of the shares collected, in order
  shareResult      \* what reconstruct() returned: a byte, or -1 for too few shares

shareVars == <<shareSecret, shares, collected, shareResult>>

-----------------------------------------------------------------------------
(* Arithmetic                                                                  *)

Byte == 0..255
Places == <<1, 2, 4, 8, 16, 32, 64, 128>>
Bit(a, i) == (a \div Places[i]) % 2

\* The operator ^ of two bytes: the sum of their bits without carry.
GfAdd(a, b) ==
  LET sum(i) == Places[i] * ((Bit(a, i) + Bit(b, i)) % 2)
  IN sum(1) + sum(2) + sum(3) + sum(4) + sum(5) + sum(6) + sum(7) + sum(8)

\* One turn of the loop of gf_mul(): a doubled modulo the polynomial.
Doubled(a) == IF a >= 128 THEN GfAdd((a * 2) % 256, 27) ELSE a * 2

GfMul(a, b) ==
  LET turn[i \in 0..8] ==
        IF i = 0 THEN [p |-> 0, a |-> a, b |-> b]
        ELSE LET s == turn[i - 1]
             IN [p |-> IF s.b % 2 = 1 THEN GfAdd(s.p, s.a) ELSE s.p, a |-> Doubled(s.a), b |-> s.b \div 2]
  IN turn[8].p

\* The inverse, or 0 for 0.
GfInv(a) == IF a = 0 THEN 0 ELSE CHOOSE i \in 1..255 : GfMul(a, i) = 1

\* eval_polynomial(): coefficients from the lowest, at x.
EvalPolynomial(coefficients, x) ==
  LET term[i \in 0..Len(coefficients)] ==
        IF i = 0 THEN [sum |-> 0, power |-> 1]
        ELSE LET s == term[i - 1] IN [sum |-> GfAdd(s.sum, GfMul(coefficients[i], s.power)),
                                      power |-> GfMul(s.power, x)]
  IN term[Len(coefficients)].sum

\* Mutant of Weight: the numerator has the point itself, not the others.
WeightOfSelf(points, i) ==
  LET product[j \in 0..Threshold] ==
        IF j = 0 THEN [num |-> 1, den |-> 1]
        ELSE IF j = i THEN product[j - 1]
        ELSE [num |-> GfMul(product[j - 1].num, points[i]),
              den |-> GfMul(product[j - 1].den, GfAdd(points[i], points[j]))]
  IN GfMul(product[Threshold].num, GfInv(product[Threshold].den))

\* The weight of the i-th point in the value at 0.
Weight(points, i) ==
  LET product[j \in 0..Threshold] ==
        IF j = 0 THEN [num |-> 1, den |-> 1]
        ELSE IF j = i THEN product[j - 1]
        ELSE [num |-> GfMul(product[j - 1].num, points[j]),
              den |-> GfMul(product[j - 1].den, GfAdd(points[i], points[j]))]
  IN GfMul(product[Threshold].num, GfInv(product[Threshold].den))

\* reconstruct_byte(): Lagrange interpolation over the first shares collected.
ReconstructByte(points) ==
  LET sum[i \in 0..Threshold] ==
        IF i = 0 THEN 0 ELSE GfAdd(sum[i - 1], GfMul(shares[points[i]], Weight(points, i)))
  IN sum[Threshold]

-----------------------------------------------------------------------------
ShareTypeOK ==
  /\ shareSecret \in ShareSecrets \cup {0}
  /\ Len(shares) \in {0, TotalShares} /\ \A i \in 1..Len(shares) : shares[i] \in 0..255
  /\ Len(collected) <= Threshold + 1 /\ shareResult \in -2..255

ShareInit ==
  /\ shareSecret = 0 /\ shares = <<>> /\ collected = <<>>
  /\ shareResult = -2    \* reconstruct() has not been called

\* split_identity_key()
SplitByte ==
  /\ \E secret \in ShareSecrets, random \in [1..(Threshold - 1) -> Coefficients] :
       /\ shareSecret' = secret
       /\ shares' = [x \in 1..TotalShares |-> EvalPolynomial(<<secret>> \o random, x)]
  /\ collected' = <<>> /\ shareResult' = -2

CollectShare ==
  /\ Len(collected) <= Threshold
  /\ \E i \in 1..Len(shares) : collected' = Append(collected, i)
  /\ shareResult' = -2
  /\ UNCHANGED <<shareSecret, shares>>

\* reconstruct_identity_key(): only the first shares count.
Reconstruct ==
  /\ shareResult = -2
  /\ shareResult' = IF Len(collected) < Threshold THEN -1 ELSE ReconstructByte(collected)
  /\ UNCHANGED <<shareSecret, shares, collected>>

ShareNext == SplitByte \/ CollectShare \/ Reconstruct

ShareSpec == ShareInit /\ [][ShareNext]_shareVars

-----------------------------------------------------------------------------
\* Whichever devices answer, in whatever order, the secret comes back as soon as
\* the first shares (threshold.rs:145) are of different devices, and never from
\* fewer.  When a device is heard twice nothing is promised, and no error says so.
SecretComesBack ==
  LET used == SubSeq(collected, 1, Threshold) IN
  /\ shareResult = -1 => Len(collected) < Threshold
  /\ shareResult >= 0 /\ IsInjective(used) => shareResult = shareSecret

\* Devices fewer than the threshold, however they were chosen, could hold the same
\* shares of any other secret: split() (threshold.rs:208) draws every coefficient
\* but the lowest from all the bytes.
FewerTellNothing ==
  LET devices == Range(collected) IN
  Cardinality(devices) < Threshold =>
    \A secret \in ShareSecrets : \E random \in [1..(Threshold - 1) -> Byte] :
      \A i \in devices : EvalPolynomial(<<secret>> \o random, i) = shares[i]

SharesHold == SecretComesBack /\ FewerTellNothing
=============================================================================

------------------------------- MODULE Padding -------------------------------
(* Sizes on the wire: PaddedMessage, MessageFraggregator and ConstantBandwidth *)
(* of crates/network/src/padding.rs, pad_to_constant_size() of NetworkEnvelope *)
(* and pad_to_size() of MessageEnvelope.  A payload is its length, except for  *)
(* fragments, where byte i of the message is the number i and filler is 0.     *)
(* Each padding call is one step; fragments arrive in any order, or never.     *)
EXTENDS Naturals, Sequences, SequencesExt

CONSTANTS
  PadConfigs,      \* PaddingConfig; range is 0 when random_padding is off
  PadTargets,      \* target sizes of the two pad functions
  MaxLength,       \* bound: lengths of payloads
  FragmentSize,    \* fragment_size
  MaxFragments,    \* bound: fragments delivered for a message
  PacketSize,      \* packet_size
  BandTarget       \* target_per_interval

ASSUME PadAssumption ==
  /\ PadConfigs \subseteq [min : Nat, granularity : Nat, max : Nat, range : Nat]
  /\ PadTargets \subseteq Nat /\ MaxLength \in Nat /\ MaxFragments \in Nat
  /\ FragmentSize \in Nat \ {0} /\ PacketSize \in Nat \ {0} /\ BandTarget \in Nat

VARIABLES
  padLast,         \* the last message padded: its inputs and its sizes
  fragMessage,     \* the length of the message in fragments
  fragGot,         \* the numbers of the fragments that arrived, in order
  bandSent         \* bytes_sent in this interval

padVars == <<padLast, fragMessage, fragGot, bandSent>>

PadMin(a, b) == IF a < b THEN a ELSE b
PadMax(a, b) == IF a < b THEN b ELSE a

\* Rounded up to a multiple of the granularity, if there is one.
RoundUp(n, granularity) ==
  IF granularity = 0 THEN n ELSE ((n + granularity - 1) \div granularity) * granularity

\* Mutant of PadSizes: the maximum is not looked at again after rounding.
PadSizesUncapped(config, n) ==
  IF n > config.max THEN {}
  ELSE {RoundUp(RoundUp(PadMax(config.min, n), config.granularity) + extra, config.granularity) :
          extra \in 0..config.range}

\* pad(): the total sizes it may come to, none for a payload above the maximum.
PadSizes(config, n) ==
  IF n > config.max THEN {}
  ELSE {PadMin(RoundUp(RoundUp(PadMax(config.min, n), config.granularity) + extra,
                       config.granularity), config.max) : extra \in 0..config.range}

\* NetworkEnvelope: only the payload counts against the target; 17 bytes around.
NetworkSize(n, target) == 17 + PadMax(n, target)

\* MessageEnvelope: what pad_to_size() counts, its version number included, for
\* a ciphertext and a header of these lengths and nothing else.
CountedSize(ciphertext, header) == 1 + 8 + 4 + 3 * 4 + ciphertext + header
EnvelopePadding(ciphertext, header, target) ==
  IF CountedSize(ciphertext, header) < target THEN target - CountedSize(ciphertext, header) ELSE 0

\* bincode: six vectors with a length of 8 bytes each, and 13 bytes of numbers.
EnvelopeSize(ciphertext, header, target) ==
  13 + 6 * 8 + ciphertext + header + EnvelopePadding(ciphertext, header, target)

PadTypeOK ==
  /\ padLast.size \in Nat
  /\ fragMessage \in 0..MaxLength /\ Len(fragGot) <= MaxFragments
  /\ bandSent \in 0..(BandTarget + PacketSize - 1)

PadInit ==
  /\ padLast = [kind |-> "none", size |-> 0]
  /\ fragMessage = 0 /\ fragGot = <<>> /\ bandSent = 0

PadMessage ==
  /\ \E config \in PadConfigs, n \in 0..MaxLength : \E size \in PadSizes(config, n) :
       padLast' = [kind |-> "padded", config |-> config, payload |-> n, size |-> size]
  /\ UNCHANGED <<fragMessage, fragGot, bandSent>>

PadEnvelope ==
  /\ \E target \in PadTargets, n \in 0..MaxLength, header \in 0..MaxLength :
       padLast' = [kind |-> "envelope", target |-> target,
                   counted |-> CountedSize(n, header), size |-> EnvelopeSize(n, header, target)]
  /\ UNCHANGED <<fragMessage, fragGot, bandSent>>

PadNetwork ==
  /\ \E target \in PadTargets, n \in 0..MaxLength :
       padLast' = [kind |-> "network", target |-> target, counted |-> n,
                   size |-> NetworkSize(n, target)]
  /\ UNCHANGED <<fragMessage, fragGot, bandSent>>

\* fragment_count()
FragmentCount(n) == (n + FragmentSize - 1) \div FragmentSize

\* fragment(): the last one is filled up.
Fragment(n, number) ==
  [i \in 1..FragmentSize |->
     LET byte == (number - 1) * FragmentSize + i IN IF byte <= n THEN byte ELSE 0]

\* reassemble(): the place of a fragment is its place among those that came.
Reassemble(n, numbers) ==
  FlattenSeq([i \in 1..Len(numbers) |->
    LET start == (i - 1) * FragmentSize
    IN IF start < n THEN SubSeq(Fragment(n, numbers[i]), 1, PadMin(FragmentSize, n - start))
       ELSE <<>>])

SendFragments ==
  /\ fragMessage' \in 0..MaxLength /\ fragGot' = <<>>
  /\ UNCHANGED <<padLast, bandSent>>

FragmentArrives ==
  /\ Len(fragGot) < MaxFragments
  /\ \E number \in 1..FragmentCount(fragMessage) : fragGot' = Append(fragGot, number)
  /\ UNCHANGED <<padLast, fragMessage, bandSent>>

\* packets_needed() and under_target()
PacketsNeeded ==
  ((IF bandSent < BandTarget THEN BandTarget - bandSent ELSE 0) + PacketSize - 1) \div PacketSize
UnderTarget == bandSent < BandTarget

\* A sender that keeps to packets_needed(), and record_sent().
SendPackets ==
  /\ \E k \in 1..PacketsNeeded : bandSent' = bandSent + k * PacketSize
  /\ UNCHANGED <<padLast, fragMessage, fragGot>>

\* reset_interval()
ResetInterval == bandSent' = 0 /\ UNCHANGED <<padLast, fragMessage, fragGot>>

PadNext ==
  \/ PadMessage \/ PadEnvelope \/ PadNetwork
  \/ SendFragments \/ FragmentArrives \/ SendPackets \/ ResetInterval

PadSpec == PadInit /\ [][PadNext]_padVars

-----------------------------------------------------------------------------
\* A padded message holds its payload, is at least the minimum ("all messages
\* padded to at least this", padding.rs:12) unless the maximum is less, keeps
\* under the maximum, and has a size that is a multiple of the granularity or
\* the maximum itself.
PadFits ==
  padLast.kind = "padded" =>
    LET g == padLast.config.granularity IN
      /\ padLast.size \in padLast.payload..padLast.config.max
      /\ padLast.size >= PadMin(padLast.config.min, padLast.config.max)
      /\ g = 0 \/ padLast.size % g = 0 \/ padLast.size = padLast.config.max

\* Envelopes within their target all come to one size, which is not the target.
EnvelopesAlike ==
  /\ padLast.kind = "envelope" /\ padLast.counted <= padLast.target =>
       padLast.size = padLast.target + 36
  /\ padLast.kind = "network" /\ padLast.counted <= padLast.target =>
       padLast.size = padLast.target + 17

\* All fragments in order are the message, and with fewer the result is short:
\* only the number of fragments, not which they are, shows in the length.
FragmentsTellLoss ==
  LET n == fragMessage
      read == Reassemble(n, fragGot)
  IN /\ fragGot = [i \in 1..FragmentCount(n) |-> i] => read = [i \in 1..n |-> i]
     /\ Len(read) = n <=> Len(fragGot) >= FragmentCount(n)

\* A sender is told to send while the interval is below its target, never more
\* than one packet beyond it, and being told nothing means the target is met.
BandwidthMet ==
  /\ PacketsNeeded > 0 <=> UnderTarget
  /\ bandSent < BandTarget + PacketSize

\* The sizes on the wire are what padding.rs, message.rs:208 and lib.rs:85 of
\* the network crate are there for.
SizesHold == PadFits /\ EnvelopesAlike /\ FragmentsTellLoss /\ BandwidthMet
=============================================================================

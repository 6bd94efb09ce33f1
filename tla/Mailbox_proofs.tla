--------------------------- MODULE Mailbox_proofs ---------------------------
(* Proofs about Mailbox, for any recipients, capacity, times and bounds. *)
EXTENDS MailboxRetries, NaturalLemmas, SequenceTheorems

-----------------------------------------------------------------------------
(* Sequences *)

(* What a sequence holds after an append.                                    *)
LEMMA AppendRange ==
  ASSUME NEW S, NEW s \in Seq(S), NEW x \in S
  PROVE  /\ Append(s, x) \in Seq(S) /\ Len(Append(s, x)) = Len(s) + 1
         /\ Range(Append(s, x)) = Range(s) \cup {x}
         /\ IsInjective(s) /\ x \notin Range(s) => IsInjective(Append(s, x))
<1>1. /\ Append(s, x) \in Seq(S) /\ Len(Append(s, x)) = Len(s) + 1
      /\ \A i \in 1..Len(s) : Append(s, x)[i] = s[i]
      /\ Append(s, x)[Len(s) + 1] = x
  BY AppendProperties
<1>2. Len(s) \in Nat /\ DOMAIN s = 1..Len(s)
      /\ DOMAIN Append(s, x) = 1..(Len(s) + 1)
  BY <1>1, LenProperties
<1>3. DOMAIN Append(s, x) = DOMAIN s \cup {Len(s) + 1}
  BY <1>2
<1>4. Range(Append(s, x)) = Range(s) \cup {x}
  BY <1>1, <1>2, <1>3 DEF Range
<1>5. ASSUME IsInjective(s), x \notin Range(s),
             NEW i \in DOMAIN Append(s, x), NEW j \in DOMAIN Append(s, x),
             Append(s, x)[i] = Append(s, x)[j]
      PROVE  i = j
  BY <1>1, <1>2, <1>3, <1>5 DEF Range, IsInjective
<1> QED
  BY <1>1, <1>4, <1>5 DEF IsInjective

(* Only is the function its recursion defines: there is one.                 *)
LEMMA OnlyRecursion ==
  ASSUME NEW S, NEW s \in Seq(S), NEW ids
  PROVE  \E kept :
           /\ kept = [n \in 0..Len(s) |->
                        IF n = 0 THEN << >>
                        ELSE IF s[n] \in ids THEN Append(kept[n - 1], s[n])
                        ELSE kept[n - 1]]
           /\ Only(s, ids) = kept[Len(s)]
<1> DEFINE step == [n \in Nat |-> [q \in Seq(S) |->
                      IF n \in DOMAIN s /\ s[n] \in ids THEN Append(q, s[n]) ELSE q]]
<1>1. Len(s) \in Nat /\ DOMAIN s = 1..Len(s) /\ << >> \in Seq(S)
  BY LenProperties, EmptySeq
<1>2. step \in [Nat -> [Seq(S) -> Seq(S)]]
  BY AppendProperties, ElementOfSeq, <1>1
<1>3. PICK f \in [0..Len(s) -> Seq(S)] : Iterates(f, 0..Len(s), << >>, step)
  <2> HIDE DEF step
  <2> QED  BY <1>1, <1>2, RecursionUpTo
<1>4. ASSUME NEW n \in 0..Len(s)
      PROVE  f[n] = IF n = 0 THEN << >>
                    ELSE IF s[n] \in ids THEN Append(f[n - 1], s[n])
                    ELSE f[n - 1]
  <2>1. f[n] = IF n = 0 THEN << >> ELSE step[n][f[n - 1]]
    BY <1>3 DEF Iterates
  <2>2. CASE n = 0
    BY <2>1, <2>2
  <2>3. CASE n # 0
    <3>1. n \in Nat /\ n \in DOMAIN s /\ n - 1 \in 0..Len(s)
      BY <1>1, <2>3
    <3>2. f[n - 1] \in Seq(S)
      BY <3>1
    <3>3. step[n][f[n - 1]] = IF s[n] \in ids THEN Append(f[n - 1], s[n]) ELSE f[n - 1]
      BY <3>1, <3>2
    <3> HIDE DEF step
    <3> QED  BY <2>1, <2>3, <3>3
  <2> QED  BY <2>2, <2>3
<1>5. f = [n \in 0..Len(s) |-> IF n = 0 THEN << >>
                               ELSE IF s[n] \in ids THEN Append(f[n - 1], s[n])
                               ELSE f[n - 1]]
  BY <1>4
<1> QED
  BY <1>5 DEF Only

(* Retaining keeps exactly the members asked for, and none twice.            *)
LEMMA OnlyKeeps ==
  ASSUME NEW S, NEW s \in Seq(S), NEW ids
  PROVE  /\ Only(s, ids) \in Seq(S)
         /\ Len(Only(s, ids)) <= Len(s)
         /\ Range(Only(s, ids)) = Range(s) \cap ids
         /\ IsInjective(s) => IsInjective(Only(s, ids))
<1>1. PICK kept :
        /\ kept = [n \in 0..Len(s) |->
                     IF n = 0 THEN << >>
                     ELSE IF s[n] \in ids THEN Append(kept[n - 1], s[n])
                     ELSE kept[n - 1]]
        /\ Only(s, ids) = kept[Len(s)]
  BY OnlyRecursion
<1>2. Len(s) \in Nat /\ DOMAIN s = 1..Len(s) /\ \A n \in 1..Len(s) : s[n] \in S
  BY LenProperties, ElementOfSeq
<1>3. ASSUME NEW n \in Nat, n + 1 <= Len(s)
      PROVE  kept[n + 1] = IF s[n + 1] \in ids THEN Append(kept[n], s[n + 1])
                           ELSE kept[n]
  <2>1. n + 1 \in 0..Len(s) /\ n + 1 # 0 /\ (n + 1) - 1 = n
    BY <1>2, <1>3
  <2> QED  BY <1>1, <2>1
<1>4. kept[0] = << >>
  BY <1>1, <1>2
<1> DEFINE First(n) == {s[k] : k \in 1..n}
           Good(q, n) == /\ q \in Seq(S) /\ Len(q) <= n
                         /\ Range(q) = First(n) \cap ids
                         /\ IsInjective(s) => IsInjective(q)
           T == {n \in Nat : n <= Len(s) => Good(kept[n], n)}
<1>5. 0 \in T
  <2>1. << >> \in Seq(S) /\ Len(<< >>) = 0 /\ DOMAIN << >> = {} /\ First(0) = {}
    BY EmptySeq
  <2>2. Range(<< >>) = {} /\ IsInjective(<< >>)
    BY <2>1 DEF Range, IsInjective
  <2>3. Good(<< >>, 0)
    <3> HIDE DEF First
    <3> QED  BY <2>1, <2>2
  <2> HIDE DEF Good
  <2> QED  BY <1>4, <2>3
<1>6. ASSUME NEW n \in T PROVE n + 1 \in T
  <2> SUFFICES ASSUME n + 1 <= Len(s) PROVE Good(kept[n + 1], n + 1)
    OBVIOUS
  <2>1. n \in Nat /\ n <= Len(s) /\ n + 1 \in 1..Len(s)
    BY <1>2
  <2>2. Good(kept[n], n)
    BY <2>1
  <2>3. First(n + 1) = First(n) \cup {s[n + 1]}
    <3>1. 1..(n + 1) = (1..n) \cup {n + 1}
      BY <2>1
    <3> QED  BY <3>1
  <2>4. s[n + 1] \in S
    BY <1>2, <2>1
  <2>5. CASE s[n + 1] \in ids
    <3>1. kept[n + 1] = Append(kept[n], s[n + 1])
      BY <1>3, <2>1, <2>5
    <3>2. IsInjective(s) => s[n + 1] \notin First(n)
      BY <1>2, <2>1 DEF IsInjective
    <3>3. kept[n] \in Seq(S) /\ Len(kept[n]) \in Nat
      BY <2>2, LenProperties
    <3>4. /\ kept[n + 1] \in Seq(S) /\ Len(kept[n + 1]) = Len(kept[n]) + 1
          /\ Range(kept[n + 1]) = Range(kept[n]) \cup {s[n + 1]}
          /\ IsInjective(kept[n]) /\ s[n + 1] \notin Range(kept[n])
             => IsInjective(kept[n + 1])
      <4> HIDE DEF Good, First
      <4> QED  BY <2>4, <3>1, <3>3, AppendRange
    <3> HIDE DEF First
    <3> QED  BY <2>1, <2>2, <2>3, <2>5, <3>2, <3>3, <3>4
  <2>6. CASE s[n + 1] \notin ids
    <3>1. kept[n + 1] = kept[n]
      BY <1>3, <2>1, <2>6
    <3>2. Len(kept[n]) \in Nat
      BY <2>2, LenProperties
    <3> HIDE DEF First
    <3> QED  BY <2>1, <2>2, <2>3, <2>6, <3>1, <3>2
  <2> QED  BY <2>5, <2>6
<1>7. T = Nat
  <2>1. T \in SUBSET Nat
    OBVIOUS
  <2> HIDE DEF T
  <2> QED  BY <1>5, <1>6, <2>1, NatSet
<1>8. Good(kept[Len(s)], Len(s))
  <2>1. Len(s) \in T
    <3> HIDE DEF T
    <3> QED  BY <1>2, <1>7
  <2> HIDE DEF Good
  <2> QED  BY <1>2, <2>1
<1>9. First(Len(s)) = Range(s)
  BY <1>2 DEF Range
<1> HIDE DEF First
<1> QED
  BY <1>1, <1>8, <1>9

-----------------------------------------------------------------------------
(* Types *)

(* Where the ids that travel come from.                                      *)
RefInv ==
  /\ attempt.id \in {None} \cup DOMAIN envelopes
  /\ attempt.id = None => attempt.answer = "none"
  /\ \A i \in Id : stray[i] > 0 => i \in DOMAIN envelopes
  /\ saved \subseteq DOMAIN envelopes
  /\ ~running => DOMAIN queue = {} /\ attempt = NoAttempt

(* Ids are numbers of envelopes, and none of them is None.                   *)
LEMMA Ids ==
  ASSUME TypeOK
  PROVE  /\ DOMAIN envelopes = 1..Len(envelopes) /\ Len(envelopes) \in Nat
         /\ DOMAIN envelopes \subseteq Id /\ Id \subseteq Nat /\ None \notin Id
         /\ \A i \in DOMAIN envelopes :
              /\ envelopes[i] \in Envelope
              /\ envelopes[i].to \in Recipient
              /\ envelopes[i].created \in Nat /\ envelopes[i].expires \in Nat
<1>1. /\ DOMAIN envelopes = 1..Len(envelopes) /\ Len(envelopes) \in Nat
      /\ Len(envelopes) <= MaxEnvelopes
  BY LenProperties DEF TypeOK
<1>2. \A i \in DOMAIN envelopes : envelopes[i] \in Envelope
  BY <1>1, ElementOfSeq DEF TypeOK
<1> QED
  BY <1>1, <1>2, MailboxAssumption DEF Id, None, Envelope

(* The powers that a back-off takes are numbers.                             *)
LEMMA PowerOfTwo ==
  ASSUME NEW n \in 0..11
  PROVE  2^n \in Nat
<1>1. /\ 2^0 \in Nat /\ 2^1 \in Nat /\ 2^2 \in Nat  /\ 2^3 \in Nat
      /\ 2^4 \in Nat /\ 2^5 \in Nat /\ 2^6 \in Nat  /\ 2^7 \in Nat
      /\ 2^8 \in Nat /\ 2^9 \in Nat /\ 2^10 \in Nat /\ 2^11 \in Nat
  OBVIOUS
<1>2. \/ n = 0 \/ n = 1 \/ n = 2 \/ n = 3 \/ n = 4  \/ n = 5
      \/ n = 6 \/ n = 7 \/ n = 8 \/ n = 9 \/ n = 10 \/ n = 11
  OBVIOUS
<1> QED
  BY <1>1, <1>2, Zenon

(* A back-off is a number.                                                   *)
LEMMA BackoffType ==
  ASSUME NEW n \in Nat, n > 0
  PROVE  Backoff(n) \in Nat
<1> DEFINE exponent == IF n > 12 THEN 11 ELSE n - 1
<1>1. exponent \in 0..11
  OBVIOUS
<1> HIDE DEF exponent
<1>2. 2^exponent \in Nat
  BY <1>1, PowerOfTwo
<1>3. BaseBackoff * 2^exponent \in Nat
  BY <1>2, MailboxAssumption
<1> USE DEF exponent
<1> QED
  BY <1>3, MailboxAssumption DEF Backoff

(* An entry after a failure.                                                 *)
LEMMA FailedType ==
  ASSUME TypeOK, NEW e \in Entry
  PROVE  /\ Failed(e) \in Entry
         /\ Failed(e).attempts = e.attempts + 1
         /\ Failed(e).retryAfter = now + Backoff(e.attempts + 1)
<1>1. e.attempts \in Nat /\ now \in Nat
  BY DEF Entry, TypeOK
<1>2. Backoff(e.attempts + 1) \in Nat
  BY <1>1, BackoffType
<1> QED
  BY <1>1, <1>2 DEF Failed, Entry

(* A slot with one more envelope.                                            *)
LEMMA KeptSlots ==
  ASSUME TypeOK, NEW i \in DOMAIN envelopes
  PROVE  /\ Kept(i) \in [Recipient -> Seq(Id)]
         /\ i \in Range(Kept(i)[envelopes[i].to])
         /\ \A r \in Recipient :
              /\ Range(slots[r]) \subseteq Range(Kept(i)[r])
              /\ IsInjective(slots[r]) => IsInjective(Kept(i)[r])
              /\ Len(SlotOf(i)) < Capacity => Len(Kept(i)[r]) <= Capacity
<1> DEFINE r0 == envelopes[i].to
<1>1. r0 \in Recipient /\ i \in Id /\ slots \in [Recipient -> Seq(Id)]
  BY Ids DEF TypeOK
<1>2. CASE Stored(i)
  BY <1>1, <1>2 DEF Kept, Stored, SlotOf, TypeOK
<1>3. CASE ~Stored(i)
  <2>1. Kept(i) = [slots EXCEPT ![r0] = Append(@, i)]
    BY <1>3 DEF Kept
  <2>2. /\ slots[r0] \in Seq(Id)
        /\ Append(slots[r0], i) \in Seq(Id)
        /\ Len(Append(slots[r0], i)) = Len(slots[r0]) + 1
        /\ Range(Append(slots[r0], i)) = Range(slots[r0]) \cup {i}
        /\ IsInjective(slots[r0]) => IsInjective(Append(slots[r0], i))
    <3>1. i \notin Range(slots[r0])
      BY <1>3 DEF Stored, SlotOf
    <3> HIDE DEF r0
    <3> QED  BY <1>1, <3>1, AppendRange
  <2>3. Len(slots[r0]) \in Nat
    BY <2>2, LenProperties
  <2>4. Kept(i) \in [Recipient -> Seq(Id)] /\ Kept(i)[r0] = Append(slots[r0], i)
        /\ \A r \in Recipient \ {r0} : Kept(i)[r] = slots[r]
    <3> HIDE DEF r0
    <3> QED  BY <1>1, <2>1, <2>2
  <2>5. Len(slots[r0]) < Capacity => Len(Kept(i)[r0]) <= Capacity
    BY <2>2, <2>3, <2>4, MailboxAssumption
  <2>6. \A r \in Recipient \ {r0} : Len(Kept(i)[r]) <= Capacity
    BY <2>4 DEF TypeOK
  <2>7. SlotOf(i) = slots[r0]
    BY DEF SlotOf
  <2> HIDE DEF r0
  <2>8. i \in Range(Kept(i)[r0])
    BY <2>2, <2>4
  <2>9. ASSUME NEW r \in Recipient
        PROVE  /\ Range(slots[r]) \subseteq Range(Kept(i)[r])
               /\ IsInjective(slots[r]) => IsInjective(Kept(i)[r])
               /\ Len(SlotOf(i)) < Capacity => Len(Kept(i)[r]) <= Capacity
    <3>1. CASE r = r0
      BY <2>2, <2>4, <2>5, <2>7, <3>1
    <3>2. CASE r # r0
      BY <2>4, <2>6, <3>2
    <3> QED  BY <3>1, <3>2
  <2> QED  BY <2>4, <2>8, <2>9 DEF r0
<1> QED
  BY <1>2, <1>3

(* What the relay makes of its slots: they stay slots, no envelope is in one *)
(* twice, and what leaves one has expired or was given to the recipient.     *)
SlotsMove ==
  /\ slots' \in [Recipient -> Seq(Id)]
  /\ \A r \in Recipient : Len(slots'[r]) <= Capacity
  /\ \A r \in Recipient : IsInjective(slots[r]) => IsInjective(slots'[r])
  /\ handed \subseteq handed' /\ handed' \subseteq Id
  /\ \A r \in Recipient : \A i \in Range(slots[r]) \cap DOMAIN envelopes :
       i \in Range(slots'[r]) \/ i \in handed' \/ Expired(i)

LEMMA StoreMoves ==
  ASSUME TypeOK, NEW i \in DOMAIN envelopes, RelayStores(i), UNCHANGED handed
  PROVE  /\ SlotsMove
         /\ Answer(i) = "ok" => i \in Range(slots'[envelopes[i].to])
<1>1. handed \subseteq handed' /\ handed' \subseteq Id
  BY DEF TypeOK
<1>2. CASE Full(i)
  BY <1>1, <1>2 DEF RelayStores, SlotsMove, TypeOK, Answer
<1>3. CASE ~Full(i)
  <2>1. slots' = Kept(i)
    BY <1>3 DEF RelayStores
  <2>2. Len(SlotOf(i)) < Capacity
    <3>1. SlotOf(i) \in Seq(Id)
      BY Ids DEF SlotOf, TypeOK
    <3>2. Len(SlotOf(i)) \in Nat
      BY <3>1, LenProperties
    <3> QED  BY <1>3, <3>2, MailboxAssumption DEF Full
  <2> QED  BY <1>1, <2>1, <2>2, KeptSlots DEF SlotsMove
<1> QED
  BY <1>2, <1>3

LEMMA RetainMoves ==
  ASSUME TypeOK, NEW r \in Recipient, NEW ids
  PROVE  /\ Only(slots[r], ids) \in Seq(Id)
         /\ Len(Only(slots[r], ids)) <= Capacity
         /\ Range(Only(slots[r], ids)) = Range(slots[r]) \cap ids
         /\ IsInjective(slots[r]) => IsInjective(Only(slots[r], ids))
<1>1. slots[r] \in Seq(Id) /\ Len(slots[r]) <= Capacity
  BY DEF TypeOK
<1>2. Len(slots[r]) \in Nat
  BY <1>1, LenProperties
<1>3. /\ Only(slots[r], ids) \in Seq(Id)
      /\ Len(Only(slots[r], ids)) <= Len(slots[r])
      /\ Range(Only(slots[r], ids)) = Range(slots[r]) \cap ids
      /\ IsInjective(slots[r]) => IsInjective(Only(slots[r], ids))
  BY <1>1, OnlyKeeps
<1>4. Len(Only(slots[r], ids)) \in Nat
  BY <1>3, LenProperties
<1> QED
  BY <1>1, <1>2, <1>3, <1>4, MailboxAssumption

LEMMA RetrieveMoves ==
  ASSUME TypeOK, NEW r \in Recipient, Retrieve(r)
  PROVE  SlotsMove
<1>1. slots' = [slots EXCEPT ![r] = << >>]
  BY DEF Retrieve, EmptiedSlot
<1>2. << >> \in Seq(Id) /\ Len(<< >>) = 0 /\ IsInjective(<< >>)
  <2>1. << >> \in Seq(Id) /\ Len(<< >>) = 0 /\ DOMAIN << >> = {}
    BY EmptySeq
  <2> QED  BY <2>1 DEF IsInjective
<1>3. slots' \in [Recipient -> Seq(Id)] /\ slots'[r] = << >>
      /\ \A q \in Recipient \ {r} : slots'[q] = slots[q]
  BY <1>1, <1>2 DEF TypeOK
<1>4. \A q \in Recipient : Len(slots'[q]) <= Capacity
                           /\ (IsInjective(slots[q]) => IsInjective(slots'[q]))
  <2>1. 0 <= Capacity /\ \A q \in Recipient : Len(slots[q]) <= Capacity
    BY MailboxAssumption DEF TypeOK
  <2>2. \A q \in Recipient : slots'[q] = << >> \/ slots'[q] = slots[q]
    BY <1>3
  <2> QED  BY <1>2, <2>1, <2>2
<1>5. handed' = handed \cup Range(Fresh(slots[r]))
  BY DEF Retrieve
<1>6. handed \subseteq handed' /\ handed' \subseteq Id
  <2>1. Range(Fresh(slots[r])) \subseteq DOMAIN envelopes
    BY RetainMoves DEF Fresh
  <2> QED  BY <1>5, <2>1, Ids DEF TypeOK
<1>7. \A i \in Range(slots[r]) \cap DOMAIN envelopes : i \in handed' \/ Expired(i)
  <2>1. Range(Fresh(slots[r])) = Range(slots[r]) \cap {i \in DOMAIN envelopes : ~Expired(i)}
    BY RetainMoves DEF Fresh
  <2> QED  BY <1>5, <2>1
<1>8. \A q \in Recipient : \A i \in Range(slots[q]) \cap DOMAIN envelopes :
        i \in Range(slots'[q]) \/ i \in handed' \/ Expired(i)
  BY <1>3, <1>7
<1> QED
  BY <1>3, <1>4, <1>6, <1>8 DEF SlotsMove

LEMMA AcknowledgeMoves ==
  ASSUME TypeOK, NEW i \in DOMAIN envelopes, Acknowledge(i)
  PROVE  SlotsMove
<1> DEFINE r == envelopes[i].to
<1>1. r \in Recipient /\ i \in handed /\ handed' = handed
  BY Ids DEF Acknowledge
<1>2. slots' = [slots EXCEPT ![r] = Only(@, Id \ {i})]
  BY DEF Acknowledge
<1>3. handed \subseteq handed' /\ handed' \subseteq Id
  BY <1>1 DEF TypeOK
<1> HIDE DEF r
<1>4. /\ Only(slots[r], Id \ {i}) \in Seq(Id)
      /\ Len(Only(slots[r], Id \ {i})) <= Capacity
      /\ Range(Only(slots[r], Id \ {i})) = Range(slots[r]) \cap (Id \ {i})
      /\ IsInjective(slots[r]) => IsInjective(Only(slots[r], Id \ {i}))
  BY <1>1, RetainMoves
<1>5. slots' \in [Recipient -> Seq(Id)] /\ slots'[r] = Only(slots[r], Id \ {i})
      /\ \A q \in Recipient \ {r} : slots'[q] = slots[q]
  BY <1>1, <1>2, <1>4 DEF TypeOK
<1>6. ASSUME NEW q \in Recipient
      PROVE  /\ Len(slots'[q]) <= Capacity
             /\ IsInjective(slots[q]) => IsInjective(slots'[q])
             /\ \A j \in Range(slots[q]) \cap DOMAIN envelopes :
                  j \in Range(slots'[q]) \/ j \in handed' \/ Expired(j)
  <2>1. CASE q = r
    BY <1>1, <1>4, <1>5, <2>1, Ids
  <2>2. CASE q # r
    BY <1>5, <2>2 DEF TypeOK
  <2> QED  BY <2>1, <2>2
<1> QED
  BY <1>3, <1>5, <1>6 DEF SlotsMove

LEMMA SweepMoves ==
  ASSUME TypeOK, SweepRelay
  PROVE  SlotsMove
<1>1. slots' = [r \in Recipient |-> Fresh(slots[r])] /\ handed' = handed
  BY DEF SweepRelay
<1>2. \A r \in Recipient :
        /\ Fresh(slots[r]) \in Seq(Id)
        /\ Len(Fresh(slots[r])) <= Capacity
        /\ Range(Fresh(slots[r])) = Range(slots[r]) \cap {i \in DOMAIN envelopes : ~Expired(i)}
        /\ IsInjective(slots[r]) => IsInjective(Fresh(slots[r]))
  BY RetainMoves DEF Fresh
<1>3. handed \subseteq handed' /\ handed' \subseteq Id
  BY <1>1 DEF TypeOK
<1> QED
  BY <1>1, <1>2, <1>3 DEF SlotsMove

(* Every step moves the slots as the relay does, or not at all.              *)
LEMMA SlotsStep ==
  ASSUME TypeOK, RefInv, [Next]_vars
  PROVE  SlotsMove
<1>1. CASE UNCHANGED <<slots, handed>>
  BY <1>1 DEF SlotsMove, TypeOK
<1>2. CASE ServeRequest
  <2>1. attempt.id \in DOMAIN envelopes /\ RelayStores(attempt.id) /\ UNCHANGED handed
    BY <1>2 DEF ServeRequest, RefInv
  <2> QED  BY <2>1, StoreMoves
<1>3. ASSUME NEW i \in Id, ServeStray(i) PROVE SlotsMove
  <2>1. i \in DOMAIN envelopes /\ RelayStores(i) /\ UNCHANGED handed
    BY <1>3 DEF ServeStray, RefInv
  <2> QED  BY <2>1, StoreMoves
<1>4. ASSUME NEW r \in Recipient, Retrieve(r) PROVE SlotsMove
  BY <1>4, RetrieveMoves
<1>5. ASSUME NEW i \in DOMAIN envelopes, Acknowledge(i) PROVE SlotsMove
  BY <1>5, AcknowledgeMoves
<1>6. CASE SweepRelay
  BY <1>6, SweepMoves
<1>7. ASSUME \/ \E r \in Recipient, ttl \in Ttl : Enqueue(r, ttl)
             \/ \E i \in DOMAIN queue : Submit(i)
             \/ RecordSuccess \/ RecordFailure \/ SweepQueue
             \/ \E i \in DOMAIN queue : StorePendingOutbox(i)
             \/ \E i \in DOMAIN outbox : DeletePendingOutbox(i)
             \/ SweepExpiredOutbox \/ Crash \/ Restart \/ Tick
             \/ UNCHANGED vars
      PROVE  UNCHANGED <<slots, handed>>
  BY <1>7 DEF Enqueue, Submit, RecordSuccess, RecordFailure, SweepQueue,
     StorePendingOutbox, DeletePendingOutbox, SweepExpiredOutbox, Crash, Restart,
     Tick, vars
<1> QED
  BY <1>1, <1>2, <1>3, <1>4, <1>5, <1>6, <1>7, Zenon DEF Next

(* Envelopes are only added, and time does not go back.                      *)
EnvelopesMove ==
  /\ envelopes' \in Seq(Envelope) /\ Len(envelopes') <= MaxEnvelopes
  /\ DOMAIN envelopes \subseteq DOMAIN envelopes'
  /\ \A i \in DOMAIN envelopes : envelopes'[i] = envelopes[i]
  /\ now' \in 0..MaxTime /\ now <= now'

LEMMA EnqueueMoves ==
  ASSUME TypeOK, NEW to \in Recipient, NEW ttl \in Ttl, Enqueue(to, ttl)
  PROVE  /\ EnvelopesMove
         /\ Len(envelopes) + 1 \notin DOMAIN envelopes
         /\ Len(envelopes) + 1 \in Id
         /\ DOMAIN envelopes' = DOMAIN envelopes \cup {Len(envelopes) + 1}
         /\ envelopes'[Len(envelopes) + 1].created = now
         /\ queue' = With(queue, Len(envelopes) + 1, [attempts |-> 0, retryAfter |-> 0])
<1> DEFINE e == [to |-> to, created |-> now, expires |-> now + ttl]
<1>1. e \in Envelope /\ e.created = now
  BY MailboxAssumption DEF Envelope, TypeOK
<1>2. /\ envelopes' = Append(envelopes, e)
      /\ queue' = With(queue, Len(envelopes) + 1, [attempts |-> 0, retryAfter |-> 0])
      /\ now' = now /\ Len(envelopes) + 1 \in Id
  BY DEF Enqueue
<1> HIDE DEF e
<1>3. envelopes \in Seq(Envelope)
  BY DEF TypeOK
<1>4. /\ envelopes' \in Seq(Envelope) /\ Len(envelopes') = Len(envelopes) + 1
      /\ \A i \in 1..Len(envelopes) : envelopes'[i] = envelopes[i]
      /\ envelopes'[Len(envelopes) + 1] = e
  BY <1>1, <1>2, <1>3, AppendProperties
<1>5. /\ Len(envelopes) \in Nat /\ DOMAIN envelopes = 1..Len(envelopes)
      /\ DOMAIN envelopes' = 1..(Len(envelopes) + 1)
  BY <1>3, <1>4, LenProperties
<1>6. Len(envelopes) + 1 <= MaxEnvelopes
  BY <1>2, <1>5, MailboxAssumption DEF Id
<1>7. now' \in 0..MaxTime /\ now <= now'
  BY <1>2 DEF TypeOK
<1> QED
  BY <1>1, <1>2, <1>4, <1>5, <1>6, <1>7 DEF EnvelopesMove

LEMMA EnvelopesStep ==
  ASSUME TypeOK, [Next]_vars
  PROVE  EnvelopesMove
<1>1. ASSUME NEW r \in Recipient, NEW ttl \in Ttl, Enqueue(r, ttl) PROVE EnvelopesMove
  BY <1>1, EnqueueMoves
<1>2. CASE Tick
  BY <1>2, MailboxAssumption DEF Tick, EnvelopesMove, TypeOK
<1>3. CASE UNCHANGED <<envelopes, now>>
  BY <1>3 DEF EnvelopesMove, TypeOK
<1>4. ASSUME \/ \E i \in DOMAIN queue : Submit(i)
             \/ RecordSuccess \/ RecordFailure \/ SweepQueue
             \/ \E i \in DOMAIN queue : StorePendingOutbox(i)
             \/ \E i \in DOMAIN outbox : DeletePendingOutbox(i)
             \/ SweepExpiredOutbox \/ Crash \/ Restart
             \/ ServeRequest \/ \E i \in Id : ServeStray(i)
             \/ \E r \in Recipient : Retrieve(r)
             \/ \E i \in DOMAIN envelopes : Acknowledge(i)
             \/ SweepRelay \/ UNCHANGED vars
      PROVE  UNCHANGED <<envelopes, now>>
  BY <1>4 DEF Submit, RecordSuccess, RecordFailure, SweepQueue,
     StorePendingOutbox, DeletePendingOutbox, SweepExpiredOutbox, Crash, Restart,
     ServeRequest, ServeStray, Retrieve, Acknowledge, SweepRelay, vars
<1> QED
  BY <1>1, <1>2, <1>3, <1>4, Zenon DEF Next

(* Rows that are kept as they were, as sweeps, deletions and reloads do it.  *)
KeepsSome(f, g) ==
  \A i \in DOMAIN g : i \in DOMAIN f /\ g[i] = f[i]

LEMMA RowHelpers ==
  /\ \A f, i : KeepsSome(f, Without(f, i)) /\ DOMAIN Without(f, i) = DOMAIN f \ {i}
  /\ KeepsSome(outbox, LiveRows)
  /\ \A i \in DOMAIN outbox : i \in DOMAIN LiveRows \/ RowExpired(i)
BY DEF KeepsSome, Without, LiveRows

(* The part of the types that is the sender's.                               *)
SenderType ==
  /\ running \in BOOLEAN
  /\ DOMAIN queue \subseteq DOMAIN envelopes
  /\ DOMAIN outbox \subseteq DOMAIN envelopes
  /\ \A i \in DOMAIN queue : queue[i] \in Entry
  /\ \A i \in DOMAIN outbox : outbox[i] \in Entry
  /\ attempt \in Attempt
  /\ stray \in [Id -> Nat]
  /\ submitted \in 0..MaxSubmissions

LEMMA SenderEnqueues ==
  ASSUME TypeOK, RefInv, NEW to \in Recipient, NEW ttl \in Ttl, Enqueue(to, ttl)
  PROVE  SenderType' /\ RefInv'
<1> DEFINE i == Len(envelopes) + 1
           e == [attempts |-> 0, retryAfter |-> 0]
<1>1. e \in Entry
  BY DEF Entry
<1>2. /\ i \in DOMAIN envelopes' /\ DOMAIN envelopes \subseteq DOMAIN envelopes'
      /\ queue' = With(queue, i, e)
  BY EnqueueMoves
<1> HIDE DEF i, e
<1>3. DOMAIN queue' = DOMAIN queue \cup {i} /\ queue'[i] = e
      /\ \A j \in DOMAIN queue \ {i} : queue'[j] = queue[j]
  BY <1>2 DEF With
<1>4. DOMAIN queue' \subseteq DOMAIN envelopes' /\ \A j \in DOMAIN queue' : queue'[j] \in Entry
  BY <1>1, <1>2, <1>3 DEF TypeOK
<1>5. UNCHANGED <<running, outbox, attempt, stray, submitted, saved>> /\ running
  BY DEF Enqueue
<1> QED
  BY <1>2, <1>4, <1>5 DEF SenderType, RefInv, TypeOK

LEMMA SenderSubmits ==
  ASSUME TypeOK, RefInv, NEW i \in DOMAIN queue, Submit(i)
  PROVE  SenderType' /\ RefInv'
<1>1. attempt' = [id |-> i, answer |-> "none"] /\ submitted' = submitted + 1
      /\ submitted < MaxSubmissions /\ running
      /\ UNCHANGED <<envelopes, running, queue, outbox, stray, saved>>
  BY DEF Submit
<1>2. i \in DOMAIN envelopes /\ i \in Id
  BY Ids DEF TypeOK
<1>3. attempt' \in Attempt /\ attempt'.id = i /\ attempt'.answer = "none"
  BY <1>1, <1>2 DEF Attempt
<1>4. submitted' \in 0..MaxSubmissions
  BY <1>1, MailboxAssumption DEF TypeOK
<1> QED
  BY <1>1, <1>2, <1>3, <1>4 DEF SenderType, RefInv, TypeOK

LEMMA NoAttemptType ==
  NoAttempt \in Attempt /\ NoAttempt.id = None /\ NoAttempt.answer = "none"
BY DEF NoAttempt, Attempt, None

LEMMA SenderRecords ==
  ASSUME TypeOK, RefInv, RecordSuccess \/ RecordFailure
  PROVE  SenderType' /\ RefInv'
<1> DEFINE i == attempt.id
<1>1. /\ attempt' = NoAttempt
      /\ UNCHANGED <<envelopes, running, outbox, submitted, saved>>
  BY DEF RecordSuccess, RecordFailure
<1>2. i \in {None} \cup DOMAIN envelopes /\ (i # None => i \in Id)
  BY Ids DEF RefInv
<1>3. CASE RecordSuccess
  <2>1. queue' = Without(queue, i) /\ UNCHANGED stray
    BY <1>3 DEF RecordSuccess
  <2>2. KeepsSome(queue, queue') /\ DOMAIN queue' \subseteq DOMAIN queue
    BY <2>1 DEF Without, KeepsSome
  <2> HIDE DEF i
  <2> QED  BY <1>1, <2>1, <2>2, NoAttemptType DEF KeepsSome, SenderType, RefInv, TypeOK
<1>4. CASE RecordFailure
  <2>1. i # None /\ (queue' = IF i \in DOMAIN queue THEN [queue EXCEPT ![i] = Failed(@)]
                              ELSE queue)
        /\ (UNCHANGED stray \/ stray' = [stray EXCEPT ![i] = @ + 1])
    BY <1>4 DEF RecordFailure
  <2>6. i \in Id
    BY <1>2, <2>1
  <2>2. i \in DOMAIN queue => Failed(queue[i]) \in Entry
    BY FailedType DEF TypeOK
  <2> HIDE DEF i
  <2>3. DOMAIN queue' = DOMAIN queue /\ \A j \in DOMAIN queue' : queue'[j] \in Entry
    BY <2>1, <2>2 DEF TypeOK
  <2>4. stray' \in [Id -> Nat] /\ \A j \in Id \ {i} : stray'[j] = stray[j]
    <3>1. stray \in [Id -> Nat] /\ stray[i] + 1 \in Nat
      BY <2>6 DEF TypeOK
    <3>2. CASE UNCHANGED stray
      BY <3>1, <3>2
    <3>3. CASE stray' = [stray EXCEPT ![i] = @ + 1]
      BY <2>6, <3>1, <3>3
    <3> QED  BY <2>1, <3>2, <3>3
  <2>5. i \in DOMAIN envelopes
    BY <1>2, <2>1
  <2> QED  BY <1>1, <2>3, <2>4, <2>5, NoAttemptType DEF SenderType, RefInv, TypeOK
<1> QED
  BY <1>3, <1>4

LEMMA SenderKeepsRows ==
  ASSUME TypeOK, RefInv,
         \/ SweepQueue \/ SweepExpiredOutbox
         \/ \E i \in DOMAIN outbox : DeletePendingOutbox(i)
         \/ Restart
  PROVE  SenderType' /\ RefInv'
<1>1. UNCHANGED <<envelopes, attempt, stray, submitted, saved>> /\ running'
  BY DEF SweepQueue, SweepExpiredOutbox, DeletePendingOutbox, Restart
<1>2. KeepsSome(outbox, outbox')
  BY RowHelpers DEF KeepsSome, SweepQueue, SweepExpiredOutbox, DeletePendingOutbox, Restart
<1>3. KeepsSome(queue, queue') \/ KeepsSome(outbox, queue')
  BY RowHelpers DEF KeepsSome, SweepQueue, SweepExpiredOutbox, DeletePendingOutbox, Restart
<1> QED
  BY <1>1, <1>2, <1>3 DEF KeepsSome, SenderType, RefInv, TypeOK

LEMMA SenderSaves ==
  ASSUME TypeOK, RefInv, NEW i \in DOMAIN queue, StorePendingOutbox(i)
  PROVE  SenderType' /\ RefInv'
<1>1. /\ outbox' = With(outbox, i, queue[i]) /\ saved' = saved \cup {i}
      /\ UNCHANGED <<envelopes, running, queue, attempt, stray, submitted>>
  BY DEF StorePendingOutbox
<1>2. i \in DOMAIN envelopes /\ queue[i] \in Entry
  BY DEF TypeOK
<1>3. DOMAIN outbox' = DOMAIN outbox \cup {i} /\ outbox'[i] = queue[i]
      /\ \A j \in DOMAIN outbox \ {i} : outbox'[j] = outbox[j]
  BY <1>1 DEF With
<1>4. DOMAIN outbox' \subseteq DOMAIN envelopes' /\ \A j \in DOMAIN outbox' : outbox'[j] \in Entry
  BY <1>1, <1>2, <1>3 DEF TypeOK
<1> QED
  BY <1>1, <1>2, <1>4 DEF SenderType, RefInv, TypeOK

LEMMA SenderCrashes ==
  ASSUME TypeOK, RefInv, Crash
  PROVE  SenderType' /\ RefInv'
<1> DEFINE i == attempt.id
<1>1. /\ running' = FALSE /\ queue' = << >> /\ attempt' = NoAttempt
      /\ UNCHANGED <<envelopes, outbox, submitted, saved>>
      /\ UNCHANGED stray \/ (i # None /\ stray' = [stray EXCEPT ![i] = @ + 1])
  BY DEF Crash
<1>2. i # None => i \in DOMAIN envelopes /\ i \in Id
  BY Ids DEF RefInv
<1> HIDE DEF i
<1>3. DOMAIN queue' = {}
  BY <1>1
<1>4. stray' \in [Id -> Nat] /\ \A j \in Id : stray'[j] > 0 => j \in DOMAIN envelopes'
  <2>1. CASE UNCHANGED stray
    BY <1>1, <2>1 DEF TypeOK, RefInv
  <2>2. CASE i # None /\ stray' = [stray EXCEPT ![i] = @ + 1]
    BY <1>1, <1>2, <2>2 DEF TypeOK, RefInv
  <2> QED  BY <1>1, <2>1, <2>2
<1> QED
  BY <1>1, <1>3, <1>4, NoAttemptType DEF SenderType, RefInv, TypeOK

LEMMA SenderServed ==
  ASSUME TypeOK, RefInv, ServeRequest \/ \E i \in Id : ServeStray(i)
  PROVE  SenderType' /\ RefInv'
<1>1. CASE ServeRequest
  <2>1. /\ attempt' = [attempt EXCEPT !.answer = Answer(attempt.id)]
        /\ attempt.id # None
        /\ UNCHANGED <<envelopes, running, queue, outbox, stray, submitted, saved>>
    BY <1>1 DEF ServeRequest
  <2>2. Answer(attempt.id) \in {"ok", "full"}
    BY DEF Answer
  <2>3. attempt' \in Attempt /\ attempt'.id = attempt.id
    BY <2>1, <2>2 DEF Attempt, TypeOK
  <2>4. running
    BY <2>1, NoAttemptType DEF RefInv
  <2> QED  BY <2>1, <2>3, <2>4 DEF SenderType, RefInv, TypeOK
<1>2. ASSUME NEW i \in Id, ServeStray(i) PROVE SenderType' /\ RefInv'
  <2>1. /\ stray[i] > 0 /\ stray' = [stray EXCEPT ![i] = @ - 1]
        /\ UNCHANGED <<envelopes, running, queue, outbox, attempt, submitted, saved>>
    BY <1>2 DEF ServeStray, sender
  <2>2. stray' \in [Id -> Nat] /\ \A j \in Id : stray'[j] > 0 => j \in DOMAIN envelopes'
    BY <2>1 DEF TypeOK, RefInv
  <2> QED  BY <2>1, <2>2 DEF SenderType, RefInv, TypeOK
<1> QED
  BY <1>1, <1>2

LEMMA SenderRests ==
  ASSUME TypeOK, RefInv,
         UNCHANGED <<envelopes, running, queue, outbox, attempt, stray, submitted, saved>>
  PROVE  SenderType' /\ RefInv'
BY DEF SenderType, RefInv, TypeOK

LEMMA TypeStep ==
  ASSUME TypeOK, RefInv, [Next]_vars
  PROVE  TypeOK' /\ RefInv'
<1>1. SenderType' /\ RefInv'
  <2>1. ASSUME \/ \E r \in Recipient : Retrieve(r)
               \/ \E i \in DOMAIN envelopes : Acknowledge(i)
               \/ SweepRelay \/ Tick \/ UNCHANGED vars
        PROVE  SenderType' /\ RefInv'
    BY <2>1, SenderRests DEF Retrieve, Acknowledge, SweepRelay, Tick, vars, sender
  <2> QED
    BY <2>1, SenderEnqueues, SenderSubmits, SenderRecords, SenderKeepsRows, SenderSaves,
       SenderCrashes, SenderServed, Zenon DEF Next
<1>2. SlotsMove /\ EnvelopesMove
  BY SlotsStep, EnvelopesStep
<1>3. RefInv' => saved' \subseteq Id
  <2>1. RefInv' => saved' \subseteq DOMAIN envelopes'
    BY DEF RefInv
  <2>2. DOMAIN envelopes' = 1..Len(envelopes') /\ Len(envelopes') \in Nat
        /\ Len(envelopes') <= MaxEnvelopes
    BY <1>2, LenProperties DEF EnvelopesMove
  <2> QED  BY <2>1, <2>2, MailboxAssumption DEF Id
<1> QED
  BY <1>1, <1>2, <1>3 DEF SenderType, SlotsMove, EnvelopesMove, TypeOK

LEMMA InitTypes ==
  ASSUME Init
  PROVE  TypeOK /\ RefInv
<1>1. /\ << >> \in Seq(Envelope) /\ << >> \in Seq(Id)
      /\ Len(<< >>) = 0 /\ DOMAIN << >> = {}
  BY EmptySeq
<1>2. attempt \in Attempt /\ attempt.id = None /\ attempt.answer = "none"
  BY NoAttemptType DEF Init
<1>3. slots \in [Recipient -> Seq(Id)] /\ \A r \in Recipient : Len(slots[r]) <= Capacity
  BY <1>1, MailboxAssumption DEF Init
<1> QED
  BY <1>1, <1>2, <1>3, MailboxAssumption DEF Init, TypeOK, RefInv

(* Every variable keeps its type, whatever is lost, late or repeated.        *)
THEOREM TypeCorrect == Spec => []TypeOK
<1>1. Init => TypeOK /\ RefInv
  BY InitTypes
<1>2. TypeOK /\ RefInv /\ [Next]_vars => TypeOK' /\ RefInv'
  BY TypeStep
<1> QED
  BY <1>1, <1>2, PTL DEF Spec

(* A relay that checks for duplicates where it checks for room never holds   *)
(* an envelope twice (RelayMailbox::store), however often it is submitted.   *)
THEOREM SlotSafety == Spec => []SlotsSound
<1>1. Init => TypeOK /\ RefInv /\ SlotsSound
  <2> SUFFICES ASSUME Init PROVE TypeOK /\ RefInv /\ SlotsSound
    OBVIOUS
  <2>1. TypeOK /\ RefInv
    BY InitTypes
  <2>2. SlotsSound
    <3>1. DOMAIN << >> = {}
      BY EmptySeq
    <3> QED  BY <3>1 DEF Init, SlotsSound, IsInjective
  <2> QED  BY <2>1, <2>2
<1>2. TypeOK /\ RefInv /\ SlotsSound /\ [Next]_vars => TypeOK' /\ RefInv' /\ SlotsSound'
  BY TypeStep, SlotsStep DEF SlotsSound, SlotsMove
<1> QED
  BY <1>1, <1>2, PTL DEF Spec

-----------------------------------------------------------------------------
(* Nothing saved is lost *)

(* An envelope that the sender may forget.                                   *)
Delivered(i) == Stored(i) \/ i \in handed \/ RowExpired(i)

(* Until then a saved envelope has its row, and a running sender has it      *)
(* queued; the relay says "ok" of nothing else.  That the process may die at *)
(* any step is why the row alone must do.                                    *)
HeldInv ==
  /\ \A i \in saved :
       Delivered(i) \/ (i \in DOMAIN outbox /\ (running => i \in DOMAIN queue))
  /\ attempt.answer = "ok" => Delivered(attempt.id)

(* What was delivered, or has expired, remains so.                           *)
LEMMA DeliveredStays ==
  ASSUME TypeOK, RefInv, [Next]_vars, NEW i \in DOMAIN envelopes, Delivered(i)
  PROVE  Delivered(i)'
<1> DEFINE r == envelopes[i].to
<1>1. SlotsMove /\ EnvelopesMove
  BY SlotsStep, EnvelopesStep
<1>2. /\ i \in Id /\ r \in Recipient
      /\ envelopes[i].expires \in Nat
      /\ now \in Nat /\ now' \in Nat
  BY <1>1, Ids DEF TypeOK, SlotsMove, EnvelopesMove
<1>3. envelopes'[i] = envelopes[i] /\ now <= now' /\ handed \subseteq handed'
  BY <1>1, <1>2 DEF SlotsMove, EnvelopesMove
<1>4. RowExpired(i) \/ Expired(i) => RowExpired(i)'
  BY <1>2, <1>3 DEF RowExpired, Expired
<1>5. i \in handed => i \in handed'
  BY <1>2, <1>3
<1>6. Stored(i) => Delivered(i)'
  <2> SUFFICES ASSUME Stored(i) PROVE Delivered(i)'
    OBVIOUS
  <2>1. i \in Range(slots[r])
    BY DEF Stored, SlotOf
  <2>2. i \in Range(slots'[r]) \/ i \in handed' \/ Expired(i)
    BY <1>1, <1>2, <2>1 DEF SlotsMove
  <2>3. i \in Range(slots'[r]) => Stored(i)'
    BY <1>3 DEF Stored, SlotOf
  <2> QED  BY <1>4, <2>2, <2>3 DEF Delivered
<1> QED
  BY <1>4, <1>5, <1>6 DEF Delivered

(* The steps in which the sender lets go of something, or learns something.  *)
LEMMA HeldStep ==
  ASSUME TypeOK, RefInv, HeldInv, [Next]_vars
  PROVE  HeldInv'
<1>1. \A i \in DOMAIN envelopes : Delivered(i) => Delivered(i)'
  BY DeliveredStays
<1>2. saved \subseteq DOMAIN envelopes
      /\ (attempt.id # None => attempt.id \in DOMAIN envelopes)
      /\ (attempt.answer # "none" => attempt.id \in DOMAIN envelopes)
  BY DEF RefInv, TypeOK, Attempt
<1>3. \A i \in DOMAIN envelopes : Expired(i) => RowExpired(i)
  BY Ids DEF Expired, RowExpired, TypeOK
<1>4. ASSUME UNCHANGED <<queue, outbox, running, saved, attempt>> PROVE HeldInv'
  BY <1>1, <1>2, <1>4 DEF HeldInv
<1>5. ASSUME \E r \in Recipient, ttl \in Ttl : Enqueue(r, ttl) PROVE HeldInv'
  <2>1. DOMAIN queue \subseteq DOMAIN queue' /\ UNCHANGED <<outbox, running, saved, attempt>>
    BY <1>5 DEF Enqueue, With
  <2> QED  BY <1>1, <1>2, <2>1 DEF HeldInv
<1>6. ASSUME NEW i \in DOMAIN queue, Submit(i) PROVE HeldInv'
  <2>1. UNCHANGED <<queue, outbox, running, saved>> /\ attempt'.answer = "none"
    BY <1>6 DEF Submit
  <2> QED  BY <1>1, <1>2, <2>1 DEF HeldInv
<1>7. CASE RecordSuccess
  <2>1. /\ attempt.answer = "ok" /\ DOMAIN queue' = DOMAIN queue \ {attempt.id}
        /\ UNCHANGED <<outbox, running, saved>> /\ attempt' = NoAttempt
    BY <1>7 DEF RecordSuccess, Without
  <2>2. Delivered(attempt.id)
    BY <2>1 DEF HeldInv
  <2> QED  BY <1>1, <1>2, <2>1, <2>2, NoAttemptType DEF HeldInv
<1>8. CASE RecordFailure
  <2>1. DOMAIN queue' = DOMAIN queue
        /\ UNCHANGED <<outbox, running, saved>> /\ attempt' = NoAttempt
    BY <1>8 DEF RecordFailure
  <2> QED  BY <1>1, <1>2, <2>1, NoAttemptType DEF HeldInv
<1>9. CASE SweepQueue
  <2>1. /\ \A i \in DOMAIN queue : i \in DOMAIN queue' \/ Expired(i)
        /\ UNCHANGED <<outbox, running, saved, attempt>>
    BY <1>9 DEF SweepQueue
  <2>2. \A i \in saved : Expired(i) => Delivered(i)
    BY <1>2, <1>3 DEF Delivered
  <2> QED  BY <1>1, <1>2, <2>1, <2>2 DEF HeldInv
<1>10. ASSUME NEW i \in DOMAIN queue, StorePendingOutbox(i) PROVE HeldInv'
  <2>1. /\ DOMAIN outbox' = DOMAIN outbox \cup {i} /\ saved' = saved \cup {i}
        /\ UNCHANGED <<queue, running, attempt>>
    BY <1>10 DEF StorePendingOutbox, With
  <2> QED  BY <1>1, <1>2, <1>10, <2>1 DEF HeldInv
<1>11. ASSUME NEW i \in DOMAIN outbox, DeletePendingOutbox(i) PROVE HeldInv'
  <2>1. /\ running /\ (i \notin DOMAIN queue \/ Expired(i))
        /\ DOMAIN outbox' = DOMAIN outbox \ {i}
        /\ UNCHANGED <<queue, running, attempt, saved>>
    BY <1>11 DEF DeletePendingOutbox, MayDelete, Without
  <2>2. i \in saved => Delivered(i)
    BY <1>2, <1>3, <2>1 DEF HeldInv, Delivered
  <2> QED  BY <1>1, <1>2, <2>1, <2>2 DEF HeldInv
<1>12. CASE SweepExpiredOutbox
  <2>1. /\ \A i \in DOMAIN outbox : i \in DOMAIN outbox' \/ RowExpired(i)
        /\ UNCHANGED <<queue, running, attempt, saved>>
    BY <1>12, RowHelpers DEF SweepExpiredOutbox
  <2> QED  BY <1>1, <1>2, <2>1 DEF HeldInv, Delivered
<1>13. CASE Crash
  <2>1. ~running' /\ attempt' = NoAttempt /\ UNCHANGED <<outbox, saved>>
    BY <1>13 DEF Crash
  <2> QED  BY <1>1, <1>2, <2>1, NoAttemptType DEF HeldInv
<1>14. CASE Restart
  <2>1. /\ \A i \in DOMAIN outbox : i \in DOMAIN queue' \/ RowExpired(i)
        /\ UNCHANGED <<outbox, attempt, saved>>
    BY <1>14, RowHelpers DEF Restart
  <2>2. \A i \in saved : RowExpired(i) => Delivered(i)'
    BY <1>1, <1>2 DEF Delivered
  <2>3. \A i \in saved : Delivered(i)' \/ (i \in DOMAIN outbox' /\ i \in DOMAIN queue')
    BY <1>1, <1>2, <2>1, <2>2 DEF HeldInv
  <2> QED  BY <1>1, <1>2, <2>1, <2>3 DEF HeldInv
<1>15. CASE ServeRequest
  <2>1. PICK i \in DOMAIN envelopes : i = attempt.id
    BY <1>2, <1>15 DEF ServeRequest
  <2>2. /\ RelayStores(i) /\ UNCHANGED <<envelopes, handed>>
        /\ UNCHANGED <<queue, outbox, running, saved>>
        /\ attempt' = [attempt EXCEPT !.answer = Answer(i)]
    BY <2>1, <1>15 DEF ServeRequest
  <2>3. attempt'.id = i /\ attempt'.answer = Answer(i)
    BY <2>1, <2>2 DEF TypeOK, Attempt
  <2>4. Answer(i) = "ok" => i \in Range(slots'[envelopes[i].to])
    BY <2>2, StoreMoves
  <2>5. Answer(i) = "ok" => Delivered(i)'
    BY <2>2, <2>4 DEF Delivered, Stored, SlotOf
  <2>6. attempt'.answer = "ok" => Delivered(attempt.id)'
    BY <2>3, <2>5 DEF Delivered, Stored, SlotOf, RowExpired
  <2> QED  BY <1>1, <1>2, <2>2, <2>6 DEF HeldInv
<1>16. ASSUME \/ \E i \in Id : ServeStray(i)
              \/ \E r \in Recipient : Retrieve(r)
              \/ \E i \in DOMAIN envelopes : Acknowledge(i)
              \/ SweepRelay \/ Tick \/ UNCHANGED vars
       PROVE  UNCHANGED <<queue, outbox, running, saved, attempt>>
  BY <1>16 DEF ServeStray, Retrieve, Acknowledge, SweepRelay, Tick, vars, sender
<1> QED
  BY <1>4, <1>5, <1>6, <1>7, <1>8, <1>9, <1>10, <1>11, <1>12, <1>13, <1>14, <1>15,
     <1>16, Zenon DEF Next

(* An envelope that had a row is queued, in the table, at the relay or with  *)
(* its recipient until it expires (mailbox.rs, pending_outbox), at whatever  *)
(* step the process dies and whichever answers are lost.                     *)
THEOREM NothingSavedIsLost == Spec => []SavedIsNotLost
<1>1. Init => TypeOK /\ RefInv /\ HeldInv
  <2>1. Init => HeldInv
    BY NoAttemptType DEF Init, HeldInv
  <2> QED  BY <2>1, InitTypes
<1>2. TypeOK /\ RefInv /\ HeldInv /\ [Next]_vars => TypeOK' /\ RefInv' /\ HeldInv'
  BY TypeStep, HeldStep
<1>3. TypeOK /\ HeldInv => SavedIsNotLost
  BY DEF HeldInv, SavedIsNotLost, Delivered
<1> QED
  BY <1>1, <1>2, <1>3, PTL DEF Spec

-----------------------------------------------------------------------------
(* Attempts stay spread out *)

(* What an entry or a row promises of the requests it knows of.              *)
Spread(times, e) ==
  /\ e.attempts = Len(times)
  /\ times # << >> => e.retryAfter >= Last(times) + Backoff(Len(times))

(* An entry knows of every request but the one that is out, and a row of     *)
(* those in its history, which a restart brings back.                        *)
SpreadInv ==
  /\ asked \in [Id -> Seq(Nat)] /\ known \in [Id -> Seq(Nat)]
  /\ \A i \in Id \ DOMAIN envelopes : asked[i] = << >> /\ known[i] = << >>
  /\ \A i \in DOMAIN queue :
       IF attempt.id = i
       THEN /\ asked[i] # << >> /\ Last(asked[i]) <= now
            /\ Spread(Front(asked[i]), queue[i])
       ELSE Spread(asked[i], queue[i])
  /\ \A i \in DOMAIN outbox : Spread(known[i], outbox[i])

LEMMA LastRequest ==
  ASSUME NEW s \in Seq(Nat), NEW t \in Nat
  PROVE  /\ Append(s, t) \in Seq(Nat) /\ Append(s, t) # << >>
         /\ Last(Append(s, t)) = t /\ Front(Append(s, t)) = s
         /\ Front(s) \in Seq(Nat)
         /\ s # << >> => Last(s) \in Nat /\ Len(s) > 0 /\ Len(Front(s)) + 1 = Len(s)
<1>1. /\ Len(s) \in Nat /\ s \in [1..Len(s) -> Nat]
      /\ Append(s, t) \in Seq(Nat) /\ Len(Append(s, t)) = Len(s) + 1
      /\ Append(s, t)[Len(s) + 1] = t
      /\ \A n \in 1..Len(s) : Append(s, t)[n] = s[n]
  BY AppendProperties, LenProperties
<1>2. Append(s, t) # << >> /\ Last(Append(s, t)) = t
  BY <1>1, EmptySeq DEF Last
<1>3. Front(Append(s, t)) = s
  <2> DEFINE f == Front(Append(s, t))
  <2>1. f = SubSeq(Append(s, t), 1, Len(s))
    BY <1>1 DEF Front
  <2>2. /\ f \in Seq(Nat) /\ Len(f) = Len(s) /\ \A n \in 1..Len(s) : f[n] = s[n]
    BY <1>1, <2>1, SubSeqProperties
  <2> QED  BY <2>2, SeqEqual
<1>4. s # << >> => Last(s) \in Nat /\ Len(s) > 0
  BY <1>1, EmptySeq DEF Last
<1>5. /\ Front(s) \in Seq(Nat)
      /\ Len(s) > 0 => Len(Front(s)) + 1 = Len(s)
  BY <1>1, SubSeqProperties DEF Front
<1> QED
  BY <1>1, <1>2, <1>3, <1>4, <1>5

LEMMA RetryNextIsNext ==
  ASSUME [RetryNext]_retryVars
  PROVE  [Next]_vars
BY DEF RetryNext, AskFor, SaveRow, ComeBack, AskNobody, Next, retryVars

(* A step of the sender's that asks nobody and saves nothing.                *)
LEMMA AskNobodyKeepsSpread ==
  ASSUME TypeOK, RefInv, SpreadInv, AskNobody
  PROVE  SpreadInv'
<1>1. /\ asked' \in [Id -> Seq(Nat)] /\ known' \in [Id -> Seq(Nat)]
      /\ \A i \in Id \ DOMAIN envelopes' : asked'[i] = << >> /\ known'[i] = << >>
      /\ \A i \in Id \cap DOMAIN queue' : asked'[i] = asked[i]
      /\ \A i \in Id \cap DOMAIN outbox' : known'[i] = known[i]
  <2>1. [Next]_vars
    BY DEF AskNobody, Next
  <2>2. DOMAIN envelopes \subseteq DOMAIN envelopes'
    BY <2>1, EnvelopesStep DEF EnvelopesMove
  <2>3. asked' = OnlyOf(DOMAIN queue', asked) /\ known' = OnlyOf(DOMAIN outbox', known)
    BY DEF AskNobody
  <2>4. << >> \in Seq(Nat)
    BY EmptySeq
  <2> QED  BY <2>2, <2>3, <2>4 DEF OnlyOf, SpreadInv
<1>2. now \in Nat /\ now' \in Nat /\ now <= now'
  <2>1. [Next]_vars
    BY DEF AskNobody, Next
  <2> QED  BY <2>1, EnvelopesStep DEF EnvelopesMove, TypeOK
<1>3. DOMAIN queue \subseteq Id /\ DOMAIN outbox \subseteq Id
  BY Ids DEF TypeOK
<1>4. ASSUME KeepsSome(queue, queue'), KeepsSome(outbox, outbox'),
             \/ attempt'.id = attempt.id
             \/ DOMAIN queue' = {}
             \/ attempt.id \notin DOMAIN queue' /\ attempt'.id = None
      PROVE  SpreadInv'
  <2>1. \A i \in DOMAIN outbox' : Spread(known'[i], outbox'[i])
    BY <1>1, <1>3, <1>4 DEF SpreadInv, KeepsSome
  <2>2. ASSUME NEW i \in DOMAIN queue'
        PROVE  IF attempt'.id = i
               THEN /\ asked'[i] # << >> /\ Last(asked'[i]) <= now'
                    /\ Spread(Front(asked'[i]), queue'[i])
               ELSE Spread(asked'[i], queue'[i])
    <3>1. /\ i \in DOMAIN queue /\ queue'[i] = queue[i] /\ i \in Id /\ i # None
          /\ asked'[i] = asked[i]
      BY <1>1, <1>3, <1>4, Ids DEF KeepsSome
    <3>2. (attempt'.id = i) <=> (attempt.id = i)
      BY <1>4, <3>1
    <3>3. asked[i] # << >> => Last(asked[i]) \in Nat
      BY <3>1, LastRequest DEF SpreadInv
    <3> QED  BY <1>2, <3>1, <3>2, <3>3 DEF SpreadInv
  <2> QED  BY <1>1, <2>1, <2>2 DEF SpreadInv
<1>5. ASSUME NEW r \in Recipient, NEW ttl \in Ttl, Enqueue(r, ttl) PROVE SpreadInv'
  <2> DEFINE i == Len(envelopes) + 1
             e == [attempts |-> 0, retryAfter |-> 0]
  <2>1. i \notin DOMAIN envelopes /\ i \in Id /\ queue' = With(queue, i, e)
    BY <1>5, EnqueueMoves
  <2>2. UNCHANGED <<outbox, attempt, now>> /\ e.attempts = 0
    BY <1>5 DEF Enqueue
  <2> HIDE DEF i, e
  <2>3. DOMAIN queue' = DOMAIN queue \cup {i} /\ queue'[i] = e
        /\ \A j \in DOMAIN queue \ {i} : queue'[j] = queue[j]
    BY <2>1 DEF With
  <2>4. attempt.id # i
    BY <2>1, Ids DEF RefInv
  <2>5. Spread(asked[i], e)
    BY <2>1, <2>2, EmptySeq DEF SpreadInv, Spread
  <2>6. /\ \A j \in DOMAIN queue' : asked'[j] = asked[j]
        /\ \A j \in DOMAIN outbox' : known'[j] = known[j]
    BY <1>1, <1>3, <2>1, <2>2, <2>3
  <2> QED  BY <1>1, <2>2, <2>3, <2>4, <2>5, <2>6 DEF SpreadInv
<1>6. CASE RecordSuccess
  <2>1. queue' = Without(queue, attempt.id) /\ attempt' = NoAttempt /\ UNCHANGED outbox
    BY <1>6 DEF RecordSuccess
  <2>2. KeepsSome(queue, queue') /\ KeepsSome(outbox, outbox')
        /\ attempt.id \notin DOMAIN queue'
    BY <2>1 DEF KeepsSome, Without
  <2> QED  BY <1>4, <2>1, <2>2, NoAttemptType
<1>7. CASE RecordFailure
  <2> DEFINE i == attempt.id
  <2>1. /\ DOMAIN queue' = DOMAIN queue
        /\ \A j \in DOMAIN queue : queue'[j] = IF j = i THEN Failed(queue[i]) ELSE queue[j]
        /\ UNCHANGED <<outbox, now>> /\ attempt' = NoAttempt
    BY <1>7 DEF RecordFailure
  <2>2. attempt'.id = None /\ None \notin DOMAIN queue
    BY <1>3, <2>1, NoAttemptType, Ids
  <2>3. ASSUME i \in DOMAIN queue PROVE Spread(asked[i], Failed(queue[i]))
    <3>1. queue[i] \in Entry /\ queue[i].attempts \in Nat /\ asked[i] \in Seq(Nat)
      BY <1>3, <2>3 DEF TypeOK, Entry, SpreadInv
    <3>2. /\ Failed(queue[i]).attempts = queue[i].attempts + 1
          /\ Failed(queue[i]).retryAfter = now + Backoff(queue[i].attempts + 1)
      BY <3>1, FailedType
    <3>3. /\ asked[i] # << >> /\ Last(asked[i]) <= now
          /\ queue[i].attempts = Len(Front(asked[i]))
      BY <2>3 DEF SpreadInv, Spread
    <3>4. queue[i].attempts + 1 = Len(asked[i]) /\ Last(asked[i]) \in Nat
      BY <3>1, <3>3, LastRequest
    <3>5. Backoff(Len(asked[i])) \in Nat
      BY <3>1, <3>4, BackoffType
    <3> QED  BY <1>2, <3>2, <3>3, <3>4, <3>5 DEF Spread
  <2> HIDE DEF i
  <2>4. \A j \in DOMAIN queue' : attempt'.id # j /\ Spread(asked[j], queue'[j])
    BY <2>1, <2>2, <2>3 DEF SpreadInv, i
  <2>5. /\ \A j \in DOMAIN queue' : asked'[j] = asked[j]
        /\ \A j \in DOMAIN outbox' : known'[j] = known[j]
    BY <1>1, <1>3, <2>1
  <2> QED  BY <1>1, <2>1, <2>4, <2>5 DEF SpreadInv
<1>8. ASSUME SweepQueue \/ SweepExpiredOutbox
             \/ \E i \in DOMAIN outbox : DeletePendingOutbox(i)
      PROVE  SpreadInv'
  <2>1. CASE SweepQueue
    <3>1. KeepsSome(queue, queue') /\ KeepsSome(outbox, outbox') /\ UNCHANGED attempt
      BY <2>1 DEF SweepQueue, KeepsSome
    <3> QED  BY <1>4, <3>1
  <2>2. CASE SweepExpiredOutbox \/ \E i \in DOMAIN outbox : DeletePendingOutbox(i)
    <3>1. KeepsSome(outbox, outbox') /\ UNCHANGED <<queue, attempt>>
      BY <2>2, RowHelpers DEF SweepExpiredOutbox, DeletePendingOutbox
    <3>2. KeepsSome(queue, queue')
      BY <3>1 DEF KeepsSome
    <3> QED  BY <1>4, <3>1, <3>2
  <2> QED  BY <1>8, <2>1, <2>2
<1>9. CASE Crash
  <2>1. DOMAIN queue' = {} /\ UNCHANGED outbox
    BY <1>9, EmptySeq DEF Crash
  <2>2. KeepsSome(queue, queue') /\ KeepsSome(outbox, outbox')
    BY <2>1 DEF KeepsSome
  <2> QED  BY <1>4, <2>1, <2>2
<1>10. CASE ServeRequest
  <2>1. UNCHANGED <<queue, outbox>> /\ attempt'.id = attempt.id
    BY <1>10 DEF ServeRequest, TypeOK, Attempt
  <2>2. KeepsSome(queue, queue') /\ KeepsSome(outbox, outbox')
    BY <2>1 DEF KeepsSome
  <2> QED  BY <1>4, <2>1, <2>2
<1>11. ASSUME \/ \E i \in Id : ServeStray(i)
              \/ \E r \in Recipient : Retrieve(r)
              \/ \E i \in DOMAIN envelopes : Acknowledge(i)
              \/ SweepRelay \/ Tick
       PROVE  SpreadInv'
  <2>1. UNCHANGED <<queue, outbox, attempt>>
    BY <1>11 DEF ServeStray, Retrieve, Acknowledge, SweepRelay, Tick, sender
  <2>2. KeepsSome(queue, queue') /\ KeepsSome(outbox, outbox')
    BY <2>1 DEF KeepsSome
  <2> QED  BY <1>4, <2>1, <2>2
<1> QED
  BY <1>5, <1>6, <1>7, <1>8, <1>9, <1>10, <1>11, Zenon DEF AskNobody

LEMMA SpreadStep ==
  ASSUME TypeOK, RefInv, SpreadInv, [RetryNext]_retryVars
  PROVE  SpreadInv'
<1>1. \A i \in DOMAIN queue : i \in Id /\ asked[i] \in Seq(Nat)
  BY Ids DEF TypeOK, SpreadInv
<1>2. now \in Nat
  BY DEF TypeOK
<1>3. ASSUME NEW i \in DOMAIN queue, AskFor(i) PROVE SpreadInv'
  <2>1. /\ attempt.id = None /\ attempt'.id = i /\ None \notin DOMAIN queue
        /\ UNCHANGED <<queue, outbox, now, envelopes, known>>
    BY <1>1, <1>3, NoAttemptType, Ids DEF AskFor, Submit
  <2>2. asked' = [asked EXCEPT ![i] = Append(asked[i], now)] /\ asked[i] \in Seq(Nat)
    BY <1>1, <1>3 DEF AskFor
  <2>3. /\ Append(asked[i], now) \in Seq(Nat) /\ Append(asked[i], now) # << >>
        /\ Last(Append(asked[i], now)) = now /\ Front(Append(asked[i], now)) = asked[i]
    BY <1>2, <2>2, LastRequest
  <2>4. /\ asked' \in [Id -> Seq(Nat)] /\ asked'[i] = Append(asked[i], now)
        /\ \A j \in Id \ {i} : asked'[j] = asked[j]
    BY <1>1, <2>2, <2>3 DEF SpreadInv
  <2>5. \A j \in Id \ DOMAIN envelopes : j # i
    BY DEF TypeOK
  <2>6. \A j \in DOMAIN queue : Spread(asked[j], queue[j])
    BY <2>1 DEF SpreadInv
  <2>7. /\ asked'[i] # << >> /\ Last(asked'[i]) <= now
        /\ Spread(Front(asked'[i]), queue[i])
    BY <1>2, <2>3, <2>4, <2>6
  <2>8. \A j \in DOMAIN queue' :
          IF attempt'.id = j
          THEN /\ asked'[j] # << >> /\ Last(asked'[j]) <= now'
               /\ Spread(Front(asked'[j]), queue'[j])
          ELSE Spread(asked'[j], queue'[j])
    BY <1>1, <2>1, <2>4, <2>6, <2>7
  <2>9. \A j \in Id \ DOMAIN envelopes' : asked'[j] = << >> /\ known'[j] = << >>
    BY <2>1, <2>4, <2>5 DEF SpreadInv
  <2> QED  BY <2>1, <2>4, <2>8, <2>9 DEF SpreadInv
<1>4. ASSUME NEW i \in DOMAIN queue, SaveRow(i) PROVE SpreadInv'
  <2> DEFINE k == IF attempt.id = i THEN Front(asked[i]) ELSE asked[i]
  <2>1. /\ outbox' = With(outbox, i, queue[i]) /\ known' = [known EXCEPT ![i] = k]
        /\ UNCHANGED <<queue, attempt, now, envelopes, asked>>
    BY <1>4 DEF SaveRow, StorePendingOutbox, sender
  <2>2. k \in Seq(Nat) /\ Spread(k, queue[i])
    BY <1>1, LastRequest DEF SpreadInv
  <2> HIDE DEF k
  <2>3. /\ DOMAIN outbox' = DOMAIN outbox \cup {i} /\ outbox'[i] = queue[i]
        /\ \A j \in DOMAIN outbox \ {i} : outbox'[j] = outbox[j]
    BY <2>1 DEF With
  <2>4. /\ known' \in [Id -> Seq(Nat)] /\ known'[i] = k
        /\ \A j \in Id \ {i} : known'[j] = known[j]
    BY <1>1, <2>1, <2>2 DEF SpreadInv
  <2>5. \A j \in DOMAIN outbox : j \in Id
    BY Ids DEF TypeOK
  <2>6. \A j \in DOMAIN outbox' : Spread(known'[j], outbox'[j])
    BY <2>2, <2>3, <2>4, <2>5 DEF SpreadInv
  <2>7. \A j \in Id \ DOMAIN envelopes : j # i
    BY DEF TypeOK
  <2> QED  BY <2>1, <2>4, <2>6, <2>7 DEF SpreadInv
<1>5. CASE ComeBack
  <2>1. /\ KeepsSome(outbox, queue') /\ UNCHANGED <<outbox, now, envelopes, attempt>>
        /\ attempt = NoAttempt /\ asked' = OnlyOf(DOMAIN queue', known) /\ known' = known
    BY <1>5, RowHelpers DEF ComeBack, Restart, RefInv
  <2>2. \A i \in DOMAIN outbox : Spread(known[i], outbox[i]) /\ i \in Id
    BY Ids DEF SpreadInv, TypeOK
  <2>3. \A i \in DOMAIN queue' : attempt'.id # i /\ Spread(asked'[i], queue'[i])
    <3>1. \A i \in DOMAIN outbox : i # None
      BY Ids DEF TypeOK
    <3> QED  BY <2>1, <2>2, <3>1, NoAttemptType DEF KeepsSome, OnlyOf
  <2>4. /\ asked' \in [Id -> Seq(Nat)]
        /\ \A i \in Id \ DOMAIN envelopes' : asked'[i] = << >> /\ known'[i] = << >>
    <3>1. << >> \in Seq(Nat)
      BY EmptySeq
    <3> QED  BY <2>1, <3>1 DEF OnlyOf, SpreadInv
  <2> QED  BY <2>1, <2>2, <2>3, <2>4 DEF SpreadInv
<1> QED
  BY <1>3, <1>4, <1>5, AskNobodyKeepsSpread DEF RetryNext, SpreadInv, retryVars, vars, sender

(* An envelope that was requested n times is requested again no earlier than *)
(* the n-th back-off after the last of them (record_attempt), counting after *)
(* a crash the requests whose failure its row knew when it was last saved.   *)
THEOREM SpreadSafety == RetrySpec => AttemptsSpread
<1>1. RetryInit => TypeOK /\ RefInv /\ SpreadInv
  <2>1. RetryInit => SpreadInv
    <3>1. DOMAIN << >> = {} /\ << >> \in Seq(Nat)
      BY EmptySeq
    <3> QED  BY <3>1 DEF RetryInit, Init, SpreadInv
  <2> QED  BY <2>1, InitTypes DEF RetryInit
<1>2. TypeOK /\ RefInv /\ SpreadInv /\ [RetryNext]_retryVars
        => TypeOK' /\ RefInv' /\ SpreadInv'
  BY RetryNextIsNext, TypeStep, SpreadStep
<1>3. TypeOK /\ RefInv /\ SpreadInv /\ [RetryNext]_retryVars
        => [\A i \in Id :
              attempt.id # i /\ attempt'.id = i /\ asked[i] # << >>
                => now >= Last(asked[i]) + Backoff(Len(asked[i]))]_retryVars
  <2> SUFFICES ASSUME TypeOK, RefInv, SpreadInv, RetryNext, NEW i \in Id,
                      attempt.id # i, attempt'.id = i, asked[i] # << >>
               PROVE  now >= Last(asked[i]) + Backoff(Len(asked[i]))
    OBVIOUS
  <2>1. i # None
    BY Ids
  <2>2. i \in DOMAIN queue /\ AskFor(i)
    <3>1. attempt' # attempt /\ attempt' # NoAttempt /\ attempt'.id # attempt.id
      BY <2>1, NoAttemptType
    <3>2. ~ServeRequest
      BY <3>1 DEF ServeRequest, TypeOK, Attempt
    <3>3. ~AskNobody
      BY <3>1, <3>2
         DEF AskNobody, Enqueue, RecordSuccess, RecordFailure, SweepQueue,
             DeletePendingOutbox, SweepExpiredOutbox, Crash, ServeStray, Retrieve,
             Acknowledge, SweepRelay, Tick, sender
    <3>4. PICK j \in DOMAIN queue : AskFor(j)
      BY <3>1, <3>3 DEF RetryNext, SaveRow, StorePendingOutbox, ComeBack, Restart
    <3>5. attempt'.id = j
      BY <3>4 DEF AskFor, Submit
    <3> QED  BY <3>4, <3>5
  <2>3. queue[i].retryAfter <= now /\ queue[i].retryAfter \in Nat /\ now \in Nat
    BY <2>2 DEF AskFor, Submit, Due, TypeOK, Entry
  <2>4. queue[i].retryAfter >= Last(asked[i]) + Backoff(Len(asked[i]))
    BY <2>2 DEF SpreadInv, Spread
  <2>5. Last(asked[i]) \in Nat /\ Backoff(Len(asked[i])) \in Nat
    <3>1. Last(asked[i]) \in Nat /\ Len(asked[i]) \in Nat /\ Len(asked[i]) > 0
      BY LastRequest, LenProperties DEF SpreadInv
    <3> QED  BY <3>1, BackoffType
  <2> QED  BY <2>3, <2>4, <2>5
<1> QED
  BY <1>1, <1>2, <1>3, PTL DEF RetrySpec, AttemptsSpread

-----------------------------------------------------------------------------
(* The offline path implements LetterStore *)

(* Every envelope in a slot is addressed to the slot's recipient.            *)
SlotHomes ==
  \A r \in Recipient : \A i \in Range(slots[r]) :
    i \in DOMAIN envelopes /\ envelopes[i].to = r

(* What the mapping of fates needs besides: only envelopes are handed out,   *)
(* and a row is there because it was saved.                                  *)
FateInv ==
  /\ handed \subseteq DOMAIN envelopes
  /\ DOMAIN outbox \subseteq saved
  /\ SlotHomes

(* A request stores its envelope, if there is room, and nothing else.        *)
LEMMA StoreStores ==
  ASSUME TypeOK, NEW i \in DOMAIN envelopes, RelayStores(i), UNCHANGED envelopes
  PROVE  /\ SlotHomes => SlotHomes'
         /\ \A j \in DOMAIN envelopes : Stored(j) => Stored(j)'
         /\ \A j \in DOMAIN envelopes \ {i} : Stored(j)' => Stored(j)
<1> DEFINE r0 == envelopes[i].to
<1>1. r0 \in Recipient /\ i \in Id /\ slots \in [Recipient -> Seq(Id)]
      /\ \A j \in DOMAIN envelopes : envelopes[j].to \in Recipient
  BY Ids DEF TypeOK
<1>2. /\ \A r \in Recipient : Range(slots[r]) \subseteq Range(slots'[r])
      /\ \A r \in Recipient \ {r0} : slots'[r] = slots[r]
      /\ Range(slots'[r0]) \subseteq Range(slots[r0]) \cup {i}
  <2>1. CASE slots' = slots
    BY <2>1
  <2>2. CASE slots' = [slots EXCEPT ![r0] = Append(@, i)]
    <3>1. slots[r0] \in Seq(Id)
      BY <1>1
    <3>2. Range(Append(slots[r0], i)) = Range(slots[r0]) \cup {i}
      BY <1>1, <3>1, AppendRange
    <3> HIDE DEF r0
    <3>3. slots'[r0] = Append(slots[r0], i) /\ \A r \in Recipient \ {r0} : slots'[r] = slots[r]
      BY <1>1, <2>2
    <3> QED  BY <3>2, <3>3
  <2> QED  BY <2>1, <2>2 DEF RelayStores, Kept
<1>3. ASSUME SlotHomes PROVE SlotHomes'
  <2> SUFFICES ASSUME NEW r \in Recipient, NEW j \in Range(slots'[r])
               PROVE  j \in DOMAIN envelopes /\ envelopes[j].to = r
    BY DEF SlotHomes
  <2> QED  BY <1>2, <1>3 DEF SlotHomes
<1>4. ASSUME NEW j \in DOMAIN envelopes
      PROVE  /\ Stored(j) => Stored(j)'
             /\ j # i /\ Stored(j)' => Stored(j)
  <2>1. (Stored(j) <=> j \in Range(slots[envelopes[j].to]))
        /\ (Stored(j)' <=> j \in Range(slots'[envelopes[j].to]))
    BY DEF Stored, SlotOf
  <2> QED  BY <1>1, <1>2, <2>1
<1> QED
  BY <1>3, <1>4

(* What the recipient, or a sweep, leaves in the slots.                      *)
LEMMA SlotsShrink ==
  ASSUME TypeOK, UNCHANGED envelopes,
         slots' \in [Recipient -> Seq(Id)],
         \A r \in Recipient : Range(slots'[r]) \subseteq Range(slots[r])
  PROVE  /\ SlotHomes => SlotHomes'
         /\ \A j \in DOMAIN envelopes : Stored(j)' => Stored(j)
<1>1. \A j \in DOMAIN envelopes : envelopes[j].to \in Recipient
  BY Ids
<1>2. \A j \in DOMAIN envelopes :
        /\ Stored(j) <=> j \in Range(slots[envelopes[j].to])
        /\ Stored(j)' <=> j \in Range(slots'[envelopes[j].to])
  BY DEF Stored, SlotOf
<1> QED
  BY <1>1, <1>2 DEF SlotHomes

LEMMA RetrieveTakes ==
  ASSUME TypeOK, FateInv, NEW r \in Recipient, Retrieve(r)
  PROVE  /\ SlotHomes' /\ handed' \subseteq DOMAIN envelopes
         /\ \A j \in DOMAIN envelopes :
              /\ Stored(j)' => Stored(j)
              /\ Stored(j) => Stored(j)' \/ Expired(j) \/ j \in handed'
              /\ j \in handed' => j \in handed \/ (Stored(j) /\ ~Expired(j))
<1>1. slots' = [slots EXCEPT ![r] = << >>] /\ UNCHANGED envelopes
      /\ handed' = handed \cup Range(Fresh(slots[r]))
  BY DEF Retrieve, EmptiedSlot
<1>2. << >> \in Seq(Id) /\ Range(<< >>) = {}
  <2>1. << >> \in Seq(Id) /\ DOMAIN << >> = {}
    BY EmptySeq
  <2> QED  BY <2>1 DEF Range
<1>3. slots' \in [Recipient -> Seq(Id)] /\ slots'[r] = << >>
      /\ \A q \in Recipient \ {r} : slots'[q] = slots[q]
  BY <1>1, <1>2 DEF TypeOK
<1>4. \A q \in Recipient : Range(slots'[q]) \subseteq Range(slots[q])
  BY <1>2, <1>3
<1>5. SlotHomes' /\ \A j \in DOMAIN envelopes : Stored(j)' => Stored(j)
  BY <1>1, <1>3, <1>4, SlotsShrink DEF FateInv
<1>6. Range(Fresh(slots[r])) = Range(slots[r]) \cap {i \in DOMAIN envelopes : ~Expired(i)}
  BY RetainMoves DEF Fresh
<1>7. ASSUME NEW j \in DOMAIN envelopes
      PROVE  /\ Stored(j) => Stored(j)' \/ Expired(j) \/ j \in handed'
             /\ j \in handed' => j \in handed \/ (Stored(j) /\ ~Expired(j))
  <2>1. (Stored(j) <=> j \in Range(slots[envelopes[j].to]))
        /\ (Stored(j)' <=> j \in Range(slots'[envelopes[j].to]))
    BY <1>1 DEF Stored, SlotOf
  <2>2. envelopes[j].to \in Recipient
    BY Ids
  <2>3. j \in Range(slots[r]) => envelopes[j].to = r
    BY DEF FateInv, SlotHomes
  <2> QED  BY <1>1, <1>3, <1>6, <2>1, <2>2, <2>3
<1> QED
  BY <1>1, <1>5, <1>6, <1>7 DEF FateInv

LEMMA SweepTakes ==
  ASSUME TypeOK, FateInv, SweepRelay
  PROVE  /\ SlotHomes'
         /\ \A j \in DOMAIN envelopes :
              /\ Stored(j)' => Stored(j)
              /\ Stored(j) => Stored(j)' \/ Expired(j)
<1>1. slots' = [r \in Recipient |-> Fresh(slots[r])] /\ UNCHANGED envelopes
  BY DEF SweepRelay
<1>2. \A r \in Recipient :
        /\ Fresh(slots[r]) \in Seq(Id)
        /\ Range(Fresh(slots[r])) = Range(slots[r]) \cap {i \in DOMAIN envelopes : ~Expired(i)}
  BY RetainMoves DEF Fresh
<1>3. slots' \in [Recipient -> Seq(Id)]
      /\ \A r \in Recipient : slots'[r] = Fresh(slots[r])
  BY <1>1, <1>2
<1>4. \A r \in Recipient : Range(slots'[r]) \subseteq Range(slots[r])
  BY <1>2, <1>3
<1>5. SlotHomes' /\ \A j \in DOMAIN envelopes : Stored(j)' => Stored(j)
  BY <1>1, <1>3, <1>4, SlotsShrink DEF FateInv
<1>6. ASSUME NEW j \in DOMAIN envelopes, Stored(j)
      PROVE  Stored(j)' \/ Expired(j)
  <2>1. (Stored(j) <=> j \in Range(slots[envelopes[j].to]))
        /\ (Stored(j)' <=> j \in Range(slots'[envelopes[j].to]))
    BY <1>1 DEF Stored, SlotOf
  <2>2. envelopes[j].to \in Recipient
    BY Ids
  <2> QED  BY <1>2, <1>3, <1>6, <2>1, <2>2
<1> QED
  BY <1>5, <1>6

LEMMA AcknowledgeTakes ==
  ASSUME TypeOK, FateInv, NEW i \in DOMAIN envelopes, Acknowledge(i)
  PROVE  /\ SlotHomes'
         /\ \A j \in DOMAIN envelopes :
              /\ Stored(j)' => Stored(j)
              /\ Stored(j) => Stored(j)' \/ j = i
<1> DEFINE r == envelopes[i].to
<1>1. r \in Recipient /\ \A j \in DOMAIN envelopes : j \in Id /\ envelopes[j].to \in Recipient
  BY Ids
<1>2. slots' = [slots EXCEPT ![r] = Only(@, Id \ {i})] /\ UNCHANGED envelopes
  BY DEF Acknowledge
<1> HIDE DEF r
<1>3. /\ Only(slots[r], Id \ {i}) \in Seq(Id)
      /\ Range(Only(slots[r], Id \ {i})) = Range(slots[r]) \cap (Id \ {i})
  BY <1>1, RetainMoves
<1>4. slots' \in [Recipient -> Seq(Id)] /\ slots'[r] = Only(slots[r], Id \ {i})
      /\ \A q \in Recipient \ {r} : slots'[q] = slots[q]
  BY <1>1, <1>2, <1>3 DEF TypeOK
<1>5. \A q \in Recipient : Range(slots'[q]) \subseteq Range(slots[q])
  BY <1>3, <1>4
<1>6. SlotHomes' /\ \A j \in DOMAIN envelopes : Stored(j)' => Stored(j)
  BY <1>2, <1>4, <1>5, SlotsShrink DEF FateInv
<1>7. ASSUME NEW j \in DOMAIN envelopes, Stored(j), j # i
      PROVE  Stored(j)'
  <2>1. (Stored(j) <=> j \in Range(slots[envelopes[j].to]))
        /\ (Stored(j)' <=> j \in Range(slots'[envelopes[j].to]))
    BY <1>2 DEF Stored, SlotOf
  <2> QED  BY <1>1, <1>3, <1>4, <1>7, <2>1
<1> QED
  BY <1>6, <1>7

(* What LetterStore lets a fate do when a letter expires, when letters are   *)
(* collected, when the sender dies, and when only a request knows of it.     *)
Rests(i)    == FateOf(i)' = FateOf(i)
Lapses(i)   ==
  /\ RowExpired(i)
  /\ \/ FateOf(i) = "written" /\ FateOf(i)' \in {"adrift", "gone"}
     \/ FateOf(i) = "kept" /\ FateOf(i)' = "gone"
Collects(i) ==
  \/ Rests(i)
  \/ Lapses(i)
  \/ ~Expired(i) /\ FateOf(i) \in {"written", "kept"} /\ FateOf(i)' = "handed"
Dies(i)     ==
  \/ Rests(i)
  \/ Lapses(i)
  \/ FateOf(i) \in {"written", "adrift"} /\ FateOf(i)' \in {"adrift", "gone"}
Drifts(i)   ==
  \/ Rests(i)
  \/ FateOf(i) = "adrift" /\ FateOf(i)' \in {"written", "gone"}

LetterStep == [Letters!LetterNext]_(Letters!letterVars)

LEMMA FatesStep ==
  ASSUME TypeOK, UNCHANGED <<now, envelopes>>
  PROVE  /\ (\A i \in DOMAIN envelopes : Collects(i)) => LetterStep
         /\ (\A i \in DOMAIN envelopes : Dies(i)) => LetterStep
         /\ (\A i \in DOMAIN envelopes : Drifts(i)) => LetterStep
<1> DEFINE fate == [i \in DOMAIN envelopes |-> FateOf(i)]
<1>1. /\ DOMAIN fate = DOMAIN envelopes /\ DOMAIN fate' = DOMAIN envelopes
      /\ \A i \in DOMAIN envelopes : fate[i] = FateOf(i) /\ fate'[i] = FateOf(i)'
  OBVIOUS
<1>2. \A i \in DOMAIN envelopes :
        /\ envelopes[i].expires \in Nat
        /\ ~Expired(i) <=> now <= envelopes[i].expires
        /\ RowExpired(i) <=> envelopes[i].expires <= now
  <2>1. \A i \in DOMAIN envelopes : envelopes[i].expires \in Nat /\ now \in Nat
    BY Ids DEF TypeOK
  <2> QED  BY <2>1 DEF Expired, RowExpired
<1>3. ASSUME \A i \in DOMAIN envelopes : Collects(i)
      PROVE  LetterStep
  <2>1. Letters!Collect
    <3>1. ASSUME NEW i \in DOMAIN envelopes
          PROVE  fate'[i] = fate[i]
                 \/ <<fate[i], fate'[i]>> \in
                      (IF now <= envelopes[i].expires THEN Letters!HandedOut ELSE {})
                      \cup Letters!Overdue(i)
      BY <1>1, <1>2, <1>3
         DEF Collects, Rests, Lapses, Letters!HandedOut, Letters!Overdue, Letters!ThrownAway
    <3> QED  BY <1>1, <3>1 DEF Letters!Collect, Letters!Fates
  <2> QED  BY <2>1 DEF LetterStep, Letters!LetterNext
<1>4. ASSUME \A i \in DOMAIN envelopes : Dies(i)
      PROVE  LetterStep
  <2>1. Letters!Die
    <3>1. ASSUME NEW i \in DOMAIN envelopes
          PROVE  fate'[i] = fate[i]
                 \/ <<fate[i], fate'[i]>> \in
                      ({"written", "adrift"} \X {"adrift", "gone"}) \cup Letters!Overdue(i)
      BY <1>1, <1>2, <1>4
         DEF Dies, Rests, Lapses, Letters!Overdue, Letters!ThrownAway
    <3> QED  BY <1>1, <3>1 DEF Letters!Die, Letters!Fates
  <2> QED  BY <2>1 DEF LetterStep, Letters!LetterNext
<1>5. ASSUME \A i \in DOMAIN envelopes : Drifts(i)
      PROVE  LetterStep
  <2>1. Letters!Drift
    <3>1. ASSUME NEW i \in DOMAIN envelopes
          PROVE  fate'[i] = fate[i] \/ <<fate[i], fate'[i]>> \in {"adrift"} \X {"written", "gone"}
      BY <1>1, <1>5 DEF Drifts, Rests
    <3> QED  BY <1>1, <3>1 DEF Letters!Drift, Letters!Fates
  <2> QED  BY <2>1 DEF LetterStep, Letters!LetterNext
<1> QED
  BY <1>3, <1>4, <1>5

(* What a step must leave alone to leave a fate alone.                       *)
LEMMA SameFate ==
  ASSUME NEW i, UNCHANGED <<saved, handed>>,
         Held(i)' <=> Held(i),
         Held(i) \/ (UnderWay(i)' <=> UnderWay(i))
  PROVE  Rests(i)
BY DEF Rests, FateOf

LInv == TypeOK /\ RefInv /\ HeldInv /\ FateInv

(* A saved letter that nothing holds has expired or was handed out.          *)
LEMMA SavedUnheld ==
  ASSUME LInv, NEW i \in saved, ~Held(i), i \notin handed
  PROVE  RowExpired(i)
BY DEF LInv, HeldInv, Held, Delivered

(* A letter that is saved, and that something may stop holding, lapses.      *)
LEMMA LessHeld ==
  ASSUME NEW i, UNCHANGED <<saved, handed>>, Held(i)' => Held(i),
         Held(i) => Held(i)' \/ RowExpired(i) \/ i \in handed,
         UnderWay(i)' <=> UnderWay(i)
  PROVE  Collects(i)
<1>1. CASE i \in handed
  BY <1>1 DEF Collects, Rests, FateOf
<1>2. CASE i \notin handed /\ (Held(i)' <=> Held(i))
  BY <1>2, SameFate DEF Collects
<1>3. CASE i \notin handed /\ Held(i) /\ ~Held(i)' /\ RowExpired(i)
  BY <1>3 DEF Collects, Rests, Lapses, FateOf
<1> QED
  BY <1>1, <1>2, <1>3

LEMMA AppendedFunction ==
  ASSUME NEW n \in Nat, NEW f, DOMAIN f = 1..n, NEW g, NEW x,
         DOMAIN g = 1..(n + 1), \A i \in 1..n : g[i] = f[i], g[n + 1] = x,
         f = [i \in 1..n |-> f[i]], g = [i \in 1..(n + 1) |-> g[i]]
  PROVE  g = Append(f, x)
<1> DEFINE S == {f[i] : i \in 1..n} \cup {x}
<1>1. f \in Seq(S) /\ x \in S /\ Len(f) = n
  <2>1. f \in [1..n -> S]
    OBVIOUS
  <2> HIDE DEF S
  <2>2. f \in Seq(S)
    BY <2>1
  <2>3. Len(f) \in Nat /\ DOMAIN f = 1..Len(f)
    BY <2>2, LenProperties
  <2>4. Len(f) = n
    BY <2>3
  <2> QED  BY <2>2, <2>4 DEF S
<1>2. g \in Seq(S) /\ Len(g) = n + 1
  <2>1. \A i \in 1..(n + 1) : g[i] \in S
    <3> SUFFICES ASSUME NEW i \in 1..(n + 1) PROVE g[i] \in S
      OBVIOUS
    <3>1. i \in 1..n \/ i = n + 1
      OBVIOUS
    <3> QED  BY <3>1
  <2> HIDE DEF S
  <2>2. g \in [1..(n + 1) -> S]
    BY <2>1
  <2>3. g \in Seq(S)
    BY <2>2
  <2>4. Len(g) \in Nat /\ DOMAIN g = 1..Len(g)
    BY <2>3, LenProperties
  <2>5. Len(g) = n + 1
    BY <2>4
  <2> QED  BY <2>3, <2>5
<1> HIDE DEF S
<1>3. /\ Append(f, x) \in Seq(S) /\ Len(Append(f, x)) = n + 1
      /\ \A i \in 1..n : Append(f, x)[i] = f[i]
      /\ Append(f, x)[n + 1] = x
  BY <1>1, AppendProperties
<1>4. \A i \in 1..(n + 1) : g[i] = Append(f, x)[i]
  <2> SUFFICES ASSUME NEW i \in 1..(n + 1) PROVE g[i] = Append(f, x)[i]
    OBVIOUS
  <2>1. i \in 1..n \/ i = n + 1
    OBVIOUS
  <2> QED  BY <1>3, <2>1
<1> QED
  BY <1>2, <1>3, <1>4, SeqEqual

LEMMA EnqueueWrites ==
  ASSUME LInv, NEW to \in Recipient, NEW ttl \in Ttl, Enqueue(to, ttl)
  PROVE  LetterStep
<1> DEFINE e == [to |-> to, created |-> now, expires |-> now + ttl]
           fate == [i \in DOMAIN envelopes |-> FateOf(i)]
<1>0. PICK n \in Nat : n = Len(envelopes)
  BY Ids DEF LInv
<1>1. /\ DOMAIN envelopes = 1..n /\ DOMAIN envelopes' = 1..(n + 1)
      /\ \A i \in 1..n : envelopes'[i] = envelopes[i]
  <2>1. /\ DOMAIN envelopes' = DOMAIN envelopes \cup {n + 1}
        /\ \A i \in DOMAIN envelopes : envelopes'[i] = envelopes[i]
    BY <1>0, EnqueueMoves DEF EnvelopesMove, LInv
  <2>2. DOMAIN envelopes = 1..n
    BY <1>0, Ids DEF LInv
  <2> QED  BY <2>1, <2>2
<1>2. /\ envelopes' = Append(envelopes, e)
      /\ DOMAIN queue' = DOMAIN queue \cup {n + 1}
      /\ UNCHANGED <<now, outbox, attempt, stray, slots, handed, saved>>
  BY <1>0 DEF Enqueue, With
<1>3. n + 1 \notin handed /\ n + 1 \notin saved
  BY <1>1 DEF LInv, FateInv, RefInv
<1> HIDE DEF e
<1>4. FateOf(n + 1)' = "written"
  BY <1>2, <1>3 DEF FateOf, Held
<1>5. ASSUME NEW i \in 1..n PROVE FateOf(i)' = FateOf(i)
  <2>1. Stored(i)' <=> Stored(i)
    BY <1>1, <1>2 DEF Stored, SlotOf
  <2>2. i # n + 1
    OBVIOUS
  <2>3. Held(i)' <=> Held(i)
    BY <1>2, <2>1, <2>2 DEF Held
  <2>4. UnderWay(i)' <=> UnderWay(i)
    BY <1>2 DEF UnderWay
  <2> QED  BY <1>2, <2>3, <2>4, SameFate DEF Rests
<1>6. fate' = Append(fate, "written")
  <2>1. /\ DOMAIN fate = 1..n /\ DOMAIN fate' = 1..(n + 1)
        /\ \A i \in 1..n : fate'[i] = fate[i]
        /\ fate'[n + 1] = "written"
    BY <1>1, <1>4, <1>5
  <2>2. fate = [i \in 1..n |-> fate[i]] /\ fate' = [i \in 1..(n + 1) |-> fate'[i]]
    BY <1>1
  <2> HIDE DEF fate
  <2> QED  BY <2>1, <2>2, AppendedFunction
<1>7. Letters!Write
  BY <1>2, <1>6 DEF Letters!Write, e
<1> QED
  BY <1>7 DEF LetterStep, Letters!LetterNext

LEMMA StoredRests ==
  ASSUME UNCHANGED <<envelopes, slots>>, NEW i
  PROVE  Stored(i)' <=> Stored(i)
BY DEF Stored, SlotOf

LEMMA UnheldLapses ==
  ASSUME LInv, UNCHANGED <<saved, handed>>, NEW i \in DOMAIN envelopes,
         Held(i)' <=> Held(i), UnderWay(i)' => UnderWay(i), i \in saved
  PROVE  Collects(i)
<1>1. CASE i \in handed \/ Held(i) \/ (UnderWay(i)' <=> UnderWay(i))
  BY <1>1 DEF FateOf, Collects, Rests
<1>2. CASE i \notin handed /\ ~Held(i) /\ UnderWay(i) /\ ~UnderWay(i)'
  <2>1. RowExpired(i)
    BY <1>2, SavedUnheld
  <2> QED  BY <1>2, <2>1 DEF FateOf, Collects, Lapses
<1> QED
  BY <1>1, <1>2

LEMMA SubmitRests ==
  ASSUME LInv, NEW i \in DOMAIN queue, Submit(i)
  PROVE  LetterStep
<1>1. /\ attempt = NoAttempt /\ attempt' = [id |-> i, answer |-> "none"]
      /\ UNCHANGED <<now, envelopes, queue, outbox, stray, slots, handed, saved>>
  BY DEF Submit
<1>2. i \in Id /\ None \notin Id /\ DOMAIN envelopes \subseteq Id
  BY Ids DEF LInv, TypeOK
<1>3. ASSUME NEW j \in DOMAIN envelopes PROVE Collects(j)
  <2>1. Held(j)' <=> Held(j)
    BY <1>1, StoredRests DEF Held
  <2>2. CASE j = i
    <3>1. Held(j)
      BY <2>2 DEF Held
    <3> QED  BY <1>1, <2>1, <3>1, SameFate DEF Collects
  <2>3. CASE j # i
    <3>1. attempt # [id |-> j, answer |-> "none"] /\ attempt' # [id |-> j, answer |-> "none"]
      BY <1>1, <1>2, <2>3 DEF NoAttempt
    <3>2. UnderWay(j)' <=> UnderWay(j)
      BY <1>1, <3>1 DEF UnderWay
    <3> QED  BY <1>1, <2>1, <3>2, SameFate DEF Collects
  <2> QED  BY <2>2, <2>3
<1> QED
  BY <1>1, <1>3, FatesStep DEF LInv

LEMMA SuccessLapses ==
  ASSUME LInv, RecordSuccess
  PROVE  LetterStep
<1>1. /\ attempt.answer = "ok" /\ attempt' = NoAttempt
      /\ DOMAIN queue' = DOMAIN queue \ {attempt.id}
      /\ UNCHANGED <<now, envelopes, outbox, stray, slots, handed, saved>>
  BY DEF RecordSuccess, Without
<1>2. Delivered(attempt.id)
  BY <1>1 DEF LInv, HeldInv
<1>3. ASSUME NEW j \in DOMAIN envelopes PROVE Collects(j)
  <2>1. attempt # [id |-> j, answer |-> "none"] /\ attempt' # [id |-> j, answer |-> "none"]
    <3>1. j # None
      BY Ids DEF LInv
    <3> QED  BY <1>1, <3>1 DEF NoAttempt
  <2>2. UnderWay(j)' <=> UnderWay(j)
    BY <1>1, <2>1 DEF UnderWay
  <2>3. Stored(j)' <=> Stored(j)
    BY <1>1, StoredRests
  <2>4. Held(j)' => Held(j)
    BY <1>1, <2>3 DEF Held
  <2>5. Held(j) => Held(j)' \/ RowExpired(j) \/ j \in handed
    BY <1>1, <1>2, <2>3 DEF Held, Delivered
  <2> QED  BY <1>1, <2>2, <2>4, <2>5, LessHeld
<1> QED
  BY <1>1, <1>3, FatesStep DEF LInv

LEMMA FailureDrifts ==
  ASSUME LInv, RecordFailure
  PROVE  LetterStep
<1>1. /\ attempt.id # None /\ attempt' = NoAttempt
      /\ DOMAIN queue' = DOMAIN queue
      /\ UNCHANGED <<now, envelopes, outbox, slots, handed, saved>>
      /\ \/ UNCHANGED stray
         \/ attempt.answer = "none" /\ stray' = [stray EXCEPT ![attempt.id] = @ + 1]
  BY DEF RecordFailure
<1>2. PICK i \in DOMAIN envelopes : i = attempt.id
  BY <1>1 DEF LInv, RefInv
<1>3. /\ stray \in [Id -> Nat] /\ i \in Id /\ attempt \in Attempt
      /\ \A j \in DOMAIN envelopes : j \in Id /\ j # None
  BY Ids DEF LInv, TypeOK
<1>4. \A j \in DOMAIN envelopes : Held(j)' <=> Held(j)
  BY <1>1, StoredRests DEF Held
<1>5. attempt' # [id |-> i, answer |-> "none"]
  BY <1>1, <1>3 DEF NoAttempt
<1>6. UnderWay(i)' => UnderWay(i)
  <2>1. CASE UNCHANGED stray
    BY <1>5, <2>1 DEF UnderWay
  <2>2. CASE attempt.answer = "none"
    <3>1. attempt = [id |-> i, answer |-> "none"]
      BY <1>2, <1>3, <2>2 DEF Attempt
    <3> QED  BY <3>1 DEF UnderWay
  <2> QED  BY <1>1, <2>1, <2>2
<1>7. ASSUME NEW j \in DOMAIN envelopes, j # i PROVE Rests(j)
  <2>1. attempt # [id |-> j, answer |-> "none"] /\ attempt' # [id |-> j, answer |-> "none"]
    BY <1>1, <1>2, <1>3, <1>7 DEF NoAttempt
  <2>2. stray'[j] = stray[j]
    BY <1>1, <1>2, <1>3, <1>7
  <2>3. UnderWay(j)' <=> UnderWay(j)
    BY <2>1, <2>2 DEF UnderWay
  <2> QED  BY <1>1, <1>4, <2>3, SameFate
<1>8. CASE i \in saved
  <2>1. Collects(i)
    BY <1>1, <1>4, <1>6, <1>8, UnheldLapses
  <2>2. \A j \in DOMAIN envelopes : Collects(j)
    BY <1>7, <2>1 DEF Collects
  <2> QED  BY <1>1, <2>2, FatesStep DEF LInv
<1>9. CASE i \notin saved
  <2>1. Drifts(i)
    BY <1>1, <1>4, <1>6, <1>9 DEF Drifts, Rests, FateOf
  <2>2. \A j \in DOMAIN envelopes : Drifts(j)
    BY <1>7, <2>1 DEF Drifts
  <2> QED  BY <1>1, <2>2, FatesStep DEF LInv
<1> QED
  BY <1>8, <1>9

LEMMA SenderLapses ==
  ASSUME LInv,
         \/ SweepQueue \/ SweepExpiredOutbox \/ Restart
         \/ \E i \in DOMAIN outbox : DeletePendingOutbox(i)
  PROVE  LetterStep
<1>1. UNCHANGED <<now, envelopes, attempt, stray, slots, handed, saved>>
  BY DEF SweepQueue, SweepExpiredOutbox, Restart, DeletePendingOutbox
<1>2. \A j \in DOMAIN envelopes : Expired(j) => RowExpired(j)
  BY Ids DEF Expired, RowExpired, LInv, TypeOK
<1>3. \A j \in DOMAIN envelopes :
        /\ Stored(j)' <=> Stored(j)
        /\ UnderWay(j)' <=> UnderWay(j)
  BY <1>1, StoredRests DEF UnderWay
<1>4. ASSUME SweepQueue \/ SweepExpiredOutbox \/ Restart, NEW j \in DOMAIN envelopes
      PROVE  /\ Held(j)' => Held(j)
             /\ Held(j) => Held(j)' \/ RowExpired(j) \/ j \in handed
  <2>1. CASE SweepQueue
    <3>1. /\ DOMAIN queue' = {i \in DOMAIN queue : ~Expired(i)} /\ outbox' = outbox
      BY <2>1 DEF SweepQueue
    <3> QED  BY <1>2, <1>3, <3>1 DEF Held
  <2>2. CASE SweepExpiredOutbox
    <3>1. /\ DOMAIN outbox' = {i \in DOMAIN outbox : ~RowExpired(i)} /\ queue' = queue
      BY <2>2 DEF SweepExpiredOutbox, LiveRows
    <3> QED  BY <1>3, <3>1 DEF Held
  <2>3. CASE Restart
    <3>1. /\ DOMAIN queue' = {i \in DOMAIN outbox : ~RowExpired(i)} /\ outbox' = outbox
      BY <2>3 DEF Restart, LiveRows
    <3>2. DOMAIN queue = {}
      BY <2>3 DEF Restart, LInv, RefInv
    <3> QED  BY <1>3, <3>1, <3>2 DEF Held
  <2> QED  BY <1>4, <2>1, <2>2, <2>3
<1>5. ASSUME NEW i \in DOMAIN outbox, DeletePendingOutbox(i), NEW j \in DOMAIN envelopes
      PROVE  /\ Held(j)' => Held(j)
             /\ Held(j) => Held(j)' \/ RowExpired(j) \/ j \in handed
  <2>1. /\ running /\ (i \notin DOMAIN queue \/ Expired(i))
        /\ DOMAIN outbox' = DOMAIN outbox \ {i} /\ queue' = queue
    BY <1>5 DEF DeletePendingOutbox, MayDelete, Without
  <2>2. i \in saved /\ i \in DOMAIN envelopes
    BY DEF LInv, FateInv, TypeOK
  <2>3. Stored(i) \/ i \in handed \/ RowExpired(i)
    BY <1>2, <2>1, <2>2 DEF LInv, HeldInv, Delivered
  <2> QED  BY <1>3, <2>1, <2>3 DEF Held
<1>6. \A j \in DOMAIN envelopes : Collects(j)
  BY <1>1, <1>3, <1>4, <1>5, LessHeld
<1> QED
  BY <1>1, <1>6, FatesStep DEF LInv

LEMMA SavingKeeps ==
  ASSUME LInv, NEW i \in DOMAIN queue, StorePendingOutbox(i)
  PROVE  LetterStep
<1> DEFINE fate == [j \in DOMAIN envelopes |-> FateOf(j)]
<1>1. /\ DOMAIN outbox' = DOMAIN outbox \cup {i} /\ saved' = saved \cup {i}
      /\ UNCHANGED <<now, envelopes, queue, attempt, stray, slots, handed>>
  BY DEF StorePendingOutbox, With
<1>2. i \in DOMAIN envelopes
  BY DEF LInv, TypeOK
<1>3. \A j \in DOMAIN envelopes :
        /\ Held(j)' <=> Held(j)
        /\ UnderWay(j)' <=> UnderWay(j)
  BY <1>1, StoredRests DEF Held, UnderWay
<1>4. \A j \in DOMAIN envelopes : j # i => FateOf(j)' = FateOf(j)
  BY <1>1, <1>3 DEF FateOf
<1>5. Held(i) /\ Held(i)'
  BY <1>2, <1>3 DEF Held
<1>6. CASE FateOf(i) = "written"
  <2>1. FateOf(i)' = "kept"
    BY <1>1, <1>5, <1>6 DEF FateOf
  <2>2. fate' = [fate EXCEPT ![i] = "kept"]
    BY <1>1, <1>2, <1>4, <2>1
  <2>3. Letters!Keep(i)
    BY <1>1, <1>2, <1>6, <2>2 DEF Letters!Keep
  <2>4. i \in DOMAIN fate
    BY <1>2
  <2> QED  BY <2>3, <2>4 DEF LetterStep, Letters!LetterNext
<1>7. CASE FateOf(i) # "written"
  <2>1. FateOf(i)' = FateOf(i)
    BY <1>1, <1>5, <1>7 DEF FateOf
  <2>2. \A j \in DOMAIN envelopes : Collects(j)
    BY <1>4, <2>1 DEF Collects, Rests
  <2> QED  BY <1>1, <2>2, FatesStep DEF LInv
<1> QED
  BY <1>6, <1>7

LEMMA CrashDies ==
  ASSUME LInv, Crash
  PROVE  LetterStep
<1>1. /\ attempt' = NoAttempt /\ DOMAIN queue' = {} /\ running
      /\ UNCHANGED <<now, envelopes, outbox, slots, handed, saved>>
      /\ \/ UNCHANGED stray
         \/ /\ attempt.id # None /\ attempt.answer = "none"
            /\ stray' = [stray EXCEPT ![attempt.id] = @ + 1]
  BY DEF Crash
<1>2. /\ stray \in [Id -> Nat] /\ attempt \in Attempt
      /\ \A j \in DOMAIN envelopes : j \in Id /\ j # None
  BY Ids DEF LInv, TypeOK
<1>3. ASSUME NEW j \in DOMAIN envelopes PROVE Dies(j)
  <2>1. Stored(j)' <=> Stored(j)
    BY <1>1, StoredRests
  <2>2. (Held(j)' <=> j \in DOMAIN outbox \/ Stored(j)) /\ (Held(j)' => Held(j))
    BY <1>1, <2>1 DEF Held
  <2>3. UnderWay(j)' => UnderWay(j)
    <3>1. attempt' # [id |-> j, answer |-> "none"]
      BY <1>1, <1>2 DEF NoAttempt
    <3>2. CASE stray'[j] = stray[j]
      BY <3>1, <3>2 DEF UnderWay
    <3>3. CASE j = attempt.id /\ attempt.answer = "none"
      <4>1. attempt = [id |-> j, answer |-> "none"]
        BY <1>2, <3>3 DEF Attempt
      <4> QED  BY <4>1 DEF UnderWay
    <3>4. stray'[j] = stray[j] \/ (j = attempt.id /\ attempt.answer = "none")
      BY <1>1, <1>2
    <3> QED  BY <3>2, <3>3, <3>4
  <2>4. CASE j \in handed
    BY <1>1, <2>4 DEF Dies, Rests, FateOf
  <2>5. CASE j \notin handed /\ j \notin saved
    BY <1>1, <2>2, <2>3, <2>5 DEF Dies, Rests, FateOf
  <2>6. CASE j \notin handed /\ j \in saved
    <3>1. RowExpired(j) \/ Held(j)'
      BY <2>2, <2>6 DEF LInv, HeldInv, Delivered
    <3> QED  BY <1>1, <2>2, <2>3, <2>6, <3>1 DEF Dies, Rests, Lapses, FateOf
  <2> QED  BY <2>4, <2>5, <2>6
<1> QED
  BY <1>1, <1>3, FatesStep DEF LInv

(* A request arrives: whoever waited for it, it is one request less.         *)
LEMMA ServedDrifts ==
  ASSUME LInv, NEW i \in DOMAIN envelopes, RelayStores(i),
         UNCHANGED <<now, envelopes, queue, outbox, handed, saved>>,
         UnderWay(i), \A j \in DOMAIN envelopes \ {i} : UnderWay(j)' <=> UnderWay(j)
  PROVE  LetterStep
<1>1. /\ \A j \in DOMAIN envelopes : Stored(j) => Stored(j)'
      /\ \A j \in DOMAIN envelopes \ {i} : Stored(j)' => Stored(j)
  BY StoreStores DEF LInv
<1>2. \A j \in DOMAIN envelopes : Held(j) => Held(j)'
  BY <1>1 DEF Held
<1>3. ASSUME NEW j \in DOMAIN envelopes, j # i PROVE Rests(j)
  <2>1. Held(j)' <=> Held(j)
    BY <1>1, <1>3 DEF Held
  <2> QED  BY <1>3, <2>1, SameFate
<1>4. CASE i \in saved
  <2>1. CASE i \in handed \/ Held(i) \/ Held(i)' \/ UnderWay(i)'
    <3>1. Collects(i)
      BY <1>2, <1>4, <2>1 DEF Collects, Rests, FateOf
    <3>2. \A j \in DOMAIN envelopes : Collects(j)
      BY <1>3, <3>1 DEF Collects
    <3> QED  BY <3>2, FatesStep DEF LInv
  <2>2. CASE ~(i \in handed \/ Held(i) \/ Held(i)' \/ UnderWay(i)')
    <3>1. Collects(i)
      BY <1>4, <2>2, SavedUnheld DEF Collects, Lapses, FateOf
    <3>2. \A j \in DOMAIN envelopes : Collects(j)
      BY <1>3, <3>1 DEF Collects
    <3> QED  BY <3>2, FatesStep DEF LInv
  <2> QED  BY <2>1, <2>2
<1>5. CASE i \notin saved
  <2>1. Drifts(i)
    BY <1>2, <1>5 DEF Drifts, Rests, FateOf
  <2>2. \A j \in DOMAIN envelopes : Drifts(j)
    BY <1>3, <2>1 DEF Drifts
  <2> QED  BY <2>2, FatesStep DEF LInv
<1> QED
  BY <1>4, <1>5

LEMMA RequestDrifts ==
  ASSUME LInv, ServeRequest
  PROVE  LetterStep
<1>1. PICK i \in DOMAIN envelopes : i = attempt.id
  BY DEF ServeRequest, LInv, RefInv
<1>2. /\ RelayStores(i) /\ attempt.answer = "none"
      /\ attempt' = [attempt EXCEPT !.answer = Answer(i)]
      /\ UNCHANGED <<now, envelopes, queue, outbox, stray, handed, saved>>
  BY <1>1 DEF ServeRequest
<1>3. attempt \in Attempt
  BY DEF LInv, TypeOK
<1>4. UnderWay(i)
  BY <1>1, <1>2, <1>3 DEF UnderWay, Attempt
<1>5. ASSUME NEW j \in DOMAIN envelopes \ {i} PROVE UnderWay(j)' <=> UnderWay(j)
  <2>1. attempt # [id |-> j, answer |-> "none"]
    BY <1>1
  <2>2. attempt'.id = i
    BY <1>1, <1>2, <1>3 DEF Attempt
  <2>3. attempt' # [id |-> j, answer |-> "none"]
    BY <2>2
  <2> QED  BY <1>2, <2>1, <2>3 DEF UnderWay
<1> QED
  BY <1>2, <1>4, <1>5, ServedDrifts

LEMMA StrayDrifts ==
  ASSUME LInv, NEW i \in Id, ServeStray(i)
  PROVE  LetterStep
<1>1. /\ stray[i] > 0 /\ stray' = [stray EXCEPT ![i] = @ - 1] /\ RelayStores(i)
      /\ UNCHANGED <<now, envelopes, queue, outbox, attempt, handed, saved>>
  BY DEF ServeStray, sender
<1>2. i \in DOMAIN envelopes /\ stray \in [Id -> Nat] /\ DOMAIN envelopes \subseteq Id
  BY <1>1, Ids DEF LInv, RefInv, TypeOK
<1>3. UnderWay(i)
  BY <1>1 DEF UnderWay
<1>4. \A j \in DOMAIN envelopes \ {i} : UnderWay(j)' <=> UnderWay(j)
  BY <1>1, <1>2 DEF UnderWay
<1> QED
  BY <1>1, <1>2, <1>3, <1>4, ServedDrifts

LEMMA RecipientCollects ==
  ASSUME LInv,
         \/ \E r \in Recipient : Retrieve(r)
         \/ SweepRelay
         \/ \E i \in DOMAIN envelopes : Acknowledge(i)
  PROVE  LetterStep
<1>1. UNCHANGED <<now, envelopes, queue, outbox, attempt, stray, saved>>
  BY DEF Retrieve, SweepRelay, Acknowledge, sender
<1>2. \A j \in DOMAIN envelopes : Expired(j) => RowExpired(j)
  BY Ids DEF Expired, RowExpired, LInv, TypeOK
<1>3. \A j \in DOMAIN envelopes : UnderWay(j)' <=> UnderWay(j)
  BY <1>1 DEF UnderWay
<1>4. ASSUME NEW r \in Recipient, Retrieve(r), NEW j \in DOMAIN envelopes
      PROVE  Collects(j)
  <2>1. /\ Stored(j)' => Stored(j)
        /\ Stored(j) => Stored(j)' \/ Expired(j) \/ j \in handed'
        /\ j \in handed' => j \in handed \/ (Stored(j) /\ ~Expired(j))
        /\ j \in handed => j \in handed'
    BY <1>4, RetrieveTakes DEF LInv, Retrieve
  <2>2. CASE j \in handed
    BY <2>1, <2>2 DEF Collects, Rests, FateOf
  <2>3. CASE j \notin handed /\ j \in handed'
    BY <2>1, <2>3 DEF Collects, FateOf, Held
  <2>4. CASE j \notin handed /\ j \notin handed'
    <3>1. Held(j)' => Held(j)
      BY <1>1, <2>1 DEF Held
    <3>2. Held(j) => Held(j)' \/ RowExpired(j)
      BY <1>1, <1>2, <2>1, <2>4 DEF Held
    <3>3. CASE Held(j)' <=> Held(j)
      BY <1>1, <1>3, <2>4, <3>3 DEF Collects, Rests, FateOf
    <3>4. CASE Held(j) /\ ~Held(j)' /\ RowExpired(j)
      BY <1>1, <1>3, <2>4, <3>4 DEF Collects, Rests, Lapses, FateOf
    <3> QED  BY <3>1, <3>2, <3>3, <3>4
  <2> QED  BY <2>2, <2>3, <2>4
<1>5. ASSUME SweepRelay, NEW j \in DOMAIN envelopes
      PROVE  Collects(j)
  <2>1. /\ Stored(j)' => Stored(j)
        /\ Stored(j) => Stored(j)' \/ RowExpired(j)
        /\ UNCHANGED handed
    BY <1>2, <1>5, SweepTakes DEF LInv, SweepRelay
  <2>2. /\ Held(j)' => Held(j)
        /\ Held(j) => Held(j)' \/ RowExpired(j)
    BY <1>1, <2>1 DEF Held
  <2> QED  BY <1>1, <1>3, <2>1, <2>2, LessHeld
<1>6. ASSUME NEW i \in DOMAIN envelopes, Acknowledge(i), NEW j \in DOMAIN envelopes
      PROVE  Collects(j)
  <2>1. /\ Stored(j)' => Stored(j)
        /\ Stored(j) => Stored(j)' \/ j \in handed
        /\ UNCHANGED handed
    BY <1>6, AcknowledgeTakes DEF LInv, Acknowledge
  <2>2. /\ Held(j)' => Held(j)
        /\ Held(j) => Held(j)' \/ j \in handed
    BY <1>1, <2>1 DEF Held
  <2> QED  BY <1>1, <1>3, <2>1, <2>2, LessHeld
<1> QED
  BY <1>1, <1>4, <1>5, <1>6, FatesStep DEF LInv

LEMMA ClockPasses ==
  ASSUME LInv, Tick \/ UNCHANGED vars
  PROVE  LetterStep
<1>1. UNCHANGED <<envelopes, queue, outbox, attempt, stray, slots, handed, saved>>
  BY DEF Tick, vars, sender
<1>2. \A i \in DOMAIN envelopes : FateOf(i)' = FateOf(i)
  <2> SUFFICES ASSUME NEW i \in DOMAIN envelopes PROVE FateOf(i)' = FateOf(i)
    OBVIOUS
  <2>1. (Held(i)' <=> Held(i)) /\ (UnderWay(i)' <=> UnderWay(i))
    BY <1>1, StoredRests DEF Held, UnderWay
  <2> QED  BY <1>1, <2>1, SameFate DEF Rests
<1>3. UNCHANGED [i \in DOMAIN envelopes |-> FateOf(i)]
  BY <1>1, <1>2
<1>4. CASE Tick
  <2>1. Letters!Pass
    BY <1>1, <1>3, <1>4 DEF Tick, Letters!Pass
  <2> QED  BY <2>1 DEF LetterStep, Letters!LetterNext
<1>5. CASE UNCHANGED vars
  BY <1>3, <1>5 DEF LetterStep, Letters!letterVars, vars
<1> QED
  BY <1>4, <1>5

(* Each step of the queue, its table or the relay is a step of the letters.  *)
LEMMA LettersStep ==
  ASSUME LInv, [Next]_vars
  PROVE  LetterStep
BY EnqueueWrites, SubmitRests, SuccessLapses, FailureDrifts, SenderLapses, SavingKeeps,
   CrashDies, RequestDrifts, StrayDrifts, RecipientCollects, ClockPasses, Zenon DEF Next

LEMMA FateInvStep ==
  ASSUME TypeOK, RefInv, FateInv, [Next]_vars
  PROVE  FateInv'
<1>1. ASSUME UNCHANGED <<envelopes, slots, handed>>, DOMAIN outbox' \subseteq saved'
      PROVE  FateInv'
  BY <1>1 DEF FateInv, SlotHomes
<1>2. ASSUME UNCHANGED <<envelopes, outbox, saved>>, handed' \subseteq DOMAIN envelopes, SlotHomes'
      PROVE  FateInv'
  BY <1>2 DEF FateInv
<1>3. ASSUME NEW r \in Recipient, NEW ttl \in Ttl, Enqueue(r, ttl) PROVE FateInv'
  <2>1. EnvelopesMove /\ UNCHANGED <<outbox, slots, handed, saved>>
    BY <1>3, EnqueueMoves DEF Enqueue
  <2> QED  BY <2>1 DEF FateInv, SlotHomes, EnvelopesMove
<1>4. ASSUME NEW i \in DOMAIN queue, StorePendingOutbox(i) PROVE FateInv'
  <2>1. DOMAIN outbox' = DOMAIN outbox \cup {i} /\ saved' = saved \cup {i}
        /\ UNCHANGED <<envelopes, slots, handed>>
    BY <1>4 DEF StorePendingOutbox, With
  <2> QED  BY <1>1, <2>1 DEF FateInv
<1>5. ASSUME \/ \E i \in DOMAIN queue : Submit(i)
             \/ RecordSuccess \/ RecordFailure \/ SweepQueue
             \/ \E i \in DOMAIN outbox : DeletePendingOutbox(i)
             \/ SweepExpiredOutbox \/ Crash \/ Restart \/ Tick
             \/ UNCHANGED vars
      PROVE  FateInv'
  <2>1. UNCHANGED <<envelopes, slots, handed, saved>> /\ DOMAIN outbox' \subseteq DOMAIN outbox
    BY <1>5 DEF Submit, RecordSuccess, RecordFailure, SweepQueue, DeletePendingOutbox,
       SweepExpiredOutbox, Crash, Restart, Tick, vars, sender, Without, LiveRows
  <2> QED  BY <1>1, <2>1 DEF FateInv
<1>6. ASSUME ServeRequest \/ \E i \in Id : ServeStray(i) PROVE FateInv'
  <2>1. PICK i \in DOMAIN envelopes : RelayStores(i)
    BY <1>6 DEF ServeRequest, ServeStray, RefInv
  <2>2. UNCHANGED <<envelopes, outbox, handed, saved>>
    BY <1>6 DEF ServeRequest, ServeStray, sender
  <2> QED  BY <1>2, <2>1, <2>2, StoreStores DEF FateInv
<1>7. ASSUME NEW r \in Recipient, Retrieve(r) PROVE FateInv'
  <2>1. UNCHANGED <<envelopes, outbox, saved>>
    BY <1>7 DEF Retrieve, sender
  <2> QED  BY <1>2, <1>7, <2>1, RetrieveTakes
<1>8. ASSUME SweepRelay \/ \E i \in DOMAIN envelopes : Acknowledge(i) PROVE FateInv'
  <2>1. UNCHANGED <<envelopes, outbox, handed, saved>>
    BY <1>8 DEF SweepRelay, Acknowledge, sender
  <2> QED  BY <1>2, <1>8, <2>1, SweepTakes, AcknowledgeTakes DEF FateInv
<1> QED
  BY <1>3, <1>4, <1>5, <1>6, <1>7, <1>8, Zenon DEF Next

LEMMA LettersInit ==
  ASSUME Init
  PROVE  LInv /\ Letters!LetterInit
<1>1. TypeOK /\ RefInv
  BY InitTypes
<1>2. HeldInv
  BY NoAttemptType DEF Init, HeldInv
<1>3. DOMAIN << >> = {} /\ Range(<< >>) = {}
  <2>1. DOMAIN << >> = {}
    BY EmptySeq
  <2> QED  BY <2>1 DEF Range
<1>4. FateInv
  BY <1>3 DEF Init, FateInv, SlotHomes
<1>5. [i \in DOMAIN envelopes |-> FateOf(i)] = << >>
  BY <1>3 DEF Init
<1>6. Letters!LetterInit
  BY <1>5 DEF Init, Letters!LetterInit
<1> QED
  BY <1>1, <1>2, <1>4, <1>6 DEF LInv

(* Queue, table and relay together keep what the offline path promises of a  *)
(* letter (mailbox.rs, pending_outbox): a saved one is handed to its         *)
(* recipient or expires, wherever the sender dies and whichever requests and *)
(* answers are late or lost; none is handed out expired or comes back.       *)
THEOREM MailboxImplementsLetters == Spec => LetterSpec
<1>1. LInv /\ [Next]_vars => LInv'
  BY TypeStep, HeldStep, FateInvStep DEF LInv
<1>2. LInv /\ [Next]_vars => [Letters!LetterNext]_(Letters!letterVars)
  BY LettersStep DEF LetterStep
<1>3. Init => LInv /\ Letters!LetterInit
  BY LettersInit
<1> QED
  BY <1>1, <1>2, <1>3, PTL DEF Spec, LetterSpec, Letters!LetterSpec
=============================================================================

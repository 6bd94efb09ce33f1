--------------------------- MODULE DoubleRatchet ---------------------------
(* The ratchet of crates/crypto/src/double_ratchet.rs at the two ends of a     *)
(* chat, as ChatSession (crates/messenger/src/chat.rs) drives it.  Keys are    *)
(* terms: a root is the sequence of the DH secrets mixed into it, a chain is   *)
(* the label and the root it was derived from, a message key is a chain and    *)
(* the number of steps taken along it.  A DH public key is the 32 bytes of a   *)
(* header: X25519 reads a point from them and ignores their last bit, so two   *)
(* byte strings name one point; a point of small order gives every key pair    *)
(* the same secret, which dh_ratchet() does not refuse.  The network may lose, *)
(* repeat, reorder and garble packets; a header is not authenticated (the      *)
(* associated data is empty), so a garbled one is acted on before the          *)
(* ciphertext is looked at.                                                    *)
EXTENDS Integers, Sequences, FiniteSets

CONSTANTS
  Initiator, Responder,  \* the two ends
  Garbled,               \* a point that is no end's
  Weak,                  \* a point of small order
  NoChain,               \* receiving_chain: None
  MaxSkip,               \* max_skip
  MaxCounter,            \* bound: the largest counter of a header
  MaxUses,               \* bound: encryptions of both ends
  MaxRatchets            \* bound: DH steps of an end

RatchetEnds == {Initiator, Responder}

ASSUME RatchetAssumption ==
  /\ Initiator # Responder
  /\ NoChain \notin [label : {"receiving"}, counter : Nat,
                     root : Seq(SUBSET ((RatchetEnds \X Nat) \cup {Garbled, Weak}))]
  /\ Weak \notin RatchetEnds \X Nat
  /\ MaxSkip \in Nat /\ MaxCounter \in Nat /\ MaxUses \in Nat /\ MaxRatchets \in Nat

VARIABLES
  ratchet,      \* the DoubleRatchet of each end, once set_ratchet() gave it one
  chatState,    \* ChatState of each end: "New" until the key exchange completes
  chatCount,    \* message_count: messages each end has read
  chatNet,      \* packets sent: header and the key the body is under
  chatKeys,     \* history: the message keys used to encrypt, in order
  misled        \* history: the ends whose first DH step was onto a key the packet
                \* did not leave with

ratVars == <<ratchet, chatState, chatCount, chatNet, chatKeys, misled>>

\* The public key of an end after its i-th DH step: a point, and the bytes that
\* as_bytes() gives for a point, whose last bit is clear.
PublicKey(p, i) == <<p, i>>
KeyBytes(point) == [point |-> point, lastBit |-> 0]

\* What a header key may be on arrival when it is not what was sent: the same
\* point with the ignored bit set, a point nobody made, one of small order.
Changed(bytes) == {[bytes EXCEPT !.lastBit = 1], KeyBytes(Garbled), KeyBytes(Weak)}

\* EphemeralSecret::diffie_hellman(): the same at both ends of a pair of keys.
Secret(own, point) == IF point = Weak THEN {Weak} ELSE {own, point}

\* KeyDerivation::derive_key(root, label) and ChainKey::new: a chain at its start.
Chain(label, root) == [label |-> label, root |-> root, counter |-> 0]

\* The chain of a new responder until its first DH step: 32 zero bytes.
ZeroChain == [label |-> "zero", root |-> <<>>, counter |-> 0]

\* ChainKey::next(): the message key, and the chain one step on.
MessageKey(chain) == chain
Stepped(chain) == [chain EXCEPT !.counter = @ + 1]

\* encrypt_chacha20() and decrypt_chacha20(): the tag tells whether the key fits.
TagOf(key) == [key |-> key]
ZeroTag == [key |-> "zero tag"]
Opens(key, bodyKey, tag) == key = bodyKey /\ tag = TagOf(bodyKey)

NoKeys == [k \in {} |-> 0]

NewRatchet(p) ==
  [root |-> <<>>, steps |-> 0,
   sending |-> IF p = Initiator THEN Chain("sending", <<>>) ELSE ZeroChain,
   receiving |-> IF p = Initiator THEN NoChain ELSE Chain("receiving", <<>>),
   remote |-> KeyBytes(PublicKey(IF p = Initiator THEN Responder ELSE Initiator, 0)),
   skipped |-> NoKeys]

Established(p) == chatState[p] = "Established"

RatchetTypeOK ==
  /\ chatState \in [RatchetEnds -> {"New", "Established"}]
  /\ DOMAIN ratchet = {p \in RatchetEnds : Established(p)}
  /\ \A p \in DOMAIN ratchet :
       /\ ratchet[p].steps = Len(ratchet[p].root)
       /\ Cardinality(DOMAIN ratchet[p].skipped) <= MaxSkip
       /\ ratchet[p].receiving = NoChain => p = Initiator /\ ratchet[p].steps = 0
  /\ chatCount \in [RatchetEnds -> Nat]
  /\ misled \subseteq RatchetEnds

RatchetInit ==
  /\ ratchet = [p \in {} |-> 0]
  /\ chatState = [p \in RatchetEnds |-> "New"]
  /\ chatCount = [p \in RatchetEnds |-> 0]
  /\ chatNet = {}
  /\ chatKeys = <<>>
  /\ misled = {}

\* ChatSession::set_ratchet() with new_initiator() or new_responder().
SetRatchet(p) ==
  /\ ~Established(p)
  /\ ratchet' = [q \in DOMAIN ratchet \cup {p} |-> IF q = p THEN NewRatchet(p) ELSE ratchet[q]]
  /\ chatState' = [chatState EXCEPT ![p] = "Established"]
  /\ UNCHANGED <<chatCount, chatNet, chatKeys, misled>>

\* encrypt(): the tag is dropped, the header names the key pair and the counter.
ChatEncrypt(p) ==
  /\ Established(p) /\ Len(chatKeys) < MaxUses
  /\ LET r == ratchet[p] IN
       /\ chatNet' = chatNet \cup {[from |-> p, dh |-> KeyBytes(PublicKey(p, r.steps)),
                                    counter |-> r.sending.counter,
                                    key |-> MessageKey(r.sending)]}
       /\ chatKeys' = Append(chatKeys, [by |-> p, key |-> MessageKey(r.sending)])
       /\ ratchet' = [ratchet EXCEPT ![p].sending = Stepped(@)]
  /\ UNCHANGED <<chatState, chatCount, misled>>

\* Mutant of RootAfter: the secret is used, but the root is not moved.
RootUnmoved(p, r, dh) == <<Secret(PublicKey(p, 0), dh.point)>>

\* dh_ratchet(): the root with the secret of the own key pair and dh mixed in.
RootAfter(p, r, dh) == Append(r.root, Secret(PublicKey(p, r.steps), dh.point))

\* perform_dh_ratchet_recv(): root, both chains and the own key pair are new;
\* the skipped keys stay.
DhRatchet(p, r, dh) ==
  LET root == RootAfter(p, r, dh)
  IN [root |-> root, steps |-> r.steps + 1, sending |-> Chain("sending", root),
      receiving |-> Chain("receiving", root), remote |-> dh, skipped |-> r.skipped]

\* The ratchet after the check for a new DH key, which compares bytes.
Turned(p, r, dh) == IF dh = r.remote THEN r ELSE DhRatchet(p, r, dh)

\* The skipped keys with one more, if there is room for it.
Kept(skipped, label, key) ==
  IF Cardinality(DOMAIN skipped) < MaxSkip
    THEN [l \in DOMAIN skipped \cup {label} |-> IF l = label THEN key ELSE skipped[l]]
    ELSE skipped

\* The in-order branch of decrypt(): the chain moves one step whatever the
\* counter, and the keys after it are kept under counters one lower than their
\* own.  How many is counter - receiving.counter + 1 computed after the step, in
\* 64 bits: for the message that is next it goes below zero, which is a panic
\* with overflow checks and, after the + 1, zero without them.  Either way the
\* chain has moved and no key is kept.
InOrder(r, dh, counter) ==
  LET old == r.receiving.counter
      n == counter - old
      keep[i \in 0..MaxCounter] ==
        IF i = 0 THEN r.skipped
        ELSE Kept(keep[i - 1], <<dh.point, old + i - 1>>, [r.receiving EXCEPT !.counter = old + i])
  IN [r EXCEPT !.receiving = Stepped(@), !.skipped = keep[n]]

\* The old-message branch: the key kept under the header, if there is one; an
\* X25519PublicKey as a key of the map is equal to another that names its point.
OutOfOrder(r, dh, counter) ==
  [r EXCEPT !.skipped = [l \in DOMAIN @ \ {<<dh.point, counter>>} |-> @[l]]]

\* decrypt() of a packet whose header may have been garbled on the way.  The
\* changes stay whether or not the body opens; decrypt() tries it with a tag of
\* zeros, since the packet carries none.
ChatDecrypt(p) ==
  /\ Established(p)
  /\ \E packet \in {m \in chatNet : m.from # p} :
     \E dh \in {packet.dh} \cup Changed(packet.dh), counter \in 0..MaxCounter :
       LET r == Turned(p, ratchet[p], dh)
           label == <<dh.point, counter>>
           old == r.receiving # NoChain /\ counter < r.receiving.counter
           tried == IF r.receiving = NoChain THEN {}
                    ELSE IF ~old THEN {MessageKey(r.receiving)}
                    ELSE IF label \in DOMAIN r.skipped THEN {r.skipped[label]} ELSE {}
       IN /\ r.steps <= MaxRatchets
          /\ ratchet' = [ratchet EXCEPT ![p] =
                           IF r.receiving = NoChain THEN r
                           ELSE IF old THEN OutOfOrder(r, dh, counter)
                           ELSE InOrder(r, dh, counter)]
          /\ chatCount' = [chatCount EXCEPT ![p] =
                             @ + Cardinality({k \in tried : Opens(k, packet.key, ZeroTag)})]
          /\ misled' = misled \cup
               {q \in {p} : ratchet[p].steps = 0 /\ r.steps = 1 /\ dh # packet.dh}
  /\ UNCHANGED <<chatState, chatNet, chatKeys>>

RatchetNext == \E p \in RatchetEnds : SetRatchet(p) \/ ChatEncrypt(p) \/ ChatDecrypt(p)

RatchetSpec == RatchetInit /\ [][RatchetNext]_ratVars

-----------------------------------------------------------------------------
\* No end encrypts twice under one message key, whatever headers arrive: a DH
\* step (double_ratchet.rs:330) restarts the sending counter at 0, also when the
\* secret is one that was mixed in before, and is harmless because the chain is
\* derived from everything mixed in so far.  Both ends call their chains by the
\* same label, so they are apart only by the secrets: two ends share a key only
\* if each made its first DH step onto a key that its packet did not leave with.
MessageKeysFresh ==
  \A i, j \in 1..Len(chatKeys) :
    i # j /\ chatKeys[i].key = chatKeys[j].key
      => chatKeys[i].by # chatKeys[j].by /\ misled = RatchetEnds
=============================================================================

---------------------------- MODULE NoiseChannel ----------------------------
(* The handshake and cipher state of crates/network/src/noise.rs (NoiseIK) at  *)
(* the two ends of one channel, and the counter of ReKeyManager.  Both ends    *)
(* use the same placeholder key and start both nonces at 0, so a ciphertext is *)
(* known by its nonce alone.  The network may delay, reorder, repeat and lose  *)
(* packets: it is the set of what was ever sent, and nobody need read it.      *)
(* It does not bring a packet back to its own sender, which would open it: one *)
(* placeholder key serves both directions.                                     *)
EXTENDS Naturals, Sequences, SequencesExt

CONSTANTS
  NoiseEnds,       \* the two ends
  NoCipher,        \* cipher: None
  RekeyInterval,   \* rekey_interval
  MaxNonce,        \* bound: encryptions of one end
  MaxHandshakes    \* bound: handshake messages of each kind read or written by an end

ASSUME NoiseAssumption ==
  /\ \E p, q \in NoiseEnds : p # q /\ NoiseEnds = {p, q}
  /\ NoCipher \notin [n : Nat, rn : Nat]
  /\ RekeyInterval \in Nat \ {0} /\ MaxNonce \in Nat /\ MaxHandshakes \in Nat

VARIABLES
  handshake,       \* HandshakeState of each end
  cipher,          \* its CipherState: the nonces n and rn, or NoCipher
  noiseNet,        \* handshake messages and ciphertexts sent, with their sender
  noiseSent,       \* history: the nonces each end encrypted under, in order
  noiseRead,       \* history: the packets each end decrypted, in order
  noiseKeyed,      \* history: how often each end installed a cipher
  rekeyCount       \* message_count of each end's ReKeyManager

noiseVars == <<handshake, cipher, noiseNet, noiseSent, noiseRead, noiseKeyed, rekeyCount>>

\* id tells two packets under one nonce apart: it is the sender's how-manieth.
Ciphertext == [kind : {"data"}, from : NoiseEnds, n : Nat, id : Nat]
Hello == [kind : {"a", "b"}, from : NoiseEnds]
CipherState == [n : 0..MaxNonce, rn : 0..MaxNonce]

NoiseTypeOK ==
  /\ handshake \in [NoiseEnds -> {"Init", "InitiatorSent", "Complete"}]
  /\ \A p \in NoiseEnds : cipher[p] \in CipherState \cup {NoCipher}
  /\ noiseNet \subseteq Ciphertext \cup Hello
  /\ rekeyCount \in [NoiseEnds -> 0..(RekeyInterval - 1)]
  /\ \A p \in NoiseEnds : handshake[p] = "Complete" => cipher[p] # NoCipher

Peer(p) == CHOOSE q \in NoiseEnds : q # p
NewCipher == [n |-> 0, rn |-> 0]

NoiseInit ==
  /\ handshake = [p \in NoiseEnds |-> "Init"]
  /\ cipher = [p \in NoiseEnds |-> NoCipher]
  /\ noiseNet = {}
  /\ noiseSent = [p \in NoiseEnds |-> <<>>]
  /\ noiseRead = [p \in NoiseEnds |-> <<>>]
  /\ noiseKeyed = [p \in NoiseEnds |-> 0]
  /\ rekeyCount = [p \in NoiseEnds |-> 0]

\* write_message_a(): the state is swapped for Init before it is looked at, so a
\* refused call also leaves Init behind; the cipher stays.
WriteMessageA(p) ==
  /\ noiseKeyed[p] < MaxHandshakes
  /\ IF handshake[p] = "Init"
       THEN /\ handshake' = [handshake EXCEPT ![p] = "InitiatorSent"]
            /\ noiseNet' = noiseNet \cup {[kind |-> "a", from |-> p]}
       ELSE /\ handshake' = [handshake EXCEPT ![p] = "Init"]
            /\ UNCHANGED noiseNet
  /\ UNCHANGED <<cipher, noiseSent, noiseRead, noiseKeyed, rekeyCount>>

InstallCipher(p) ==
  /\ noiseKeyed[p] < MaxHandshakes
  /\ handshake' = [handshake EXCEPT ![p] = "Complete"]
  /\ cipher' = [cipher EXCEPT ![p] = NewCipher]
  /\ noiseKeyed' = [noiseKeyed EXCEPT ![p] = @ + 1]
  /\ UNCHANGED <<noiseSent, noiseRead, rekeyCount>>

\* read_message_a_write_message_b(), in whatever state the end is.
ReadMessageA(p) ==
  /\ [kind |-> "a", from |-> Peer(p)] \in noiseNet
  /\ InstallCipher(p)
  /\ noiseNet' = noiseNet \cup {[kind |-> "b", from |-> p]}

\* read_message_b(), in whatever state the end is.
ReadMessageB(p) ==
  /\ [kind |-> "b", from |-> Peer(p)] \in noiseNet
  /\ InstallCipher(p)
  /\ UNCHANGED noiseNet

\* ReKeyManager::record_message(): the count starts again when it is due.
Recorded(c) == IF c + 1 >= RekeyInterval THEN 0 ELSE c + 1

\* encrypt(), and the caller counting the message.
NoiseEncrypt(p) ==
  /\ cipher[p] # NoCipher /\ Len(noiseSent[p]) < MaxNonce
  /\ noiseNet' = noiseNet \cup {[kind |-> "data", from |-> p, n |-> cipher[p].n,
                                 id |-> Len(noiseSent[p]) + 1]}
  /\ noiseSent' = [noiseSent EXCEPT ![p] = Append(@, Len(@) + 1)]
  /\ cipher' = [cipher EXCEPT ![p].n = @ + 1]
  /\ rekeyCount' = [rekeyCount EXCEPT ![p] = Recorded(@)]
  /\ UNCHANGED <<handshake, noiseRead, noiseKeyed>>

\* Mutant of Opened: rn is not moved.
OpenedInPlace(c, packet) == c

\* decrypt_with_ad(): only the packet under nonce rn opens, and moves rn.
Opened(c, packet) == IF packet.n = c.rn THEN [c EXCEPT !.rn = @ + 1] ELSE c

\* decrypt() of any packet the peer ever sent.
NoiseDecrypt(p) ==
  /\ cipher[p] # NoCipher /\ Len(noiseRead[p]) < MaxNonce
  /\ \E packet \in {m \in noiseNet : m.kind = "data" /\ m.from = Peer(p)} :
       /\ cipher' = [cipher EXCEPT ![p] = Opened(@, packet)]
       /\ noiseRead' = IF packet.n = cipher[p].rn
                         THEN [noiseRead EXCEPT ![p] = Append(@, packet.id)] ELSE noiseRead
  /\ UNCHANGED <<handshake, noiseNet, noiseSent, noiseKeyed, rekeyCount>>

\* ReKeyManager::reset()
RekeyReset(p) ==
  /\ rekeyCount' = [rekeyCount EXCEPT ![p] = 0]
  /\ UNCHANGED <<handshake, cipher, noiseNet, noiseSent, noiseRead, noiseKeyed>>

NoiseNext ==
  \E p \in NoiseEnds :
    \/ WriteMessageA(p) \/ ReadMessageA(p) \/ ReadMessageB(p)
    \/ NoiseEncrypt(p) \/ NoiseDecrypt(p) \/ RekeyReset(p)

NoiseSpec == NoiseInit /\ [][NoiseNext]_noiseVars

-----------------------------------------------------------------------------
\* While each end has installed one cipher only, what an end has read is what
\* the other sent, from the first and without a gap, a repeat or an exchange,
\* however the network delivers: decrypt() (noise.rs:235) opens a packet only
\* under the next nonce.  It is also why one lost packet silences the channel.
ReadInOrder ==
  (\A p \in NoiseEnds : noiseKeyed[p] <= 1) =>
    \A p \in NoiseEnds : IsPrefix(noiseRead[p], noiseSent[Peer(p)])
=============================================================================

-------------------------- MODULE Libraries_proofs --------------------------
(* What is proved of the library components that MCLibraries puts together:   *)
(* the parts of the network crate, the stores and the double ratchet, each of *)
(* its own specification, and at the end what that says of all of them.       *)
EXTENDS MCLibraries, SecretSharing_proofs

-----------------------------------------------------------------------------
(* Sequences *)

(* piece is what SubSeq(s, m, n) is known to be.                              *)
IsSubSeq(piece, S, s, m, n) ==
  /\ piece \in Seq(S) /\ Len(piece) = IF m <= n THEN n - m + 1 ELSE 0
  /\ \A i \in 1..n - m + 1 : piece[i] = s[m + i - 1]

LEMMA SubSeqIs ==
  ASSUME NEW S, NEW s, NEW m \in Int, NEW n \in Int, NEW piece, piece = SubSeq(s, m, n),
         \A i \in m..n : s[i] \in S
  PROVE  IsSubSeq(piece, S, s, m, n)
BY SubSeqProperties DEF IsSubSeq

(* A sequence that agrees with a longer one as far as it goes is its prefix.  *)
LEMMA PrefixOfSequence ==
  ASSUME NEW S, NEW s \in Seq(S), NEW t \in Seq(S), Len(s) <= Len(t),
         \A i \in 1..Len(s) : s[i] = t[i]
  PROVE  s = SubSeq(t, 1, Len(s))
<1> DEFINE n == Len(s)
           u == SubSeq(t, 1, n)
<1>1. n \in Nat /\ Len(t) \in Nat /\ 1..n \subseteq 1..Len(t)
  BY LenProperties
<1>2. \A i \in 1..n : t[i] \in S
  BY <1>1, ElementOfSeq
<1>3. /\ u \in Seq(S) /\ Len(u) = (IF 1 <= n THEN n - 1 + 1 ELSE 0)
      /\ \A i \in 1..(n - 1 + 1) : u[i] = t[1 + i - 1]
  BY <1>1, <1>2, SubSeqProperties
<1>4. Len(u) = n /\ \A i \in 1..n : u[i] = t[i]
  BY <1>1, <1>3
<1> HIDE DEF u
<1>5. s = u
  BY <1>3, <1>4, SeqEqual
<1> QED
  BY <1>5 DEF u

-----------------------------------------------------------------------------
(* Noise channel *)

(* One end: what it sent and read is numbered, and as long as it installed   *)
(* one cipher only the nonces count what it sent and read.                   *)
EndInv(p) ==
  /\ handshake[p] = "Complete" => cipher[p] # NoCipher
  /\ Len(noiseSent[p]) <= MaxNonce /\ Len(noiseRead[p]) <= MaxNonce
  /\ \A i \in 1..Len(noiseSent[p]) : noiseSent[p][i] = i
  /\ noiseKeyed[p] = 0 =>
       cipher[p] = NoCipher /\ Len(noiseSent[p]) = 0 /\ Len(noiseRead[p]) = 0
  /\ cipher[p] # NoCipher =>
       /\ cipher[p].n <= Len(noiseSent[p]) /\ cipher[p].rn <= Len(noiseRead[p])
       /\ noiseKeyed[p] = 1 =>
            cipher[p].n = Len(noiseSent[p]) /\ cipher[p].rn = Len(noiseRead[p])

(* A packet is the one its nonce says, as long as its sender has one cipher. *)
PacketInv ==
  \A m \in noiseNet :
    m.kind = "data" /\ noiseKeyed[m.from] <= 1 =>
      m.id = m.n + 1 /\ m.id <= Len(noiseSent[m.from])

ReadInv ==
  (\A p \in NoiseEnds : noiseKeyed[p] <= 1) =>
    \A p \in NoiseEnds :
      /\ Len(noiseRead[p]) <= Len(noiseSent[Peer(p)])
      /\ \A i \in 1..Len(noiseRead[p]) : noiseRead[p][i] = i

NoiseTypes ==
  /\ handshake \in [NoiseEnds -> {"Init", "InitiatorSent", "Complete"}]
  /\ cipher \in [NoiseEnds -> CipherState \cup {NoCipher}]
  /\ noiseNet \subseteq Ciphertext \cup Hello
  /\ noiseSent \in [NoiseEnds -> Seq(Nat)] /\ noiseRead \in [NoiseEnds -> Seq(Nat)]
  /\ noiseKeyed \in [NoiseEnds -> Nat]
  /\ rekeyCount \in [NoiseEnds -> 0..(RekeyInterval - 1)]

NoiseInv == NoiseTypes /\ (\A p \in NoiseEnds : EndInv(p)) /\ PacketInv /\ ReadInv

LEMMA Peers ==
  ASSUME NEW p \in NoiseEnds
  PROVE  Peer(p) \in NoiseEnds /\ Peer(p) # p /\ NoiseEnds = {p, Peer(p)}
<1>1. PICK a, b \in NoiseEnds : a # b /\ NoiseEnds = {a, b}
  BY NoiseAssumption
<1>2. \E q \in NoiseEnds : q # p
  BY <1>1
<1>3. Peer(p) \in NoiseEnds /\ Peer(p) # p
  BY <1>2 DEF Peer
<1> QED
  BY <1>1, <1>3

LEMMA DataPackets ==
  ASSUME NoiseTypes, NEW m \in noiseNet, m.kind = "data"
  PROVE  m.from \in NoiseEnds /\ m.n \in Nat /\ m.id \in Nat
<1>1. m \in Ciphertext \cup Hello
  BY DEF NoiseTypes
<1>2. m \in Ciphertext
  BY <1>1 DEF Hello
<1> QED
  BY <1>2 DEF Ciphertext

LEMMA CipherFields ==
  ASSUME NoiseTypes, NEW p \in NoiseEnds, cipher[p] # NoCipher
  PROVE  cipher[p] \in CipherState /\ cipher[p].n \in Nat /\ cipher[p].rn \in Nat
<1>1. cipher[p] \in CipherState
  BY DEF NoiseTypes
<1>2. cipher[p].n \in 0..MaxNonce /\ cipher[p].rn \in 0..MaxNonce
  BY <1>1 DEF CipherState
<1> QED
  BY <1>1, <1>2, NoiseAssumption

LEMMA EndLengths ==
  ASSUME NoiseTypes, NEW p \in NoiseEnds
  PROVE  /\ noiseSent[p] \in Seq(Nat) /\ Len(noiseSent[p]) \in Nat
         /\ noiseRead[p] \in Seq(Nat) /\ Len(noiseRead[p]) \in Nat
         /\ noiseKeyed[p] \in Nat
BY LenProperties DEF NoiseTypes

LEMMA WriteAStep ==
  ASSUME NoiseInv, NEW p \in NoiseEnds, WriteMessageA(p)
  PROVE  NoiseInv'
<1>1. /\ handshake' \in [NoiseEnds -> {"Init", "InitiatorSent", "Complete"}]
      /\ handshake'[p] # "Complete"
      /\ \A q \in NoiseEnds \ {p} : handshake'[q] = handshake[q]
  BY DEF WriteMessageA, NoiseInv, NoiseTypes
<1>2. noiseNet' \in {noiseNet, noiseNet \cup {[kind |-> "a", from |-> p]}}
  BY DEF WriteMessageA
<1>3. [kind |-> "a", from |-> p] \in Hello /\ [kind |-> "a", from |-> p].kind # "data"
  BY DEF Hello
<1>4. UNCHANGED <<cipher, noiseSent, noiseRead, noiseKeyed, rekeyCount>>
  BY DEF WriteMessageA
<1>5. NoiseTypes'
  BY <1>1, <1>2, <1>3, <1>4 DEF NoiseInv, NoiseTypes
<1>6. \A q \in NoiseEnds : EndInv(q)'
  BY <1>1, <1>4 DEF NoiseInv, EndInv
<1>7. PacketInv'
  BY <1>2, <1>3, <1>4 DEF NoiseInv, PacketInv
<1>8. ReadInv'
  BY <1>4 DEF NoiseInv, ReadInv
<1> QED
  BY <1>5, <1>6, <1>7, <1>8 DEF NoiseInv

LEMMA InstallStep ==
  ASSUME NoiseInv, NEW p \in NoiseEnds, InstallCipher(p),
         noiseNet' \in {noiseNet, noiseNet \cup {[kind |-> "b", from |-> p]}}
  PROVE  NoiseInv'
<1>1. /\ handshake' \in [NoiseEnds -> {"Init", "InitiatorSent", "Complete"}]
      /\ \A q \in NoiseEnds \ {p} : handshake'[q] = handshake[q]
  BY DEF InstallCipher, NoiseInv, NoiseTypes
<1>2. NewCipher \in CipherState /\ NewCipher # NoCipher /\ NewCipher.n = 0 /\ NewCipher.rn = 0
  <2>1. 0 \in 0..MaxNonce /\ NewCipher \in [n : Nat, rn : Nat]
    BY NoiseAssumption DEF NewCipher
  <2> QED  BY <2>1, NoiseAssumption DEF NewCipher, CipherState
<1>3. /\ cipher' \in [NoiseEnds -> CipherState \cup {NoCipher}] /\ cipher'[p] = NewCipher
      /\ \A q \in NoiseEnds \ {p} : cipher'[q] = cipher[q]
  BY <1>2 DEF InstallCipher, NoiseInv, NoiseTypes
<1>4. /\ noiseKeyed' \in [NoiseEnds -> Nat] /\ noiseKeyed'[p] = noiseKeyed[p] + 1
      /\ noiseKeyed[p] \in Nat
      /\ \A q \in NoiseEnds \ {p} : noiseKeyed'[q] = noiseKeyed[q]
  BY DEF InstallCipher, NoiseInv, NoiseTypes
<1>5. UNCHANGED <<noiseSent, noiseRead, rekeyCount>>
  BY DEF InstallCipher
<1>6. [kind |-> "b", from |-> p] \in Hello /\ [kind |-> "b", from |-> p].kind # "data"
  BY DEF Hello
<1>7. NoiseTypes'
  BY <1>1, <1>3, <1>4, <1>5, <1>6 DEF NoiseInv, NoiseTypes
<1>8. \A q \in NoiseEnds : EndInv(q)'
  <2>1. EndInv(p)'
    BY <1>2, <1>3, <1>4, <1>5, EndLengths DEF NoiseInv, EndInv
  <2>2. ASSUME NEW q \in NoiseEnds \ {p} PROVE EndInv(q)'
    BY <1>1, <1>3, <1>4, <1>5 DEF NoiseInv, EndInv
  <2> QED  BY <2>1, <2>2
<1>9. PacketInv'
  <2> SUFFICES ASSUME NEW m \in noiseNet', m.kind = "data", noiseKeyed'[m.from] <= 1
               PROVE  m.id = m.n + 1 /\ m.id <= Len(noiseSent'[m.from])
    BY DEF PacketInv
  <2>1. m \in noiseNet /\ m.from \in NoiseEnds
    BY <1>6, DataPackets DEF NoiseInv
  <2>2. noiseKeyed[m.from] <= 1
    BY <1>4, <2>1
  <2> QED  BY <1>5, <2>1, <2>2 DEF NoiseInv, PacketInv
<1>10. ReadInv'
  <2> SUFFICES ASSUME \A q \in NoiseEnds : noiseKeyed'[q] <= 1
               PROVE  \A q \in NoiseEnds : noiseKeyed[q] <= 1
    BY <1>5 DEF NoiseInv, ReadInv
  <2> QED  BY <1>4
<1> QED
  BY <1>7, <1>8, <1>9, <1>10 DEF NoiseInv

LEMMA EncryptStep ==
  ASSUME NoiseInv, NEW p \in NoiseEnds, NoiseEncrypt(p)
  PROVE  NoiseInv'
<1> DEFINE len == Len(noiseSent[p])
           packet == [kind |-> "data", from |-> p, n |-> cipher[p].n, id |-> len + 1]
           moved == [cipher[p] EXCEPT !.n = @ + 1]
<1>1. /\ cipher[p] # NoCipher /\ len < MaxNonce /\ len \in Nat
      /\ noiseNet' = noiseNet \cup {packet}
      /\ noiseSent' = [noiseSent EXCEPT ![p] = Append(noiseSent[p], len + 1)]
      /\ cipher' = [cipher EXCEPT ![p] = moved]
      /\ rekeyCount' = [rekeyCount EXCEPT ![p] = Recorded(rekeyCount[p])]
      /\ UNCHANGED <<handshake, noiseRead, noiseKeyed>>
  BY EndLengths DEF NoiseEncrypt, NoiseInv
<1>2. /\ cipher[p] \in CipherState /\ cipher[p].n \in Nat /\ cipher[p].rn \in Nat
      /\ cipher[p].n <= len /\ cipher[p].rn <= Len(noiseRead[p])
  BY <1>1, CipherFields DEF NoiseInv, EndInv
<1>3. cipher[p].n + 1 \in 0..MaxNonce
  BY <1>1, <1>2, NoiseAssumption
<1>4. moved \in CipherState /\ moved.n = cipher[p].n + 1 /\ moved.rn = cipher[p].rn
  BY <1>2, <1>3 DEF CipherState
<1>5. moved # NoCipher
  <2>1. moved \in [n : Nat, rn : Nat]
    BY <1>2, <1>4 DEF CipherState
  <2> QED  BY <2>1, NoiseAssumption
<1>6. packet \in Ciphertext /\ packet.kind = "data" /\ packet.from = p
      /\ packet.n = cipher[p].n /\ packet.id = len + 1
  BY <1>1, <1>2 DEF Ciphertext
<1>7. /\ noiseSent' \in [NoiseEnds -> Seq(Nat)] /\ Len(noiseSent'[p]) = len + 1
      /\ \A i \in 1..len : noiseSent'[p][i] = noiseSent[p][i]
      /\ noiseSent'[p][len + 1] = len + 1
      /\ \A q \in NoiseEnds \ {p} : noiseSent'[q] = noiseSent[q]
  BY <1>1, EndLengths, AppendProperties DEF NoiseInv, NoiseTypes
<1> HIDE DEF moved, packet
<1>8. /\ cipher' \in [NoiseEnds -> CipherState \cup {NoCipher}] /\ cipher'[p] = moved
      /\ \A q \in NoiseEnds \ {p} : cipher'[q] = cipher[q]
  BY <1>1, <1>4 DEF NoiseInv, NoiseTypes
<1>9. rekeyCount' \in [NoiseEnds -> 0..(RekeyInterval - 1)]
  <2>1. rekeyCount[p] \in 0..(RekeyInterval - 1)
    BY DEF NoiseInv, NoiseTypes
  <2>2. Recorded(rekeyCount[p]) \in 0..(RekeyInterval - 1)
    BY <2>1, NoiseAssumption DEF Recorded
  <2> QED  BY <1>1, <2>2 DEF NoiseInv, NoiseTypes
<1>10. NoiseTypes'
  BY <1>1, <1>6, <1>7, <1>8, <1>9 DEF NoiseInv, NoiseTypes
<1>11. \A q \in NoiseEnds : EndInv(q)'
  <2>1. EndInv(p)'
    <3>1. \A i \in 1..Len(noiseSent'[p]) : noiseSent'[p][i] = i
      BY <1>1, <1>7 DEF NoiseInv, EndInv
    <3>2. Len(noiseSent'[p]) <= MaxNonce /\ noiseKeyed[p] # 0
      BY <1>1, <1>7, NoiseAssumption DEF NoiseInv, EndInv
    <3> QED  BY <1>1, <1>2, <1>4, <1>5, <1>7, <1>8, <3>1, <3>2 DEF NoiseInv, EndInv
  <2>2. ASSUME NEW q \in NoiseEnds \ {p} PROVE EndInv(q)'
    BY <1>1, <1>7, <1>8 DEF NoiseInv, EndInv
  <2> QED  BY <2>1, <2>2
<1>12. PacketInv'
  <2> SUFFICES ASSUME NEW m \in noiseNet', m.kind = "data", noiseKeyed'[m.from] <= 1
               PROVE  m.id = m.n + 1 /\ m.id <= Len(noiseSent'[m.from])
    BY DEF PacketInv
  <2>1. CASE m = packet
    <3>1. noiseKeyed[p] = 1
      BY <1>1, <1>6, <2>1, EndLengths DEF NoiseInv, EndInv
    <3> QED  BY <1>1, <1>6, <1>7, <2>1, <3>1 DEF NoiseInv, EndInv
  <2>2. CASE m \in noiseNet
    <3>1. m.from \in NoiseEnds /\ m.id \in Nat /\ Len(noiseSent[m.from]) \in Nat
      BY <2>2, DataPackets, EndLengths DEF NoiseInv
    <3>2. m.id = m.n + 1 /\ m.id <= Len(noiseSent[m.from])
      BY <1>1, <2>2 DEF NoiseInv, PacketInv
    <3>3. Len(noiseSent[m.from]) <= Len(noiseSent'[m.from])
      BY <1>1, <1>7, <3>1
    <3> QED  BY <1>7, <3>1, <3>2, <3>3
  <2> QED  BY <1>1, <2>1, <2>2
<1>13. ReadInv'
  <2> SUFFICES ASSUME \A q \in NoiseEnds : noiseKeyed[q] <= 1
               PROVE  \A q \in NoiseEnds : Len(noiseRead[q]) <= Len(noiseSent'[Peer(q)])
    BY <1>1 DEF NoiseInv, ReadInv
  <2> TAKE q \in NoiseEnds
  <2>1. Len(noiseRead[q]) <= Len(noiseSent[Peer(q)]) /\ Peer(q) \in NoiseEnds
    BY Peers DEF NoiseInv, ReadInv
  <2>2. Len(noiseSent[Peer(q)]) <= Len(noiseSent'[Peer(q)])
    BY <1>1, <1>7, <2>1, EndLengths DEF NoiseInv
  <2> QED  BY <1>7, <2>1, <2>2, EndLengths DEF NoiseInv
<1> QED
  BY <1>10, <1>11, <1>12, <1>13 DEF NoiseInv

LEMMA DecryptStep ==
  ASSUME NoiseInv, NEW p \in NoiseEnds, NoiseDecrypt(p)
  PROVE  NoiseInv'
<1>1. /\ cipher[p] # NoCipher /\ Len(noiseRead[p]) < MaxNonce
      /\ UNCHANGED <<handshake, noiseNet, noiseSent, noiseKeyed, rekeyCount>>
  BY DEF NoiseDecrypt
<1>2. PICK packet \in noiseNet :
        /\ packet.kind = "data" /\ packet.from = Peer(p)
        /\ cipher' = [cipher EXCEPT ![p] = Opened(cipher[p], packet)]
        /\ noiseRead' = IF packet.n = cipher[p].rn
                          THEN [noiseRead EXCEPT ![p] = Append(noiseRead[p], packet.id)]
                          ELSE noiseRead
  BY DEF NoiseDecrypt
<1>3. CASE packet.n # cipher[p].rn
  <2>1. cipher' = cipher /\ noiseRead' = noiseRead
    BY <1>2, <1>3 DEF Opened, NoiseInv, NoiseTypes
  <2>2. UNCHANGED <<handshake, cipher, noiseNet, noiseSent, noiseRead, noiseKeyed, rekeyCount>>
    BY <1>1, <2>1
  <2> QED  BY <2>2 DEF NoiseInv, NoiseTypes, EndInv, PacketInv, ReadInv
<1>4. CASE packet.n = cipher[p].rn
  <2> DEFINE len == Len(noiseRead[p])
             moved == [cipher[p] EXCEPT !.rn = @ + 1]
  <2>1. /\ cipher' = [cipher EXCEPT ![p] = moved]
        /\ noiseRead' = [noiseRead EXCEPT ![p] = Append(noiseRead[p], packet.id)]
        /\ len \in Nat /\ packet.id \in Nat
    BY <1>2, <1>4, EndLengths, DataPackets DEF Opened, NoiseInv
  <2>2. /\ cipher[p] \in CipherState /\ cipher[p].n \in Nat /\ cipher[p].rn \in Nat
        /\ cipher[p].n <= Len(noiseSent[p]) /\ cipher[p].rn <= len
    BY <1>1, CipherFields DEF NoiseInv, EndInv
  <2>3. cipher[p].rn + 1 \in 0..MaxNonce
    BY <1>1, <2>1, <2>2, NoiseAssumption
  <2>4. moved \in CipherState /\ moved.n = cipher[p].n /\ moved.rn = cipher[p].rn + 1
    BY <2>2, <2>3 DEF CipherState
  <2>5. moved # NoCipher
    <3>1. moved \in [n : Nat, rn : Nat]
      BY <2>2, <2>4 DEF CipherState
    <3> QED  BY <3>1, NoiseAssumption
  <2>6. /\ noiseRead' \in [NoiseEnds -> Seq(Nat)] /\ Len(noiseRead'[p]) = len + 1
        /\ \A i \in 1..len : noiseRead'[p][i] = noiseRead[p][i]
        /\ noiseRead'[p][len + 1] = packet.id
        /\ \A q \in NoiseEnds \ {p} : noiseRead'[q] = noiseRead[q]
    BY <2>1, EndLengths, AppendProperties DEF NoiseInv, NoiseTypes
  <2> HIDE DEF moved
  <2>7. /\ cipher' \in [NoiseEnds -> CipherState \cup {NoCipher}] /\ cipher'[p] = moved
        /\ \A q \in NoiseEnds \ {p} : cipher'[q] = cipher[q]
    BY <2>1, <2>4 DEF NoiseInv, NoiseTypes
  <2>8. NoiseTypes'
    BY <1>1, <2>6, <2>7 DEF NoiseInv, NoiseTypes
  <2>9. \A q \in NoiseEnds : EndInv(q)'
    <3>1. EndInv(p)'
      <4>1. Len(noiseRead'[p]) <= MaxNonce /\ noiseKeyed[p] # 0
        BY <1>1, <2>1, <2>6, NoiseAssumption DEF NoiseInv, EndInv
      <4> QED  BY <1>1, <2>1, <2>2, <2>4, <2>5, <2>6, <2>7, <4>1 DEF NoiseInv, EndInv
    <3>2. ASSUME NEW q \in NoiseEnds \ {p} PROVE EndInv(q)'
      BY <1>1, <2>6, <2>7 DEF NoiseInv, EndInv
    <3> QED  BY <3>1, <3>2
  <2>10. PacketInv'
    BY <1>1 DEF NoiseInv, PacketInv
  <2>11. ReadInv'
    <3> SUFFICES ASSUME \A q \in NoiseEnds : noiseKeyed[q] <= 1
                 PROVE  \A q \in NoiseEnds :
                          /\ Len(noiseRead'[q]) <= Len(noiseSent[Peer(q)])
                          /\ \A i \in 1..Len(noiseRead'[q]) : noiseRead'[q][i] = i
      BY <1>1 DEF ReadInv
    <3>1. noiseKeyed[p] = 1 /\ cipher[p].rn = len
      BY <1>1, EndLengths DEF NoiseInv, EndInv
    <3>2. packet.id = len + 1 /\ packet.id <= Len(noiseSent[Peer(p)])
      BY <1>2, <1>4, <3>1, Peers DEF NoiseInv, PacketInv
    <3>3. Len(noiseRead'[p]) <= Len(noiseSent[Peer(p)])
          /\ \A i \in 1..Len(noiseRead'[p]) : noiseRead'[p][i] = i
      BY <2>1, <2>6, <3>2 DEF NoiseInv, ReadInv
    <3>4. ASSUME NEW q \in NoiseEnds \ {p}
          PROVE  /\ Len(noiseRead'[q]) <= Len(noiseSent[Peer(q)])
                 /\ \A i \in 1..Len(noiseRead'[q]) : noiseRead'[q][i] = i
      BY <2>6 DEF NoiseInv, ReadInv
    <3> QED  BY <3>3, <3>4
  <2> QED  BY <2>8, <2>9, <2>10, <2>11 DEF NoiseInv
<1> QED
  BY <1>3, <1>4

LEMMA NoiseInductive == NoiseSpec => []NoiseInv
<1>1. NoiseInit => NoiseInv
  <2> SUFFICES ASSUME NoiseInit PROVE NoiseInv
    OBVIOUS
  <2>1. /\ \A p \in NoiseEnds : /\ noiseSent[p] = <<>> /\ noiseRead[p] = <<>>
                                /\ cipher[p] = NoCipher /\ noiseKeyed[p] = 0
                                /\ handshake[p] = "Init"
        /\ 0 \in 0..(RekeyInterval - 1) /\ Len(<<>>) = 0 /\ 1..0 = {} /\ 0 <= MaxNonce
    BY NoiseAssumption, EmptySeq DEF NoiseInit
  <2>2. NoiseTypes
    BY <2>1, EmptySeq DEF NoiseInit, NoiseTypes
  <2>3. \A p \in NoiseEnds : EndInv(p)
    BY <2>1 DEF EndInv
  <2>4. PacketInv
    BY DEF NoiseInit, PacketInv
  <2>5. ReadInv
    BY <2>1, Peers DEF ReadInv
  <2> QED  BY <2>2, <2>3, <2>4, <2>5 DEF NoiseInv
<1>2. NoiseInv /\ [NoiseNext]_noiseVars => NoiseInv'
  <2> SUFFICES ASSUME NoiseInv, [NoiseNext]_noiseVars PROVE NoiseInv'
    OBVIOUS
  <2>1. ASSUME NEW p \in NoiseEnds,
               \/ WriteMessageA(p) \/ ReadMessageA(p) \/ ReadMessageB(p)
               \/ NoiseEncrypt(p) \/ NoiseDecrypt(p) \/ RekeyReset(p)
        PROVE  NoiseInv'
    <3>1. CASE WriteMessageA(p)
      BY <3>1, WriteAStep
    <3>2. CASE ReadMessageA(p) \/ ReadMessageB(p)
      BY <3>2, InstallStep DEF ReadMessageA, ReadMessageB
    <3>3. CASE NoiseEncrypt(p)
      BY <3>3, EncryptStep
    <3>4. CASE NoiseDecrypt(p)
      BY <3>4, DecryptStep
    <3>5. CASE RekeyReset(p)
      <4>1. rekeyCount' \in [NoiseEnds -> 0..(RekeyInterval - 1)]
        <5>1. 0 \in 0..(RekeyInterval - 1)
          BY NoiseAssumption
        <5> QED  BY <3>5, <5>1 DEF RekeyReset, NoiseInv, NoiseTypes
      <4> QED  BY <3>5, <4>1 DEF RekeyReset, NoiseInv, NoiseTypes, EndInv, PacketInv, ReadInv
    <3> QED  BY <2>1, <3>1, <3>2, <3>3, <3>4, <3>5
  <2>2. CASE UNCHANGED noiseVars
    BY <2>2 DEF noiseVars, NoiseInv, NoiseTypes, EndInv, PacketInv, ReadInv
  <2> QED  BY <2>1, <2>2 DEF NoiseNext
<1> QED
  BY <1>1, <1>2, PTL DEF NoiseSpec

(* An end has a cipher once its handshake is complete, with nonces in range. *)
THEOREM NoiseTypeCorrect == NoiseSpec => []NoiseTypeOK
<1>1. NoiseInv => NoiseTypeOK
  BY DEF NoiseInv, NoiseTypes, EndInv, NoiseTypeOK
<1> QED
  BY <1>1, NoiseInductive, PTL

(* With one cipher at each end, what is read is a prefix of what the other   *)
(* end sent, whatever the network repeats, reorders or loses (decrypt).      *)
THEOREM ReadSafety == NoiseSpec => []ReadInOrder
<1>1. NoiseInv => ReadInOrder
  <2> SUFFICES ASSUME NoiseInv, \A q \in NoiseEnds : noiseKeyed[q] <= 1, NEW p \in NoiseEnds
               PROVE  IsPrefix(noiseRead[p], noiseSent[Peer(p)])
    BY DEF ReadInOrder
  <2> DEFINE read == noiseRead[p]
             sent == noiseSent[Peer(p)]
  <2>1. /\ read \in Seq(Nat) /\ sent \in Seq(Nat) /\ Len(read) \in Nat /\ Len(sent) \in Nat
        /\ Len(read) <= Len(sent)
    BY Peers, EndLengths DEF NoiseInv, ReadInv
  <2>2. \A i \in 1..Len(read) : read[i] = i
    BY DEF NoiseInv, ReadInv
  <2>3. \A i \in 1..Len(sent) : sent[i] = i
    BY Peers DEF NoiseInv, EndInv
  <2> HIDE DEF read, sent
  <2>4. \A i \in 1..Len(read) : read[i] = sent[i]
    BY <2>1, <2>2, <2>3
  <2>5. SubSeq(read, 1, Len(read)) = SubSeq(sent, 1, Len(read))
    BY <2>1, <2>4, PrefixOfSequence, SubSeqFull
  <2>6. IsPrefix(read, sent)
    BY <2>1, <2>5 DEF IsPrefix
  <2> QED  BY <2>6 DEF read, sent
<1> QED
  BY <1>1, NoiseInductive, PTL

-----------------------------------------------------------------------------
(* Cover traffic *)

(* What was sent came before the message made ahead, and every message       *)
(* number was given in a call of its own.                                    *)
CoverInv ==
  /\ CoverTypeOK
  /\ coverSent \in Seq(Nat)
  /\ \A i \in 1..Len(coverSent) :
       /\ coverSent[i] <= coverSequence
       /\ coverPending # {} => coverSent[i] < coverSequence
  /\ Len(coverSent) <= coverSequence
  /\ coverPending # {} => Len(coverSent) < coverSequence
  /\ \A i, j \in 1..Len(coverSent) : i < j => coverSent[i] < coverSent[j]

LEMMA CoverFields ==
  ASSUME CoverTypeOK
  PROVE  coverArms \in Nat /\ coverSequence \in Nat /\ coverSequence <= coverArms
BY CoverAssumption DEF CoverTypeOK

LEMMA PreGenerateStep ==
  ASSUME CoverInv, PreGenerate, coverEnabled' \in BOOLEAN, coverRunning' \in BOOLEAN,
         UNCHANGED <<coverSent, coverRate, coverReal>>
  PROVE  CoverInv'
<1>1. /\ coverArms \in Nat /\ coverSequence \in Nat /\ coverSequence <= coverArms
      /\ coverArms < MaxArms /\ coverArms' = coverArms + 1
  BY CoverFields DEF CoverInv, PreGenerate
<1>2. coverArms' \in 0..MaxArms
  BY <1>1, CoverAssumption
<1>3. CASE coverEnabled' /\ coverPending = {}
  <2>1. coverSequence' = coverSequence + 1 /\ coverPending' = {coverSequence'}
    BY <1>3 DEF PreGenerate
  <2>2. coverSequence' \in 0..coverArms'
    BY <1>1, <2>1
  <2>3. CoverTypeOK'
    BY <1>2, <2>1, <2>2 DEF CoverInv, CoverTypeOK
  <2>4. \A i \in 1..Len(coverSent) : coverSent[i] \in Nat
    BY DEF CoverInv
  <2> QED  BY <1>1, <2>1, <2>3, <2>4 DEF CoverInv
<1>4. CASE ~(coverEnabled' /\ coverPending = {})
  <2>1. UNCHANGED <<coverSequence, coverPending>>
    BY <1>4 DEF PreGenerate
  <2>2. coverSequence' \in 0..coverArms'
    BY <1>1, <2>1
  <2>3. CoverTypeOK'
    BY <1>2, <2>1, <2>2 DEF CoverInv, CoverTypeOK
  <2> QED  BY <1>1, <2>1, <2>3 DEF CoverInv
<1> QED
  BY <1>3, <1>4

LEMMA NextMessageStep ==
  ASSUME CoverInv, NextMessage
  PROVE  CoverInv'
<1>1. PICK m \in coverPending : coverSent' = Append(coverSent, m)
  BY DEF NextMessage
<1>2. m = coverSequence /\ coverSequence \in Nat /\ coverPending' = {}
      /\ UNCHANGED <<coverEnabled, coverRunning, coverSequence, coverArms, coverRate, coverReal>>
  BY CoverFields DEF CoverInv, CoverTypeOK, NextMessage
<1>3. /\ coverSent' \in Seq(Nat) /\ Len(coverSent') = Len(coverSent) + 1
      /\ Len(coverSent) \in Nat
      /\ \A i \in 1..Len(coverSent) : coverSent'[i] = coverSent[i] /\ coverSent[i] < m
      /\ coverSent'[Len(coverSent) + 1] = m
  BY <1>1, <1>2, AppendProperties, LenProperties DEF CoverInv
<1>4. \A i \in 1..Len(coverSent') : coverSent'[i] \in Nat /\ coverSent'[i] <= coverSequence'
  BY <1>2, <1>3, ElementOfSeq
<1>5. Len(coverSent') <= coverSequence'
  BY <1>1, <1>2, <1>3 DEF CoverInv
<1>6. \A i, j \in 1..Len(coverSent') : i < j => coverSent'[i] < coverSent'[j]
  <2> SUFFICES ASSUME NEW i \in 1..Len(coverSent'), NEW j \in 1..Len(coverSent'), i < j
               PROVE  coverSent'[i] < coverSent'[j]
    OBVIOUS
  <2>1. i \in 1..Len(coverSent)
    BY <1>3
  <2>2. CASE j \in 1..Len(coverSent)
    BY <1>3, <2>1, <2>2 DEF CoverInv
  <2>3. CASE j = Len(coverSent) + 1
    BY <1>3, <2>1, <2>3
  <2>4. j \in 1..Len(coverSent) \/ j = Len(coverSent) + 1
    BY <1>3
  <2> QED  BY <2>2, <2>3, <2>4
<1>7. CoverTypeOK'
  BY <1>2 DEF CoverInv, CoverTypeOK
<1> QED
  BY <1>2, <1>3, <1>4, <1>5, <1>6, <1>7 DEF CoverInv

LEMMA CoverInductive == CoverSpec => []CoverInv
<1>1. CoverInit => CoverInv
  <2> SUFFICES ASSUME CoverInit PROVE CoverInv
    OBVIOUS
  <2>1. coverSent \in Seq(Nat) /\ Len(coverSent) = 0 /\ 1..0 = {}
    BY EmptySeq DEF CoverInit
  <2>2. CoverTypeOK
    <3>1. coverArms \in 0..MaxArms
      BY CoverAssumption DEF CoverInit
    <3>2. coverSequence \in 0..coverArms
      BY DEF CoverInit
    <3> QED  BY <3>1, <3>2 DEF CoverInit, CoverTypeOK
  <2> QED  BY <2>1, <2>2 DEF CoverInit, CoverInv
<1>2. CoverInv /\ [CoverNext]_coverVars => CoverInv'
  <2> SUFFICES ASSUME CoverInv, [CoverNext]_coverVars PROVE CoverInv'
    OBVIOUS
  <2>1. CASE CoverStart
    <3>1. coverEnabled' \in BOOLEAN
      BY <2>1 DEF CoverStart, CoverInv, CoverTypeOK
    <3> QED  BY <2>1, <3>1, PreGenerateStep DEF CoverStart
  <2>2. CASE SetConfig
    <3>1. coverRunning' \in BOOLEAN
      BY <2>2 DEF SetConfig, CoverInv, CoverTypeOK
    <3> QED  BY <2>2, <3>1, PreGenerateStep DEF SetConfig
  <2>3. CASE CoverStop
    BY <2>3 DEF CoverStop, CoverInv, CoverTypeOK
  <2>4. CASE NextMessage
    BY <2>4, NextMessageStep
  <2>5. CASE RecordReal
    <3>1. coverRate' = 4 /\ coverReal' = 0
      BY <2>5 DEF RecordReal, Adjusted, CoverInv, CoverTypeOK
    <3> QED  BY <2>5, <3>1 DEF RecordReal, CoverInv, CoverTypeOK
  <2>6. CASE UNCHANGED coverVars
    BY <2>6 DEF coverVars, CoverInv, CoverTypeOK
  <2> QED  BY <2>1, <2>2, <2>3, <2>4, <2>5, <2>6 DEF CoverNext
<1> QED
  BY <1>1, <1>2, PTL DEF CoverSpec

(* Messages leave in the order of their numbers, each once, whichever calls   *)
(* make them (next_message, start, set_config).                              *)
THEOREM CoverSafety == CoverSpec => []CoverSpentOnce
<1>1. CoverInv => CoverSpentOnce
  BY DEF CoverInv, CoverSpentOnce
<1> QED
  BY <1>1, CoverInductive, PTL

-----------------------------------------------------------------------------
(* Mixnet *)

(* The messages queued so far, in order: first those that a batch was made   *)
(* of, then those in the batch, then the queue.                              *)
Taken == mixQueued - Len(mixQueue)
Before == Taken - Len(mixBatch)

MixInv ==
  /\ mixQueued \in Nat
  /\ mixQueue \in Seq(Nat) /\ mixBatch \in Seq(Nat) /\ mixOut \in Seq(Nat)
  /\ Before \in Nat /\ Len(mixBatch) <= BatchSize
  /\ \A i \in 1..Len(mixQueue) : mixQueue[i] = Taken + i
  /\ \A i \in 1..Len(mixBatch) : mixBatch[i] \in (Before + 1)..Taken
  /\ \A i \in 1..Len(mixOut) : mixOut[i] <= Before
  /\ \A i, j \in 1..Len(mixOut) : i < j => mixOut[i] < mixOut[j] + BatchSize

LEMMA MixLengths ==
  ASSUME MixInv
  PROVE  /\ Len(mixQueue) \in Nat /\ Len(mixBatch) \in Nat /\ Len(mixOut) \in Nat
         /\ mixQueued \in Nat /\ Taken \in Nat /\ Before \in Nat
         /\ Taken = mixQueued - Len(mixQueue) /\ Before = Taken - Len(mixBatch)
<1>1. /\ Len(mixQueue) \in Nat /\ Len(mixBatch) \in Nat /\ Len(mixOut) \in Nat
      /\ mixQueued \in Nat /\ Before \in Nat
  BY LenProperties DEF MixInv
<1> QED
  BY <1>1 DEF Taken, Before

LEMMA EnqueueStep ==
  ASSUME MixInv, Enqueue, UNCHANGED <<mixBatch, mixOut>>
  PROVE  MixInv'
<1> DEFINE len == Len(mixQueue)
<1>1. /\ mixQueued' = mixQueued + 1 /\ mixQueue' = Append(mixQueue, mixQueued + 1)
      /\ mixQueue \in Seq(Nat) /\ mixQueued + 1 \in Nat
  BY MixLengths DEF Enqueue, MixInv
<1>2. /\ mixQueue' \in Seq(Nat) /\ Len(mixQueue') = len + 1
      /\ \A i \in 1..len : mixQueue'[i] = mixQueue[i]
      /\ mixQueue'[len + 1] = mixQueued + 1
  BY <1>1, AppendProperties
<1>3. Taken' = Taken
  BY <1>1, <1>2, MixLengths DEF Taken
<1>4. Before' = Before
  BY <1>3 DEF Before
<1>5. \A i \in 1..Len(mixQueue') : mixQueue'[i] = Taken' + i
  <2> SUFFICES ASSUME NEW i \in 1..(len + 1) PROVE mixQueue'[i] = Taken + i
    BY <1>2, <1>3
  <2>1. CASE i \in 1..len
    BY <1>2, <2>1 DEF MixInv
  <2>2. CASE i = len + 1
    BY <1>2, <2>2, MixLengths
  <2> QED  BY <2>1, <2>2, MixLengths
<1> QED
  BY <1>1, <1>2, <1>3, <1>4, <1>5 DEF MixInv

LEMMA TakeBatchStep ==
  ASSUME MixInv, TakeBatch
  PROVE  MixInv'
<1> DEFINE len == Len(mixQueue)
           n == Take(len)
<1>1. /\ mixBatch = <<>> /\ mixQueue # <<>>
      /\ mixQueue' = SubSeq(mixQueue, n + 1, len)
      /\ UNCHANGED <<mixOut, mixQueued>>
  BY DEF TakeBatch
<1>2. PICK order \in [1..n -> 1..n] : mixBatch' = [i \in 1..n |-> mixQueue[order[i]]]
  BY DEF TakeBatch
<1>3. len \in Nat /\ n \in Nat /\ n <= len /\ n <= BatchSize
  BY MixLengths, MixAssumption DEF Take
<1>4. \A i \in 1..len : mixQueue[i] = Taken + i /\ mixQueue[i] \in Nat
  BY MixLengths DEF MixInv
<1>5. /\ mixQueue' \in Seq(Nat) /\ Len(mixQueue') = len - n
      /\ \A i \in 1..(len - n) : mixQueue'[i] = mixQueue[n + i]
  <2>1. \A i \in (n + 1)..len : mixQueue[i] \in Nat
    BY <1>3, <1>4
  <2>2. /\ mixQueue' \in Seq(Nat)
        /\ Len(mixQueue') = IF n + 1 <= len THEN len - (n + 1) + 1 ELSE 0
        /\ \A i \in 1..(len - (n + 1) + 1) : mixQueue'[i] = mixQueue[n + 1 + i - 1]
    BY <1>1, <1>3, <2>1, SubSeqProperties
  <2> QED  BY <1>3, <2>2
<1>6. /\ mixBatch' \in Seq(Nat) /\ Len(mixBatch') = n
      /\ \A i \in 1..n : mixBatch'[i] \in (Taken + 1)..(Taken + n)
  <2>1. \A i \in 1..n : order[i] \in 1..len /\ order[i] <= n
    BY <1>3
  <2>2. \A i \in 1..n : mixQueue[order[i]] \in Nat /\ mixQueue[order[i]] \in (Taken + 1)..(Taken + n)
    <3> TAKE i \in 1..n
    <3> DEFINE k == order[i]
    <3>1. k \in 1..len /\ k <= n
      BY <2>1
    <3>2. mixQueue[k] = Taken + k
      BY <1>4, <3>1
    <3> HIDE DEF k
    <3>3. mixQueue[k] \in Nat /\ mixQueue[k] \in (Taken + 1)..(Taken + n)
      BY <1>3, <3>1, <3>2, MixLengths
    <3> QED  BY <3>3 DEF k
  <2>3. mixBatch' \in [1..n -> Nat]
    BY <1>2, <2>2
  <2> QED  BY <1>2, <1>3, <2>2, <2>3
<1> HIDE DEF n
<1>7. Taken' = Taken + n
  BY <1>1, <1>3, <1>5, MixLengths DEF Taken
<1>8. Before' = Before /\ Before = Taken
  <2>1. Len(mixBatch) = 0
    BY <1>1, EmptySeq
  <2> QED  BY <1>3, <1>6, <1>7, <2>1, MixLengths DEF Before
<1>9. \A i \in 1..Len(mixQueue') : mixQueue'[i] = Taken' + i
  <2> SUFFICES ASSUME NEW i \in 1..(len - n) PROVE mixQueue'[i] = Taken' + i
    BY <1>5
  <2>1. n + i \in 1..len
    BY <1>3
  <2>2. mixQueue'[i] = mixQueue[n + i] /\ mixQueue[n + i] = Taken + (n + i)
    BY <1>4, <1>5, <2>1
  <2> QED  BY <1>3, <1>7, <2>2, MixLengths
<1> QED
  BY <1>1, <1>3, <1>5, <1>6, <1>7, <1>8, <1>9 DEF MixInv

LEMMA ReturnBatchStep ==
  ASSUME MixInv, ReturnBatch
  PROVE  MixInv'
<1> DEFINE len == Len(mixOut)
           n == Len(mixBatch)
<1>1. /\ mixOut' = mixOut \o mixBatch /\ mixBatch' = <<>> /\ UNCHANGED <<mixQueue, mixQueued>>
  BY DEF ReturnBatch
<1>2. len \in Nat /\ n \in Nat /\ n <= BatchSize /\ BatchSize \in Nat
  BY MixLengths, MixAssumption DEF MixInv
<1>3. /\ mixOut' \in Seq(Nat) /\ Len(mixOut') = len + n
      /\ \A i \in 1..len : mixOut'[i] = mixOut[i]
      /\ \A i \in 1..n : mixOut'[len + i] = mixBatch[i]
  BY <1>1, ConcatProperties DEF MixInv
<1>4. mixBatch' \in Seq(Nat) /\ Len(mixBatch') = 0 /\ 1..Len(mixBatch') = {}
  BY <1>1, EmptySeq
<1>5. Taken' = Taken /\ Before' = Taken /\ Taken = Before + n
  BY <1>1, <1>4, MixLengths DEF Taken, Before
<1>6. \A i \in 1..len : mixOut'[i] \in Nat /\ mixOut'[i] <= Before
  BY <1>3, ElementOfSeq DEF MixInv
<1>7. ASSUME NEW i \in 1..(len + n), i \notin 1..len
      PROVE  mixOut'[i] \in (Before + 1)..Taken
  <2>1. i - len \in 1..n /\ i = len + (i - len)
    BY <1>2, <1>7
  <2>2. mixOut'[len + (i - len)] = mixBatch[i - len]
    BY <1>3, <2>1
  <2> QED  BY <2>1, <2>2 DEF MixInv
<1>8. ASSUME NEW i \in 1..(len + n)
      PROVE  mixOut'[i] \in Nat /\ mixOut'[i] <= Taken
  <2>1. CASE i \in 1..len
    BY <1>2, <1>5, <1>6, <2>1, MixLengths
  <2>2. CASE i \notin 1..len
    BY <1>7, <2>2, MixLengths
  <2> QED  BY <2>1, <2>2
<1>9. \A i \in 1..Len(mixOut') : mixOut'[i] <= Before'
  BY <1>3, <1>5, <1>8
<1>10. \A i, j \in 1..Len(mixOut') : i < j => mixOut'[i] < mixOut'[j] + BatchSize
  <2> SUFFICES ASSUME NEW i \in 1..(len + n), NEW j \in 1..(len + n), i < j
               PROVE  mixOut'[i] < mixOut'[j] + BatchSize
    BY <1>3
  <2>1. CASE j \in 1..len
    <3>1. i \in 1..len
      BY <1>2, <2>1
    <3>2. mixOut[i] < mixOut[j] + BatchSize
      BY <2>1, <3>1 DEF MixInv
    <3> QED  BY <1>3, <2>1, <3>1, <3>2
  <2>2. CASE j \notin 1..len
    <3> DEFINE x == mixOut'[i]
               y == mixOut'[j]
    <3>1. y \in (Before + 1)..Taken
      BY <1>7, <2>2
    <3>2. x \in Nat /\ x <= Taken
      BY <1>8
    <3> HIDE DEF x, y
    <3>3. Before \in Nat /\ Taken \in Nat /\ Taken = Before + n
      BY <1>5, MixLengths
    <3> HIDE DEF n
    <3>4. y \in Nat /\ Before + 1 <= y
      BY <3>1, <3>3
    <3>5. x < y + BatchSize
      BY <1>2, <3>2, <3>3, <3>4
    <3> QED  BY <3>5 DEF x, y
  <2> QED  BY <2>1, <2>2
<1>11. Before' \in Nat /\ 0 <= BatchSize
  BY <1>2, <1>5, MixLengths
<1>12. \A i \in 1..Len(mixQueue') : mixQueue'[i] = Taken' + i
  BY <1>1, <1>5 DEF MixInv
<1> QED
  BY <1>1, <1>3, <1>4, <1>9, <1>10, <1>11, <1>12 DEF MixInv

LEMMA DropBatchStep ==
  ASSUME MixInv, DropBatch
  PROVE  MixInv'
<1>1. mixBatch' = <<>> /\ UNCHANGED <<mixQueue, mixQueued, mixOut>>
  BY DEF DropBatch
<1>2. mixBatch' \in Seq(Nat) /\ Len(mixBatch') = 0 /\ 1..Len(mixBatch') = {} /\ 0 <= BatchSize
  BY <1>1, EmptySeq, MixAssumption
<1>3. Taken' = Taken /\ Before' = Taken /\ Before <= Taken
  BY <1>1, <1>2, MixLengths DEF Taken, Before
<1>4. \A i \in 1..Len(mixOut) : mixOut[i] <= Taken
  BY <1>3, MixLengths, ElementOfSeq DEF MixInv
<1> QED
  BY <1>1, <1>2, <1>3, <1>4, MixLengths DEF MixInv

LEMMA MixInductive == MixSpec => []MixInv
<1>1. MixInit => MixInv
  <2> SUFFICES ASSUME MixInit PROVE MixInv
    OBVIOUS
  <2>1. /\ <<>> \in Seq(Nat) /\ Len(<<>>) = 0 /\ 1..0 = {} /\ 0 <= BatchSize
    BY EmptySeq, MixAssumption
  <2>2. mixQueued = 0 /\ Len(mixQueue) = 0 /\ Len(mixBatch) = 0 /\ Len(mixOut) = 0
    BY <2>1 DEF MixInit
  <2>3. Taken = 0 /\ Before = 0
    BY <2>2 DEF Taken, Before
  <2> QED  BY <2>1, <2>2, <2>3 DEF MixInit, MixInv
<1>2. MixInv /\ [MixNext]_mixVars => MixInv'
  <2> SUFFICES ASSUME MixInv, [MixNext]_mixVars PROVE MixInv'
    OBVIOUS
  <2>1. ASSUME UNCHANGED <<mixQueue, mixBatch, mixOut, mixQueued>> PROVE MixInv'
    BY <2>1 DEF MixInv, Taken, Before
  <2>2. CASE RegisterNode
    BY <2>1, <2>2 DEF RegisterNode
  <2>3. CASE QueueMessage
    BY <2>3, EnqueueStep DEF QueueMessage
  <2>4. CASE MixSend
    BY <2>1, <2>4, EnqueueStep DEF MixSend
  <2>5. CASE TakeBatch
    BY <2>5, TakeBatchStep
  <2>6. CASE ReturnBatch
    BY <2>6, ReturnBatchStep
  <2>7. CASE DropBatch
    BY <2>7, DropBatchStep
  <2>8. CASE UNCHANGED mixVars
    BY <2>1, <2>8 DEF mixVars
  <2> QED  BY <2>2, <2>3, <2>4, <2>5, <2>6, <2>7, <2>8 DEF MixNext
<1> QED
  BY <1>1, <1>2, PTL DEF MixSpec

(* Whatever was queued while a batch was delayed, and whatever call was      *)
(* dropped, the batches keep their order (process_batch).                    *)
THEOREM MixSafety == MixSpec => []OvertakesWithinBatch
<1>1. MixInv => OvertakesWithinBatch
  <2> SUFFICES ASSUME MixInv, NEW m \in SeqSet(mixOut), NEW q \in SeqSet(mixQueue)
               PROVE  m < q
    BY DEF MixInv, OvertakesWithinBatch
  <2>1. PICK i \in 1..Len(mixOut) : m = mixOut[i]
    BY DEF SeqSet
  <2>2. PICK j \in 1..Len(mixQueue) : q = mixQueue[j]
    BY DEF SeqSet
  <2>3. m \in Nat /\ m <= Before
    BY <2>1, ElementOfSeq DEF MixInv
  <2>4. q = Taken + j
    BY <2>2 DEF MixInv
  <2> QED  BY <2>3, <2>4, MixLengths
<1> QED
  BY <1>1, MixInductive, PTL

-----------------------------------------------------------------------------
(* Peer discovery *)

(* The addresses the private node announced for itself: none or a list.      *)
Own == knownPeers["discovery"]

OwnInv ==
  /\ DOMAIN knownPeers = DhtNodes
  /\ DOMAIN Own \subseteq {"discovery"}
  /\ "discovery" \in DOMAIN Own => Own["discovery"] \in Seq(Addresses) \ {<<>>}

(* An answer found is a beginning of that list.                              *)
FoundInv ==
  \A f \in DOMAIN discovered \ byHand :
    LET found == discovered[f].addresses
    IN /\ f \in BadPrints \cup {"discovery"} /\ discovered[f].peer = "discovery"
       /\ "discovery" \in DOMAIN Own
       /\ found \in Seq(Addresses) /\ found # <<>> /\ Len(found) <= Len(Own["discovery"])
       /\ \A i \in 1..Len(found) : found[i] = Own["discovery"][i]

LEMMA KnownStep ==
  ASSUME OwnInv, FoundInv, NEW n \in DhtNodes, NEW p, AddPeer(n, p),
         n = "discovery" => p = "discovery"
  PROVE  OwnInv' /\ FoundInv'
<1>1. PICK a \in Addresses : knownPeers' = [knownPeers EXCEPT ![n] = Pushed(knownPeers[n], p, a)]
  BY DEF AddPeer
<1>2. UNCHANGED <<discovered, byHand>>
  BY DEF AddPeer
<1>3. CASE n # "discovery"
  <2>1. Own' = Own /\ DOMAIN knownPeers' = DhtNodes
    BY <1>1, <1>3 DEF Own, OwnInv, DhtNodes
  <2> QED  BY <1>2, <2>1 DEF OwnInv, FoundInv
<1>4. CASE n = "discovery"
  <2>1. Own' = Pushed(Own, "discovery", a) /\ DOMAIN knownPeers' = DhtNodes
    BY <1>1, <1>4 DEF Own, OwnInv, DhtNodes
  <2>2. DOMAIN Own' = {"discovery"}
    BY <2>1 DEF Pushed, OwnInv
  <2>3. CASE "discovery" \notin DOMAIN Own
    <3>1. Own'["discovery"] = <<a>>
      BY <2>1, <2>3 DEF Pushed
    <3>2. <<a>> \in Seq(Addresses) \ {<<>>}
      OBVIOUS
    <3>3. DOMAIN discovered \ byHand = {}
      BY <2>3 DEF FoundInv
    <3> QED  BY <1>2, <2>1, <2>2, <3>1, <3>2, <3>3 DEF OwnInv, FoundInv
  <2>4. CASE "discovery" \in DOMAIN Own
    <3> DEFINE old == Own["discovery"]
               new == Append(old, a)
    <3>1. Own'["discovery"] = new
      BY <2>1, <2>4 DEF Pushed
    <3>2. /\ old \in Seq(Addresses) /\ new \in Seq(Addresses) /\ new # <<>>
          /\ Len(old) \in Nat /\ Len(new) = Len(old) + 1
          /\ \A i \in 1..Len(old) : new[i] = old[i]
      BY <2>4, AppendProperties, LenProperties, EmptySeq DEF OwnInv
    <3>3. ASSUME NEW f \in DOMAIN discovered \ byHand
          PROVE  /\ Len(discovered[f].addresses) <= Len(new)
                 /\ \A i \in 1..Len(discovered[f].addresses) : discovered[f].addresses[i] = new[i]
      <4> DEFINE found == discovered[f].addresses
      <4>1. /\ found \in Seq(Addresses) /\ Len(found) <= Len(old)
            /\ \A i \in 1..Len(found) : found[i] = old[i]
        BY DEF FoundInv
      <4>2. Len(found) \in Nat
        BY <4>1, LenProperties
      <4> HIDE DEF found, old, new
      <4>3. 1..Len(found) \subseteq 1..Len(old) /\ Len(found) <= Len(new)
        BY <3>2, <4>1, <4>2
      <4>4. \A i \in 1..Len(found) : found[i] = new[i]
        BY <3>2, <4>1, <4>3
      <4> QED  BY <4>3, <4>4 DEF found
    <3>4. OwnInv'
      BY <2>1, <2>2, <3>1, <3>2 DEF OwnInv
    <3> HIDE DEF new, old
    <3> QED  BY <1>2, <2>2, <3>1, <3>3, <3>4 DEF FoundInv
  <2> QED  BY <2>3, <2>4
<1> QED
  BY <1>3, <1>4

LEMMA RemovePeerStep ==
  ASSUME OwnInv, FoundInv, RemovePeer
  PROVE  OwnInv' /\ FoundInv'
<1>1. Own' = Own /\ DOMAIN knownPeers' = DhtNodes /\ UNCHANGED <<discovered, byHand>>
  BY DEF RemovePeer, Own, OwnInv, DhtNodes
<1> QED
  BY <1>1 DEF OwnInv, FoundInv

LEMMA FindPeerStep ==
  ASSUME OwnInv, FoundInv, FindPeer
  PROVE  OwnInv' /\ FoundInv'
<1>1. PICK f \in Prints \ DOMAIN discovered : \E info \in LookupPeer("discovery", f) :
        discovered' = Cached(f, info)
  BY DEF FindPeer
<1>2. PICK info \in LookupPeer("discovery", f) : discovered' = Cached(f, info)
  BY <1>1
<1>3. UNCHANGED <<knownPeers, byHand>> /\ Own' = Own
  BY DEF FindPeer, Own
<1>4. PICK p \in {LookedFor("discovery", f)} \cap DOMAIN Own :
        info = [peer |-> p, addresses |-> Own[p], seen |-> dhtNow]
  BY <1>2 DEF LookupPeer, Own
<1>5. p = "discovery" /\ "discovery" \in DOMAIN Own
  BY <1>4 DEF OwnInv
<1>6. f \in BadPrints \cup {"discovery"}
  BY <1>1, <1>4, <1>5 DEF LookedFor, Prints
<1>7. /\ info.peer = "discovery" /\ info.addresses = Own["discovery"]
      /\ Own["discovery"] \in Seq(Addresses) /\ Own["discovery"] # <<>>
      /\ Len(Own["discovery"]) \in Nat
  BY <1>4, <1>5, LenProperties DEF OwnInv
<1>8. /\ DOMAIN discovered' = DOMAIN discovered \cup {f} /\ discovered'[f] = info
      /\ \A g \in DOMAIN discovered : discovered'[g] = discovered[g]
  BY <1>1, <1>2 DEF Cached
<1>9. OwnInv'
  BY <1>3 DEF OwnInv
<1>10. FoundInv'
  <2> SUFFICES ASSUME NEW g \in DOMAIN discovered' \ byHand
               PROVE  LET found == discovered'[g].addresses
                      IN /\ g \in BadPrints \cup {"discovery"} /\ discovered'[g].peer = "discovery"
                         /\ "discovery" \in DOMAIN Own
                         /\ found \in Seq(Addresses) /\ found # <<>>
                         /\ Len(found) <= Len(Own["discovery"])
                         /\ \A i \in 1..Len(found) : found[i] = Own["discovery"][i]
    BY <1>3 DEF FoundInv
  <2>1. CASE g = f
    BY <1>5, <1>6, <1>7, <1>8, <2>1
  <2>2. CASE g # f
    BY <1>8, <2>2 DEF FoundInv
  <2> QED  BY <2>1, <2>2
<1> QED
  BY <1>9, <1>10

LEMMA AddDiscoveredStep ==
  ASSUME OwnInv, FoundInv, AddDiscoveredPeer
  PROVE  OwnInv' /\ FoundInv'
<1>1. PICK f, info : discovered' = Cached(f, info) /\ byHand' = byHand \cup {f}
  BY DEF AddDiscoveredPeer
<1>2. UNCHANGED knownPeers
  BY DEF AddDiscoveredPeer
<1>3. \A g \in DOMAIN discovered' \ byHand' :
        g \in DOMAIN discovered \ byHand /\ discovered'[g] = discovered[g]
  BY <1>1 DEF Cached
<1> QED
  BY <1>2, <1>3 DEF OwnInv, FoundInv, Own

LEMMA PruneStep ==
  ASSUME OwnInv, FoundInv, PruneCache
  PROVE  OwnInv' /\ FoundInv'
<1>1. PICK fresh \in SUBSET DOMAIN discovered :
        discovered' = [f \in fresh |-> discovered[f]] /\ byHand' = byHand \cap fresh
  BY DEF PruneCache
<1>2. UNCHANGED knownPeers
  BY DEF PruneCache
<1>3. \A g \in DOMAIN discovered' \ byHand' :
        g \in DOMAIN discovered \ byHand /\ discovered'[g] = discovered[g]
  BY <1>1
<1> QED
  BY <1>2, <1>3 DEF OwnInv, FoundInv, Own

(* By itself PeerDiscovery finds nobody else, and what it has cached may be  *)
(* shorter than what was announced since, never different (lookup_peer).     *)
THEOREM DhtSafety == DhtSpec => []FindsOnlyOurselves
<1>1. DhtInit => OwnInv /\ FoundInv
  BY DEF DhtInit, OwnInv, FoundInv, Own, DhtNodes
<1>2. OwnInv /\ FoundInv /\ [DhtNext]_dhtVars => OwnInv' /\ FoundInv'
  <2> SUFFICES ASSUME OwnInv, FoundInv, [DhtNext]_dhtVars PROVE OwnInv' /\ FoundInv'
    OBVIOUS
  <2>1. ASSUME NEW p \in AllPeers \ {"node"}, AddPeer("node", p) PROVE OwnInv' /\ FoundInv'
    BY <2>1, KnownStep DEF DhtNodes
  <2>2. CASE PublishSelf
    BY <2>2, KnownStep DEF PublishSelf
  <2>3. CASE RemovePeer
    BY <2>3, RemovePeerStep
  <2>4. CASE FindPeer
    BY <2>4, FindPeerStep
  <2>5. CASE AddDiscoveredPeer
    BY <2>5, AddDiscoveredStep
  <2>6. CASE PruneCache
    BY <2>6, PruneStep
  <2>7. CASE StartLookup \/ DhtClock \/ UNCHANGED dhtVars
    <3>1. UNCHANGED <<knownPeers, discovered, byHand>>
      BY <2>7 DEF StartLookup, DhtClock, dhtVars
    <3> QED  BY <3>1 DEF OwnInv, FoundInv, Own
  <2> QED  BY <2>1, <2>2, <2>3, <2>4, <2>5, <2>6, <2>7 DEF DhtNext
<1>3. OwnInv /\ FoundInv => FindsOnlyOurselves
  <2> SUFFICES ASSUME OwnInv, FoundInv, NEW f \in DOMAIN discovered \ byHand
               PROVE  /\ f \in BadPrints \cup {"discovery"} /\ discovered[f].peer = "discovery"
                      /\ discovered[f].addresses # <<>>
                      /\ "discovery" \in DOMAIN Own
                      /\ discovered[f].addresses =
                           SubSeq(Own["discovery"], 1, Len(discovered[f].addresses))
    BY DEF FindsOnlyOurselves, Own
  <2> DEFINE found == discovered[f].addresses
             own == Own["discovery"]
  <2>1. /\ f \in BadPrints \cup {"discovery"} /\ discovered[f].peer = "discovery"
        /\ "discovery" \in DOMAIN Own /\ found # <<>>
        /\ found \in Seq(Addresses) /\ Len(found) <= Len(own)
        /\ \A i \in 1..Len(found) : found[i] = own[i]
    BY DEF FoundInv
  <2>2. own \in Seq(Addresses)
    BY <2>1 DEF OwnInv
  <2> HIDE DEF found, own
  <2>3. found = SubSeq(own, 1, Len(found))
    BY <2>1, <2>2, PrefixOfSequence
  <2> QED  BY <2>1, <2>3 DEF found, own
<1> QED
  BY <1>1, <1>2, <1>3, PTL DEF DhtSpec

-----------------------------------------------------------------------------
(* Padding, fragments and the bandwidth limit (padding.rs).                   *)

LEMMA FlattenChosen ==
  ASSUME NEW S, NEW seqs \in Seq(Seq(S)), Len(seqs) # 0
  PROVE  \E flat :
           /\ flat = [i \in 1..Len(seqs) |->
                        IF i = 1 THEN seqs[i] ELSE flat[i - 1] \o seqs[i]]
           /\ FlattenSeq(seqs) = flat[Len(seqs)]
<1> DEFINE m == Len(seqs)
           step == [n \in Nat |-> [q \in Seq(S) |->
                      IF n + 1 \in 1..m THEN q \o seqs[n + 1] ELSE q]]
<1>1. m \in Nat /\ m # 0 /\ m - 1 \in Nat /\ \A i \in 1..m : seqs[i] \in Seq(S)
  BY LenProperties, ElementOfSeq
<1>2. step \in [Nat -> [Seq(S) -> Seq(S)]]
  BY <1>1, ConcatProperties
<1>3. PICK f \in [0..(m - 1) -> Seq(S)] : Iterates(f, 0..(m - 1), seqs[1], step)
  <2>1. seqs[1] \in Seq(S)
    BY <1>1
  <2> HIDE DEF step, m
  <2> QED  BY <1>1, <1>2, <2>1, RecursionUpTo
<1> DEFINE flat == [i \in 1..m |-> f[i - 1]]
<1>4. ASSUME NEW i \in 1..m
      PROVE  flat[i] = IF i = 1 THEN seqs[i] ELSE flat[i - 1] \o seqs[i]
  <2>1. i - 1 \in 0..(m - 1) /\ flat[i] = f[i - 1]
    BY <1>1
  <2>2. f[i - 1] = IF i - 1 = 0 THEN seqs[1] ELSE step[i - 1][f[i - 1 - 1]]
    BY <1>3, <2>1 DEF Iterates
  <2>3. CASE i = 1
    BY <2>1, <2>2, <2>3
  <2>4. CASE i # 1
    <3>1. i - 1 \in Nat /\ i - 1 # 0 /\ i - 1 - 1 \in 0..(m - 1) /\ i - 1 \in 1..m /\ i - 1 + 1 = i
      BY <1>1, <2>4
    <3>2. f[i - 1 - 1] \in Seq(S) /\ flat[i - 1] = f[i - 1 - 1]
      BY <3>1
    <3>3. step[i - 1][f[i - 1 - 1]] = f[i - 1 - 1] \o seqs[i]
      BY <3>1, <3>2
    <3> HIDE DEF step, flat
    <3> QED  BY <2>1, <2>2, <2>4, <3>1, <3>2, <3>3
  <2> QED  BY <2>3, <2>4
<1>5. flat = [i \in 1..m |-> IF i = 1 THEN seqs[i] ELSE flat[i - 1] \o seqs[i]]
  <2>1. flat = [i \in 1..m |-> flat[i]]
    OBVIOUS
  <2> HIDE DEF flat, m
  <2> QED  BY <1>4, <2>1
<1>6. \E h : h = [i \in 1..Len(seqs) |-> IF i = 1 THEN seqs[i] ELSE h[i - 1] \o seqs[i]]
  <2> HIDE DEF flat
  <2> QED  BY <1>5
<1> QED
  BY <1>6 DEF FlattenSeq

(* FlattenSeq follows its recursion: one sequence after the other.           *)
LEMMA FlattenRecursion ==
  ASSUME NEW S, NEW seqs \in Seq(Seq(S))
  PROVE  \E flat : /\ flat[0] = <<>>
                   /\ \A k \in Nat : k < Len(seqs) => flat[k + 1] = flat[k] \o seqs[k + 1]
                   /\ FlattenSeq(seqs) = flat[Len(seqs)]
<1>1. Len(seqs) \in Nat /\ \A i \in 1..Len(seqs) : seqs[i] \in Seq(S)
  BY LenProperties, ElementOfSeq
<1>2. CASE Len(seqs) = 0
  <2> DEFINE flat == [k \in Nat |-> <<>>]
  <2>1. seqs = <<>>
    BY <1>2, EmptySeq
  <2>2. FlattenSeq(seqs) = seqs
    BY <1>2 DEF FlattenSeq
  <2>3. flat[0] = <<>> /\ flat[Len(seqs)] = <<>> /\ \A k \in Nat : ~(k < Len(seqs))
    BY <1>2
  <2> HIDE DEF flat
  <2> QED  BY <2>1, <2>2, <2>3
<1>3. CASE Len(seqs) # 0
  <2>1. PICK h :
          /\ h = [i \in 1..Len(seqs) |-> IF i = 1 THEN seqs[i] ELSE h[i - 1] \o seqs[i]]
          /\ FlattenSeq(seqs) = h[Len(seqs)]
    BY <1>3, FlattenChosen
  <2> DEFINE flat == [k \in Nat |-> IF k = 0 THEN <<>> ELSE h[k]]
  <2>2. ASSUME NEW k \in Nat, k < Len(seqs) PROVE flat[k + 1] = flat[k] \o seqs[k + 1]
    <3>1. k + 1 \in 1..Len(seqs) /\ (k + 1) - 1 = k /\ (k + 1 = 1 <=> k = 0) /\ k + 1 # 0
      BY <1>1, <2>2
    <3>2. h[k + 1] = IF k + 1 = 1 THEN seqs[k + 1] ELSE h[(k + 1) - 1] \o seqs[k + 1]
      BY <2>1, <3>1
    <3>3. h[k + 1] = IF k = 0 THEN seqs[k + 1] ELSE h[k] \o seqs[k + 1]
      BY <3>1, <3>2
    <3>4. flat[k + 1] = h[k + 1] /\ flat[k] = IF k = 0 THEN <<>> ELSE h[k]
      BY <3>1
    <3>5. <<>> \o seqs[k + 1] = seqs[k + 1]
      BY <1>1, <3>1, ConcatEmptySeq
    <3> HIDE DEF flat
    <3> QED  BY <3>3, <3>4, <3>5
  <2>3. flat[0] = <<>> /\ flat[Len(seqs)] = h[Len(seqs)]
    BY <1>1, <1>3
  <2> HIDE DEF flat
  <2> QED  BY <2>1, <2>2, <2>3
<1> QED
  BY <1>2, <1>3

(* A sequence flattened is as long as its pieces together.                   *)
LEMMA FlattenLength ==
  ASSUME NEW S, NEW seqs \in Seq(Seq(S)), NEW at \in [Nat -> Nat], at[0] = 0,
         \A k \in Nat : k < Len(seqs) => at[k + 1] = at[k] + Len(seqs[k + 1])
  PROVE  FlattenSeq(seqs) \in Seq(S) /\ Len(FlattenSeq(seqs)) = at[Len(seqs)]
<1> DEFINE m == Len(seqs)
<1>1. m \in Nat /\ \A i \in 1..m : seqs[i] \in Seq(S)
  BY LenProperties, ElementOfSeq
<1>2. PICK flat : /\ flat[0] = <<>>
                  /\ \A k \in Nat : k < m => flat[k + 1] = flat[k] \o seqs[k + 1]
                  /\ FlattenSeq(seqs) = flat[m]
  BY FlattenRecursion
<1> HIDE DEF m
<1> DEFINE Good(k) == k <= m => flat[k] \in Seq(S) /\ Len(flat[k]) = at[k]
           T == {k \in Nat : Good(k)}
<1>3. Good(0)
  BY <1>2, EmptySeq
<1>4. ASSUME NEW k \in Nat, Good(k) PROVE Good(k + 1)
  <2> SUFFICES ASSUME k + 1 <= m
               PROVE  flat[k + 1] \in Seq(S) /\ Len(flat[k + 1]) = at[k + 1]
    OBVIOUS
  <2>1. k < m /\ k + 1 \in 1..m
    BY <1>1
  <2>2. flat[k] \in Seq(S) /\ Len(flat[k]) = at[k] /\ seqs[k + 1] \in Seq(S)
    BY <1>1, <1>4, <2>1
  <2>3. flat[k + 1] = flat[k] \o seqs[k + 1] /\ at[k + 1] = at[k] + Len(seqs[k + 1])
    BY <1>2, <2>1 DEF m
  <2>4. /\ flat[k] \o seqs[k + 1] \in Seq(S)
        /\ Len(flat[k] \o seqs[k + 1]) = Len(flat[k]) + Len(seqs[k + 1])
    BY <2>2, ConcatProperties
  <2> QED  BY <2>2, <2>3, <2>4
<1> HIDE DEF Good
<1>5. T = Nat
  <2>1. T \in SUBSET Nat /\ 0 \in T
    BY <1>3
  <2>2. ASSUME NEW k \in T PROVE k + 1 \in T
    <3>1. k \in Nat /\ Good(k) /\ k + 1 \in Nat
      OBVIOUS
    <3>2. Good(k + 1)
      BY <1>4, <3>1
    <3> QED  BY <3>1, <3>2
  <2> HIDE DEF T
  <2> QED  BY <2>1, <2>2, NatSet
<1>6. Good(m)
  BY <1>1, <1>5
<1> QED
  BY <1>1, <1>2, <1>6 DEF Good, m

LEMMA SubSeqsJoin ==
  ASSUME NEW S, NEW body \in Seq(S), NEW a \in Nat, NEW b \in Nat, a <= b, b <= Len(body)
  PROVE  SubSeq(body, 1, a) \o SubSeq(body, a + 1, b) = SubSeq(body, 1, b)
<1>1. Len(body) \in Nat
  BY LenProperties
<1>2. 1 \in 1..(Len(body) + 1) /\ a \in (1 - 1)..Len(body) /\ b \in a..Len(body)
  BY <1>1
<1> QED
  BY <1>2, ConcatAdjacentSubSeq

(* Consecutive pieces of a sequence are, one after the other, what they are  *)
(* pieces of.                                                                *)
LEMMA FlattenPieces ==
  ASSUME NEW S, NEW body \in Seq(S), NEW seqs \in Seq(Seq(S)), NEW at \in [Nat -> Nat],
         at[0] = 0,
         \A k \in Nat : k < Len(seqs) =>
           /\ at[k] <= at[k + 1] /\ at[k + 1] <= Len(body)
           /\ seqs[k + 1] = SubSeq(body, at[k] + 1, at[k + 1])
  PROVE  FlattenSeq(seqs) = SubSeq(body, 1, at[Len(seqs)])
<1> DEFINE m == Len(seqs)
<1>1. m \in Nat
  BY LenProperties
<1>2. PICK flat : /\ flat[0] = <<>>
                  /\ \A k \in Nat : k < m => flat[k + 1] = flat[k] \o seqs[k + 1]
                  /\ FlattenSeq(seqs) = flat[m]
  BY FlattenRecursion
<1> HIDE DEF m
<1> DEFINE Good(k) == k <= m => flat[k] = SubSeq(body, 1, at[k])
           T == {k \in Nat : Good(k)}
<1>3. Good(0)
  <2>1. SubSeq(body, 1, 0) \in Seq(S) /\ Len(SubSeq(body, 1, 0)) = 0
    BY SubSeqProperties
  <2> QED  BY <1>2, <2>1, EmptySeq
<1>4. ASSUME NEW k \in Nat, Good(k) PROVE Good(k + 1)
  <2> SUFFICES ASSUME k + 1 <= m
               PROVE  flat[k + 1] = SubSeq(body, 1, at[k + 1])
    OBVIOUS
  <2>1. k < m /\ k <= m
    BY <1>1
  <2>2. flat[k] = SubSeq(body, 1, at[k])
    BY <1>4, <2>1
  <2>3. flat[k + 1] = flat[k] \o seqs[k + 1]
    BY <1>2, <2>1
  <2>4. seqs[k + 1] = SubSeq(body, at[k] + 1, at[k + 1])
    BY <2>1 DEF m
  <2>5. at[k] \in Nat /\ at[k + 1] \in Nat
    OBVIOUS
  <2>6. at[k] <= at[k + 1] /\ at[k + 1] <= Len(body)
    BY <2>1 DEF m
  <2> QED  BY <2>2, <2>3, <2>4, <2>5, <2>6, SubSeqsJoin
<1> HIDE DEF Good
<1>5. T = Nat
  <2>1. T \in SUBSET Nat /\ 0 \in T
    BY <1>3
  <2>2. ASSUME NEW k \in T PROVE k + 1 \in T
    <3>1. k \in Nat /\ Good(k) /\ k + 1 \in Nat
      OBVIOUS
    <3>2. Good(k + 1)
      BY <1>4, <3>1
    <3> QED  BY <3>1, <3>2
  <2> HIDE DEF T
  <2> QED  BY <2>1, <2>2, NatSet
<1>6. Good(m)
  BY <1>1, <1>5
<1> QED
  BY <1>1, <1>2, <1>6 DEF Good, m

(* Division rounds down.                                                     *)
LEMMA DivisionBounds ==
  ASSUME NEW x \in Nat, NEW d \in Nat \ {0}
  PROVE  /\ x \div d \in Nat
         /\ (x \div d) * d <= x
         /\ x < (x \div d) * d + d
  OBVIOUS

LEMMA MultipleDivides ==
  ASSUME NEW q \in Nat, NEW d \in Nat \ {0}
  PROVE  (q * d) % d = 0
  OBVIOUS

LEMMA ProductsOrdered ==
  ASSUME NEW q \in Nat, NEW r \in Nat, NEW d \in Nat \ {0}
  PROVE  q <= r <=> q * d <= r * d
  OBVIOUS

LEMMA RoundUpBounds ==
  ASSUME NEW n \in Nat, NEW g \in Nat
  PROVE  /\ RoundUp(n, g) \in Nat /\ n <= RoundUp(n, g)
         /\ g = 0 \/ RoundUp(n, g) % g = 0
<1>1. CASE g = 0
  BY <1>1 DEF RoundUp
<1>2. CASE g # 0
  <2> DEFINE q == (n + g - 1) \div g
  <2>1. q \in Nat /\ n + g - 1 < q * g + g
    BY <1>2, DivisionBounds
  <2>2. RoundUp(n, g) = q * g
    BY <1>2 DEF RoundUp
  <2> HIDE DEF q
  <2>3. q * g \in Nat /\ n <= q * g
    BY <2>1
  <2> QED  BY <1>2, <2>1, <2>2, <2>3, MultipleDivides
<1> QED
  BY <1>1, <1>2

LEMMA PadSizesFit ==
  ASSUME NEW config \in PadConfigs, NEW n \in Nat, NEW size \in PadSizes(config, n)
  PROVE  LET g == config.granularity
         IN /\ size \in n..config.max /\ size >= PadMin(config.min, config.max)
            /\ g = 0 \/ size % g = 0 \/ size = config.max
<1> DEFINE g == config.granularity
           wanted == PadMax(config.min, n)
           least == RoundUp(wanted, g)
<1>1. /\ config.min \in Nat /\ g \in Nat /\ config.max \in Nat /\ config.range \in Nat
      /\ n <= config.max
  BY PadAssumption DEF PadSizes
<1>2. least \in Nat /\ n <= least /\ config.min <= least
  <2>1. wanted \in Nat /\ n <= wanted /\ config.min <= wanted
    BY <1>1 DEF PadMax
  <2> HIDE DEF wanted, g
  <2>2. g \in Nat
    BY <1>1
  <2>3. RoundUp(wanted, g) \in Nat /\ wanted <= RoundUp(wanted, g)
    BY <2>1, <2>2, RoundUpBounds
  <2> QED  BY <1>1, <2>1, <2>3
<1>3. PICK extra \in 0..config.range : size = PadMin(RoundUp(least + extra, g), config.max)
  BY <1>1 DEF PadSizes
<1> DEFINE total == RoundUp(least + extra, g)
<1>4. total \in Nat /\ least + extra <= total /\ (g = 0 \/ total % g = 0)
  <2>1. least + extra \in Nat /\ extra \in Nat
    BY <1>1, <1>2
  <2> DEFINE sum == least + extra
  <2> HIDE DEF sum, g
  <2>2. RoundUp(sum, g) \in Nat /\ sum <= RoundUp(sum, g) /\ (g = 0 \/ RoundUp(sum, g) % g = 0)
    BY <1>1, <2>1, RoundUpBounds DEF sum
  <2> QED  BY <2>2 DEF sum
<1> HIDE DEF least
<1>5. size = total \/ size = config.max
  BY <1>3 DEF PadMin
<1>6. /\ size \in Nat /\ size <= config.max /\ n <= size
      /\ size >= PadMin(config.min, config.max)
  BY <1>1, <1>2, <1>3, <1>4 DEF PadMin
<1> HIDE DEF total
<1> QED
  BY <1>1, <1>4, <1>5, <1>6

-----------------------------------------------------------------------------
(* What was padded last is one of the things the pad functions make.         *)
LastInv ==
  \/ padLast = [kind |-> "none", size |-> 0]
  \/ \E config \in PadConfigs, n \in 0..MaxLength : \E size \in PadSizes(config, n) :
       padLast = [kind |-> "padded", config |-> config, payload |-> n, size |-> size]
  \/ \E target \in PadTargets, n \in 0..MaxLength, header \in 0..MaxLength :
       padLast = [kind |-> "envelope", target |-> target,
                  counted |-> CountedSize(n, header), size |-> EnvelopeSize(n, header, target)]
  \/ \E target \in PadTargets, n \in 0..MaxLength :
       padLast = [kind |-> "network", target |-> target, counted |-> n,
                  size |-> NetworkSize(n, target)]

PadInv ==
  /\ LastInv
  /\ fragMessage \in 0..MaxLength
  /\ fragGot \in Seq(1..FragmentCount(fragMessage)) /\ Len(fragGot) <= MaxFragments
  /\ bandSent \in 0..(BandTarget + PacketSize - 1)

LEMMA PadInductive == PadSpec => []PadInv
<1> USE PadAssumption
<1>1. PadInit => PadInv
  BY EmptySeq DEF PadInit, PadInv, LastInv
<1>2. PadInv /\ [PadNext]_padVars => PadInv'
  <2> SUFFICES ASSUME PadInv, [PadNext]_padVars PROVE PadInv'
    OBVIOUS
  <2>1. CASE PadMessage
    <3>1. LastInv'
      BY <2>1, Zenon DEF PadMessage, LastInv
    <3> QED  BY <2>1, <3>1 DEF PadMessage, PadInv
  <2>2. CASE PadEnvelope
    <3>1. LastInv'
      BY <2>2, Zenon DEF PadEnvelope, LastInv
    <3> QED  BY <2>2, <3>1 DEF PadEnvelope, PadInv
  <2>3. CASE PadNetwork
    <3>1. LastInv'
      BY <2>3, Zenon DEF PadNetwork, LastInv
    <3> QED  BY <2>3, <3>1 DEF PadNetwork, PadInv
  <2>4. CASE SendFragments
    BY <2>4, EmptySeq DEF SendFragments, PadInv, LastInv
  <2>5. CASE FragmentArrives
    <3>1. PICK number \in 1..FragmentCount(fragMessage) : fragGot' = Append(fragGot, number)
      BY <2>5 DEF FragmentArrives
    <3>2. fragGot \in Seq(1..FragmentCount(fragMessage)) /\ Len(fragGot) < MaxFragments
      BY <2>5 DEF FragmentArrives, PadInv
    <3>3. /\ fragGot' \in Seq(1..FragmentCount(fragMessage))
          /\ Len(fragGot') = Len(fragGot) + 1
      BY <3>1, <3>2, AppendProperties
    <3>4. Len(fragGot') <= MaxFragments
      BY <3>2, <3>3, LenProperties
    <3> QED  BY <2>5, <3>3, <3>4 DEF FragmentArrives, PadInv, LastInv
  <2>6. CASE SendPackets
    <3> DEFINE gap == IF bandSent < BandTarget THEN BandTarget - bandSent ELSE 0
    <3>1. PICK k \in 1..PacketsNeeded : bandSent' = bandSent + k * PacketSize
      BY <2>6 DEF SendPackets
    <3>2. gap \in Nat /\ (gap # 0 => bandSent + gap = BandTarget) /\ bandSent \in Nat
      BY DEF PadInv
    <3>3. PacketsNeeded = (gap + PacketSize - 1) \div PacketSize
      BY DEF PacketsNeeded
    <3> HIDE DEF gap
    <3>4. PacketsNeeded \in Nat /\ PacketsNeeded * PacketSize <= gap + PacketSize - 1
      BY <3>2, <3>3, DivisionBounds
    <3>5. k \in Nat /\ k * PacketSize <= PacketsNeeded * PacketSize /\ PacketSize <= k * PacketSize
      BY <3>4, ProductsOrdered
    <3>6. k * PacketSize \in Nat /\ gap # 0
      BY <3>4, <3>5
    <3>7. bandSent' \in 0..(BandTarget + PacketSize - 1)
      BY <3>1, <3>2, <3>4, <3>5, <3>6
    <3> QED  BY <2>6, <3>7 DEF SendPackets, PadInv, LastInv
  <2>7. CASE ResetInterval
    BY <2>7 DEF ResetInterval, PadInv, LastInv
  <2>8. CASE UNCHANGED padVars
    BY <2>8 DEF padVars, PadInv, LastInv
  <2> QED
    BY <2>1, <2>2, <2>3, <2>4, <2>5, <2>6, <2>7, <2>8 DEF PadNext
<1> QED
  BY <1>1, <1>2, PTL DEF PadSpec

LEMMA PaddedFits == ASSUME PadInv PROVE PadFits
  BY PadSizesFit DEF PadInv, LastInv, PadFits

LEMMA EnvelopesComeAlike == ASSUME PadInv PROVE EnvelopesAlike
  BY PadAssumption DEF PadInv, LastInv, EnvelopesAlike, CountedSize, EnvelopeSize, EnvelopePadding,
       NetworkSize, PadMax

LEMMA BandwidthIsMet == ASSUME PadInv PROVE BandwidthMet
<1> DEFINE gap == IF bandSent < BandTarget THEN BandTarget - bandSent ELSE 0
<1>1. gap \in Nat /\ (gap > 0 <=> UnderTarget)
  BY PadAssumption DEF PadInv, UnderTarget
<1>2. PacketsNeeded = (gap + PacketSize - 1) \div PacketSize
  BY DEF PacketsNeeded
<1> HIDE DEF gap
<1> DEFINE x == gap + PacketSize - 1
<1>3. /\ PacketsNeeded \in Nat /\ PacketsNeeded * PacketSize <= x
      /\ x < PacketsNeeded * PacketSize + PacketSize
  BY <1>1, <1>2, PadAssumption, DivisionBounds
<1>4. ASSUME PacketsNeeded = 0 PROVE PacketsNeeded > 0 <=> UnderTarget
  BY <1>1, <1>3, <1>4, PadAssumption
<1>5. ASSUME PacketsNeeded # 0 PROVE PacketsNeeded > 0 <=> UnderTarget
  <2>1. PacketSize <= PacketsNeeded * PacketSize
    BY <1>3, <1>5, PadAssumption, ProductsOrdered
  <2> QED  BY <1>1, <1>3, <1>5, <2>1, PadAssumption
<1>6. bandSent < BandTarget + PacketSize
  BY PadAssumption DEF PadInv
<1> QED
  BY <1>4, <1>5, <1>6 DEF BandwidthMet

-----------------------------------------------------------------------------
(* What is read of the fragment with this number in this place.              *)
Piece(n, number, start) == SubSeq(Fragment(n, number), 1, PadMin(FragmentSize, n - start))

LEMMA PieceOfMessage ==
  ASSUME NEW n \in Nat, NEW number \in Nat \ {0}, NEW start \in Nat, start < n
  PROVE  /\ Piece(n, number, start) \in Seq(Nat)
         /\ Len(Piece(n, number, start)) = PadMin(FragmentSize, n - start)
         /\ \A j \in 1..PadMin(FragmentSize, n - start) :
              Piece(n, number, start)[j] =
                IF (number - 1) * FragmentSize + j <= n THEN (number - 1) * FragmentSize + j ELSE 0
<1> DEFINE size == PadMin(FragmentSize, n - start)
           before == (number - 1) * FragmentSize
           f == Fragment(n, number)
<1>1. size \in Nat /\ size <= FragmentSize /\ size # 0
  BY PadAssumption DEF PadMin
<1>2. before \in Nat
  BY PadAssumption
<1>3. f = [i \in 1..FragmentSize |-> IF before + i <= n THEN before + i ELSE 0]
  BY DEF Fragment
<1> HIDE DEF size, before, f
<1>4. \A j \in 1..size : f[j] = IF before + j <= n THEN before + j ELSE 0
  BY <1>1, <1>3, PadAssumption
<1>5. \A j \in 1..size : f[j] \in Nat
  BY <1>2, <1>4
<1>6. /\ SubSeq(f, 1, size) \in Seq(Nat) /\ Len(SubSeq(f, 1, size)) = size
      /\ \A j \in 1..size : SubSeq(f, 1, size)[j] = f[j]
  BY <1>1, <1>5, SubSeqProperties
<1> QED
  BY <1>4, <1>6 DEF Piece, size, before, f

LEMMA NextPlace ==
  ASSUME NEW k \in Nat
  PROVE  /\ k * FragmentSize \in Nat /\ k + 1 \in Nat
         /\ (k + 1) * FragmentSize = k * FragmentSize + FragmentSize
  BY PadAssumption

LEMMA FragmentsAreRead ==
  ASSUME NEW n \in Nat, NEW numbers \in Seq(Nat \ {0})
  PROVE  /\ Len(Reassemble(n, numbers)) = PadMin(Len(numbers) * FragmentSize, n)
         /\ (\A i \in 1..Len(numbers) : numbers[i] = i) =>
              Reassemble(n, numbers) = [i \in 1..PadMin(Len(numbers) * FragmentSize, n) |-> i]
<1> DEFINE m == Len(numbers)
           at == [k \in Nat |-> PadMin(k * FragmentSize, n)]
           seqs == [i \in 1..m |->
                      LET start == (i - 1) * FragmentSize
                      IN IF start < n
                           THEN SubSeq(Fragment(n, numbers[i]), 1, PadMin(FragmentSize, n - start))
                           ELSE <<>>]
<1>1. m \in Nat /\ \A i \in 1..m : numbers[i] \in Nat \ {0}
  BY LenProperties, ElementOfSeq
<1>2. ASSUME NEW k \in Nat
      PROVE  at[k] = PadMin(k * FragmentSize, n) /\ at[k] \in Nat
  BY NextPlace DEF PadMin
<1>3. at \in [Nat -> Nat] /\ at[0] = 0
  <2>1. at = [k \in Nat |-> at[k]] /\ 0 * FragmentSize = 0
    BY PadAssumption
  <2> HIDE DEF at
  <2> QED  BY <1>2, <2>1 DEF PadMin
<1>4. Reassemble(n, numbers) = FlattenSeq(seqs)
  BY DEF Reassemble
<1> HIDE DEF m
<1>5. ASSUME NEW k \in Nat, k < m
      PROVE  seqs[k + 1] = IF k * FragmentSize < n THEN Piece(n, numbers[k + 1], k * FragmentSize)
                           ELSE <<>>
  <2>1. k + 1 \in 1..m /\ (k + 1) - 1 = k
    BY <1>1, <1>5
  <2> QED  BY <2>1 DEF Piece
<1>6. ASSUME NEW k \in Nat, k < m
      PROVE  seqs[k + 1] \in Seq(Nat) /\ at[k + 1] = at[k] + Len(seqs[k + 1])
  <2> DEFINE start == k * FragmentSize
  <2>1. /\ start \in Nat /\ at[k] = PadMin(start, n)
        /\ at[k + 1] = PadMin(start + FragmentSize, n) /\ numbers[k + 1] \in Nat \ {0}
    <3>1. k + 1 \in 1..m
      BY <1>1, <1>6
    <3> HIDE DEF at
    <3> QED  BY <1>1, <1>2, <3>1, NextPlace
  <2>2. seqs[k + 1] = IF start < n THEN Piece(n, numbers[k + 1], start) ELSE <<>>
    BY <1>5, <1>6
  <2> HIDE DEF at, seqs, start
  <2>3. CASE start < n
    <3>1. seqs[k + 1] \in Seq(Nat) /\ Len(seqs[k + 1]) = PadMin(FragmentSize, n - start)
      BY <2>1, <2>2, <2>3, PieceOfMessage
    <3> QED  BY <2>1, <2>3, <3>1, PadAssumption DEF PadMin
  <2>4. CASE ~(start < n)
    BY <2>1, <2>2, <2>4, EmptySeq, PadAssumption DEF PadMin
  <2> QED  BY <2>3, <2>4
<1>7. seqs \in Seq(Seq(Nat)) /\ Len(seqs) = m
  <2>1. seqs \in [1..m -> Seq(Nat)]
    <3>1. \A i \in 1..m : seqs[i] \in Seq(Nat)
      <4> SUFFICES ASSUME NEW i \in 1..m PROVE seqs[i] \in Seq(Nat)
        OBVIOUS
      <4>1. i - 1 \in Nat /\ i - 1 < m /\ (i - 1) + 1 = i
        BY <1>1
      <4> HIDE DEF seqs
      <4> QED  BY <1>6, <4>1
    <3>2. seqs = [i \in 1..m |-> seqs[i]]
      OBVIOUS
    <3> HIDE DEF seqs
    <3> QED  BY <3>1, <3>2
  <2> HIDE DEF seqs
  <2> QED  BY <1>1, <2>1, SegmentIsSequence
<1>8. at[m] = PadMin(Len(numbers) * FragmentSize, n)
  BY <1>1 DEF m
<1>9. ASSUME \A i \in 1..m : numbers[i] = i
      PROVE  FlattenSeq(seqs) = [i \in 1..at[m] |-> i]
  <2> DEFINE body == [i \in 1..n |-> i]
  <2>1. body \in Seq(Nat) /\ Len(body) = n
    <3>1. body \in [1..n -> Nat]
      OBVIOUS
    <3> HIDE DEF body
    <3> QED  BY <3>1, SegmentIsSequence
  <2>2. ASSUME NEW k \in Nat, k < m
        PROVE  /\ at[k] <= at[k + 1] /\ at[k + 1] <= Len(body)
               /\ seqs[k + 1] = SubSeq(body, at[k] + 1, at[k + 1])
    <3> DEFINE start == k * FragmentSize
               piece == SubSeq(body, at[k] + 1, at[k + 1])
    <3>1. /\ start \in Nat /\ at[k] = PadMin(start, n)
          /\ at[k + 1] = PadMin(start + FragmentSize, n) /\ numbers[k + 1] = k + 1
      <4>1. k + 1 \in 1..m
        BY <1>1, <2>2
      <4> HIDE DEF at
      <4> QED  BY <1>2, <1>9, <4>1, NextPlace
    <3>2. seqs[k + 1] = IF start < n THEN Piece(n, k + 1, start) ELSE <<>>
      BY <1>5, <2>2, <3>1
    <3> HIDE DEF at, seqs
    <3>3. at[k] \in Nat /\ at[k + 1] \in Nat /\ at[k] <= at[k + 1] /\ at[k + 1] <= n
      BY <3>1, PadAssumption DEF PadMin
    <3>4. \A i \in at[k] + 1..at[k + 1] : body[i] = i
      BY <3>3
    <3> HIDE DEF body
    <3>5. /\ piece \in Seq(Nat) /\ Len(piece) = at[k + 1] - at[k]
          /\ \A j \in 1..at[k + 1] - at[k] : piece[j] = at[k] + j
      <4>1. \A i \in at[k] + 1..at[k + 1] : body[i] \in Nat
        BY <3>3, <3>4
      <4>2. /\ piece \in Seq(Nat)
            /\ Len(piece) = IF at[k] + 1 <= at[k + 1] THEN at[k + 1] - (at[k] + 1) + 1 ELSE 0
            /\ \A j \in 1..at[k + 1] - (at[k] + 1) + 1 : piece[j] = body[at[k] + 1 + j - 1]
        <5>1. at[k] + 1 \in Int /\ at[k + 1] \in Int
          BY <3>3
        <5> DEFINE low == at[k] + 1
                   high == at[k + 1]
        <5>2. piece = SubSeq(body, low, high) /\ \A i \in low..high : body[i] \in Nat
          BY <4>1
        <5> HIDE DEF piece, low, high
        <5>3. /\ piece \in Seq(Nat) /\ Len(piece) = IF low <= high THEN high - low + 1 ELSE 0
              /\ \A j \in 1..high - low + 1 : piece[j] = body[low + j - 1]
          <6>1. low \in Int /\ high \in Int
            BY <5>1 DEF low, high
          <6>2. IsSubSeq(piece, Nat, body, low, high)
            BY <5>2, <6>1, SubSeqIs
          <6> QED  BY <6>2, Zenon DEF IsSubSeq
        <5> QED  BY <5>3 DEF low, high
      <4> HIDE DEF piece
      <4>3. Len(piece) = at[k + 1] - at[k]
        BY <3>3, <4>2
      <4>4. ASSUME NEW j \in 1..at[k + 1] - at[k] PROVE piece[j] = at[k] + j
        <5>1. at[k + 1] - (at[k] + 1) + 1 = at[k + 1] - at[k] /\ at[k] + 1 + j - 1 = at[k] + j
          BY <3>3
        <5>2. at[k] + j \in at[k] + 1..at[k + 1]
          BY <3>3
        <5> QED  BY <3>4, <4>2, <5>1, <5>2
      <4> QED  BY <4>2, <4>3, <4>4
    <3> HIDE DEF piece, start
    <3>6. CASE start < n
      <4>1. at[k] = start /\ at[k + 1] - at[k] = PadMin(FragmentSize, n - start)
        BY <3>1, <3>6, PadAssumption DEF PadMin
      <4>2. k + 1 \in Nat \ {0} /\ (k + 1) - 1 = k
        OBVIOUS
      <4>3. /\ seqs[k + 1] \in Seq(Nat) /\ Len(seqs[k + 1]) = at[k + 1] - at[k]
            /\ \A j \in 1..at[k + 1] - at[k] :
                 seqs[k + 1][j] = IF start + j <= n THEN start + j ELSE 0
        <5>1. /\ Piece(n, k + 1, start) \in Seq(Nat)
              /\ Len(Piece(n, k + 1, start)) = PadMin(FragmentSize, n - start)
              /\ \A j \in 1..PadMin(FragmentSize, n - start) :
                   Piece(n, k + 1, start)[j] =
                     IF ((k + 1) - 1) * FragmentSize + j <= n
                       THEN ((k + 1) - 1) * FragmentSize + j ELSE 0
          BY <3>1, <3>6, <4>2, PieceOfMessage
        <5>2. ((k + 1) - 1) * FragmentSize = start
          BY <4>2 DEF start
        <5> QED  BY <3>2, <3>6, <4>1, <5>1, <5>2
      <4>4. \A j \in 1..at[k + 1] - at[k] : seqs[k + 1][j] = piece[j]
        <5> SUFFICES ASSUME NEW j \in 1..at[k + 1] - at[k] PROVE seqs[k + 1][j] = piece[j]
          OBVIOUS
        <5>1. start + j <= n
          BY <3>1, <3>3, <4>1
        <5> QED  BY <3>5, <4>1, <4>3, <5>1
      <4>5. seqs[k + 1] = piece
        BY <3>5, <4>3, <4>4, SeqEqual
      <4> QED  BY <2>1, <3>3, <4>5 DEF piece
    <3>7. CASE ~(start < n)
      <4>1. at[k + 1] = at[k] /\ seqs[k + 1] = <<>>
        BY <3>1, <3>2, <3>7, PadAssumption DEF PadMin
      <4>2. piece = <<>>
        BY <3>3, <3>5, <4>1, EmptySeq
      <4> QED  BY <2>1, <3>3, <4>1, <4>2 DEF piece
    <3> QED  BY <3>6, <3>7
  <2> HIDE DEF body, at, seqs
  <2>3. FlattenSeq(seqs) = SubSeq(body, 1, at[m])
    BY <1>3, <1>7, <2>1, <2>2, FlattenPieces
  <2>4. at[m] \in Nat /\ at[m] <= n
    <3>1. at[m] \in Nat
      BY <1>1, <1>3
    <3> QED  BY <1>1, <1>8, <3>1, NextPlace DEF PadMin, m
  <2>5. /\ SubSeq(body, 1, at[m]) \in Seq(Nat) /\ Len(SubSeq(body, 1, at[m])) = at[m]
        /\ \A i \in 1..at[m] : SubSeq(body, 1, at[m])[i] = i
    <3>1. \A i \in 1..at[m] : body[i] = i
      BY <2>4 DEF body
    <3> QED  BY <2>4, <3>1, SubSeqProperties
  <2>6. SubSeq(body, 1, at[m]) = [i \in 1..at[m] |-> i]
    <3> DEFINE s == SubSeq(body, 1, at[m])
    <3>1. s = [i \in 1..at[m] |-> s[i]]
      BY <2>5, LenProperties
    <3> HIDE DEF s
    <3> QED  BY <2>5, <3>1 DEF s
  <2> QED  BY <2>3, <2>6
<1>10. Len(FlattenSeq(seqs)) = at[m]
  <2> HIDE DEF seqs, at
  <2> QED  BY <1>3, <1>6, <1>7, FlattenLength
<1> HIDE DEF seqs, at
<1> QED
  BY <1>4, <1>8, <1>9, <1>10 DEF m

LEMMA LossIsTold == ASSUME PadInv PROVE FragmentsTellLoss
<1> DEFINE n == fragMessage
           count == FragmentCount(n)
           got == Len(fragGot)
           size == got * FragmentSize
<1>1. n \in Nat /\ n + FragmentSize - 1 \in Nat
  BY PadAssumption DEF PadInv
<1>2. /\ count \in Nat /\ count * FragmentSize <= n + FragmentSize - 1
      /\ n + FragmentSize - 1 < count * FragmentSize + FragmentSize
  BY <1>1, PadAssumption, DivisionBounds DEF FragmentCount
<1>3. fragGot \in Seq(1..count) /\ fragGot \in Seq(Nat \ {0}) /\ got \in Nat /\ size \in Nat
  <2>1. fragGot \in Seq(1..count) /\ 1..count \subseteq Nat \ {0}
    BY <1>2 DEF PadInv
  <2>2. fragGot \in Seq(Nat \ {0})
    <3> HIDE DEF count
    <3> QED  BY <2>1, SeqMonotonic
  <2> QED  BY <2>1, <2>2, LenProperties, PadAssumption
<1> HIDE DEF n, count, got, size
<1>4. n <= size <=> count <= got
  <2>1. count <= got => count * FragmentSize <= size
    BY <1>2, <1>3, PadAssumption, ProductsOrdered DEF size
  <2>2. got < count => size + FragmentSize <= count * FragmentSize
    <3>1. got < count => (got + 1) * FragmentSize <= count * FragmentSize
      BY <1>2, <1>3, PadAssumption, ProductsOrdered
    <3>2. (got + 1) * FragmentSize = size + FragmentSize
      BY <1>3, PadAssumption DEF size
    <3> QED  BY <3>1, <3>2
  <2> DEFINE whole == count * FragmentSize
  <2>3. whole \in Nat
    BY <1>2, PadAssumption
  <2> HIDE DEF whole
  <2> QED  BY <1>1, <1>2, <1>3, <2>1, <2>2, <2>3, PadAssumption DEF whole
<1>5. /\ Len(Reassemble(n, fragGot)) = PadMin(size, n)
      /\ (\A i \in 1..got : fragGot[i] = i) => Reassemble(n, fragGot) = [i \in 1..PadMin(size, n) |-> i]
  BY <1>1, <1>3, FragmentsAreRead DEF got, size
<1>6. PadMin(size, n) = n <=> got >= count
  BY <1>1, <1>2, <1>3, <1>4 DEF PadMin
<1>7. ASSUME fragGot = [i \in 1..count |-> i]
      PROVE  Reassemble(n, fragGot) = [i \in 1..n |-> i]
  <2>1. got = count
    <3>1. [i \in 1..count |-> i] \in [1..count -> Nat]
      BY <1>2
    <3> QED  BY <1>2, <1>7, <3>1, SegmentIsSequence DEF got
  <2>2. \A i \in 1..got : fragGot[i] = i
    BY <1>7, <2>1
  <2> QED  BY <1>2, <1>5, <1>6, <2>1, <2>2
<1> QED
  BY <1>5, <1>6, <1>7 DEF FragmentsTellLoss, n, count, got

(* Sizes stay within what is counted (pad, fragment, record_sent).           *)
THEOREM PadTypeCorrect == PadSpec => []PadTypeOK
<1>1. PadInv => PadTypeOK
  <2> SUFFICES ASSUME PadInv PROVE padLast.size \in Nat
    BY DEF PadInv, PadTypeOK
  <2>1. ASSUME NEW config \in PadConfigs, NEW n \in 0..MaxLength, NEW size \in PadSizes(config, n)
        PROVE  size \in Nat
    <3>1. n \in Nat /\ config.max \in Nat /\ size \in n..config.max
      BY <2>1, PadAssumption, PadSizesFit
    <3> QED  BY <3>1
  <2>2. ASSUME NEW target \in PadTargets, NEW n \in 0..MaxLength, NEW header \in 0..MaxLength
        PROVE  EnvelopeSize(n, header, target) \in Nat /\ NetworkSize(n, target) \in Nat
    BY PadAssumption DEF EnvelopeSize, EnvelopePadding, CountedSize, NetworkSize, PadMax
  <2>3. 0 \in 0..MaxLength
    BY PadAssumption
  <2> QED  BY <2>1, <2>2, <2>3 DEF PadInv, LastInv
<1> QED
  BY <1>1, PadInductive, PTL

(* A padded message fits and has a size that tells little, envelopes within  *)
(* their target are alike, fragments that are missing show in the length,    *)
(* and a sender that follows packets_needed() meets its target (padding.rs). *)
THEOREM SizeSafety == PadSpec => []SizesHold
<1>1. PadInv => SizesHold
  BY PaddedFits, EnvelopesComeAlike, LossIsTold, BandwidthIsMet DEF SizesHold
<1> QED
  BY <1>1, PadInductive, PTL

-----------------------------------------------------------------------------
(* The layouts (lib.rs, message_transport.rs, message.rs, chat.rs, qr.rs,     *)
(* transports.rs).                                                            *)

(* The bytes as far as both go: something cut short or extended agrees with  *)
(* what it was.                                                              *)
Agrees(bytes, whole) == \A i \in 1..Len(bytes) : i <= Len(whole) => bytes[i] = whole[i]

(* The lengths that fit the 32 bits of a length field.                       *)
Lengths == {n \in Nat : n < 2147483648}

(* The number four bytes stand for, the lowest first.                        *)
Weigh(a, b, c, d) == a + 256 * b + 65536 * c + 16777216 * d

LEMMA WordIsLength ==
  ASSUME NEW n \in Lengths
  PROVE  /\ LittleEndian(n) \in Seq(0..255) /\ Len(LittleEndian(n)) = 4
         /\ Weigh(LittleEndian(n)[1], LittleEndian(n)[2], LittleEndian(n)[3], LittleEndian(n)[4])
              = n
<1> DEFINE p == n \div 256
           q == n \div 65536
           r == n \div 16777216
           a == n % 256
           b == p % 256
           c == q % 256
           d == r % 256
<1>1. n \in Nat /\ n < 2147483648
  BY SMT DEF Lengths
<1>2. p \in Nat /\ a \in 0..255 /\ n = 256 * p + a
  BY <1>1, SMT
<1>3. q \in Nat /\ b \in 0..255 /\ p = 256 * q + b
  <2>1. q = p \div 256
    BY <1>1, SMT
  <2> HIDE DEF q, p
  <2> QED  BY <1>2, <2>1, SMT
<1>4. r \in Nat /\ c \in 0..255 /\ q = 256 * r + c
  <2>1. r = q \div 256
    BY <1>1, SMT
  <2> HIDE DEF q, r
  <2> QED  BY <1>3, <2>1, SMT
<1>5. d \in 0..255 /\ d = r
  <2>1. r < 128
    BY <1>1, SMT
  <2> HIDE DEF r
  <2> QED  BY <1>4, <2>1, SMT
<1>6. LittleEndian(n) = <<a, b, c, d>>
  BY SMT DEF LittleEndian
<1> HIDE DEF a, b, c, d, p, q, r
<1>7. Weigh(a, b, c, d) = n
  BY <1>2, <1>3, <1>4, <1>5, SMT DEF Weigh
<1>8. LittleEndian(n) \in Seq(0..255) /\ Len(LittleEndian(n)) = 4
  <2>1. a \in 0..255 /\ b \in 0..255 /\ c \in 0..255 /\ d \in 0..255
    BY <1>2, <1>3, <1>4, <1>5, Zenon
  <2> QED  BY <1>6, <2>1
<1>9. /\ LittleEndian(n)[1] = a /\ LittleEndian(n)[2] = b
      /\ LittleEndian(n)[3] = c /\ LittleEndian(n)[4] = d
  BY <1>6, SMT
<1> QED
  BY <1>7, <1>8, <1>9, Zenon

LEMMA WordWeighs ==
  ASSUME NEW bytes, NEW p
  PROVE  Word(bytes, p) = Weigh(bytes[p], bytes[p + 1], bytes[p + 2], bytes[p + 3])
BY SMT DEF Word, Weigh

(* A part of what was concatenated, read from what agrees with it.           *)
LEMMA PartIsRead ==
  ASSUME NEW S, NEW s \in Seq(S), NEW t \in Seq(S), NEW u \in Seq(S), NEW bytes \in Seq(S),
         Agrees(bytes, s \o (t \o u)), Len(s) + Len(t) <= Len(bytes)
  PROVE  /\ SubSeq(bytes, Len(s) + 1, Len(s) + Len(t)) = t
         /\ \A j \in 1..Len(t) : bytes[Len(s) + j] = t[j]
<1> DEFINE whole == s \o (t \o u)
           m == Len(s)
           n == Len(t)
           piece == SubSeq(bytes, m + 1, m + n)
<1>1. m \in Nat /\ n \in Nat /\ Len(bytes) \in Nat /\ Len(u) \in Nat
  BY LenProperties
<1>2. t \o u \in Seq(S) /\ Len(t \o u) = n + Len(u) /\ \A j \in 1..n : (t \o u)[j] = t[j]
  BY <1>1, ConcatProperties
<1>3. /\ Len(whole) = m + (n + Len(u))
      /\ \A i \in 1..m + (n + Len(u)) : whole[i] = IF i <= m THEN s[i] ELSE (t \o u)[i - m]
  <2> DEFINE rest == t \o u
  <2>1. rest \in Seq(S) /\ Len(rest) = n + Len(u)
    BY <1>2
  <2> HIDE DEF rest
  <2>2. /\ Len(s \o rest) = Len(s) + Len(rest)
        /\ \A i \in 1..Len(s) + Len(rest) :
             (s \o rest)[i] = IF i <= Len(s) THEN s[i] ELSE rest[i - Len(s)]
    <3>1. rest \in Seq(S)
      BY <2>1
    <3> HIDE DEF whole, m, n, piece
    <3> QED  BY <3>1, ConcatProperties
  <2> QED  BY <2>1, <2>2 DEF rest
<1>4. Agrees(bytes, whole)
  OBVIOUS
<1> HIDE DEF whole, m, n
<1>5. ASSUME NEW j \in 1..n PROVE bytes[m + j] = t[j]
  <2>1. m + j \in 1..Len(bytes) /\ m + j <= Len(whole) /\ ~(m + j <= m) /\ (m + j) - m = j
        /\ m + j \in 1..m + (n + Len(u))
    BY <1>1, <1>3 DEF m, n
  <2>2. bytes[m + j] = whole[m + j]
    BY <1>4, <2>1 DEF Agrees
  <2> QED  BY <1>2, <1>3, <2>1, <2>2
<1>6. piece = t
  <2>1. \A i \in m + 1..m + n : bytes[i] \in S
    <3>1. \A i \in m + 1..m + n : i \in 1..Len(bytes)
      BY <1>1 DEF m, n
    <3> QED  BY <3>1, ElementOfSeq
  <2> DEFINE low == m + 1
             high == m + n
  <2>2. low \in Int /\ high \in Int
    BY <1>1
  <2>3. /\ piece \in Seq(S) /\ Len(piece) = IF low <= high THEN high - low + 1 ELSE 0
        /\ \A j \in 1..high - low + 1 : piece[j] = bytes[low + j - 1]
    <3>1. \A i \in low..high : bytes[i] \in S
      BY <2>1
    <3>2. piece = SubSeq(bytes, low, high)
      OBVIOUS
    <3> HIDE DEF piece, low, high
    <3>3. IsSubSeq(piece, S, bytes, low, high)
      BY <2>2, <3>1, <3>2, SubSeqIs
    <3> QED  BY <3>3, Zenon DEF IsSubSeq
  <2> HIDE DEF piece
  <2>4. m + n - (m + 1) + 1 = n /\ (m + 1 <= m + n <=> n # 0)
    BY <1>1
  <2>5. ASSUME NEW j \in 1..n PROVE piece[j] = t[j]
    <3>1. low + j - 1 = m + j /\ high - low + 1 = n
      BY <1>1
    <3> QED  BY <1>5, <2>3, <3>1
  <2>6. Len(piece) = n
    BY <1>1, <2>3, <2>4
  <2> QED  BY <2>3, <2>5, <2>6, SeqEqual DEF n
<1> QED
  BY <1>5, <1>6 DEF piece, m, n

(* What is on the wire: bytes, or characters of base64 text.                 *)
Symbols == (0..255) \cup [group : Seq(0..255), at : 0..3]
Text(s, n) == s \in Seq(Symbols) /\ n \in Nat /\ Len(s) = n
Join(s, t) == s \o t

LEMMA TextHasLength ==
  ASSUME NEW s \in Seq(Symbols)
  PROVE  Text(s, Len(s))
BY LenProperties DEF Text

LEMMA JoinText ==
  ASSUME NEW s, NEW m, NEW t, NEW n, Text(s, m), Text(t, n)
  PROVE  Text(Join(s, t), m + n)
<1>1. s \in Seq(Symbols) /\ t \in Seq(Symbols) /\ m \in Nat /\ n \in Nat
  BY DEF Text
<1>2. s \o t \in Seq(Symbols) /\ Len(s \o t) = Len(s) + Len(t)
  <2> HIDE DEF Symbols
  <2> QED  BY <1>1, ConcatProperties
<1>3. Len(s) = m /\ Len(t) = n
  BY DEF Text
<1> QED
  BY <1>1, <1>2, <1>3 DEF Join, Text

LEMMA JoinAgain ==
  ASSUME NEW s, NEW m, NEW t, NEW n, NEW u, NEW k, Text(s, m), Text(t, n), Text(u, k)
  PROVE  Join(Join(s, t), u) = Join(s, Join(t, u))
<1>1. s \in Seq(Symbols) /\ t \in Seq(Symbols) /\ u \in Seq(Symbols)
  BY DEF Text
<1>2. (s \o t) \o u = s \o (t \o u)
  BY <1>1, ConcatAssociative
<1> QED
  BY <1>2 DEF Join

LEMMA JoinNone ==
  ASSUME NEW s, NEW m, Text(s, m)
  PROVE  Text(<<>>, 0) /\ Join(<<>>, s) = s /\ Join(s, <<>>) = s
<1>1. s \in Seq(Symbols)
  BY DEF Text
<1>2. <<>> \in Seq(Symbols) /\ Len(<<>>) = 0
  BY EmptySeq
<1>3. <<>> \o s = s /\ s \o <<>> = s
  BY <1>1, ConcatEmptySeq
<1> QED
  BY <1>2, <1>3 DEF Text, Join

LEMMA ConstantText ==
  ASSUME NEW c \in Symbols, NEW n \in Nat
  PROVE  Text([i \in 1..n |-> c], n)
<1> HIDE DEF Symbols
<1>1. [i \in 1..n |-> c] \in Seq(Symbols) /\ Len([i \in 1..n |-> c]) = n
  OBVIOUS
<1> QED
  BY <1>1 DEF Text

(* t, n long, comes after m others in the text the bytes agree with.         *)
Lies(bytes, m, t, n) ==
  \E s, u, k : /\ Text(s, m) /\ Text(t, n) /\ Text(u, k)
              /\ Agrees(bytes, Join(s, Join(t, u)))

(* ... and it can be read from the bytes, at a range or one by one.          *)
Reads(bytes, m, t, n) ==
  /\ SubSeq(bytes, m + 1, m + n) = t
  /\ \A j \in 1..n : bytes[m + j] = t[j]

(* A part of the text, the first part and the last, in what agrees with it.  *)
LEMMA PartOfText ==
  ASSUME NEW m, NEW t, NEW n, NEW bytes \in Seq(Symbols), Lies(bytes, m, t, n), m + n <= Len(bytes)
  PROVE  Reads(bytes, m, t, n)
<1>1. PICK s, u, k : /\ Text(s, m) /\ Text(t, n) /\ Text(u, k)
                     /\ Agrees(bytes, Join(s, Join(t, u)))
  BY Zenon DEF Lies
<1>2. /\ s \in Seq(Symbols) /\ t \in Seq(Symbols) /\ u \in Seq(Symbols)
      /\ Agrees(bytes, s \o (t \o u)) /\ Len(s) + Len(t) <= Len(bytes)
      /\ Len(s) = m /\ Len(t) = n
  BY <1>1 DEF Text, Join
<1>3. /\ SubSeq(bytes, Len(s) + 1, Len(s) + Len(t)) = t
      /\ \A j \in 1..Len(t) : bytes[Len(s) + j] = t[j]
  BY <1>2, PartIsRead, Zenon
<1> QED
  BY <1>2, <1>3 DEF Reads

LEMMA FirstOfText ==
  ASSUME NEW s, NEW m, NEW t, NEW n, Text(s, m), Text(t, n),
         NEW bytes \in Seq(Symbols), Agrees(bytes, Join(s, t)), m <= Len(bytes)
  PROVE  SubSeq(bytes, 1, m) = s /\ \A j \in 1..m : bytes[j] = s[j]
<1> DEFINE none == <<>>
<1>1. Text(none, 0) /\ Join(none, Join(s, t)) = Join(s, t)
  BY JoinNone, JoinText, Zenon
<1> HIDE DEF none
<1>2. Lies(bytes, 0, s, m)
  BY <1>1, Zenon DEF Lies
<1>3. 0 + m <= Len(bytes) /\ m \in Nat
  BY DEF Text
<1>4. Reads(bytes, 0, s, m)
  BY <1>2, <1>3, PartOfText
<1> QED
  BY <1>3, <1>4 DEF Reads

LEMMA LastOfText ==
  ASSUME NEW s, NEW m, NEW t, NEW n, Text(s, m), Text(t, n),
         NEW bytes \in Seq(Symbols), Agrees(bytes, Join(s, t)), m + n <= Len(bytes)
  PROVE  SubSeq(bytes, m + 1, m + n) = t
<1> DEFINE none == <<>>
<1>1. Text(none, 0) /\ Join(t, none) = t
  BY JoinNone, Zenon
<1> HIDE DEF none
<1>2. Lies(bytes, m, t, n)
  BY <1>1, Zenon DEF Lies
<1> QED
  BY <1>2, PartOfText, Zenon DEF Reads

LEMMA AgreesAll ==
  ASSUME NEW whole, NEW n, Text(whole, n), NEW bytes \in Seq(Symbols), Agrees(bytes, whole),
         Len(bytes) = n
  PROVE  bytes = whole
<1>1. whole \in Seq(Symbols) /\ Len(bytes) = Len(whole)
  BY DEF Text
<1>2. \A i \in 1..Len(bytes) : bytes[i] = whole[i]
  BY <1>1, LenProperties DEF Agrees
<1> QED
  BY <1>1, <1>2, SeqEqual

(* Bodies and length fields as text.                                         *)
LEMMA BodyIsRead ==
  ASSUME NEW b \in WireBodies
  PROVE  /\ Text(b, Len(b)) /\ b \in Seq(0..255) /\ Len(b) \in Nat /\ Len(b) \in Lengths
         /\ \A c \in WireBodies : 17 + Len(b) + Len(c) \in Lengths
<1>1. \A c \in WireBodies : c \in Seq(0..255)
  BY WireAssumption, SMT
<1>2. \A c \in WireBodies : Len(c) < 1000000000
  BY WireAssumption, SMT
<1>3. \A c \in WireBodies : Len(c) \in Nat
  BY <1>1, LenProperties
<1>4. \A c \in WireBodies : Len(b) \in Lengths /\ 17 + Len(b) + Len(c) \in Lengths
  <2> TAKE c \in WireBodies
  <2> DEFINE m == Len(b)
             n == Len(c)
  <2>1. m \in Nat /\ n \in Nat /\ m < 1000000000 /\ n < 1000000000
    BY <1>2, <1>3, SMT
  <2> HIDE DEF m, n
  <2>2. m \in Lengths /\ 17 + m + n \in Lengths
    BY <2>1, SMT DEF Lengths
  <2> QED  BY <2>2, Zenon DEF m, n
<1>5. b \in Seq(Symbols)
  <2>1. 0..255 \subseteq Symbols
    BY DEF Symbols
  <2> QED  BY <1>1, <2>1, SeqMonotonic, Zenon
<1> QED
  BY <1>1, <1>3, <1>4, <1>5, TextHasLength, Zenon

LEMMA LengthIsRead ==
  ASSUME NEW n \in Lengths
  PROVE  /\ Text(LittleEndian(n), 4)
         /\ \A bytes : \A p \in Nat :
              (\A j \in 1..4 : bytes[p + j] = LittleEndian(n)[j]) => Word(bytes, p + 1) = n
<1>1. 0..255 \subseteq Symbols
  BY DEF Symbols
<1>2. LittleEndian(n) \in Seq(Symbols) /\ Len(LittleEndian(n)) = 4
  BY <1>1, SeqMonotonic, WordIsLength, Zenon
<1>3. Text(LittleEndian(n), 4)
  BY <1>2 DEF Text
<1>4. ASSUME NEW bytes, NEW p \in Nat, \A j \in 1..4 : bytes[p + j] = LittleEndian(n)[j]
      PROVE  Word(bytes, p + 1) = n
  <2> DEFINE e == LittleEndian(n)
  <2> HIDE DEF e
  <2>1. \A j \in 1..4 : bytes[p + j] = e[j]
    BY <1>4, Zenon DEF e
  <2>2. /\ bytes[p + 1] = e[1] /\ bytes[p + 2] = e[2]
        /\ bytes[p + 3] = e[3] /\ bytes[p + 4] = e[4]
    BY <2>1
  <2>3. (p + 1) + 1 = p + 2 /\ (p + 1) + 2 = p + 3 /\ (p + 1) + 3 = p + 4
    OBVIOUS
  <2>4. Word(bytes, p + 1) = Weigh(bytes[p + 1], bytes[p + 2], bytes[p + 3], bytes[p + 4])
    BY <2>3, WordWeighs, Zenon
  <2>5. Word(bytes, p + 1) = Weigh(e[1], e[2], e[3], e[4])
    BY <2>2, <2>4, Zenon
  <2> QED  BY <2>5, WordIsLength, Zenon DEF e
<1> QED
  BY <1>3, <1>4

(* NetworkEnvelope: its own length is exact, so a change is an error.        *)
LEMMA NetworkIsRead ==
  ASSUME NEW body \in WireBodies, NEW extra \in WireBodies, NEW bytes \in Seq(Symbols),
         Agrees(bytes, NetworkBytes(WireValue(body, extra)))
  PROVE  /\ Text(NetworkBytes(WireValue(body, extra)), 17 + Len(body) + Len(extra))
         /\ DecodeNetwork(bytes) \subseteq {WireValue(body, extra)}
         /\ Len(bytes) = 17 + Len(body) + Len(extra)
              => DecodeNetwork(bytes) = {WireValue(body, extra)}
         /\ Len(bytes) # 17 + Len(body) + Len(extra) => DecodeNetwork(bytes) = {}
<1> DEFINE v == WireValue(body, extra)
           m == Len(body)
           n == Len(extra)
           kind == <<3>>
           one == LittleEndian(m)
           two == LittleEndian(n)
           x1 == Join(kind, one)
           x2 == Join(x1, two)
           x3 == Join(x2, body)
           r1 == Join(extra, Timestamp)
           r2 == Join(body, r1)
           r3 == Join(two, r2)
           whole == NetworkBytes(v)
<1>1. /\ Text(body, m) /\ m \in Nat /\ m \in Lengths
      /\ Text(extra, n) /\ n \in Nat /\ n \in Lengths
  BY BodyIsRead, Zenon
<1>2. Text(one, 4) /\ Text(two, 4)
  BY <1>1, LengthIsRead, Zenon
<1>3. Text(kind, 1) /\ kind[1] = 3
  BY DEF Text, Symbols
<1>4. Text(Timestamp, 8)
  <2>1. 9 \in Symbols /\ 8 \in Nat
    BY DEF Symbols
  <2> QED  BY <2>1, ConstantText, Zenon DEF Timestamp
<1>5. whole = Join(Join(x3, extra), Timestamp)
  BY Zenon DEF NetworkBytes, WireValue, Join
<1> HIDE DEF whole, kind, one, two, m, n
<1>6. Text(x1, 5) /\ Text(r1, n + 8)
  <2>1. Text(x1, 1 + 4) /\ Text(r1, n + 8)
    BY <1>1, <1>2, <1>3, <1>4, JoinText, Zenon
  <2>2. 1 + 4 = 5
    OBVIOUS
  <2> QED  BY <2>1, <2>2, Zenon
<1>7. Text(x2, 9) /\ Text(r2, m + (n + 8))
  <2>1. Text(x2, 5 + 4) /\ Text(r2, m + (n + 8))
    BY <1>1, <1>2, <1>6, JoinText, Zenon
  <2>2. 5 + 4 = 9
    OBVIOUS
  <2> QED  BY <2>1, <2>2, Zenon
<1>8. Text(x3, 9 + m) /\ Text(r3, 4 + (m + (n + 8)))
  BY <1>1, <1>2, <1>7, JoinText, Zenon
<1> HIDE DEF x1, x2, x3, r1, r2, r3
<1>9. whole = Join(x3, r1)
  <2>1. Join(Join(x3, extra), Timestamp) = Join(x3, Join(extra, Timestamp))
    BY <1>1, <1>4, <1>8, JoinAgain
  <2> QED  BY <1>5, <2>1, Zenon DEF r1
<1>10. Join(Join(x2, body), r1) = Join(x2, Join(body, r1))
  BY <1>1, <1>6, <1>7, JoinAgain
<1>11. Join(Join(x1, two), r2) = Join(x1, Join(two, r2))
  BY <1>2, <1>6, <1>7, JoinAgain
<1>12. Join(Join(kind, one), r3) = Join(kind, Join(one, r3))
  BY <1>2, <1>3, <1>8, JoinAgain
<1>13. /\ whole = Join(x2, r2) /\ whole = Join(x1, r3) /\ whole = Join(kind, Join(one, r3))
  BY <1>9, <1>10, <1>11, <1>12, Zenon DEF x1, x2, x3, r2, r3
<1>14. Agrees(bytes, whole) /\ Len(bytes) \in Nat
  BY LenProperties DEF whole
<1>15. /\ Lies(bytes, 1, one, 4) /\ Lies(bytes, 5, two, 4)
       /\ Lies(bytes, 9, body, m) /\ Lies(bytes, 9 + m, extra, n)
  <2>1. /\ Agrees(bytes, Join(kind, Join(one, r3))) /\ Agrees(bytes, Join(x1, Join(two, r2)))
        /\ Agrees(bytes, Join(x2, Join(body, r1)))
        /\ Agrees(bytes, Join(x3, Join(extra, Timestamp)))
    BY <1>9, <1>13, <1>14, Zenon DEF r1, r2, r3
  <2> QED  BY <1>1, <1>2, <1>3, <1>4, <1>6, <1>7, <1>8, <2>1, Zenon DEF Lies
<1>16. Text(Join(x3, r1), (9 + m) + (n + 8)) /\ (9 + m) + (n + 8) = 17 + m + n
  <2>1. Text(Join(x3, r1), (9 + m) + (n + 8))
    BY <1>6, <1>8, JoinText, Zenon
  <2> QED  BY <1>1, <2>1
<1>17. Text(whole, 17 + m + n)
  BY <1>9, <1>16, Zenon
<1>18. ASSUME 17 <= Len(bytes) PROVE Word(bytes, 2) = m /\ Word(bytes, 6) = n
  <2>1. 1 + 4 <= Len(bytes) /\ 5 + 4 <= Len(bytes)
    BY <1>14, <1>18
  <2>2. Reads(bytes, 1, one, 4) /\ Reads(bytes, 5, two, 4)
    BY <1>15, <2>1, PartOfText
  <2>3. /\ \A j \in 1..4 : bytes[1 + j] = one[j]
        /\ \A j \in 1..4 : bytes[5 + j] = two[j]
    BY <2>2, Zenon DEF Reads
  <2>4. 1 \in Nat /\ 5 \in Nat /\ 1 + 1 = 2 /\ 5 + 1 = 6
    OBVIOUS
  <2>5. Word(bytes, 1 + 1) = m
    BY <1>1, <2>3, <2>4, LengthIsRead, Zenon DEF one
  <2>6. Word(bytes, 5 + 1) = n
    BY <1>1, <2>3, <2>4, LengthIsRead, Zenon DEF two
  <2> QED  BY <2>4, <2>5, <2>6, Zenon
<1>19. ASSUME Len(bytes) = 17 + m + n
       PROVE  /\ SubSeq(bytes, 10, 9 + m) = body
              /\ SubSeq(bytes, 10 + m, 9 + m + n) = extra
  <2>1. /\ 9 + m <= Len(bytes) /\ (9 + m) + n <= Len(bytes)
        /\ 9 + 1 = 10 /\ (9 + m) + 1 = 10 + m /\ (9 + m) + n = 9 + m + n
    BY <1>1, <1>19
  <2>2. Reads(bytes, 9, body, m) /\ Reads(bytes, 9 + m, extra, n)
    BY <1>15, <2>1, PartOfText
  <2>3. /\ SubSeq(bytes, 9 + 1, 9 + m) = body
        /\ SubSeq(bytes, (9 + m) + 1, (9 + m) + n) = extra
    BY <2>2, Zenon DEF Reads
  <2> QED  BY <2>1, <2>3, Zenon
<1>20. ASSUME Len(bytes) = 17 + m + n PROVE DecodeNetwork(bytes) = {v}
  <2>1. 17 <= Len(bytes) /\ ~(Len(bytes) < 17)
    BY <1>1, <1>20
  <2>2. bytes = whole
    BY <1>14, <1>17, <1>20, AgreesAll
  <2>3. bytes # <<>> /\ Head(bytes) = 3
    <3>1. kind[1] = whole[1]
      <4>1. Text(Join(one, r3), 4 + (4 + (m + (n + 8))))
        BY <1>2, <1>8, JoinText, Zenon
      <4>2. whole \in Seq(Symbols) /\ Agrees(whole, Join(kind, Join(one, r3))) /\ 1 <= Len(whole)
        BY <1>1, <1>13, <1>17 DEF Agrees, Text
      <4>3. \A j \in 1..1 : whole[j] = kind[j]
        BY <1>3, <4>1, <4>2, FirstOfText, Zenon
      <4> QED  BY <4>3
    <3>2. bytes # <<>>
      BY <2>1, EmptySeq
    <3> QED  BY <1>3, <2>2, <3>1, <3>2
  <2>4. SubSeq(bytes, 10, 9 + m) = body /\ SubSeq(bytes, 10 + m, 9 + m + n) = extra
    BY <1>19, <1>20
  <2>5. Word(bytes, 2) = m /\ Word(bytes, 6) = n
    BY <1>18, <2>1
  <2>6. Head(bytes) \in 1..5
    BY <2>3
  <2> QED  BY <1>20, <2>1, <2>3, <2>4, <2>5, <2>6, Zenon DEF DecodeNetwork
<1>21. ASSUME Len(bytes) # 17 + m + n PROVE DecodeNetwork(bytes) = {}
  <2>1. CASE bytes = <<>> \/ Len(bytes) < 17
    BY <2>1, Zenon DEF DecodeNetwork
  <2>2. CASE ~(bytes = <<>> \/ Len(bytes) < 17)
    <3>1. 17 <= Len(bytes)
      BY <1>14, <2>2
    <3>2. Word(bytes, 2) = m /\ Word(bytes, 6) = n
      BY <1>18, <3>1
    <3> QED  BY <1>21, <2>2, <3>2, Zenon DEF DecodeNetwork
  <2> QED  BY <2>1, <2>2
<1> QED
  BY <1>17, <1>20, <1>21, Zenon DEF whole, m, n

(* A frame: what follows it is not looked at, and less than it is an error.  *)
LEMMA FrameIsRead ==
  ASSUME NEW body \in WireBodies, NEW extra \in WireBodies,
         NEW whole \in EncodeFrame(WireValue(body, extra)), NEW bytes \in Seq(Symbols),
         Agrees(bytes, whole)
  PROVE  /\ whole \in Seq(Symbols)
         /\ DecodeFrame(bytes) \subseteq {WireValue(body, extra)}
         /\ Len(bytes) = Len(whole) => DecodeFrame(bytes) = {WireValue(body, extra)}
         /\ Len(bytes) < Len(whole) => DecodeFrame(bytes) = {}
<1> DEFINE v == WireValue(body, extra)
           net == NetworkBytes(v)
           k == 17 + Len(body) + Len(extra)
           size == LittleEndian(k)
           head == Join(FrameMagic, size)
           rest == Join(size, net)
<1>1. Text(net, k) /\ DecodeNetwork(net) = {v}
  <2>1. <<>> \in Seq(Symbols) /\ Agrees(<<>>, net)
    BY EmptySeq DEF Agrees
  <2>2. Text(net, k)
    BY <2>1, NetworkIsRead, Zenon
  <2>3. net \in Seq(Symbols) /\ Agrees(net, net) /\ Len(net) = k
    BY <2>2, Zenon DEF Agrees, Text
  <2> QED  BY <2>2, <2>3, NetworkIsRead, Zenon
<1>2. k \in Lengths /\ k \in Nat
  <2>1. k \in Lengths
    BY BodyIsRead, Zenon
  <2>2. Len(body) \in Nat /\ Len(extra) \in Nat
    BY BodyIsRead, Zenon
  <2> QED  BY <2>1, <2>2
<1>3. whole = Join(head, net)
  <2>1. Len(net) = k
    BY <1>1, Zenon DEF Text
  <2>2. whole = (FrameMagic \o LittleEndian(Len(net))) \o net
    BY Zenon DEF EncodeFrame
  <2> QED  BY <2>1, <2>2, Zenon DEF Join
<1> HIDE DEF net, k, size, head, rest
<1>4. Text(FrameMagic, 4) /\ Text(size, 4)
  <2>1. Text(FrameMagic, 4)
    BY DEF FrameMagic, Text, Symbols
  <2> QED  BY <1>2, <2>1, LengthIsRead, Zenon DEF size
<1>5. Text(head, 8) /\ Text(rest, 4 + k)
  <2>1. Text(head, 4 + 4) /\ Text(rest, 4 + k)
    BY <1>1, <1>4, JoinText, Zenon DEF head, rest
  <2>2. 4 + 4 = 8
    OBVIOUS
  <2> QED  BY <2>1, <2>2, Zenon
<1>6. Text(whole, 8 + k)
  BY <1>1, <1>3, <1>5, JoinText, Zenon
<1>7. whole = Join(FrameMagic, rest)
  <2>1. Join(Join(FrameMagic, size), net) = Join(FrameMagic, Join(size, net))
    BY <1>1, <1>4, JoinAgain
  <2> QED  BY <1>3, <2>1, Zenon DEF head, rest
<1>8. Len(bytes) \in Nat
  BY LenProperties
<1>9. Agrees(bytes, Join(head, net)) /\ Agrees(bytes, Join(FrameMagic, Join(size, net)))
  BY <1>3, <1>7, Zenon DEF rest
<1>10. Lies(bytes, 4, size, 4)
  BY <1>1, <1>4, <1>9, Zenon DEF Lies
<1>11. ASSUME 8 <= Len(bytes) PROVE SubSeq(bytes, 1, 4) = FrameMagic /\ Word(bytes, 5) = k
  <2>1. 4 <= Len(bytes) /\ 4 + 4 <= Len(bytes) /\ 4 \in Nat /\ 4 + 1 = 5
    BY <1>8, <1>11
  <2>2. Agrees(bytes, Join(FrameMagic, rest))
    BY <1>9, Zenon DEF rest
  <2>3. SubSeq(bytes, 1, 4) = FrameMagic
    BY <1>4, <1>5, <2>1, <2>2, FirstOfText, Zenon
  <2>4. Reads(bytes, 4, size, 4)
    BY <1>10, <2>1, PartOfText
  <2>5. \A j \in 1..4 : bytes[4 + j] = size[j]
    BY <2>4, Zenon DEF Reads
  <2>6. Word(bytes, 4 + 1) = k
    BY <1>2, <2>1, <2>5, LengthIsRead, Zenon DEF size
  <2> QED  BY <2>1, <2>3, <2>6, Zenon
<1>12. ASSUME 8 + k <= Len(bytes) PROVE DecodeFrame(bytes) = {v}
  <2>1. ~(Len(bytes) < 8) /\ 8 <= Len(bytes) /\ ~(Len(bytes) < 8 + k) /\ 8 + 1 = 9
    BY <1>2, <1>8, <1>12
  <2>2. SubSeq(bytes, 8 + 1, 8 + k) = net
    BY <1>1, <1>5, <1>9, <1>12, LastOfText, Zenon
  <2>3. SubSeq(bytes, 9, 8 + k) = net
    BY <2>1, <2>2, Zenon
  <2>4. SubSeq(bytes, 1, 4) = FrameMagic /\ Word(bytes, 5) = k
    BY <1>11, <2>1
  <2>5. DecodeFrame(bytes) = DecodeNetwork(net)
    BY <2>1, <2>3, <2>4, Zenon DEF DecodeFrame
  <2> QED  BY <1>1, <2>5, Zenon
<1>13. ASSUME ~(8 + k <= Len(bytes)) PROVE DecodeFrame(bytes) = {}
  <2>1. CASE Len(bytes) < 8
    BY <2>1, Zenon DEF DecodeFrame
  <2>2. CASE ~(Len(bytes) < 8)
    <3>1. 8 <= Len(bytes) /\ Len(bytes) < 8 + k
      BY <1>2, <1>8, <1>13, <2>2
    <3>2. Word(bytes, 5) = k
      BY <1>11, <3>1
    <3> QED  BY <2>2, <3>1, <3>2, Zenon DEF DecodeFrame
  <2> QED  BY <2>1, <2>2
<1>14. whole \in Seq(Symbols) /\ Len(whole) = 8 + k
  BY <1>6, Zenon DEF Text
<1>15. /\ Len(bytes) = Len(whole) => 8 + k <= Len(bytes)
       /\ Len(bytes) < Len(whole) => ~(8 + k <= Len(bytes))
  BY <1>2, <1>14
<1> QED
  BY <1>12, <1>13, <1>14, <1>15, Zenon

(* A header: cut after its fixed part it reads as one without data.          *)
LEMMA HeaderIsRead ==
  ASSUME NEW extra \in WireBodies, NEW bytes \in Seq(Symbols),
         Agrees(bytes, HeaderBytes(WireValue(FixedHeader, extra)))
  PROVE  /\ HeaderBytes(WireValue(FixedHeader, extra)) \in Seq(Symbols)
         /\ \A w \in DecodeHeader(bytes) :
              \/ w = WireValue(FixedHeader, extra)
              \/ Len(bytes) = 48 /\ w = WireValue(FixedHeader, <<>>)
         /\ Len(bytes) = Len(HeaderBytes(WireValue(FixedHeader, extra)))
              => DecodeHeader(bytes) = {WireValue(FixedHeader, extra)}
<1> DEFINE v == WireValue(FixedHeader, extra)
           n == Len(extra)
           size == LittleEndian(n)
           head == Join(FixedHeader, size)
           rest == Join(size, extra)
           whole == HeaderBytes(v)
<1>1. Text(extra, n) /\ n \in Nat /\ n \in Lengths
  BY BodyIsRead, Zenon
<1>2. Text(FixedHeader, 48) /\ Text(size, 4)
  <2>1. 5 \in Symbols /\ 48 \in Nat
    BY DEF Symbols
  <2> QED  BY <1>1, <2>1, ConstantText, LengthIsRead, Zenon DEF FixedHeader
<1>3. whole = Join(head, extra)
  BY Zenon DEF HeaderBytes, WireValue, Join
<1> HIDE DEF n, size, head, rest, whole
<1>4. Text(head, 52) /\ Text(rest, 4 + n)
  <2>1. Text(head, 48 + 4) /\ Text(rest, 4 + n)
    BY <1>1, <1>2, JoinText, Zenon DEF head, rest
  <2>2. 48 + 4 = 52
    OBVIOUS
  <2> QED  BY <2>1, <2>2, Zenon
<1>5. Text(whole, 52 + n)
  BY <1>1, <1>3, <1>4, JoinText, Zenon
<1>6. whole = Join(FixedHeader, rest)
  <2>1. Join(Join(FixedHeader, size), extra) = Join(FixedHeader, Join(size, extra))
    BY <1>1, <1>2, JoinAgain
  <2> QED  BY <1>3, <2>1, Zenon DEF head, rest
<1>7. Len(bytes) \in Nat /\ Agrees(bytes, whole)
  BY LenProperties DEF whole
<1>8. /\ Agrees(bytes, Join(head, extra)) /\ Agrees(bytes, Join(FixedHeader, rest))
      /\ Lies(bytes, 48, size, 4)
  <2>1. /\ Agrees(bytes, Join(head, extra)) /\ Agrees(bytes, Join(FixedHeader, rest))
        /\ Agrees(bytes, Join(FixedHeader, Join(size, extra)))
    BY <1>3, <1>6, <1>7, Zenon DEF rest
  <2> QED  BY <1>1, <1>2, <2>1, Zenon DEF Lies
<1>9. ASSUME 48 <= Len(bytes) PROVE SubSeq(bytes, 1, 48) = FixedHeader
  BY <1>2, <1>4, <1>8, <1>9, FirstOfText, Zenon
<1>10. ASSUME 52 <= Len(bytes) PROVE Word(bytes, 49) = n
  <2>1. 48 + 4 <= Len(bytes) /\ 48 \in Nat /\ 48 + 1 = 49
    BY <1>10
  <2>2. Reads(bytes, 48, size, 4)
    BY <1>8, <2>1, PartOfText
  <2>3. \A j \in 1..4 : bytes[48 + j] = size[j]
    BY <2>2, Zenon DEF Reads
  <2> DEFINE p == 48
  <2>4. p \in Nat /\ \A j \in 1..4 : bytes[p + j] = size[j]
    BY <2>3
  <2>5. p + 1 = 49
    OBVIOUS
  <2> HIDE DEF p
  <2>6. Word(bytes, p + 1) = n
    BY <1>1, <2>4, LengthIsRead, Zenon DEF size
  <2> QED  BY <2>5, <2>6, Zenon
<1>11. ASSUME 52 + n <= Len(bytes) PROVE DecodeHeader(bytes) = {v}
  <2>1. /\ 48 <= Len(bytes) /\ 52 <= Len(bytes) /\ ~(Len(bytes) < 48) /\ Len(bytes) # 48
        /\ ~(Len(bytes) < 52) /\ ~(Len(bytes) < 52 + n) /\ 52 + 1 = 53
    <3> DEFINE l == Len(bytes)
    <3>1. l \in Nat /\ n \in Nat /\ 52 + n <= l
      BY <1>1, <1>7, <1>11, Zenon
    <3> HIDE DEF l
    <3>2. /\ 48 <= l /\ 52 <= l /\ ~(l < 48) /\ l # 48 /\ ~(l < 52) /\ ~(l < 52 + n)
          /\ 52 + 1 = 53
      BY <3>1
    <3> QED  BY <3>2, Zenon DEF l
  <2>2. SubSeq(bytes, 52 + 1, 52 + n) = extra
    <3> DEFINE p == 52
    <3>1. Text(head, p) /\ p + n <= Len(bytes)
      BY <1>4, <1>11, Zenon
    <3> HIDE DEF p
    <3>2. SubSeq(bytes, p + 1, p + n) = extra
      BY <1>1, <1>8, <3>1, LastOfText, Zenon
    <3> QED  BY <3>2, Zenon DEF p
  <2>3. SubSeq(bytes, 53, 52 + n) = extra
    BY <2>1, <2>2, Zenon
  <2>4. SubSeq(bytes, 1, 48) = FixedHeader /\ Word(bytes, 49) = n
    BY <1>9, <1>10, <2>1
  <2> QED  BY <2>1, <2>3, <2>4, Zenon DEF DecodeHeader
<1>12. ASSUME ~(52 + n <= Len(bytes)), NEW w \in DecodeHeader(bytes)
       PROVE  Len(bytes) = 48 /\ w = WireValue(FixedHeader, <<>>)
  <2>1. CASE Len(bytes) < 48
    BY <1>12, <2>1, Zenon DEF DecodeHeader
  <2>2. CASE ~(Len(bytes) < 48) /\ Len(bytes) = 48
    <3>1. SubSeq(bytes, 1, 48) = FixedHeader
      BY <1>7, <1>9, <2>2
    <3> QED  BY <1>12, <2>2, <3>1, Zenon DEF DecodeHeader
  <2>3. CASE ~(Len(bytes) < 48) /\ Len(bytes) # 48 /\ Len(bytes) < 52
    BY <1>12, <2>3, Zenon DEF DecodeHeader
  <2>4. CASE ~(Len(bytes) < 48) /\ Len(bytes) # 48 /\ ~(Len(bytes) < 52)
    <3>1. 52 <= Len(bytes) /\ Len(bytes) < 52 + n
      BY <1>1, <1>7, <1>12, <2>4
    <3>2. Word(bytes, 49) = n
      BY <1>10, <3>1
    <3> QED  BY <1>12, <2>4, <3>1, <3>2, Zenon DEF DecodeHeader
  <2> QED  BY <2>1, <2>2, <2>3, <2>4
<1>13. whole \in Seq(Symbols) /\ Len(whole) = 52 + n
  BY <1>5, Zenon DEF Text
<1>14. Len(bytes) = Len(whole) => 52 + n <= Len(bytes)
  BY <1>1, <1>13
<1> QED
  <2>1. whole = HeaderBytes(v)
    BY DEF whole
  <2>2. \A w \in DecodeHeader(bytes) : w = v \/ (Len(bytes) = 48 /\ w = WireValue(FixedHeader, <<>>))
    <3>1. CASE 52 + n <= Len(bytes)
      <4>1. DecodeHeader(bytes) = {v}
        BY <1>11, <3>1
      <4> TAKE w \in DecodeHeader(bytes)
      <4>2. w = v
        BY <4>1, Zenon
      <4> QED  BY <4>2
    <3>2. CASE ~(52 + n <= Len(bytes))
      <4> TAKE w \in DecodeHeader(bytes)
      <4> QED  BY <1>12, <3>2
    <3> QED  BY <3>1, <3>2
  <2>3. Len(bytes) = Len(whole) => DecodeHeader(bytes) = {v}
    BY <1>11, <1>14, Zenon
  <2> QED  BY <1>13, <2>1, <2>2, <2>3, Zenon

(* The body all the bindings of a chat packet or a QR code use.              *)
LEMMA LongestIsBody == LongestBody \in WireBodies
<1> DEFINE sizes == {Len(b) : b \in WireBodies}
<1>1. sizes \subseteq Nat /\ sizes # {}
  <2>1. \A b \in WireBodies : Len(b) \in Nat
    BY BodyIsRead, Zenon
  <2>2. WireBodies # {}
    BY WireAssumption, SMT
  <2> QED  BY <2>1, <2>2
<1>2. \A k \in sizes : k <= 1000000000
  BY WireAssumption, SMT
<1>3. PICK top \in sizes : \A k \in sizes : k <= top
  <2> HIDE DEF sizes
  <2>1. \E bound \in Nat : \A k \in sizes : k <= bound
    BY <1>2, SMT
  <2> QED  BY <1>1, <2>1, GreatestNumber, Zenon
<1>4. \E b \in WireBodies : \A c \in WireBodies : Len(c) <= Len(b)
  BY <1>3
<1> QED
  BY <1>4, Zenon DEF LongestBody

(* A chat packet: the ciphertext is all the rest, the header is exact.       *)
ChatBytes(body, extra) == LittleEndian(Len(extra)) \o extra \o body

LEMMA ChatIsRead ==
  ASSUME NEW body \in WireBodies, NEW extra \in WireBodies,
         NEW bytes \in Seq(Symbols), Agrees(bytes, ChatBytes(body, extra))
  PROVE  /\ ChatBytes(body, extra) \in Seq(Symbols)
         /\ \A w \in DecodeChat(bytes) : w.extra = extra
         /\ Len(bytes) = Len(ChatBytes(body, extra))
              => DecodeChat(bytes) = {WireValue(body, extra)}
<1> DEFINE whole == ChatBytes(body, extra)
           m == Len(body)
           n == Len(extra)
           size == LittleEndian(n)
           head == Join(size, extra)
           rest == Join(extra, body)
<1>1. Text(body, m) /\ m \in Nat /\ Text(extra, n) /\ n \in Nat /\ n \in Lengths
  BY BodyIsRead, Zenon
<1>2. Text(size, 4)
  BY <1>1, LengthIsRead, Zenon
<1>3. whole = Join(head, body)
  BY Zenon DEF Join, ChatBytes
<1> HIDE DEF whole, m, n, size, head, rest
<1>4. Text(head, 4 + n) /\ Text(rest, n + m)
  BY <1>1, <1>2, JoinText, Zenon DEF head, rest
<1>5. Text(whole, (4 + n) + m)
  BY <1>1, <1>3, <1>4, JoinText, Zenon
<1>6. whole = Join(size, rest)
  <2>1. Join(Join(size, extra), body) = Join(size, Join(extra, body))
    BY <1>1, <1>2, JoinAgain
  <2> QED  BY <1>3, <2>1, Zenon DEF head, rest
<1>7. Len(bytes) \in Nat
  BY LenProperties
<1>8. Agrees(bytes, Join(head, body)) /\ Agrees(bytes, Join(size, rest))
  BY <1>3, <1>6, Zenon DEF whole
<1>9. Lies(bytes, 4, extra, n)
  <2>1. Agrees(bytes, Join(size, Join(extra, body)))
    BY <1>8, Zenon DEF rest
  <2> QED  BY <1>1, <1>2, <2>1, Zenon DEF Lies
<1>10. ASSUME 4 <= Len(bytes) PROVE Word(bytes, 1) = n
  <2>1. \A j \in 1..4 : bytes[j] = size[j]
    BY <1>2, <1>4, <1>8, <1>10, FirstOfText, Zenon
  <2>2. 0 \in Nat /\ 0 + 1 = 1 /\ \A j \in 1..4 : bytes[0 + j] = size[j]
    BY <2>1
  <2>3. Word(bytes, 0 + 1) = n
    BY <1>1, <2>2, LengthIsRead, Zenon DEF size
  <2> QED  BY <2>2, <2>3, Zenon
<1>11. ASSUME 4 + n <= Len(bytes)
       PROVE  DecodeChat(bytes) = {WireValue(SubSeq(bytes, 5 + n, Len(bytes)), extra)}
  <2>1. 4 <= Len(bytes) /\ ~(Len(bytes) < 4) /\ ~(Len(bytes) < 4 + n) /\ 4 + 1 = 5
    BY <1>1, <1>7, <1>11
  <2>2. Reads(bytes, 4, extra, n)
    BY <1>9, <1>11, PartOfText
  <2>3. SubSeq(bytes, 4 + 1, 4 + n) = extra
    BY <2>2, Zenon DEF Reads
  <2>4. Word(bytes, 1) = n
    BY <1>10, <2>1
  <2>5. SubSeq(bytes, 5, 4 + n) = extra
    BY <2>1, <2>3, Zenon
  <2> QED  BY <2>1, <2>4, <2>5, Zenon DEF DecodeChat
<1>12. ASSUME ~(4 + n <= Len(bytes)) PROVE DecodeChat(bytes) = {}
  <2>1. CASE Len(bytes) < 4
    BY <2>1, Zenon DEF DecodeChat
  <2>2. CASE ~(Len(bytes) < 4)
    <3>1. 4 <= Len(bytes) /\ Len(bytes) < 4 + n
      BY <1>1, <1>7, <1>12, <2>2
    <3>2. Word(bytes, 1) = n
      BY <1>10, <3>1
    <3> QED  BY <2>2, <3>1, <3>2, Zenon DEF DecodeChat
  <2> QED  BY <2>1, <2>2
<1>13. \A w \in DecodeChat(bytes) : w.extra = extra
  <2> TAKE w \in DecodeChat(bytes)
  <2>1. w = WireValue(SubSeq(bytes, 5 + n, Len(bytes)), extra)
    BY <1>11, <1>12
  <2> QED  BY <2>1 DEF WireValue
<1>14. ASSUME Len(bytes) = Len(whole) PROVE DecodeChat(bytes) = {WireValue(body, extra)}
  <2>1. Len(bytes) = (4 + n) + m
    BY <1>5, <1>14, Zenon DEF Text
  <2>2. /\ (4 + n) + m <= Len(bytes) /\ 4 + n <= Len(bytes)
        /\ (4 + n) + 1 = 5 + n
    BY <1>1, <2>1
  <2>3. SubSeq(bytes, (4 + n) + 1, (4 + n) + m) = body
    <3> DEFINE p == 4 + n
    <3>1. Text(head, p) /\ p + m <= Len(bytes) /\ Agrees(bytes, Join(head, body))
      BY <1>4, <1>8, <2>2, Zenon
    <3> HIDE DEF p
    <3>2. SubSeq(bytes, p + 1, p + m) = body
      BY <1>1, <3>1, LastOfText, Zenon
    <3> QED  BY <3>2, Zenon DEF p
  <2>4. SubSeq(bytes, 5 + n, Len(bytes)) = body
    BY <2>1, <2>2, <2>3, Zenon
  <2> QED  BY <1>11, <2>2, <2>4
<1>15. whole \in Seq(Symbols)
  BY <1>5, Zenon DEF Text
<1> QED
  BY <1>13, <1>14, <1>15, Zenon DEF whole

(* A QR code: it is the whole identity or an error.                          *)
LEMMA QrIsRead ==
  ASSUME NEW bytes \in Seq(Symbols), Agrees(bytes, QrMagic \o LongestBody)
  PROVE  /\ QrMagic \o LongestBody \in Seq(Symbols)
         /\ DecodeQr(bytes) \subseteq {WireValue(LongestBody, <<>>)}
         /\ Len(bytes) = Len(QrMagic \o LongestBody)
              => DecodeQr(bytes) = {WireValue(LongestBody, <<>>)}
<1> DEFINE m == Len(LongestBody)
           whole == QrMagic \o LongestBody
<1>1. Text(LongestBody, m) /\ m \in Nat
  BY BodyIsRead, LongestIsBody, Zenon
<1>2. Text(QrMagic, 5)
  BY DEF QrMagic, Text, Symbols
<1>3. whole = Join(QrMagic, LongestBody) /\ Agrees(bytes, Join(QrMagic, LongestBody))
  BY Zenon DEF Join
<1> HIDE DEF m, whole
<1>4. Text(whole, 5 + m)
  BY <1>1, <1>2, <1>3, JoinText, Zenon
<1>5. ASSUME Len(bytes) = Len(whole) PROVE DecodeQr(bytes) = {WireValue(LongestBody, <<>>)}
  <2>1. Len(bytes) = 5 + m
    BY <1>4, <1>5, Zenon DEF Text
  <2>2. 5 <= Len(bytes) /\ 5 + m <= Len(bytes) /\ 5 + 1 = 6 /\ ~(Len(bytes) < 5)
    BY <1>1, <2>1
  <2>3. SubSeq(bytes, 1, 5) = QrMagic
    BY <1>1, <1>2, <1>3, <2>2, FirstOfText, Zenon
  <2>4. SubSeq(bytes, 5 + 1, 5 + m) = LongestBody
    BY <1>1, <1>2, <1>3, <2>2, LastOfText, Zenon
  <2>5. SubSeq(bytes, 6, Len(bytes)) = LongestBody
    BY <2>1, <2>2, <2>4, Zenon
  <2>6. IsPrefix(LongestBody, LongestBody)
    <3>1. Len(LongestBody) <= Len(LongestBody)
      BY <1>1 DEF m
    <3> QED  BY <3>1, Zenon DEF IsPrefix
  <2> QED  BY <2>2, <2>3, <2>5, <2>6, Zenon DEF DecodeQr
<1>6. DecodeQr(bytes) \subseteq {WireValue(LongestBody, <<>>)}
  BY DEF DecodeQr
<1>7. whole \in Seq(Symbols)
  BY <1>4, Zenon DEF Text
<1> QED
  BY <1>5, <1>6, <1>7 DEF whole

LEMMA ReverseTwice ==
  ASSUME NEW S, NEW s \in Seq(S)
  PROVE  Reverse(s) \in Seq(S) /\ Len(Reverse(s)) = Len(s) /\ Reverse(Reverse(s)) = s
<1> DEFINE n == Len(s)
           r == [i \in 1..n |-> s[(n - i) + 1]]
<1>1. n \in Nat /\ \A i \in 1..n : s[i] \in S
  BY LenProperties, ElementOfSeq
<1> HIDE DEF n
<1>2. r \in Seq(S) /\ Len(r) = n /\ \A i \in 1..n : r[i] = s[(n - i) + 1]
  BY <1>1
<1>3. Reverse(s) = r
  BY DEF Reverse, n
<1> HIDE DEF r
<1>4. Reverse(r) = [i \in 1..n |-> r[(n - i) + 1]]
  BY <1>2 DEF Reverse
<1>5. \A i \in 1..n : r[(n - i) + 1] = s[i]
  <2> TAKE i \in 1..n
  <2>1. (n - i) + 1 \in 1..n /\ (n - ((n - i) + 1)) + 1 = i
    BY <1>1
  <2> QED  BY <1>2, <2>1
<1>6. Reverse(r) = [i \in 1..n |-> s[i]]
  BY <1>4, <1>5
<1>7. s = [i \in 1..n |-> s[i]]
  BY LenProperties DEF n
<1> QED
  BY <1>2, <1>3, <1>6, <1>7 DEF n

(* A WebSocket frame: what follows it is not looked at.                      *)
LEMMA WsIsRead ==
  ASSUME NEW body \in WireBodies, NEW bytes \in Seq(Symbols),
         Agrees(bytes, BigEndian(Len(body)) \o body)
  PROVE  /\ BigEndian(Len(body)) \o body \in Seq(Symbols)
         /\ DecodeWs(bytes) \subseteq {WireValue(body, <<>>)}
         /\ Len(bytes) = Len(BigEndian(Len(body)) \o body)
              => DecodeWs(bytes) = {WireValue(body, <<>>)}
<1> DEFINE m == Len(body)
           size == BigEndian(m)
           whole == size \o body
<1>1. Text(body, m) /\ m \in Nat /\ m \in Lengths
  BY BodyIsRead, Zenon
<1> HIDE DEF m
<1>2. Text(size, 4) /\ Reverse(size) = LittleEndian(m)
  <2> DEFINE e == LittleEndian(m)
  <2>1. e \in Seq(Symbols) /\ Len(e) = 4
    BY <1>1, LengthIsRead, Zenon DEF Text
  <2>2. size = Reverse(e)
    BY Zenon DEF BigEndian
  <2> HIDE DEF e, size
  <2>3. size \in Seq(Symbols) /\ Len(size) = Len(e) /\ Reverse(size) = e
    BY <2>1, <2>2, ReverseTwice, Zenon
  <2> QED  BY <2>1, <2>3 DEF e, Text
<1>3. whole = Join(size, body) /\ Agrees(bytes, Join(size, body))
  BY Zenon DEF Join, m
<1> HIDE DEF size, whole
<1>4. Text(whole, 4 + m)
  BY <1>1, <1>2, <1>3, JoinText, Zenon
<1>5. Len(bytes) \in Nat
  BY LenProperties
<1>6. ASSUME 4 <= Len(bytes) PROVE NetworkWord(bytes, 1) = m
  <2> DEFINE e == LittleEndian(m)
  <2>1. SubSeq(bytes, 1, 4) = size
    BY <1>1, <1>2, <1>3, <1>6, FirstOfText, Zenon
  <2>2. 1 + 3 = 4 /\ 0 \in Nat /\ 0 + 1 = 1
    OBVIOUS
  <2>3. NetworkWord(bytes, 1) = Word(e, 1)
    BY <1>2, <2>1, <2>2, Zenon DEF NetworkWord
  <2>4. \A j \in 1..4 : e[0 + j] = e[j]
    OBVIOUS
  <2>5. Word(e, 0 + 1) = m
    BY <1>1, <2>2, <2>4, LengthIsRead, Zenon
  <2> QED  BY <2>2, <2>3, <2>5, Zenon
<1>7. ASSUME 4 + m <= Len(bytes) PROVE DecodeWs(bytes) = {WireValue(body, <<>>)}
  <2>1. 4 <= Len(bytes) /\ ~(Len(bytes) < 4) /\ ~(Len(bytes) < 4 + m) /\ 4 + 1 = 5
    BY <1>1, <1>5, <1>7
  <2>2. SubSeq(bytes, 4 + 1, 4 + m) = body
    BY <1>1, <1>2, <1>3, <1>7, LastOfText, Zenon
  <2>3. SubSeq(bytes, 5, 4 + m) = body /\ NetworkWord(bytes, 1) = m
    BY <1>6, <2>1, <2>2, Zenon
  <2> QED  BY <2>1, <2>3, Zenon DEF DecodeWs
<1>8. ASSUME ~(4 + m <= Len(bytes)) PROVE DecodeWs(bytes) = {}
  <2>1. CASE Len(bytes) < 4
    BY <2>1, Zenon DEF DecodeWs
  <2>2. CASE ~(Len(bytes) < 4)
    <3>1. 4 <= Len(bytes) /\ Len(bytes) < 4 + m
      BY <1>1, <1>5, <1>8, <2>2
    <3>2. NetworkWord(bytes, 1) = m
      BY <1>6, <3>1
    <3> QED  BY <2>2, <3>1, <3>2, Zenon DEF DecodeWs
  <2> QED  BY <2>1, <2>2
<1>9. whole \in Seq(Symbols) /\ Len(whole) = 4 + m
  BY <1>4, Zenon DEF Text
<1>10. Len(bytes) = Len(whole) => 4 + m <= Len(bytes)
  BY <1>1, <1>9
<1>11. whole = BigEndian(Len(body)) \o body
  BY DEF whole, size, m
<1> QED
  BY <1>7, <1>8, <1>9, <1>10, <1>11, Zenon

(* Base64 text: what was encoded is read from all its groups.                *)
LEMMA GroupsAreRead ==
  ASSUME NEW body \in Seq(0..255)
  PROVE  /\ Base64(body) \in Seq(Symbols)
         /\ DecodeHttp(Base64(body)) = {WireValue(body, <<>>)}
<1> DEFINE n == Len(body)
           m == (n + 2) \div 3
           end(g) == IF 3 * g < n THEN 3 * g ELSE n
           at == [k \in Nat |-> end(k)]
           seqs == [g \in 1..m |-> Group(body, g)]
           text == Base64(body)
<1>1. n \in Nat /\ \A i \in 1..n : body[i] \in 0..255
  BY LenProperties, ElementOfSeq
<1> HIDE DEF n
<1>2. m \in Nat /\ n <= 3 * m /\ (m > 0 => 3 * (m - 1) < n) /\ 4 * m \in Nat
  BY <1>1
<1> HIDE DEF m
<1>3. \A g \in Nat : end(g) \in Nat /\ end(g) <= n
  BY <1>1
<1>4. at \in [Nat -> Nat] /\ at[0] = 0 /\ at[m] = n
  BY <1>1, <1>2, <1>3
<1>5. ASSUME NEW g \in 1..m
      PROVE  /\ Group(body, g) \in Seq(0..255)
             /\ Group(body, g) = SubSeq(body, at[g - 1] + 1, at[g])
             /\ at[g - 1] <= at[g] /\ at[g] <= n
  <2>1. g - 1 \in Nat /\ g \in Nat /\ 3 * (g - 1) < n /\ 3 * (g - 1) <= 3 * (m - 1)
    BY <1>1, <1>2
  <2>2. at[g - 1] = 3 * (g - 1) /\ at[g] = end(g) /\ 3 * (g - 1) + 1 = 3 * g - 2
    BY <1>1, <2>1
  <2>3. end(g) \in Nat /\ end(g) <= n /\ 3 * (g - 1) <= end(g)
    BY <1>1, <2>1
  <2>4. Group(body, g) = SubSeq(body, 3 * g - 2, end(g))
    BY DEF Group, n
  <2> HIDE DEF at, end
  <2>5. Group(body, g) = SubSeq(body, at[g - 1] + 1, at[g]) /\ at[g - 1] <= at[g] /\ at[g] <= n
    BY <2>2, <2>3, <2>4
  <2>6. \A i \in 3 * g - 2..end(g) : body[i] \in 0..255
    BY <1>1, <2>1, <2>3
  <2>7. SubSeq(body, 3 * g - 2, end(g)) \in Seq(0..255)
    <3> DEFINE low == 3 * g - 2
               high == end(g)
    <3>1. low \in Int /\ high \in Int /\ \A i \in low..high : body[i] \in 0..255
      BY <2>1, <2>3, <2>6
    <3> HIDE DEF low, high
    <3>2. SubSeq(body, low, high) \in Seq(0..255)
      BY <3>1, SubSeqProperties
    <3> QED  BY <3>2 DEF low, high
  <2> QED  BY <2>4, <2>5, <2>7
<1>6. seqs \in Seq(Seq(0..255)) /\ Len(seqs) = m
  <2>1. seqs \in [1..m -> Seq(0..255)]
    BY <1>5
  <2> HIDE DEF seqs
  <2> QED  BY <1>2, <2>1, SegmentIsSequence
<1>7. FlattenSeq(seqs) = body
  <2>1. ASSUME NEW k \in Nat, k < Len(seqs)
        PROVE  /\ at[k] <= at[k + 1] /\ at[k + 1] <= Len(body)
               /\ seqs[k + 1] = SubSeq(body, at[k] + 1, at[k + 1])
    <3>1. k + 1 \in 1..m /\ (k + 1) - 1 = k
      BY <1>2, <1>6, <2>1
    <3>2. seqs[k + 1] = Group(body, k + 1)
      BY <3>1
    <3> HIDE DEF at, seqs
    <3> QED  BY <1>5, <3>1, <3>2 DEF n
  <2>2. FlattenSeq(seqs) = SubSeq(body, 1, at[Len(seqs)])
    <3> HIDE DEF at, seqs
    <3> QED  BY <1>4, <1>6, <2>1, FlattenPieces
  <2>3. SubSeq(body, 1, n) = body
    <3> DEFINE piece == SubSeq(body, 1, n)
    <3>1. \A i \in 1..n : body[i] \in 0..255
      BY <1>1
    <3>2. /\ piece \in Seq(0..255) /\ Len(piece) = IF 1 <= n THEN n - 1 + 1 ELSE 0
          /\ \A j \in 1..n - 1 + 1 : piece[j] = body[1 + j - 1]
      BY <1>1, <3>1, SubSeqProperties
    <3> HIDE DEF piece
    <3>3. Len(piece) = Len(body) /\ \A j \in 1..Len(piece) : piece[j] = body[j]
      BY <1>1, <3>2 DEF n
    <3>4. piece = body
      BY <3>2, <3>3, SeqEqual
    <3> QED  BY <3>4 DEF piece
  <2> QED  BY <1>4, <1>6, <2>2, <2>3, Zenon
<1>8. text = [i \in 1..(4 * m) |-> [group |-> Group(body, (i + 3) \div 4), at |-> (i - 1) % 4]]
  BY DEF Base64, m, n
<1>9. text \in Seq(Symbols) /\ Len(text) = 4 * m
  <2>1. \A i \in 1..(4 * m) : (i + 3) \div 4 \in 1..m /\ (i - 1) % 4 \in 0..3
    BY <1>2
  <2>2. \A i \in 1..(4 * m) :
          [group |-> Group(body, (i + 3) \div 4), at |-> (i - 1) % 4] \in Symbols
    <3> TAKE i \in 1..(4 * m)
    <3> DEFINE g == (i + 3) \div 4
               a == (i - 1) % 4
    <3>1. g \in 1..m /\ a \in 0..3
      BY <2>1
    <3> HIDE DEF g, a
    <3>2. Group(body, g) \in Seq(0..255)
      BY <1>5, <3>1, Zenon
    <3>3. [group |-> Group(body, g), at |-> a] \in Symbols
      BY <3>1, <3>2 DEF Symbols
    <3> QED  BY <3>3 DEF g, a
  <2>3. text \in [1..(4 * m) -> Symbols]
    <3> HIDE DEF text, Symbols
    <3> QED  BY <1>8, <2>2
  <2> HIDE DEF text
  <2> DEFINE k == 4 * m
  <2>4. k \in Nat /\ text \in [1..k -> Symbols]
    BY <1>2, <2>3
  <2> HIDE DEF k
  <2>5. text \in Seq(Symbols) /\ Len(text) = k
    BY <2>4, SegmentIsSequence
  <2> QED  BY <2>5 DEF k
<1> HIDE DEF text
<1>10. Len(text) % 4 = 0 /\ Len(text) \div 4 = m
  BY <1>2, <1>9
<1>11. [g \in 1..m |-> text[4 * g].group] = seqs
  <2>1. \A g \in 1..m : text[4 * g].group = Group(body, g)
    <3> TAKE g \in 1..m
    <3>1. 4 * g \in 1..(4 * m) /\ (4 * g + 3) \div 4 = g
      BY <1>2
    <3>2. text[4 * g] = [group |-> Group(body, g), at |-> (4 * g - 1) % 4]
      BY <1>8, <3>1
    <3> QED  BY <3>2
  <2> QED  BY <2>1
<1>12. DecodeHttp(text) = {WireValue(FlattenSeq(seqs), <<>>)}
  BY <1>10, <1>11, Zenon DEF DecodeHttp
<1> QED
  BY <1>7, <1>9, <1>12 DEF text

(* The damage that a decoder refuses.                                        *)
Refuses(format, bytes, whole) ==
  /\ format = "network" /\ Len(bytes) # Len(whole) => Decode(format, bytes) = {}
  /\ format = "frame" /\ Len(bytes) < Len(whole) => Decode(format, bytes) = {}

(* What a decoder may give for bytes that agree with what was encoded.       *)
ReadsBack(format, v, bytes, whole) ==
  /\ Refuses(format, bytes, whole)
  /\ bytes = whole => Decode(format, bytes) = {v}
  /\ \A w \in Decode(format, bytes) :
       /\ w.extra = v.extra \/ (format = "header" /\ Len(bytes) = 48 /\ w.extra = <<>>)
       /\ w.body = v.body \/ format \in {"direct", "http", "chat"}

LEMMA ExactReadsBack ==
  ASSUME NEW format, NEW v, NEW bytes, NEW whole, Decode(format, bytes) \subseteq {v},
         Refuses(format, bytes, whole),
         Len(bytes) = Len(whole) => Decode(format, bytes) = {v}
  PROVE  ReadsBack(format, v, bytes, whole)
<1>1. bytes = whole => Decode(format, bytes) = {v}
  BY Zenon
<1>2. \A w \in Decode(format, bytes) : w = v
  BY Zenon
<1> QED
  BY <1>1, <1>2, Zenon DEF ReadsBack

(* Every layout, what is encoded in it and what is read from it.             *)
LEMMA CodecReadsBack ==
  ASSUME NEW format \in WireFormatNames \ {"obfs"}, NEW v \in WireValues(format),
         NEW whole \in Encode(format, v), NEW bytes \in Seq(Symbols), Agrees(bytes, whole)
  PROVE  whole \in Seq(Symbols) /\ ReadsBack(format, v, bytes, whole)
<1>1. CASE format = "network"
  <2>1. PICK b \in WireBodies, e \in WireBodies : v = WireValue(b, e)
    BY <1>1 DEF WireValues, TransportTypes
  <2>2. whole = NetworkBytes(WireValue(b, e)) /\ Decode(format, bytes) = DecodeNetwork(bytes)
    BY <1>1, <2>1 DEF Encode, Decode
  <2>3. /\ Text(whole, 17 + Len(b) + Len(e)) /\ DecodeNetwork(bytes) \subseteq {v}
        /\ Len(bytes) = 17 + Len(b) + Len(e) => DecodeNetwork(bytes) = {v}
        /\ Len(bytes) # 17 + Len(b) + Len(e) => DecodeNetwork(bytes) = {}
    BY <2>1, <2>2, NetworkIsRead
  <2>4. whole \in Seq(Symbols) /\ Len(whole) = 17 + Len(b) + Len(e)
    BY <2>3, Zenon DEF Text
  <2>5. Refuses(format, bytes, whole)
    BY <1>1, <2>2, <2>3, <2>4, Zenon DEF Refuses
  <2> QED  BY <2>2, <2>3, <2>4, <2>5, ExactReadsBack, Zenon
<1>2. CASE format = "frame"
  <2>1. PICK b \in WireBodies, e \in WireBodies : v = WireValue(b, e)
    BY <1>2 DEF WireValues, TransportTypes
  <2>2. whole \in EncodeFrame(WireValue(b, e)) /\ Decode(format, bytes) = DecodeFrame(bytes)
    BY <1>2, <2>1 DEF Encode, Decode
  <2>3. /\ whole \in Seq(Symbols) /\ DecodeFrame(bytes) \subseteq {v}
        /\ Len(bytes) = Len(whole) => DecodeFrame(bytes) = {v}
        /\ Len(bytes) < Len(whole) => DecodeFrame(bytes) = {}
    BY <2>1, <2>2, FrameIsRead
  <2>4. Refuses(format, bytes, whole)
    BY <1>2, <2>2, <2>3, Zenon DEF Refuses
  <2> QED  BY <2>2, <2>3, <2>4, ExactReadsBack, Zenon
<1>3. CASE format = "header"
  <2>1. PICK e \in WireBodies : v = WireValue(FixedHeader, e)
    BY <1>3 DEF WireValues, TransportTypes
  <2>2. whole = HeaderBytes(v) /\ Decode(format, bytes) = DecodeHeader(bytes)
    BY <1>3 DEF Encode, Decode
  <2>3. /\ whole \in Seq(Symbols)
        /\ \A w \in DecodeHeader(bytes) :
             w = v \/ (Len(bytes) = 48 /\ w = WireValue(FixedHeader, <<>>))
        /\ Len(bytes) = Len(whole) => DecodeHeader(bytes) = {v}
    BY <2>1, <2>2, HeaderIsRead
  <2>4. ASSUME NEW w \in DecodeHeader(bytes)
        PROVE  /\ w.extra = v.extra \/ (Len(bytes) = 48 /\ w.extra = <<>>)
               /\ w.body = v.body
    BY <2>1, <2>3 DEF WireValue
  <2> QED  BY <1>3, <2>2, <2>3, <2>4, Zenon DEF ReadsBack, Refuses
<1>4. CASE format = "chat"
  <2>1. PICK b \in WireBodies : v = WireValue(b, LongestBody)
    BY <1>4 DEF WireValues, TransportTypes
  <2>2. /\ whole = ChatBytes(b, LongestBody)
        /\ Decode(format, bytes) = DecodeChat(bytes) /\ v.extra = LongestBody
    BY <1>4, <2>1 DEF Encode, Decode, WireValue, ChatBytes
  <2>3. /\ whole \in Seq(Symbols)
        /\ \A w \in DecodeChat(bytes) : w.extra = LongestBody
        /\ Len(bytes) = Len(whole) => DecodeChat(bytes) = {v}
    BY <2>1, <2>2, LongestIsBody, ChatIsRead, Zenon
  <2> QED  BY <1>4, <2>2, <2>3, Zenon DEF ReadsBack, Refuses
<1>5. CASE format = "qr"
  <2>1. v = WireValue(LongestBody, <<>>)
    BY <1>5 DEF WireValues, TransportTypes
  <2>2. whole = QrMagic \o LongestBody /\ Decode(format, bytes) = DecodeQr(bytes)
    BY <1>5, <2>1 DEF Encode, Decode, WireValue
  <2>3. /\ whole \in Seq(Symbols) /\ DecodeQr(bytes) \subseteq {v}
        /\ Len(bytes) = Len(whole) => DecodeQr(bytes) = {v}
    BY <2>1, <2>2, QrIsRead
  <2>4. Refuses(format, bytes, whole)
    BY <1>5, Zenon DEF Refuses
  <2> QED  BY <2>2, <2>3, <2>4, ExactReadsBack, Zenon
<1>6. CASE format = "websocket"
  <2>1. PICK b \in WireBodies : v = WireValue(b, <<>>)
    BY <1>6 DEF WireValues, TransportTypes
  <2>2. whole = BigEndian(Len(b)) \o b /\ Decode(format, bytes) = DecodeWs(bytes)
    BY <1>6, <2>1 DEF Encode, Decode, WireValue
  <2>3. /\ whole \in Seq(Symbols) /\ DecodeWs(bytes) \subseteq {v}
        /\ Len(bytes) = Len(whole) => DecodeWs(bytes) = {v}
    BY <2>1, <2>2, WsIsRead
  <2>4. Refuses(format, bytes, whole)
    BY <1>6, Zenon DEF Refuses
  <2> QED  BY <2>2, <2>3, <2>4, ExactReadsBack, Zenon
<1>7. CASE format = "http"
  <2>1. PICK b \in WireBodies : v = WireValue(b, <<>>)
    BY <1>7 DEF WireValues, TransportTypes
  <2>2. whole = Base64(b) /\ Decode(format, bytes) = DecodeHttp(bytes) /\ v.extra = <<>>
    BY <1>7, <2>1 DEF Encode, Decode, WireValue
  <2>3. whole \in Seq(Symbols) /\ DecodeHttp(whole) = {v}
    BY <2>1, <2>2, BodyIsRead, GroupsAreRead
  <2>4. ASSUME NEW w \in DecodeHttp(bytes) PROVE w.extra = <<>>
    BY <2>4 DEF DecodeHttp, WireValue
  <2> QED  BY <1>7, <2>2, <2>3, <2>4, Zenon DEF ReadsBack, Refuses
<1>8. CASE format = "direct"
  <2>1. PICK b \in WireBodies : v = WireValue(b, <<>>)
    BY <1>8 DEF WireValues, TransportTypes
  <2>2. whole = b /\ Decode(format, bytes) = {WireValue(bytes, <<>>)} /\ v.extra = <<>>
    BY <1>8, <2>1 DEF Encode, Decode, WireValue
  <2>3. whole \in Seq(Symbols)
    BY <2>2, BodyIsRead, Zenon DEF Text
  <2>4. ASSUME NEW w \in Decode(format, bytes) PROVE w.extra = <<>>
    BY <2>2, <2>4 DEF WireValue
  <2> QED  BY <1>8, <2>1, <2>2, <2>3, <2>4, Zenon DEF ReadsBack, Refuses
<1> QED
  BY <1>1, <1>2, <1>3, <1>4, <1>5, <1>6, <1>7, <1>8 DEF WireFormatNames, TransportTypes

(* The bytes on the wire, and what happened to them on the way.              *)
OnTheWire(bytes, damage, whole) ==
  /\ Agrees(bytes, whole)
  /\ damage = "none" => bytes = whole
  /\ damage = "cut" => Len(bytes) < Len(whole)
  /\ damage = "extended" => Len(bytes) # Len(whole)

(* What is on the wire agrees with what was encoded, which only damage       *)
(* changes, and what was read is what the decoder makes of it.               *)
WireInv ==
  /\ transports \in Seq(TransportTypes)
  /\ wireStage \in {"idle", "sent", "refused", "read"}
  /\ wireStage = "refused" => wireFormat = "frame"
  /\ wireStage \in {"sent", "read"} =>
       /\ wireFormat \in WireFormatNames \ {"obfs"}
       /\ wireSent \in WireValues(wireFormat)
       /\ wireBytes \in Seq(Symbols)
       /\ \E whole \in Encode(wireFormat, wireSent) : OnTheWire(wireBytes, wireDamage, whole)
  /\ wireStage = "read" => wireRead = Decode(wireFormat, wireBytes)

LEMMA EncodedIsText ==
  ASSUME NEW format \in WireFormatNames \ {"obfs"}, NEW v \in WireValues(format),
         NEW whole \in Encode(format, v)
  PROVE  whole \in Seq(Symbols)
<1>1. <<>> \in Seq(Symbols) /\ Agrees(<<>>, whole)
  BY EmptySeq DEF Agrees
<1> QED
  BY <1>1, CodecReadsBack

LEMMA OnlyFramesRefused ==
  ASSUME NEW format \in WireFormatNames \ {"obfs"}, NEW v, Encode(format, v) = {}
  PROVE  format = "frame"
BY DEF Encode, WireFormatNames, TransportTypes

LEMMA SendKeepsInv ==
  ASSUME WireInv, NEW format \in WireFormatNames \ {"obfs"}, Send(format)
  PROVE  WireInv'
<1>1. PICK v \in WireValues(format) :
        /\ wireSent' = v
        /\ IF Encode(format, v) = {}
             THEN wireStage' = "refused" /\ wireBytes' = <<>>
             ELSE wireStage' = "sent" /\ wireBytes' \in Encode(format, v)
  BY Zenon DEF Send
<1>2. wireFormat' = format /\ wireDamage' = "none" /\ transports' = transports
  BY DEF Send
<1>3. transports' \in Seq(TransportTypes)
  BY <1>2 DEF WireInv
<1>4. CASE Encode(format, v) = {}
  <2>1. wireStage' = "refused"
    BY <1>1, <1>4
  <2>2. format = "frame"
    BY <1>4, OnlyFramesRefused
  <2> QED  BY <1>2, <1>3, <2>1, <2>2 DEF WireInv
<1>5. CASE Encode(format, v) # {}
  <2>1. wireStage' = "sent" /\ wireBytes' \in Encode(format, v)
    BY <1>1, <1>5
  <2>2. wireBytes' \in Seq(Symbols)
    BY <2>1, EncodedIsText
  <2>3. Agrees(wireBytes', wireBytes')
    BY DEF Agrees
  <2>4. /\ wireFormat' \in WireFormatNames \ {"obfs"} /\ wireSent' \in WireValues(wireFormat')
        /\ wireBytes' \in Encode(wireFormat', wireSent')
    BY <1>1, <1>2, <2>1
  <2>5. OnTheWire(wireBytes', wireDamage', wireBytes')
    BY <1>2, <2>3 DEF OnTheWire
  <2>6. \E whole \in Encode(wireFormat', wireSent') : OnTheWire(wireBytes', wireDamage', whole)
    BY <2>4, <2>5, Zenon
  <2> HIDE DEF Symbols
  <2> QED  BY <1>3, <2>1, <2>2, <2>4, <2>6 DEF WireInv
<1> QED
  BY <1>4, <1>5

\* select() never gives the obfuscating transport.
LEMMA SelectedIsUsable ==
  ASSUME WireInv, NEW preferred, NEW t \in Selected(preferred)
  PROVE  t \in WireFormatNames \ {"obfs"}
<1>1. \A i \in Available : transports[i] \in TransportTypes /\ transports[i] # "obfs"
  <2> TAKE i \in Available
  <2>1. transports \in Seq(TransportTypes) /\ i \in 1..Len(transports) /\ transports[i] # "obfs"
    BY DEF WireInv, Available
  <2> QED  BY <2>1, ElementOfSeq
<1>2. \E i \in Available : t = transports[i]
  BY DEF Selected
<1> QED
  BY <1>1, <1>2 DEF WireFormatNames

LEMMA DamageKeepsInv ==
  ASSUME WireInv, Damage
  PROVE  WireInv'
<1>1. /\ wireStage = "sent" /\ wireStage' = "sent" /\ wireDamage = "none"
      /\ transports' = transports /\ wireFormat' = wireFormat /\ wireSent' = wireSent
      /\ wireDamage' \in {"cut", "extended"}
  BY DEF Damage
<1>2. /\ wireFormat \in WireFormatNames \ {"obfs"} /\ wireSent \in WireValues(wireFormat)
      /\ wireBytes \in Seq(Symbols) /\ wireBytes \in Encode(wireFormat, wireSent)
      /\ transports \in Seq(TransportTypes)
  <2> HIDE DEF Symbols
  <2> QED  BY <1>1 DEF WireInv, OnTheWire
<1> DEFINE b == wireBytes
           n == Len(b)
<1>3. b \in Seq(Symbols) /\ n \in Nat /\ \A i \in 1..n : b[i] \in Symbols
  BY <1>2, LenProperties, ElementOfSeq
<1>4. wireBytes' \in Seq(Symbols) /\ Agrees(wireBytes', b)
      /\ (wireDamage' = "cut" => Len(wireBytes') < n)
      /\ (wireDamage' = "extended" => Len(wireBytes') # n)
  <2>1. CASE wireDamage' = "cut" /\ \E k \in 0..(n - 1) : wireBytes' = SubSeq(b, 1, k)
    <3>1. PICK k \in 0..(n - 1) : wireBytes' = SubSeq(b, 1, k)
      BY <2>1
    <3> DEFINE piece == SubSeq(b, 1, k)
    <3>2. 1 \in Int /\ k \in Int /\ \A i \in 1..k : b[i] \in Symbols
      BY <1>3, <3>1
    <3> HIDE DEF b, n, Symbols
    <3>3. /\ piece \in Seq(Symbols) /\ Len(piece) = IF 1 <= k THEN k - 1 + 1 ELSE 0
          /\ \A j \in 1..k - 1 + 1 : piece[j] = b[1 + j - 1]
      BY <3>2, SubSeqProperties
    <3> HIDE DEF piece
    <3>4. /\ \A j \in 1..Len(piece) : piece[j] = b[j]
          /\ Len(piece) < n
      BY <1>3, <3>1, <3>3
    <3> QED  BY <2>1, <3>1, <3>3, <3>4 DEF Agrees, piece
  <2>2. CASE wireDamage' = "extended" /\ \E c \in Symbols : wireBytes' = Append(b, c)
    <3>1. PICK c \in Symbols : wireBytes' = Append(b, c)
      BY <2>2
    <3> HIDE DEF b, n, Symbols
    <3>2. /\ wireBytes' \in Seq(Symbols) /\ Len(wireBytes') = Len(b) + 1
          /\ \A i \in 1..Len(b) : wireBytes'[i] = b[i]
      BY <1>3, <3>1, AppendProperties
    <3>3. /\ \A i \in 1..Len(wireBytes') : i <= Len(b) => wireBytes'[i] = b[i]
          /\ Len(wireBytes') # n
      BY <1>3, <3>2 DEF n
    <3> QED  BY <2>2, <3>2, <3>3 DEF Agrees
  <2>3. 1 \in Symbols /\ [group |-> <<>>, at |-> 0] \in Symbols
    BY DEF Symbols
  <2>4. \/ wireDamage' = "cut" /\ \E k \in 0..(n - 1) : wireBytes' = SubSeq(b, 1, k)
        \/ wireDamage' = "extended" /\ \E c \in Symbols : wireBytes' = Append(b, c)
    <3> HIDE DEF Symbols
    <3> QED  BY <2>3 DEF Damage
  <2> QED  BY <2>1, <2>2, <2>4
<1> HIDE DEF n, Symbols
<1>5. \E whole \in Encode(wireFormat', wireSent') : OnTheWire(wireBytes', wireDamage', whole)
  <2>1. OnTheWire(wireBytes', wireDamage', b)
    BY <1>1, <1>4 DEF OnTheWire, n
  <2> QED  BY <1>1, <1>2, <2>1
<1>6. /\ wireFormat' \in WireFormatNames \ {"obfs"} /\ wireSent' \in WireValues(wireFormat')
      /\ transports' \in Seq(TransportTypes)
  BY <1>1, <1>2
<1> QED
  BY <1>1, <1>4, <1>5, <1>6 DEF WireInv

LEMMA WireInductive == WireSpec => []WireInv
<1>1. WireInit => WireInv
  BY EmptySeq DEF WireInit, WireInv
<1>2. WireInv /\ [WireNext]_wireVars => WireInv'
  <2> SUFFICES ASSUME WireInv, [WireNext]_wireVars PROVE WireInv'
    OBVIOUS
  <2>1. CASE AddTransport
    <3>1. PICK t \in TransportTypes : transports' = Append(transports, t)
      BY <2>1, Zenon DEF AddTransport
    <3>2. /\ wireStage = "idle" /\ wireStage' = "idle"
          /\ transports \in Seq(TransportTypes)
      BY <2>1 DEF AddTransport, WireInv
    <3>3. transports' \in Seq(TransportTypes)
      <4> HIDE DEF TransportTypes
      <4> QED  BY <3>1, <3>2, AppendProperties
    <3> QED  BY <3>2, <3>3 DEF WireInv
  <2>2. CASE SendFormat
    <3>1. PICK format \in WireFormatNames \ TransportTypes : Send(format)
      BY <2>2, Zenon DEF SendFormat
    <3>2. format \in WireFormatNames \ {"obfs"}
      BY <3>1 DEF TransportTypes
    <3> QED  BY <3>1, <3>2, SendKeepsInv
  <2>3. CASE SendSelected
    <3>1. PICK preferred \in TransportTypes \cup {"none"} :
            \E t \in Selected(preferred) : Send(t)
      BY <2>3, Zenon DEF SendSelected
    <3>2. PICK t \in Selected(preferred) : Send(t)
      BY <3>1, Zenon
    <3>3. t \in WireFormatNames \ {"obfs"}
      BY <3>2, SelectedIsUsable
    <3> QED  BY <3>2, <3>3, SendKeepsInv
  <2>4. CASE Damage
    BY <2>4, DamageKeepsInv
  <2>5. CASE Receive
    <3> HIDE DEF Symbols
    <3>1. /\ wireStage = "sent" /\ wireStage' = "read"
          /\ wireRead' = Decode(wireFormat, wireBytes)
          /\ UNCHANGED <<transports, wireFormat, wireSent, wireBytes, wireDamage>>
      BY <2>5, Zenon DEF Receive
    <3> QED  BY <3>1 DEF WireInv
  <2>6. CASE UNCHANGED wireVars
    <3> HIDE DEF Symbols
    <3> QED  BY <2>6 DEF WireInv, wireVars
  <2> QED  BY <2>1, <2>2, <2>3, <2>4, <2>5, <2>6, Zenon DEF WireNext
<1> QED
  BY <1>1, <1>2, PTL DEF WireSpec

(* What arrives whole is read as it was sent, only a frame too long is       *)
(* refused, a damaged network envelope and a frame that was cut are errors,  *)
(* and no cut or extension makes another value of a layout that carries its  *)
(* own length, but for a header cut after its fixed part and a frame with    *)
(* bytes behind it; for any bodies.                                          *)
THEOREM WireSafety == WireSpec => []WireReadsBack
<1>1. WireInv => WireReadsBack
  <2> SUFFICES ASSUME WireInv PROVE WireReadsBack
    OBVIOUS
  <2>1. CASE wireStage = "read"
    <3>1. /\ wireFormat \in WireFormatNames \ {"obfs"} /\ wireSent \in WireValues(wireFormat)
          /\ wireBytes \in Seq(Symbols) /\ wireRead = Decode(wireFormat, wireBytes)
          /\ \E whole \in Encode(wireFormat, wireSent) : OnTheWire(wireBytes, wireDamage, whole)
      <4> HIDE DEF Symbols
      <4> QED  BY <2>1 DEF WireInv
    <3>2. PICK whole \in Encode(wireFormat, wireSent) :
            OnTheWire(wireBytes, wireDamage, whole)
      BY <3>1, Zenon
    <3>3. ReadsBack(wireFormat, wireSent, wireBytes, whole)
      BY <3>1, <3>2, CodecReadsBack DEF OnTheWire
    <3>4. /\ whole \in Seq(Symbols) /\ Len(wireBytes) \in Nat /\ Len(whole) \in Nat
          /\ Len(wireBytes) < Len(whole) => Len(wireBytes) # Len(whole)
      <4>1. whole \in Seq(Symbols)
        BY <3>1, <3>2, CodecReadsBack DEF OnTheWire
      <4>2. Len(wireBytes) \in Nat /\ Len(whole) \in Nat
        BY <3>1, <4>1, LenProperties
      <4> QED  BY <4>1, <4>2
    <3>5. \/ wireDamage = "cut" /\ wireFormat \in {"network", "frame"}
          \/ wireDamage = "extended" /\ wireFormat = "network"
            => wireRead = {}
      <4> HIDE DEF Symbols
      <4> QED  BY <3>1, <3>2, <3>3, <3>4 DEF OnTheWire, ReadsBack, Refuses
    <3> QED  BY <2>1, <3>1, <3>2, <3>3, <3>5, Zenon DEF OnTheWire, ReadsBack, WireReadsBack
  <2>2. CASE wireStage # "read"
    BY <2>2 DEF WireInv, WireReadsBack
  <2> QED  BY <2>1, <2>2
<1> QED
  BY <1>1, WireInductive, PTL

-----------------------------------------------------------------------------
(* Encrypted cache *)

CacheTypes ==
  /\ DOMAIN cacheEntries \subseteq CacheKeys
  /\ \A k \in DOMAIN cacheEntries : cacheEntries[k] \in CacheEntry
  /\ cacheNow \in 0..MaxCacheTime /\ cacheLast \in 0..cacheNow
  /\ cacheWriter \in CacheThreads \cup {NoThread}
  /\ cachePc \in [CacheThreads -> {"idle", "check", "cleanup"}]

CacheFits ==
  IsFiniteSet(DOMAIN cacheEntries) /\ Cardinality(DOMAIN cacheEntries) <= CacheMax

CacheInv == CacheTypes /\ CacheFits

LEMMA OldestInside ==
  Oldest \subseteq DOMAIN cacheEntries
BY DEF Oldest

(* A cache that lost keys and gained none still fits.                        *)
LEMMA SmallerFits ==
  ASSUME CacheFits, DOMAIN cacheEntries' \subseteq DOMAIN cacheEntries
  PROVE  CacheFits'
<1>1. /\ IsFiniteSet(DOMAIN cacheEntries')
      /\ Cardinality(DOMAIN cacheEntries') <= Cardinality(DOMAIN cacheEntries)
      /\ Cardinality(DOMAIN cacheEntries') \in Nat /\ Cardinality(DOMAIN cacheEntries) \in Nat
  BY FS_Subset, FS_CardinalityType DEF CacheFits
<1> QED
  BY <1>1, CacheAssumption DEF CacheFits

LEMMA InsertFits ==
  ASSUME CacheFits, NEW k, NEW out \in Evicts(k),
         DOMAIN cacheEntries' = (DOMAIN cacheEntries \ out) \cup {k}
  PROVE  CacheFits'
<1> DEFINE held == DOMAIN cacheEntries
           n == Cardinality(held)
<1>1. IsFiniteSet(held) /\ n \in Nat /\ n <= CacheMax /\ CacheMax \in Nat
  BY FS_CardinalityType, CacheAssumption DEF CacheFits
<1>2. CASE k \in held
  <2>1. out = {}
    BY <1>2 DEF Evicts
  <2> QED  BY <1>2, <2>1, SmallerFits
<1>3. CASE k \notin held /\ n < CacheMax
  <2>1. out = {}
    BY <1>1, <1>3 DEF Evicts
  <2>2. IsFiniteSet(held \cup {k}) /\ Cardinality(held \cup {k}) = n + 1
    BY <1>1, <1>3, FS_AddElement
  <2>3. DOMAIN cacheEntries' = held \cup {k}
    BY <2>1
  <2> QED  BY <1>1, <1>3, <2>2, <2>3 DEF CacheFits
<1>4. CASE k \notin held /\ ~(n < CacheMax)
  <2>1. PICK o \in Oldest : out = {o}
    BY <1>1, <1>4 DEF Evicts
  <2>2. IsFiniteSet(held \ {o}) /\ Cardinality(held \ {o}) = n - 1
    BY <1>1, <2>1, OldestInside, FS_RemoveElement
  <2>3. IsFiniteSet((held \ {o}) \cup {k}) /\ Cardinality((held \ {o}) \cup {k}) = n - 1 + 1
    BY <1>4, <2>2, FS_AddElement
  <2>4. DOMAIN cacheEntries' = (held \ {o}) \cup {k}
    BY <2>1
  <2> QED  BY <1>1, <2>3, <2>4 DEF CacheFits
<1> QED
  BY <1>2, <1>3, <1>4

LEMMA SetInsertStep ==
  ASSUME CacheInv, NEW t \in CacheThreads, SetInsert(t)
  PROVE  CacheInv'
<1>1. PICK k, ttl, out :
        /\ k \in CacheKeys /\ ttl \in CacheTtls /\ out \in Evicts(k)
        /\ cacheEntries' = [o \in (DOMAIN cacheEntries \ out) \cup {k} |->
                              IF o = k THEN [created |-> cacheNow, ttl |-> ttl]
                                       ELSE cacheEntries[o]]
  BY DEF SetInsert
<1>2. /\ cacheWriter' = t /\ cachePc' = [cachePc EXCEPT ![t] = "check"]
      /\ UNCHANGED <<cacheNow, cacheLast>>
  BY DEF SetInsert
<1>3. CacheFits'
  BY <1>1, InsertFits DEF CacheInv
<1>4. [created |-> cacheNow, ttl |-> ttl] \in CacheEntry
  BY <1>1 DEF CacheInv, CacheTypes, CacheEntry
<1>5. /\ DOMAIN cacheEntries' \subseteq CacheKeys
      /\ \A o \in DOMAIN cacheEntries' : cacheEntries'[o] \in CacheEntry
  BY <1>1, <1>4 DEF CacheInv, CacheTypes
<1> QED
  BY <1>2, <1>3, <1>5 DEF CacheInv, CacheTypes

LEMMA CacheRestStep ==
  ASSUME CacheInv,
         \/ CacheTick \/ UNCHANGED cacheVars
         \/ \E t \in CacheThreads :
              MaybeCleanup(t) \/ CacheCleanup(t) \/ CacheRemove(t) \/ CacheClear(t)
  PROVE  CacheInv'
<1>1. /\ DOMAIN cacheEntries' \subseteq DOMAIN cacheEntries
      /\ \A k \in DOMAIN cacheEntries' : cacheEntries'[k] = cacheEntries[k]
  BY DEF CacheTick, MaybeCleanup, CacheCleanup, CacheRemove, CacheClear, Without, cacheVars
<1>2. CacheFits'
  BY <1>1, SmallerFits DEF CacheInv
<1>3. cacheNow' \in 0..MaxCacheTime /\ cacheLast' \in 0..cacheNow'
  <2>1. \/ cacheNow < MaxCacheTime /\ cacheNow' = cacheNow + 1 /\ cacheLast' = cacheLast
        \/ cacheNow' = cacheNow /\ cacheLast' \in {cacheLast, cacheNow}
    BY DEF CacheTick, MaybeCleanup, CacheCleanup, CacheRemove, CacheClear, cacheVars
  <2>2. cacheNow \in 0..MaxCacheTime /\ cacheLast \in 0..cacheNow
    BY DEF CacheInv, CacheTypes
  <2> QED  BY <2>1, <2>2, CacheAssumption
<1>4. /\ cacheWriter' \in CacheThreads \cup {NoThread}
      /\ cachePc' \in [CacheThreads -> {"idle", "check", "cleanup"}]
  BY DEF CacheInv, CacheTypes, CacheTick, MaybeCleanup, CacheCleanup,
         CacheRemove, CacheClear, cacheVars
<1> QED
  BY <1>1, <1>2, <1>3, <1>4 DEF CacheInv, CacheTypes

LEMMA CacheInductive == CacheSpec => []CacheInv
<1>1. CacheInit => CacheInv
  <2> SUFFICES ASSUME CacheInit PROVE CacheInv
    OBVIOUS
  <2>1. DOMAIN cacheEntries = {}
    BY DEF CacheInit
  <2>2. CacheFits
    BY <2>1, FS_EmptySet, CacheAssumption DEF CacheFits
  <2>3. 0 \in 0..MaxCacheTime /\ 0 \in 0..0
    BY CacheAssumption
  <2> QED  BY <2>1, <2>2, <2>3 DEF CacheInit, CacheInv, CacheTypes
<1>2. CacheInv /\ [CacheNext]_cacheVars => CacheInv'
  BY SetInsertStep, CacheRestStep DEF CacheNext
<1> QED
  BY <1>1, <1>2, PTL DEF CacheSpec

(* The cache never holds more than max_entries (set).                        *)
THEOREM CacheTypeCorrect == CacheSpec => []CacheTypeOK
<1>1. CacheInv => CacheTypeOK
  BY DEF CacheInv, CacheTypes, CacheFits, CacheTypeOK
<1> QED
  BY <1>1, CacheInductive, PTL

(* Only a full cache gives up a live entry for a new one, one of the oldest. *)
THEOREM CacheEviction == CacheSpec => EvictsOldestOnly
<1> DEFINE gone == {k \in DOMAIN cacheEntries \ DOMAIN cacheEntries' : ~Expired(cacheEntries[k])}
           Evicted == cacheWriter' # cacheWriter /\ gone # {} =>
                        /\ Cardinality(DOMAIN cacheEntries) = CacheMax
                        /\ Cardinality(gone) = 1 /\ gone \subseteq Oldest
<1>1. CacheInv /\ [CacheNext]_cacheVars => [Evicted]_cacheVars
  <2> SUFFICES ASSUME CacheInv, CacheNext, cacheWriter' # cacheWriter, NEW x \in gone
               PROVE  /\ Cardinality(DOMAIN cacheEntries) = CacheMax
                      /\ Cardinality(gone) = 1 /\ gone \subseteq Oldest
    OBVIOUS
  <2>1. PICK t \in CacheThreads : SetInsert(t) \/ MaybeCleanup(t)
    BY DEF CacheNext, CacheTick, CacheCleanup, CacheRemove, CacheClear
  <2>2. ~MaybeCleanup(t)
    BY DEF MaybeCleanup
  <2>3. PICK k, out : out \in Evicts(k) /\ DOMAIN cacheEntries' = (DOMAIN cacheEntries \ out) \cup {k}
    BY <2>1, <2>2 DEF SetInsert
  <2>4. x \in out
    BY <2>3
  <2>5. PICK o \in Oldest : out = {o}
    BY <2>3, <2>4 DEF Evicts
  <2>6. gone = {o}
    BY <2>3, <2>4, <2>5
  <2>7. Cardinality(DOMAIN cacheEntries) >= CacheMax
    BY <2>3, <2>4 DEF Evicts
  <2>8. Cardinality(DOMAIN cacheEntries) = CacheMax
    BY <2>7, FS_CardinalityType, CacheAssumption DEF CacheInv, CacheFits
  <2>9. Cardinality({o}) = 1
    BY FS_Singleton
  <2> QED  BY <2>5, <2>6, <2>8, <2>9
<1> QED
  BY <1>1, CacheInductive, PTL DEF CacheSpec, EvictsOldestOnly

-----------------------------------------------------------------------------
(* Contacts *)

Adding == [person : People, trust : TrustLevels, overlaps : BOOLEAN]

(* A call between its writes knows what is in memory, unless another for the *)
(* same contact was between its own.                                         *)
AddingInv ==
  /\ DOMAIN adding \subseteq ContactCallers /\ \A t \in DOMAIN adding : adding[t] \in Adding
  /\ \A t, u \in DOMAIN adding :
       t # u /\ adding[t].person = adding[u].person => adding[t].overlaps
  /\ \A t \in DOMAIN adding :
       ~adding[t].overlaps /\ adding[t].person \in DOMAIN bookMemory =>
         bookMemory[adding[t].person] = adding[t].trust

BookInv == IsBook(bookMemory) /\ IsBook(bookRows) /\ AddingInv /\ RowsFollow /\ PsiAgree

LEMMA NoPsiAgrees ==
  ASSUME psiLast' = NoPsi
  PROVE  PsiAgree'
BY DEF PsiAgree, NoPsi

LEMMA AddToMemoryStep ==
  ASSUME BookInv, NEW t \in ContactCallers, AddToMemory(t)
  PROVE  BookInv'
<1>1. PICK p \in People, trust \in TrustLevels :
        /\ bookMemory' = Set(bookMemory, p, trust)
        /\ adding' = [u \in DOMAIN adding \cup {t} |->
                        IF u = t THEN [person |-> p, trust |-> trust,
                                       overlaps |-> {v \in DOMAIN adding : adding[v].person = p} # {}]
                        ELSE [adding[u] EXCEPT !.overlaps =
                                @ \/ u \in {v \in DOMAIN adding : adding[v].person = p}]]
  BY Zenon DEF AddToMemory
<1> DEFINE others == {v \in DOMAIN adding : adding[v].person = p}
<1>2. t \notin DOMAIN adding /\ UNCHANGED <<bookRows, bookOpen, bookApart>> /\ psiLast' = NoPsi
  BY DEF AddToMemory, SyncIdle
<1>3. /\ DOMAIN adding' = DOMAIN adding \cup {t}
      /\ adding'[t] \in Adding /\ adding'[t].person = p /\ adding'[t].trust = trust
      /\ adding'[t].overlaps <=> others # {}
  BY <1>1 DEF Adding
<1>4. ASSUME NEW u \in DOMAIN adding
      PROVE  /\ adding'[u] \in Adding /\ adding'[u].person = adding[u].person
             /\ adding'[u].trust = adding[u].trust
             /\ adding'[u].overlaps <=> adding[u].overlaps \/ adding[u].person = p
  <2>1. adding[u] \in Adding /\ u # t
    BY <1>2 DEF BookInv, AddingInv
  <2>2. adding'[u] = [adding[u] EXCEPT !.overlaps = adding[u].overlaps \/ u \in others]
    BY <1>1, <2>1
  <2>3. (adding[u].overlaps \/ u \in others) \in BOOLEAN
    OBVIOUS
  <2>4. /\ adding'[u] \in Adding /\ adding'[u].person = adding[u].person
        /\ adding'[u].trust = adding[u].trust
        /\ adding'[u].overlaps = (adding[u].overlaps \/ u \in others)
    BY <2>1, <2>2, <2>3 DEF Adding
  <2>5. u \in others <=> adding[u].person = p
    BY <1>1
  <2> QED  BY <2>4, <2>5
<1>5. /\ DOMAIN bookMemory' = DOMAIN bookMemory \cup {p} /\ bookMemory'[p] = trust
      /\ \A q \in DOMAIN bookMemory \ {p} : bookMemory'[q] = bookMemory[q]
      /\ IsBook(bookMemory')
  <2>1. bookMemory' = Set(bookMemory, p, trust)
    BY <1>1
  <2> QED  BY <2>1 DEF BookInv, Set, IsBook
<1>6. AddingInv'
  <2>1. \A x, u \in DOMAIN adding' :
          x # u /\ adding'[x].person = adding'[u].person => adding'[x].overlaps
    <3> SUFFICES ASSUME NEW x \in DOMAIN adding', NEW u \in DOMAIN adding',
                        x # u, adding'[x].person = adding'[u].person
                 PROVE  adding'[x].overlaps
      OBVIOUS
    <3>1. CASE x = t
      BY <1>1, <1>3, <1>4, <3>1
    <3>2. CASE x # t /\ u = t
      BY <1>3, <1>4, <3>2
    <3>3. CASE x # t /\ u # t
      BY <1>3, <1>4, <3>3 DEF BookInv, AddingInv
    <3> QED  BY <3>1, <3>2, <3>3
  <2>2. ASSUME NEW x \in DOMAIN adding', ~adding'[x].overlaps, adding'[x].person \in DOMAIN bookMemory'
        PROVE  bookMemory'[adding'[x].person] = adding'[x].trust
    <3>1. CASE x = t
      BY <1>3, <1>5, <3>1
    <3>2. CASE x # t
      BY <1>3, <1>4, <1>5, <2>2, <3>2 DEF BookInv, AddingInv
    <3> QED  BY <3>1, <3>2
  <2>3. DOMAIN adding' \subseteq ContactCallers /\ \A x \in DOMAIN adding' : adding'[x] \in Adding
    BY <1>3, <1>4 DEF BookInv, AddingInv
  <2> QED  BY <2>1, <2>2, <2>3 DEF AddingInv
<1>7. RowsFollow'
  <2> SUFFICES ASSUME NEW q \in DOMAIN bookMemory' \ bookApart,
                      \A u \in DOMAIN adding' : adding'[u].person # q
               PROVE  q \in DOMAIN bookRows /\ bookRows[q] = bookMemory'[q]
    BY <1>2 DEF RowsFollow
  <2>1. q # p /\ \A u \in DOMAIN adding : adding[u].person # q
    BY <1>3, <1>4
  <2> QED  BY <1>5, <2>1 DEF BookInv, RowsFollow
<1> QED
  BY <1>2, <1>5, <1>6, <1>7, NoPsiAgrees DEF BookInv

LEMMA AddRowStep ==
  ASSUME BookInv, NEW t \in ContactCallers, AddRow(t)
  PROVE  BookInv'
<1> DEFINE c == adding[t]
<1>1. /\ t \in DOMAIN adding /\ adding' = [u \in DOMAIN adding \ {t} |-> adding[u]]
      /\ bookMemory' = bookMemory /\ psiLast' = NoPsi
      /\ \/ /\ bookRows' = Set(bookRows, c.person, c.trust)
            /\ bookApart' = IF c.overlaps THEN bookApart \cup {c.person} ELSE bookApart \ {c.person}
         \/ bookRows' = bookRows /\ bookApart' = bookApart \cup {c.person}
  BY DEF AddRow, Returns, StoreContact, SyncIdle
<1>2. c \in Adding /\ c.person \in People /\ c.trust \in TrustLevels
  BY <1>1 DEF BookInv, AddingInv, Adding
<1>3. AddingInv'
  BY <1>1 DEF BookInv, AddingInv
<1>4. IsBook(bookRows') /\ \A q \in DOMAIN bookRows \ {c.person} :
                             q \in DOMAIN bookRows' /\ bookRows'[q] = bookRows[q]
  <2>1. bookRows' = Set(bookRows, c.person, c.trust) \/ bookRows' = bookRows
    BY <1>1
  <2> HIDE DEF c
  <2> QED  BY <1>2, <2>1 DEF BookInv, Set, IsBook
<1>5. RowsFollow'
  <2> SUFFICES ASSUME NEW q \in DOMAIN bookMemory, q \notin bookApart',
                      \A u \in DOMAIN adding' : adding'[u].person # q
               PROVE  q \in DOMAIN bookRows' /\ bookRows'[q] = bookMemory[q]
    BY <1>1 DEF RowsFollow
  <2>1. CASE q = c.person
    <3>1. ~c.overlaps /\ bookRows' = Set(bookRows, q, c.trust)
      BY <1>1, <2>1
    <3>2. bookMemory[q] = c.trust
      BY <1>1, <2>1, <3>1 DEF BookInv, AddingInv
    <3> QED  BY <3>1, <3>2 DEF Set
  <2>2. CASE q # c.person
    <3>1. q \notin bookApart /\ \A u \in DOMAIN adding : adding[u].person # q
      BY <1>1, <2>2
    <3>2. q \in DOMAIN bookRows /\ bookRows[q] = bookMemory[q]
      BY <3>1 DEF BookInv, RowsFollow
    <3> QED  BY <1>4, <2>2, <3>2
  <2> QED  BY <2>1, <2>2
<1> QED
  BY <1>1, <1>3, <1>4, <1>5, NoPsiAgrees DEF BookInv

LEMMA RemoveContactStep ==
  ASSUME BookInv, RemoveContact
  PROVE  BookInv'
<1>1. PICK p \in DOMAIN bookMemory :
        bookMemory' = [q \in DOMAIN bookMemory \ {p} |-> bookMemory[q]]
  BY DEF RemoveContact
<1>2. UNCHANGED <<bookRows, bookOpen, adding, bookApart>> /\ psiLast' = NoPsi
  BY DEF RemoveContact, SyncIdle
<1>3. /\ DOMAIN bookMemory' \subseteq DOMAIN bookMemory
      /\ \A q \in DOMAIN bookMemory' : bookMemory'[q] = bookMemory[q]
  BY <1>1
<1>4. IsBook(bookMemory')
  BY <1>3 DEF BookInv, IsBook
<1>5. AddingInv'
  BY <1>2, <1>3 DEF BookInv, AddingInv
<1>6. RowsFollow'
  BY <1>2, <1>3 DEF BookInv, RowsFollow
<1> QED
  BY <1>2, <1>4, <1>5, <1>6, NoPsiAgrees DEF BookInv

LEMMA BookRestartStep ==
  ASSUME BookInv, BookRestart
  PROVE  BookInv'
<1>1. /\ DOMAIN bookMemory' = {} /\ DOMAIN adding' = {} /\ bookRows' = bookRows
      /\ psiLast' = NoPsi
  BY DEF BookRestart, BookNothing
<1>2. IsBook(bookMemory') /\ AddingInv' /\ RowsFollow'
  BY <1>1 DEF IsBook, AddingInv, RowsFollow
<1> QED
  BY <1>1, <1>2, NoPsiAgrees DEF BookInv

LEMMA RunPsiStep ==
  ASSUME BookInv, RunPsi
  PROVE  BookInv'
<1>1. PICK n, remote :
        /\ n \in 0..MaxListed /\ remote \in [1..n -> People]
        /\ psiLast' = [remote |-> remote, common |-> FindCommonContacts(remote),
                       discovered |-> DiscoverCommon(remote), matches |-> FindMatches(remote)]
  BY DEF RunPsi
<1>2. UNCHANGED <<bookMemory, bookRows, bookOpen, adding, bookApart>>
  BY DEF RunPsi
<1>3. n \in Nat /\ remote \in Seq(People) /\ DOMAIN remote = 1..n /\ Len(remote) = n
  BY <1>1, ContactAssumption
<1>4. FindCommonContacts(remote) = {p \in DOMAIN bookMemory : \E i \in 1..n : p = remote[i]}
  BY <1>3 DEF FindCommonContacts, Range
<1>5. DiscoverCommon(remote) = FindCommonContacts(remote)
  <2>1. CASE remote = <<>>
    BY <1>3, <1>4, <2>1, EmptySeq DEF DiscoverCommon
  <2>2. CASE remote # <<>>
    BY <1>3, <1>4, <2>2 DEF DiscoverCommon
  <2> QED  BY <2>1, <2>2
<1>6. {remote[i] : i \in FindMatches(remote)} = FindCommonContacts(remote)
  BY <1>3, <1>4 DEF FindMatches
<1>7. PsiAgree'
  BY <1>1, <1>5, <1>6 DEF PsiAgree
<1> QED
  BY <1>2, <1>7 DEF BookInv, AddingInv, RowsFollow

LEMMA BookInductive == BookSpec => []BookInv
<1>1. BookInit => BookInv
  BY DEF BookInit, BookInv, BookNothing, IsBook, AddingInv, RowsFollow, PsiAgree, NoPsi
<1>2. BookInv /\ [BookNext]_bookVars => BookInv'
  <2> SUFFICES ASSUME BookInv, [BookNext]_bookVars PROVE BookInv'
    OBVIOUS
  <2>1. ASSUME NEW t \in ContactCallers, AddToMemory(t) \/ AddRow(t) PROVE BookInv'
    BY <2>1, AddToMemoryStep, AddRowStep
  <2>2. CASE RemoveContact
    BY <2>2, RemoveContactStep
  <2>3. CASE BookRestart
    BY <2>3, BookRestartStep
  <2>4. CASE RunPsi
    BY <2>4, RunPsiStep
  <2>5. CASE OpenOrClose \/ RegisterDevice \/ QueueOperation \/ TakePendingOps \/ UNCHANGED bookVars
    <3>1. UNCHANGED <<bookMemory, bookRows, adding, bookApart>> /\ psiLast' \in {psiLast, NoPsi}
      BY <2>5 DEF OpenOrClose, RegisterDevice, QueueOperation, TakePendingOps, SyncIdle, bookVars
    <3>2. PsiAgree'
      BY <3>1, NoPsiAgrees DEF BookInv, PsiAgree
    <3> QED  BY <3>1, <3>2 DEF BookInv, AddingInv, RowsFollow
  <2> QED  BY <2>1, <2>2, <2>3, <2>4, <2>5 DEF BookNext
<1> QED
  BY <1>1, <1>2, PTL DEF BookSpec

(* What add_contact() has finished writing is in memory and in its row alike *)
(* unless calls for one contact overlapped or a row was not written, and the *)
(* three set intersections give the same contacts (add_contact, psi.rs).     *)
THEOREM BookSafety == BookSpec => []ContactBookAgrees
<1>1. BookInv => ContactBookAgrees
  BY DEF BookInv, ContactBookAgrees
<1> QED
  BY <1>1, BookInductive, PTL

-----------------------------------------------------------------------------
(* Identities *)

(* A transition leads to the next identity, and only a clearing removes it.  *)
TransitionInv ==
  /\ DOMAIN transitions \subseteq 1..(InUse - 1)
  /\ \A i \in DOMAIN transitions : transitions[i] = i + 1
  /\ \A i \in 1..(InUse - 1) : i \in DOMAIN transitions \/ i \in idCleared

VaultTypes ==
  /\ vaultNow \in 0..MaxVaultTime
  /\ idCreated \in Seq(0..MaxVaultTime) /\ InUse \in 1..MaxIdentities
  /\ pendingRotation \in BOOLEAN
  /\ idBlobs \subseteq [key : VaultKeys, bound : 1..InUse, secret : 1..InUse]

VaultInv == VaultTypes /\ TransitionInv /\ DueIsWarned /\ OpenedIsSealed

(* Where the transitions from i end: Follow goes there.                      *)
EndsAt(i, j) ==
  /\ i <= j /\ j \notin DOMAIN transitions
  /\ \A k \in Nat : i <= k /\ k < j => k \in DOMAIN transitions

LEMMA FollowRecursion ==
  ASSUME \A i \in DOMAIN transitions : transitions[i] = i + 1
  PROVE  Follow = [i \in Nat |-> IF i \in DOMAIN transitions THEN Follow[transitions[i]] ELSE i]
<1> DEFINE f == [i \in Nat |-> CHOOSE j \in Nat : EndsAt(i, j)]
<1>1. ASSUME NEW i \in Nat, i \in DOMAIN transitions PROVE f[i] = f[transitions[i]]
  <2>1. transitions[i] = i + 1 /\ i + 1 \in Nat
    BY <1>1
  <2>2. ASSUME NEW j \in Nat PROVE EndsAt(i, j) <=> EndsAt(i + 1, j)
    <3>1. ASSUME EndsAt(i, j) PROVE EndsAt(i + 1, j)
      BY <1>1, <3>1 DEF EndsAt
    <3>2. ASSUME EndsAt(i + 1, j) PROVE EndsAt(i, j)
      <4>1. ASSUME NEW k \in Nat, i <= k, k < j PROVE k \in DOMAIN transitions
        <5>1. k = i \/ i + 1 <= k
          BY <4>1
        <5> QED  BY <1>1, <3>2, <4>1, <5>1 DEF EndsAt
      <4> QED  BY <3>2, <4>1 DEF EndsAt
    <3> QED  BY <3>1, <3>2
  <2>3. (CHOOSE j \in Nat : EndsAt(i, j)) = (CHOOSE j \in Nat : EndsAt(i + 1, j))
    BY <2>2
  <2> QED  BY <2>1, <2>3
<1>2. ASSUME NEW i \in Nat, i \notin DOMAIN transitions PROVE f[i] = i
  <2>1. EndsAt(i, i)
    BY <1>2 DEF EndsAt
  <2>2. ASSUME NEW j \in Nat, EndsAt(i, j) PROVE j = i
    BY <1>2, <2>2 DEF EndsAt
  <2>3. f[i] \in Nat /\ EndsAt(i, f[i])
    BY <2>1
  <2> HIDE DEF f
  <2> QED  BY <2>2, <2>3
<1>3. f = [i \in Nat |-> IF i \in DOMAIN transitions THEN f[transitions[i]] ELSE i]
  <2> DEFINE g == [i \in Nat |-> IF i \in DOMAIN transitions THEN f[transitions[i]] ELSE i]
  <2>1. f = [i \in Nat |-> f[i]] /\ DOMAIN f = Nat
    OBVIOUS
  <2> HIDE DEF f
  <2>2. \A i \in Nat : f[i] = IF i \in DOMAIN transitions THEN f[transitions[i]] ELSE i
    BY <1>1, <1>2
  <2> QED  BY <2>1, <2>2
<1>4. \E h : h = [i \in Nat |-> IF i \in DOMAIN transitions THEN h[transitions[i]] ELSE i]
  <2> HIDE DEF f
  <2> QED  BY <1>3
<1> QED
  BY <1>4 DEF Follow

(* Whoever is not stopped by a cleared transition arrives.                   *)
LEMMA TransitionsArrive ==
  ASSUME VaultTypes, TransitionInv
  PROVE  TransitionsLead
<1>1. Follow = [i \in Nat |-> IF i \in DOMAIN transitions THEN Follow[transitions[i]] ELSE i]
  BY FollowRecursion DEF TransitionInv
<1>2. InUse \in Nat
  BY VaultAssumption DEF VaultTypes
<1> SUFFICES ASSUME NEW i \in 1..InUse, \A j \in i..InUse : j \notin idCleared
             PROVE  Follow[i] = InUse
  BY DEF TransitionsLead
<1> DEFINE S == {k \in Nat : i <= InUse - k => Follow[InUse - k] = InUse}
<1>3. 0 \in S
  <2>1. InUse \notin DOMAIN transitions /\ InUse - 0 = InUse
    BY <1>2 DEF TransitionInv
  <2> QED  BY <1>1, <1>2, <2>1
<1>4. ASSUME NEW k \in S PROVE k + 1 \in S
  <2> SUFFICES ASSUME i <= InUse - (k + 1) PROVE Follow[InUse - (k + 1)] = InUse
    OBVIOUS
  <2> DEFINE at == InUse - (k + 1)
  <2>1. at \in Nat /\ at \in 1..(InUse - 1) /\ at \in i..InUse /\ at + 1 = InUse - k
    BY <1>2
  <2>2. at \in DOMAIN transitions /\ transitions[at] = at + 1
    BY <2>1 DEF TransitionInv
  <2>3. Follow[InUse - k] = InUse
    BY <1>2
  <2> HIDE DEF at
  <2>4. Follow[at] = Follow[at + 1]
    BY <1>1, <2>1, <2>2
  <2>5. Follow[at] = InUse
    BY <2>1, <2>3, <2>4
  <2> QED  BY <2>5 DEF at
<1>5. S = Nat
  <2> HIDE DEF S
  <2>1. S \subseteq Nat
    BY DEF S
  <2> QED  BY <1>3, <1>4, <2>1, NatSet
<1>6. InUse - i \in Nat /\ InUse - (InUse - i) = i
  BY <1>2
<1> QED
  BY <1>5, <1>6

LEMMA CheckRotationStep ==
  ASSUME VaultInv, CheckRotation
  PROVE  VaultInv'
<1> DEFINE created == idCreated[InUse]
<1>1. PICK said \in ShouldRotate(created) :
        /\ vaultLast' = [call |-> "check", at |-> vaultNow, created |-> created, said |-> said,
                         left |-> TimeUntilRotation(created), warned |-> ShouldWarn(created)]
        /\ pendingRotation' = (pendingRotation \/ said = "due")
  BY DEF CheckRotation
<1>2. UNCHANGED <<vaultNow, idCreated, transitions, idCleared, idBlobs>>
  BY DEF CheckRotation
<1>3. InUse \in 1..Len(idCreated)
  BY VaultAssumption DEF VaultInv, VaultTypes, InUse
<1>4. created \in Nat /\ vaultNow \in Nat
  <2>1. created \in 0..MaxVaultTime
    BY <1>3, ElementOfSeq DEF VaultInv, VaultTypes
  <2> QED  BY <2>1, VaultAssumption DEF VaultInv, VaultTypes
<1>5. /\ vaultLast'.call = "check" /\ vaultLast'.at = vaultNow /\ vaultLast'.created = created
      /\ vaultLast'.said = said /\ vaultLast'.left = TimeUntilRotation(created)
      /\ vaultLast'.warned = ShouldWarn(created)
  BY <1>1
<1> HIDE DEF created
<1>6. DueIsWarned'
  <2> SUFFICES ASSUME vaultNow >= created
               PROVE  /\ said = "due" => TimeUntilRotation(created) = 0 /\ ShouldWarn(created)
                      /\ said = "not due" =>
                           TimeUntilRotation(created) > 0 \/ vaultNow = created + RotationInterval
    BY <1>5 DEF DueIsWarned
  <2>1. said = "due" => vaultNow - created > RotationInterval
    BY <1>1, <1>4 DEF ShouldRotate
  <2>2. said = "not due" => ~(vaultNow - created > RotationInterval)
    BY <1>1, <1>4 DEF ShouldRotate
  <2>3. created + RotationInterval \in Nat /\ RotationInterval \in Nat /\ WarningThreshold \in Nat
    BY <1>4, VaultAssumption
  <2>4. CASE vaultNow - created > RotationInterval
    <3>1. vaultNow >= created + RotationInterval
      BY <1>4, <2>3, <2>4
    <3>2. TimeUntilRotation(created) = 0
      BY <3>1 DEF TimeUntilRotation
    <3>3. ShouldWarn(created)
      BY <2>3, <3>2 DEF ShouldWarn
    <3> QED  BY <2>2, <2>4, <3>2, <3>3
  <2>5. CASE vaultNow < created + RotationInterval
    <3>1. TimeUntilRotation(created) = created + RotationInterval - vaultNow
      BY <1>4, <2>3, <2>5 DEF TimeUntilRotation
    <3>2. ~(vaultNow - created > RotationInterval) /\ created + RotationInterval - vaultNow > 0
      BY <1>4, <2>3, <2>5
    <3> QED  BY <2>1, <3>1, <3>2
  <2>6. CASE vaultNow = created + RotationInterval
    <3>1. ~(vaultNow - created > RotationInterval)
      BY <1>4, <2>3, <2>6
    <3> QED  BY <2>1, <2>6, <3>1
  <2>7. \/ vaultNow - created > RotationInterval \/ vaultNow < created + RotationInterval
        \/ vaultNow = created + RotationInterval
    BY <1>4, <2>3
  <2> QED  BY <2>4, <2>5, <2>6, <2>7
<1>7. OpenedIsSealed'
  BY <1>5 DEF OpenedIsSealed
<1>8. pendingRotation' \in BOOLEAN
  BY <1>1 DEF VaultInv, VaultTypes
<1> QED
  BY <1>2, <1>6, <1>7, <1>8 DEF VaultInv, VaultTypes, TransitionInv, InUse

LEMMA RotateStep ==
  ASSUME VaultInv, RotatorRotate
  PROVE  VaultInv'
<1>1. /\ InUse < MaxIdentities /\ idCreated' = Append(idCreated, vaultNow)
      /\ transitions' = [i \in DOMAIN transitions \cup {InUse} |->
                           IF i = InUse THEN InUse + 1 ELSE transitions[i]]
      /\ UNCHANGED <<vaultNow, idCleared, pendingRotation, idBlobs, vaultLast>>
  BY DEF RotatorRotate
<1>2. InUse \in Nat /\ 1 <= InUse
  BY VaultAssumption DEF VaultInv, VaultTypes
<1>3. idCreated' \in Seq(0..MaxVaultTime) /\ InUse' = InUse + 1
  BY <1>1, AppendProperties DEF VaultInv, VaultTypes, InUse
<1>4. InUse' \in 1..MaxIdentities /\ InUse' - 1 = InUse /\ (1..InUse) \subseteq 1..InUse'
  BY <1>1, <1>2, <1>3, VaultAssumption
<1>5. VaultTypes'
  BY <1>1, <1>3, <1>4 DEF VaultInv, VaultTypes
<1>6. TransitionInv'
  <2>1. DOMAIN transitions \subseteq 1..(InUse - 1) /\ (1..(InUse - 1)) \subseteq 1..InUse
    BY <1>2 DEF VaultInv, TransitionInv
  <2>2. DOMAIN transitions' = DOMAIN transitions \cup {InUse} /\ InUse \in 1..InUse
    BY <1>1, <1>2
  <2>3. \A i \in DOMAIN transitions' : transitions'[i] = i + 1
    BY <1>1, <2>2 DEF VaultInv, TransitionInv
  <2>4. \A i \in 1..InUse : i \in DOMAIN transitions' \/ i \in idCleared'
    <3> TAKE i \in 1..InUse
    <3>1. i = InUse \/ i \in 1..(InUse - 1)
      BY <1>2
    <3> QED  BY <1>1, <2>2, <3>1 DEF VaultInv, TransitionInv
  <2> QED  BY <1>4, <2>1, <2>2, <2>3, <2>4 DEF TransitionInv
<1> QED
  BY <1>1, <1>5, <1>6 DEF VaultInv, DueIsWarned, OpenedIsSealed

LEMMA ClearStep ==
  ASSUME VaultInv, ClearTransition
  PROVE  VaultInv'
<1>1. PICK i \in DOMAIN transitions :
        /\ transitions' = [j \in DOMAIN transitions \ {i} |-> transitions[j]]
        /\ idCleared' = idCleared \cup {i}
  BY DEF ClearTransition
<1>2. UNCHANGED <<vaultNow, idCreated, pendingRotation, idBlobs, vaultLast>> /\ InUse' = InUse
  BY DEF ClearTransition, InUse
<1>3. TransitionInv'
  BY <1>1, <1>2 DEF VaultInv, TransitionInv
<1> QED
  BY <1>2, <1>3 DEF VaultInv, VaultTypes, DueIsWarned, OpenedIsSealed

LEMMA SerializeStep ==
  ASSUME VaultInv, Serialize
  PROVE  VaultInv'
<1>1. UNCHANGED <<vaultNow, idCreated, transitions, idCleared, pendingRotation, vaultLast>>
      /\ InUse' = InUse
  BY DEF Serialize, InUse
<1>2. idBlobs' \subseteq [key : VaultKeys, bound : 1..InUse, secret : 1..InUse]
  BY DEF Serialize, VaultInv, VaultTypes
<1> QED
  BY <1>1, <1>2 DEF VaultInv, VaultTypes, TransitionInv, DueIsWarned, OpenedIsSealed

LEMMA DeserializeStep ==
  ASSUME VaultInv, Deserialize
  PROVE  VaultInv'
<1>1. UNCHANGED <<vaultNow, idCreated, transitions, idCleared, pendingRotation, idBlobs>>
      /\ InUse' = InUse
  BY DEF Deserialize, InUse
<1>2. PICK public \in Public, blob \in idBlobs, key \in VaultKeys :
        vaultLast' = [call |-> "open", public |-> public, blob |-> blob, key |-> key,
                      result |-> Deserialized(public, blob, key)]
  BY DEF Deserialize
<1>3. /\ vaultLast'.call = "open" /\ vaultLast'.public = public /\ vaultLast'.blob = blob
      /\ vaultLast'.key = key /\ vaultLast'.result = Deserialized(public, blob, key)
  BY <1>2
<1>4. DueIsWarned'
  BY <1>3 DEF DueIsWarned
<1>5. ASSUME Deserialized(public, blob, key) = "opened"
      PROVE  /\ SelfSigned(public) /\ public = PublicOf(blob.secret) /\ key = blob.key
  <2>1. blob.key = key /\ PublicOf(blob.secret) = public
    BY <1>5 DEF Deserialized
  <2>2. PublicOf(blob.secret).signature = PublicOf(blob.secret).keys
    BY DEF PublicOf
  <2> QED  BY <2>1, <2>2 DEF SelfSigned
<1>6. OpenedIsSealed'
  BY <1>3, <1>5 DEF OpenedIsSealed
<1> QED
  BY <1>1, <1>4, <1>6 DEF VaultInv, VaultTypes, TransitionInv

LEMMA VaultInductive == VaultSpec => []VaultInv
<1>1. VaultInit => VaultInv
  <2> SUFFICES ASSUME VaultInit PROVE VaultInv
    OBVIOUS
  <2>1. 0 \in 0..MaxVaultTime /\ 1 \in 1..MaxIdentities
    BY VaultAssumption
  <2>2. idCreated \in Seq(0..MaxVaultTime) /\ InUse = 1
    BY <2>1 DEF VaultInit, InUse
  <2>3. DOMAIN transitions = {} /\ 1..(InUse - 1) = {}
    BY <2>2 DEF VaultInit
  <2>4. TransitionInv
    BY <2>3 DEF TransitionInv
  <2> QED
    BY <2>1, <2>2, <2>4 DEF VaultInit, VaultInv, VaultTypes, DueIsWarned, OpenedIsSealed
<1>2. VaultInv /\ [VaultNext]_vaultVars => VaultInv'
  <2> SUFFICES ASSUME VaultInv, [VaultNext]_vaultVars PROVE VaultInv'
    OBVIOUS
  <2>1. CASE VaultClock \/ RotationCompleted \/ UNCHANGED vaultVars
    <3>1. /\ UNCHANGED <<idCreated, transitions, idCleared, idBlobs, vaultLast>>
          /\ InUse' = InUse /\ vaultNow' \in 0..MaxVaultTime /\ pendingRotation' \in BOOLEAN
      BY <2>1 DEF VaultClock, RotationCompleted, vaultVars, VaultInv, VaultTypes, InUse
    <3> QED  BY <3>1 DEF VaultInv, VaultTypes, TransitionInv, DueIsWarned, OpenedIsSealed
  <2> QED
    BY <2>1, CheckRotationStep, RotateStep, ClearStep, SerializeStep, DeserializeStep
       DEF VaultNext
<1> QED
  BY <1>1, <1>2, PTL DEF VaultSpec

(* Times, places and blobs stay within the identities there have been         *)
(* (rotate, serialize_encrypted).                                            *)
THEOREM VaultTypeCorrect == VaultSpec => []VaultTypeOK
<1>1. VaultInv => VaultTypeOK
  <2> SUFFICES ASSUME VaultInv PROVE VaultTypeOK
    OBVIOUS
  <2>1. \A i \in 1..InUse : idCreated[i] \in 0..MaxVaultTime
    BY ElementOfSeq DEF VaultInv, VaultTypes, InUse
  <2>2. DOMAIN transitions \subseteq 1..InUse
    BY VaultAssumption DEF VaultInv, VaultTypes, TransitionInv
  <2> QED  BY <2>1, <2>2 DEF VaultInv, VaultTypes, VaultTypeOK
<1> QED
  BY <1>1, VaultInductive, PTL

(* Rotation is warned of before it is due, old fingerprints lead to the      *)
(* identity in use, and what opens is what was sealed (rotation.rs,          *)
(* identity.rs).                                                             *)
THEOREM VaultSafety == VaultSpec => []IdentityHolds
<1>1. VaultInv => IdentityHolds
  BY TransitionsArrive DEF VaultInv, IdentityHolds
<1> QED
  BY <1>1, VaultInductive, PTL

-----------------------------------------------------------------------------
(* Double ratchet *)

CurvePoints == (RatchetEnds \X Nat) \cup {Garbled, Weak}
PublicKeys == [point : CurvePoints, lastBit : {0, 1}]
Roots == Seq(SUBSET CurvePoints)
Chains == [label : {"sending", "receiving", "zero"}, root : Roots, counter : Nat]
RatchetPeer(p) == IF p = Initiator THEN Responder ELSE Initiator

Ratchets(Receiving, Skipped) ==
  [root : Roots, steps : Nat, sending : Chains, receiving : Receiving, remote : PublicKeys,
   skipped : Skipped]

(* A root made by p: its first secret is with the first key of p, unless     *)
(* every key pair has that secret with the key that arrived.                 *)
MadeBy(p, root) ==
  root # <<>> => root[1] = {Weak} \/ PublicKey(p, 0) \in root[1]

(* A root no peer of p makes: the key of the first step was none the peer    *)
(* had before, since that is the key p has had from the beginning.           *)
Apart(p, root) ==
  root # <<>> => root[1] # {Weak} /\ PublicKey(RatchetPeer(p), 0) \notin root[1]

LabelOf(p, root) == IF p = Responder /\ root = <<>> THEN "zero" ELSE "sending"

(* The sending chain belongs to the root, and both to the end.               *)
Sound(p, r) ==
  /\ \E Receiving, Skipped : r \in Ratchets(Receiving, Skipped)
  /\ Len(r.root) = r.steps /\ MadeBy(p, r.root)
  /\ r.sending.root = r.root /\ r.sending.label = LabelOf(p, r.root)
  /\ r.steps = 0 => r.remote = KeyBytes(PublicKey(RatchetPeer(p), 0))

(* A key used by the end of r: from an earlier root, or earlier in the chain.*)
Used(p, key, r) ==
  /\ key \in Chains /\ MadeBy(p, key.root) /\ key.label = LabelOf(p, key.root)
  /\ \/ Len(key.root) < r.steps
     \/ key.root = r.sending.root /\ key.counter < r.sending.counter

RatchetInv ==
  /\ chatState \in [RatchetEnds -> {"New", "Established"}]
  /\ DOMAIN ratchet = {p \in RatchetEnds : Established(p)}
  /\ \A p \in DOMAIN ratchet : Sound(p, ratchet[p])
  /\ \A p \in DOMAIN ratchet \ misled : Apart(p, ratchet[p].root)
  /\ \A m \in chatNet :
       m.from \in RatchetEnds /\ \E i \in Nat : m.dh = KeyBytes(PublicKey(m.from, i))
  /\ chatKeys \in Seq([by : RatchetEnds, key : Chains])
  /\ \A i \in 1..Len(chatKeys) :
       /\ chatKeys[i].by \in DOMAIN ratchet
       /\ Used(chatKeys[i].by, chatKeys[i].key, ratchet[chatKeys[i].by])
       /\ chatKeys[i].by \notin misled => Apart(chatKeys[i].by, chatKeys[i].key.root)
  /\ misled \subseteq RatchetEnds
  /\ MessageKeysFresh

(* A key not used before by this end, and by the other only where neither    *)
(* root tells the two ends apart.                                            *)
LEMMA NextKeyFresh ==
  ASSUME NEW p \in RatchetEnds, NEW r, Sound(p, r),
         NEW q \in RatchetEnds, NEW s, NEW key, Used(q, key, s), q = p => s = r
  PROVE  key = r.sending => q # p /\ ~Apart(p, r.sending.root) /\ ~Apart(q, key.root)
<1>1. PICK Receiving, Skipped : r \in Ratchets(Receiving, Skipped)
  BY DEF Sound
<1>2. r.root \in Roots /\ r.steps \in Nat /\ r.sending \in Chains /\ r.sending.counter \in Nat
  BY <1>1 DEF Ratchets, Chains
<1>3. key \in Chains /\ key.counter \in Nat
  BY DEF Used, Chains
<1> SUFFICES ASSUME key = r.sending
             PROVE  q # p /\ ~Apart(p, r.sending.root) /\ ~Apart(q, key.root)
  OBVIOUS
<1>4. key.root = r.root /\ key.counter = r.sending.counter /\ key.label = LabelOf(p, r.root)
  BY DEF Sound
<1>5. CASE q = p
  BY <1>2, <1>3, <1>4, <1>5 DEF Used, Sound
<1>6. CASE q # p
  <2>1. q = RatchetPeer(p) /\ p = RatchetPeer(q)
    BY <1>6, RatchetAssumption DEF RatchetEnds, RatchetPeer
  <2>2. CASE r.root = <<>>
    BY <1>4, <1>6, <2>2, RatchetAssumption DEF Used, LabelOf, RatchetEnds
  <2>3. CASE r.root # <<>>
    <3>1. /\ r.root[1] = {Weak} \/ PublicKey(p, 0) \in r.root[1]
          /\ r.root[1] = {Weak} \/ PublicKey(q, 0) \in r.root[1]
      BY <1>4, <2>3 DEF Used, Sound, MadeBy
    <3> QED  BY <1>4, <1>6, <2>1, <2>3, <3>1 DEF Apart, Sound
  <2> QED  BY <2>2, <2>3
<1> QED
  BY <1>5, <1>6

LEMMA NewRatchetSound ==
  ASSUME NEW p \in RatchetEnds
  PROVE  Sound(p, NewRatchet(p))
<1> DEFINE r == NewRatchet(p)
           sending == IF p = Initiator THEN Chain("sending", <<>>) ELSE ZeroChain
<1>1. <<>> \in Roots /\ Len(<<>>) = 0
  BY EmptySeq DEF Roots
<1>2. sending \in Chains /\ sending.root = <<>> /\ sending.label = LabelOf(p, <<>>)
  BY <1>1, RatchetAssumption DEF Chain, ZeroChain, Chains, LabelOf, RatchetEnds
<1> DEFINE remote == KeyBytes(PublicKey(RatchetPeer(p), 0))
<1>3. remote \in PublicKeys
  BY DEF PublicKey, KeyBytes, CurvePoints, PublicKeys, RatchetPeer, RatchetEnds
<1>4. /\ r.root = <<>> /\ r.steps = 0 /\ r.sending = sending
      /\ r.remote = remote
      /\ r \in [root : {<<>>}, steps : {0}, sending : {sending}, receiving : {r.receiving},
                remote : {remote}, skipped : {r.skipped}]
  BY DEF NewRatchet, RatchetPeer
<1>0. remote = KeyBytes(PublicKey(RatchetPeer(p), 0))
  OBVIOUS
<1> HIDE DEF r, sending, remote
<1>5. r \in Ratchets({r.receiving}, {r.skipped})
  BY <1>1, <1>2, <1>3, <1>4 DEF Ratchets
<1>6. Sound(p, r)
  BY <1>0, <1>1, <1>2, <1>4, <1>5 DEF Sound, MadeBy
<1> QED
  BY <1>6 DEF r

(* A DH step leads to a root that was not there before, with the same first  *)
(* secret unless it is the first step.                                       *)
LEMMA TurnedSound ==
  ASSUME NEW p \in RatchetEnds, NEW r, Sound(p, r), NEW dh \in PublicKeys
  PROVE  /\ Sound(p, Turned(p, r, dh))
         /\ \A key : Used(p, key, r) => Used(p, key, Turned(p, r, dh))
         /\ dh # r.remote =>
              LET root == Turned(p, r, dh).root
              IN IF r.steps = 0 THEN root[1] = Secret(PublicKey(p, 0), dh.point)
                 ELSE r.root # <<>> /\ root[1] = r.root[1]
<1>1. CASE dh = r.remote
  BY <1>1 DEF Turned
<1>2. CASE dh # r.remote
  <2> DEFINE root == RootAfter(p, r, dh)
             secret == Secret(PublicKey(p, r.steps), dh.point)
             next == DhRatchet(p, r, dh)
  <2>1. PICK Receiving, Skipped : r \in Ratchets(Receiving, Skipped)
    BY DEF Sound
  <2>2. r.root \in Roots /\ r.steps \in Nat /\ r.sending \in Chains /\ Len(r.root) = r.steps
    BY <2>1 DEF Ratchets, Sound
  <2>3. secret \in SUBSET CurvePoints
    BY <2>2 DEF Secret, PublicKey, CurvePoints, PublicKeys
  <2>4. /\ root \in Roots /\ Len(root) = r.steps + 1 /\ root # <<>>
        /\ root[r.steps + 1] = secret /\ \A i \in 1..r.steps : root[i] = r.root[i]
    <3>1. root = Append(r.root, secret)
      BY DEF RootAfter
    <3> HIDE DEF root, secret
    <3> QED  BY <2>2, <2>3, <3>1, AppendProperties DEF Roots
  <2>11. IF r.steps = 0 THEN root[1] = Secret(PublicKey(p, 0), dh.point)
         ELSE r.root # <<>> /\ root[1] = r.root[1]
    <3>1. CASE r.steps = 0
      BY <2>4, <3>1
    <3>2. CASE r.steps # 0
      <4>1. 1 \in 1..r.steps /\ r.root # <<>>
        BY <2>2, <3>2, EmptySeq
      <4> HIDE DEF root
      <4> QED  BY <2>4, <3>2, <4>1
    <3> QED  BY <3>1, <3>2
  <2>5. MadeBy(p, root)
    <3> HIDE DEF root
    <3>1. CASE r.steps = 0
      BY <2>11, <3>1 DEF MadeBy, Secret
    <3>2. CASE r.steps # 0
      BY <2>11, <3>2 DEF MadeBy, Sound
    <3> QED  BY <3>1, <3>2
  <2> HIDE DEF root
  <2> DEFINE chain == Chain("sending", root)
  <2>6. chain \in Chains /\ chain.root = root /\ chain.label = LabelOf(p, root)
    BY <2>4 DEF Chain, Chains, LabelOf
  <2>7. /\ next.root = root /\ next.steps = r.steps + 1 /\ next.remote = dh
        /\ next.sending = chain
        /\ next \in [root : {root}, steps : {r.steps + 1}, sending : {chain},
                    receiving : {next.receiving}, remote : {dh}, skipped : {next.skipped}]
    BY DEF DhRatchet, root
  <2> HIDE DEF next, chain
  <2>8. Sound(p, next)
    <3>1. next \in Ratchets({next.receiving}, {next.skipped})
      BY <2>2, <2>4, <2>6, <2>7 DEF Ratchets
    <3> QED  BY <2>2, <2>4, <2>5, <2>6, <2>7, <3>1 DEF Sound
  <2>9. ASSUME NEW key, Used(p, key, r) PROVE Used(p, key, next)
    <3>1. key.root \in Roots /\ Len(key.root) \in Nat
      BY <2>9, LenProperties DEF Used, Chains, Roots
    <3>2. Len(key.root) <= r.steps
      BY <2>2, <2>9, <3>1 DEF Used, Sound
    <3> QED  BY <2>2, <2>7, <2>9, <3>1, <3>2 DEF Used
  <2>10. next = Turned(p, r, dh)
    BY <1>2 DEF Turned, next
  <2> QED  BY <2>7, <2>8, <2>9, <2>10, <2>11
<1> QED
  BY <1>1, <1>2

(* A first step onto another key the peer really has, or a later step, keeps *)
(* the root apart from those of the peer.                                    *)
LEMMA TurnedApart ==
  ASSUME NEW p \in RatchetEnds, NEW r, Sound(p, r), NEW dh \in PublicKeys, Apart(p, r.root),
         r.steps = 0 => \E i \in Nat : dh = KeyBytes(PublicKey(RatchetPeer(p), i))
  PROVE  Apart(p, Turned(p, r, dh).root)
<1>1. CASE dh = r.remote
  BY <1>1 DEF Turned
<1> DEFINE root == Turned(p, r, dh).root
<1>2. CASE dh # r.remote /\ r.steps = 0
  <2>1. PICK i \in Nat : dh = KeyBytes(PublicKey(RatchetPeer(p), i))
    BY <1>2
  <2>2. i # 0
    BY <1>2, <2>1 DEF Sound
  <2>3. dh.point = <<RatchetPeer(p), i>> /\ dh.point # Weak /\ RatchetPeer(p) # p
    BY <2>1, RatchetAssumption DEF KeyBytes, PublicKey, RatchetPeer, RatchetEnds
  <2>4. root[1] = {<<p, 0>>, <<RatchetPeer(p), i>>}
    <3>1. root[1] = Secret(PublicKey(p, 0), dh.point)
      BY <1>2, TurnedSound
    <3> HIDE DEF root
    <3> QED  BY <2>3, <3>1 DEF Secret, PublicKey
  <2> HIDE DEF root
  <2>5. <<p, 0>> # <<RatchetPeer(p), i>> /\ <<RatchetPeer(p), 0>> # <<RatchetPeer(p), i>>
    BY <2>2, <2>3
  <2>6. root[1] # {Weak} /\ <<RatchetPeer(p), 0>> \notin root[1]
    BY <2>3, <2>4, <2>5
  <2>7. Apart(p, root)
    BY <2>6 DEF Apart, PublicKey
  <2> QED  BY <2>7 DEF root
<1>3. CASE dh # r.remote /\ r.steps # 0
  <2>1. r.root # <<>> /\ root[1] = r.root[1]
    BY <1>3, TurnedSound
  <2> HIDE DEF root
  <2>2. Apart(p, root)
    BY <2>1 DEF Apart
  <2> QED  BY <2>2 DEF root
<1> QED
  BY <1>1, <1>2, <1>3

(* An encryption leaves its key behind.                                      *)
LEMMA SteppedSound ==
  ASSUME NEW p \in RatchetEnds, NEW r, Sound(p, r)
  PROVE  LET next == [r EXCEPT !.sending = Stepped(@)]
         IN /\ Sound(p, next)
            /\ Used(p, MessageKey(r.sending), next)
            /\ \A key : Used(p, key, r) => Used(p, key, next)
<1> DEFINE next == [r EXCEPT !.sending = Stepped(@)]
<1>1. PICK Receiving, Skipped : r \in Ratchets(Receiving, Skipped)
  BY DEF Sound
<1>2. /\ r.sending \in Chains /\ r.sending.counter \in Nat /\ r.root \in Roots /\ r.steps \in Nat
      /\ Len(r.root) = r.steps
  BY <1>1 DEF Ratchets, Chains, Sound
<1> DEFINE stepped == Stepped(r.sending)
<1>3. /\ stepped \in Chains /\ stepped.root = r.sending.root
      /\ stepped.label = r.sending.label /\ stepped.counter = r.sending.counter + 1
  BY <1>2 DEF Stepped, Chains
<1> HIDE DEF stepped
<1>4. next = [r EXCEPT !.sending = stepped]
  BY DEF stepped
<1>5. /\ next \in Ratchets(Receiving, Skipped)
      /\ next.root = r.root /\ next.steps = r.steps /\ next.sending = stepped
      /\ next.remote = r.remote
  BY <1>1, <1>3, <1>4 DEF Ratchets
<1> HIDE DEF next
<1>6. Sound(p, next)
  BY <1>3, <1>5 DEF Sound
<1>7. Used(p, MessageKey(r.sending), next)
  <2>1. MessageKey(r.sending) = r.sending
    BY DEF MessageKey
  <2>2. MadeBy(p, r.sending.root) /\ r.sending.label = LabelOf(p, r.sending.root)
    BY DEF Sound
  <2>3. r.sending.root = next.sending.root /\ r.sending.counter < next.sending.counter
    BY <1>2, <1>3, <1>5
  <2> QED  BY <1>2, <2>1, <2>2, <2>3 DEF Used
<1>8. ASSUME NEW key, Used(p, key, r) PROVE Used(p, key, next)
  <2>1. key.counter \in Nat
    BY <1>8 DEF Used, Chains
  <2> QED  BY <1>2, <1>3, <1>5, <1>8, <2>1 DEF Used
<1> QED
  BY <1>6, <1>7, <1>8 DEF next

WithReceiving(r, receiving, skipped) ==
  [r EXCEPT !.receiving = receiving, !.skipped = skipped]

(* What an arriving message does to the receiving side leaves the rest alone.*)
LEMMA ReceivingSound ==
  ASSUME NEW p \in RatchetEnds, NEW r, Sound(p, r), NEW receiving, NEW skipped
  PROVE  LET next == WithReceiving(r, receiving, skipped)
         IN /\ Sound(p, next) /\ next.root = r.root
            /\ \A key : Used(p, key, r) => Used(p, key, next)
<1> DEFINE turned == [r EXCEPT !.receiving = receiving]
           next == WithReceiving(r, receiving, skipped)
<1>1. PICK Receiving, Skipped : r \in Ratchets(Receiving, Skipped)
  BY DEF Sound
<1>2. turned \in Ratchets({receiving}, Skipped)
  BY <1>1 DEF Ratchets
<1>3. /\ turned.root = r.root /\ turned.steps = r.steps
      /\ turned.sending = r.sending /\ turned.remote = r.remote
  BY <1>1 DEF Ratchets
<1>6. next = [turned EXCEPT !.skipped = skipped]
  BY DEF WithReceiving, turned
<1> HIDE DEF turned, next
<1>4. next \in Ratchets({receiving}, {skipped})
  BY <1>2, <1>6 DEF Ratchets
<1>5. /\ next.root = r.root /\ next.steps = r.steps
      /\ next.sending = r.sending /\ next.remote = r.remote
  BY <1>2, <1>3, <1>6 DEF Ratchets
<1>7. Sound(p, next)
  BY <1>4, <1>5 DEF Sound
<1>8. \A key : Used(p, key, r) => Used(p, key, next)
  BY <1>5 DEF Used
<1> QED
  BY <1>5, <1>7, <1>8 DEF next

LEMMA SetRatchetStep ==
  ASSUME RatchetInv, NEW p \in RatchetEnds, SetRatchet(p)
  PROVE  RatchetInv'
<1>1. /\ ~Established(p) /\ p \notin DOMAIN ratchet
      /\ ratchet' = [q \in DOMAIN ratchet \cup {p} |->
                      IF q = p THEN NewRatchet(p) ELSE ratchet[q]]
      /\ chatState' = [chatState EXCEPT ![p] = "Established"]
      /\ chatNet' = chatNet /\ chatKeys' = chatKeys /\ misled' = misled
  BY DEF SetRatchet, RatchetInv
<1>2. chatState' \in [RatchetEnds -> {"New", "Established"}]
  BY <1>1 DEF RatchetInv
<1>3. DOMAIN ratchet' = {q \in RatchetEnds : Established(q)'}
  <2>1. \A q \in RatchetEnds : Established(q)' <=> q = p \/ Established(q)
    BY <1>1 DEF RatchetInv, Established
  <2> QED  BY <1>1, <2>1 DEF RatchetInv
<1>4. \A q \in DOMAIN ratchet : q # p /\ ratchet'[q] = ratchet[q]
  BY <1>1
<1>5. \A q \in DOMAIN ratchet' : Sound(q, ratchet'[q])
  <2> SUFFICES ASSUME NEW q \in DOMAIN ratchet' PROVE Sound(q, ratchet'[q])
    OBVIOUS
  <2>1. CASE q = p
    BY <1>1, <2>1, NewRatchetSound
  <2>2. CASE q # p
    BY <1>1, <1>4, <2>2 DEF RatchetInv
  <2> QED  BY <2>1, <2>2
<1>6. \A i \in 1..Len(chatKeys') :
        /\ chatKeys'[i].by \in DOMAIN ratchet'
        /\ Used(chatKeys'[i].by, chatKeys'[i].key, ratchet'[chatKeys'[i].by])
        /\ chatKeys'[i].by \notin misled' => Apart(chatKeys'[i].by, chatKeys'[i].key.root)
  BY <1>1, <1>4 DEF RatchetInv
<1>7. \A q \in DOMAIN ratchet' \ misled' : Apart(q, ratchet'[q].root)
  <2>1. NewRatchet(p).root = <<>>
    BY DEF NewRatchet
  <2> QED  BY <1>1, <1>4, <2>1 DEF RatchetInv, Apart
<1>8. /\ \A m \in chatNet' :
           m.from \in RatchetEnds /\ \E i \in Nat : m.dh = KeyBytes(PublicKey(m.from, i))
      /\ chatKeys' \in Seq([by : RatchetEnds, key : Chains])
      /\ misled' \subseteq RatchetEnds /\ MessageKeysFresh'
  BY <1>1 DEF RatchetInv, MessageKeysFresh
<1> QED
  BY <1>2, <1>3, <1>5, <1>6, <1>7, <1>8 DEF RatchetInv

LEMMA ChatEncryptStep ==
  ASSUME RatchetInv, NEW p \in RatchetEnds, ChatEncrypt(p)
  PROVE  RatchetInv'
<1> DEFINE r == ratchet[p]
           next == [r EXCEPT !.sending = Stepped(@)]
           use == [by |-> p, key |-> MessageKey(r.sending)]
           n == Len(chatKeys)
<1>1. /\ Established(p) /\ ratchet' = [ratchet EXCEPT ![p].sending = Stepped(@)]
      /\ chatKeys' = Append(chatKeys, use)
      /\ chatNet' = chatNet \cup {[from |-> p, dh |-> KeyBytes(PublicKey(p, r.steps)),
                                   counter |-> r.sending.counter,
                                   key |-> MessageKey(r.sending)]}
      /\ chatState' = chatState /\ misled' = misled
  BY DEF ChatEncrypt
<1>2. p \in DOMAIN ratchet /\ Sound(p, r) /\ chatKeys \in Seq([by : RatchetEnds, key : Chains])
  BY <1>1 DEF RatchetInv
<1>3. PICK Receiving, Skipped : r \in Ratchets(Receiving, Skipped)
  BY <1>2 DEF Sound
<1>4. r.steps \in Nat /\ r.sending \in Chains /\ MessageKey(r.sending) = r.sending
  BY <1>3 DEF Ratchets, MessageKey
<1>5. /\ DOMAIN ratchet' = DOMAIN ratchet /\ ratchet'[p] = next
      /\ \A q \in DOMAIN ratchet : q # p => ratchet'[q] = ratchet[q]
  BY <1>1, <1>2
<1>6. /\ Sound(p, next) /\ Used(p, MessageKey(r.sending), next)
      /\ \A key : Used(p, key, r) => Used(p, key, next)
  BY <1>2, SteppedSound
<1>7. DOMAIN ratchet' = {q \in RatchetEnds : Established(q)'}
  BY <1>1, <1>5 DEF RatchetInv, Established
<1>8. \A q \in DOMAIN ratchet' : Sound(q, ratchet'[q])
  BY <1>5, <1>6 DEF RatchetInv
<1>9. \A m \in chatNet' :
        m.from \in RatchetEnds /\ \E i \in Nat : m.dh = KeyBytes(PublicKey(m.from, i))
  BY <1>1, <1>4 DEF RatchetInv
<1>18. next.root = r.root /\ r.sending.root = r.root
  BY <1>2, <1>3 DEF Ratchets, Sound
<1>19. \A q \in DOMAIN ratchet' \ misled' : Apart(q, ratchet'[q].root)
  BY <1>1, <1>5, <1>18 DEF RatchetInv
<1>10. /\ n \in Nat /\ Len(chatKeys') = n + 1 /\ chatKeys'[n + 1] = use
       /\ chatKeys' \in Seq([by : RatchetEnds, key : Chains])
       /\ \A i \in 1..n : chatKeys'[i] = chatKeys[i]
  <2>1. use \in [by : RatchetEnds, key : Chains]
    BY <1>4
  <2> HIDE DEF use
  <2> QED  BY <1>1, <1>2, <2>1, AppendProperties, LenProperties
<1>11. \A i \in 1..n : /\ chatKeys[i].by \in DOMAIN ratchet
                       /\ Used(chatKeys[i].by, chatKeys[i].key, ratchet[chatKeys[i].by])
                       /\ chatKeys[i].by \notin misled =>
                            Apart(chatKeys[i].by, chatKeys[i].key.root)
  BY DEF RatchetInv
<1>20. p \notin misled => Apart(p, r.sending.root)
  BY <1>2, <1>18 DEF RatchetInv
<1> HIDE DEF r, next, use, n
<1>12. \A i \in 1..n + 1 : i = n + 1 \/ i \in 1..n
  BY <1>10
<1>13. use.by = p /\ use.key = MessageKey(r.sending)
  BY DEF use
<1>14. \A i \in 1..n + 1 :
         /\ chatKeys'[i].by \in DOMAIN ratchet'
         /\ Used(chatKeys'[i].by, chatKeys'[i].key, ratchet'[chatKeys'[i].by])
         /\ chatKeys'[i].by \notin misled' => Apart(chatKeys'[i].by, chatKeys'[i].key.root)
  <2> SUFFICES ASSUME NEW i \in 1..n + 1
               PROVE  /\ chatKeys'[i].by \in DOMAIN ratchet'
                      /\ Used(chatKeys'[i].by, chatKeys'[i].key, ratchet'[chatKeys'[i].by])
                      /\ chatKeys'[i].by \notin misled' =>
                           Apart(chatKeys'[i].by, chatKeys'[i].key.root)
    OBVIOUS
  <2>1. CASE i = n + 1
    BY <1>1, <1>2, <1>4, <1>5, <1>6, <1>10, <1>13, <1>20, <2>1
  <2>2. CASE i \in 1..n
    <3>1. chatKeys'[i] = chatKeys[i]
      BY <1>10, <2>2
    <3>2. CASE chatKeys[i].by = p
      BY <1>1, <1>2, <1>5, <1>6, <1>11, <2>2, <3>1, <3>2 DEF r
    <3>3. CASE chatKeys[i].by # p
      BY <1>1, <1>5, <1>11, <2>2, <3>1, <3>3
    <3> QED  BY <3>2, <3>3
  <2> QED  BY <1>12, <2>1, <2>2
<1>15. \A i \in 1..n : chatKeys[i].key = r.sending =>
         chatKeys[i].by # p /\ misled = RatchetEnds
  <2> SUFFICES ASSUME NEW i \in 1..n, chatKeys[i].key = r.sending
               PROVE  chatKeys[i].by # p /\ misled = RatchetEnds
    OBVIOUS
  <2>1. chatKeys[i].by \in RatchetEnds
    BY <1>11 DEF RatchetInv
  <2>2. chatKeys[i].by = p => ratchet[chatKeys[i].by] = r
    BY DEF r
  <2> DEFINE q == chatKeys[i].by
  <2>3. q # p /\ ~Apart(p, r.sending.root) /\ ~Apart(q, chatKeys[i].key.root)
    BY <1>2, <1>11, <2>1, <2>2, NextKeyFresh
  <2>4. p \in misled /\ q \in misled
    BY <1>11, <1>20, <2>3
  <2>5. misled \subseteq RatchetEnds
    BY DEF RatchetInv
  <2>6. RatchetEnds = {p, q}
    BY <2>1, <2>3 DEF RatchetEnds
  <2> QED  BY <2>3, <2>4, <2>5, <2>6
<1>16. MessageKeysFresh'
  <2> SUFFICES ASSUME NEW i \in 1..n + 1, NEW j \in 1..n + 1, i # j,
                      chatKeys'[i].key = chatKeys'[j].key
               PROVE  chatKeys'[i].by # chatKeys'[j].by /\ misled = RatchetEnds
    BY <1>1, <1>10 DEF MessageKeysFresh
  <2>1. CASE i \in 1..n /\ j \in 1..n
    BY <1>10, <2>1 DEF RatchetInv, MessageKeysFresh, n
  <2>2. CASE i = n + 1 /\ j \in 1..n
    BY <1>4, <1>10, <1>13, <1>15, <2>2
  <2>3. CASE i \in 1..n /\ j = n + 1
    BY <1>4, <1>10, <1>13, <1>15, <2>3
  <2> QED  BY <1>12, <2>1, <2>2, <2>3
<1>17. chatState' \in [RatchetEnds -> {"New", "Established"}]
  BY <1>1 DEF RatchetInv
<1> QED
  BY <1>1, <1>7, <1>8, <1>9, <1>10, <1>14, <1>16, <1>17, <1>19 DEF RatchetInv

(* The key of a packet is one of its sender's; what arrives as that key can  *)
(* be read as a key.                                                         *)
LEMMA SentKeys ==
  ASSUME RatchetInv, NEW p \in RatchetEnds, NEW packet \in chatNet, packet.from # p
  PROVE  /\ \E i \in Nat : packet.dh = KeyBytes(PublicKey(RatchetPeer(p), i))
         /\ {packet.dh} \cup Changed(packet.dh) \subseteq PublicKeys
<1>1. PICK i \in Nat : packet.dh = KeyBytes(PublicKey(packet.from, i))
  BY DEF RatchetInv
<1>2. packet.from = RatchetPeer(p) /\ packet.from \in RatchetEnds
  BY RatchetAssumption DEF RatchetInv, RatchetPeer, RatchetEnds
<1>3. packet.dh = [point |-> <<packet.from, i>>, lastBit |-> 0]
  BY <1>1 DEF KeyBytes, PublicKey
<1>4. {packet.dh} \cup Changed(packet.dh) \subseteq PublicKeys
  BY <1>2, <1>3 DEF KeyBytes, Changed, CurvePoints, PublicKeys
<1> QED
  BY <1>1, <1>2, <1>4

(* Whatever arrives, the sending side is that of a ratchet turned or not.    *)
LEMMA ChatDecryptStep ==
  ASSUME RatchetInv, NEW p \in RatchetEnds, ChatDecrypt(p)
  PROVE  RatchetInv'
<1> DEFINE Arrives(dh, counter) ==
             LET r == Turned(p, ratchet[p], dh)
                 old == r.receiving # NoChain /\ counter < r.receiving.counter
             IN ratchet' = [ratchet EXCEPT ![p] =
                              IF r.receiving = NoChain THEN r
                              ELSE IF old THEN OutOfOrder(r, dh, counter)
                              ELSE InOrder(r, dh, counter)]
           Misleads(packet, dh) ==
             ratchet[p].steps = 0 /\ Turned(p, ratchet[p], dh).steps = 1 /\ dh # packet.dh
<1>0. PICK packet \in {m \in chatNet : m.from # p} :
        \E dh \in {packet.dh} \cup Changed(packet.dh), counter \in 0..MaxCounter :
          /\ Arrives(dh, counter)
          /\ misled' = misled \cup {q \in {p} : Misleads(packet, dh)}
  BY Zenon DEF ChatDecrypt
<1>1. PICK dh \in {packet.dh} \cup Changed(packet.dh), counter \in 0..MaxCounter :
        /\ Arrives(dh, counter)
        /\ misled' = misled \cup {q \in {p} : Misleads(packet, dh)}
  BY <1>0
<1>2. Established(p) /\ chatState' = chatState /\ chatNet' = chatNet /\ chatKeys' = chatKeys
  BY DEF ChatDecrypt
<1> DEFINE before == ratchet[p]
           r == Turned(p, before, dh)
<1>3. p \in DOMAIN ratchet /\ Sound(p, before)
  BY <1>2 DEF RatchetInv
<1>13. PICK k \in Nat : packet.dh = KeyBytes(PublicKey(RatchetPeer(p), k))
  BY SentKeys
<1>4. dh \in PublicKeys
  BY SentKeys
<1>5. Sound(p, r) /\ \A key : Used(p, key, before) => Used(p, key, r)
  BY <1>3, <1>4, TurnedSound
<1> DEFINE next == ratchet'[p]
<1>6. /\ DOMAIN ratchet' = DOMAIN ratchet
      /\ \A q \in DOMAIN ratchet : q # p => ratchet'[q] = ratchet[q]
  BY <1>1
<1>14. misled \subseteq misled' /\ misled' \subseteq misled \cup {p} /\ misled' \subseteq RatchetEnds
  BY <1>1 DEF RatchetInv
<1>15. p \notin misled' => Apart(p, r.root)
  <2> SUFFICES ASSUME p \notin misled' PROVE Apart(p, r.root)
    OBVIOUS
  <2>1. Apart(p, before.root)
    BY <1>3, <1>14 DEF RatchetInv
  <2>2. CASE dh = before.remote
    BY <2>1, <2>2 DEF Turned
  <2>3. CASE dh # before.remote
    <3>1. PICK Receiving, Skipped : before \in Ratchets(Receiving, Skipped)
      BY <1>3 DEF Sound
    <3>2. before.steps \in Nat
      BY <3>1 DEF Ratchets
    <3>3. r.steps = before.steps + 1
      BY <2>3 DEF Turned, DhRatchet
    <3>4. before.steps = 0 => dh = packet.dh
      BY <1>1, <3>2, <3>3
    <3> HIDE DEF before, r
    <3>5. before.steps = 0 => \E i \in Nat : dh = KeyBytes(PublicKey(RatchetPeer(p), i))
      BY <1>13, <3>4
    <3>6. Apart(p, Turned(p, before, dh).root)
      BY <1>3, <1>4, <2>1, <3>5, TurnedApart
    <3> QED  BY <3>6 DEF r
  <2> QED  BY <2>2, <2>3
<1>7. next = r \/ next = OutOfOrder(r, dh, counter) \/ next = InOrder(r, dh, counter)
  BY <1>1, <1>3
<1> HIDE DEF before, r, next
<1>8. /\ Sound(p, next) /\ next.root = r.root
      /\ \A key : Used(p, key, r) => Used(p, key, next)
  <2>1. CASE next = r
    BY <1>5, <2>1
  <2>2. CASE next = OutOfOrder(r, dh, counter)
    <3>1. PICK skipped : OutOfOrder(r, dh, counter) = [r EXCEPT !.skipped = skipped]
      BY DEF OutOfOrder
    <3>2. [r EXCEPT !.skipped = skipped] =
            [r EXCEPT !.receiving = r.receiving, !.skipped = skipped]
      <4>1. PICK Receiving, Skipped : r \in Ratchets(Receiving, Skipped)
        BY <1>5 DEF Sound
      <4> QED  BY <4>1 DEF Ratchets
    <3>3. next = WithReceiving(r, r.receiving, skipped)
      BY <2>2, <3>1, <3>2 DEF WithReceiving
    <3> QED  BY <1>5, <3>3, ReceivingSound
  <2>3. CASE next = InOrder(r, dh, counter)
    <3>1. PICK receiving, skipped :
            InOrder(r, dh, counter) = [r EXCEPT !.receiving = receiving, !.skipped = skipped]
      BY DEF InOrder
    <3>2. next = WithReceiving(r, receiving, skipped)
      BY <2>3, <3>1 DEF WithReceiving
    <3> QED  BY <1>5, <3>2, ReceivingSound
  <2> QED  BY <1>7, <2>1, <2>2, <2>3
<1>9. \A key : Used(p, key, before) => Used(p, key, next)
  BY <1>5, <1>8
<1>10. DOMAIN ratchet' = {q \in RatchetEnds : Established(q)'}
  BY <1>2, <1>6 DEF RatchetInv, Established
<1>11. \A q \in DOMAIN ratchet' : Sound(q, ratchet'[q])
  BY <1>6, <1>8 DEF RatchetInv, next
<1>12. \A i \in 1..Len(chatKeys) :
         /\ chatKeys[i].by \in DOMAIN ratchet'
         /\ Used(chatKeys[i].by, chatKeys[i].key, ratchet'[chatKeys[i].by])
         /\ chatKeys[i].by \notin misled' => Apart(chatKeys[i].by, chatKeys[i].key.root)
  <2> SUFFICES ASSUME NEW i \in 1..Len(chatKeys)
               PROVE  /\ chatKeys[i].by \in DOMAIN ratchet'
                      /\ Used(chatKeys[i].by, chatKeys[i].key, ratchet'[chatKeys[i].by])
                      /\ chatKeys[i].by \notin misled' =>
                           Apart(chatKeys[i].by, chatKeys[i].key.root)
    OBVIOUS
  <2>1. /\ chatKeys[i].by \in DOMAIN ratchet
        /\ Used(chatKeys[i].by, chatKeys[i].key, ratchet[chatKeys[i].by])
        /\ chatKeys[i].by \notin misled' => Apart(chatKeys[i].by, chatKeys[i].key.root)
    BY <1>14 DEF RatchetInv
  <2>2. CASE chatKeys[i].by = p
    BY <1>6, <1>9, <2>1, <2>2 DEF before, next
  <2>3. CASE chatKeys[i].by # p
    BY <1>6, <2>1, <2>3
  <2> QED  BY <2>2, <2>3
<1>16. \A q \in DOMAIN ratchet' \ misled' : Apart(q, ratchet'[q].root)
  <2> SUFFICES ASSUME NEW q \in DOMAIN ratchet', q \notin misled' PROVE Apart(q, ratchet'[q].root)
    OBVIOUS
  <2>1. CASE q = p
    BY <1>8, <1>15, <2>1 DEF next
  <2>2. CASE q # p
    BY <1>6, <1>14, <2>2 DEF RatchetInv
  <2> QED  BY <2>1, <2>2
<1>17. MessageKeysFresh'
  BY <1>2, <1>14 DEF RatchetInv, MessageKeysFresh
<1> QED
  BY <1>2, <1>10, <1>11, <1>12, <1>14, <1>16, <1>17 DEF RatchetInv

LEMMA RatchetInductive == RatchetSpec => []RatchetInv
<1>1. RatchetInit => RatchetInv
  BY EmptySeq DEF RatchetInit, RatchetInv, MessageKeysFresh, Established
<1>2. RatchetInv /\ [RatchetNext]_ratVars => RatchetInv'
  <2> SUFFICES ASSUME RatchetInv, [RatchetNext]_ratVars PROVE RatchetInv'
    OBVIOUS
  <2>1. ASSUME NEW p \in RatchetEnds, SetRatchet(p) PROVE RatchetInv'
    BY <2>1, SetRatchetStep
  <2>2. ASSUME NEW p \in RatchetEnds, ChatEncrypt(p) PROVE RatchetInv'
    BY <2>2, ChatEncryptStep
  <2>3. ASSUME NEW p \in RatchetEnds, ChatDecrypt(p) PROVE RatchetInv'
    BY <2>3, ChatDecryptStep
  <2>4. CASE UNCHANGED ratVars
    BY <2>4 DEF ratVars, RatchetInv, MessageKeysFresh, Established
  <2> QED  BY <2>1, <2>2, <2>3, <2>4 DEF RatchetNext
<1> QED
  BY <1>1, <1>2, PTL DEF RatchetSpec

(* No end encrypts twice under one message key, whatever headers are lost,   *)
(* repeated, reordered or changed on the way: every DH step makes a root the *)
(* end has not had, so the counters it restarts at zero count along chains   *)
(* it has not used (perform_dh_ratchet_recv, encrypt).  Two ends share a key *)
(* only if each made its first step onto a key its packet did not leave with.*)
THEOREM RatchetSafety == RatchetSpec => []MessageKeysFresh
<1>1. RatchetInv => MessageKeysFresh
  BY DEF RatchetInv
<1> QED
  BY <1>1, RatchetInductive, PTL

-----------------------------------------------------------------------------
(* Bounded lists, for the types of the parts *)

(* A list of at most max members of S.                                       *)
BoundedLists(S, max) == UNION {[1..n -> S] : n \in 0..max}

(* A bounded list is a list, of a length within the bound.                   *)
LEMMA BoundedList ==
  ASSUME NEW S, NEW max \in Nat, NEW s \in BoundedLists(S, max)
  PROVE  s \in Seq(S) /\ Len(s) \in 0..max /\ \A i \in 1..Len(s) : s[i] \in S
<1>1. PICK n \in 0..max : s \in [1..n -> S]
  BY DEF BoundedLists
<1>2. n \in Nat
  BY <1>1
<1>3. s \in Seq(S) /\ Len(s) = n
  BY <1>1, <1>2, SegmentIsSequence
<1> QED
  BY <1>1, <1>3, ElementOfSeq

(* A list that is short enough is a bounded one.                             *)
LEMMA BoundedIfShort ==
  ASSUME NEW S, NEW max \in Nat, NEW s \in Seq(S), Len(s) <= max
  PROVE  s \in BoundedLists(S, max)
<1>1. Len(s) \in 0..max /\ s \in [1..Len(s) -> S]
  BY LenProperties
<1> QED
  BY <1>1 DEF BoundedLists

(* The empty list is within every bound.                                     *)
LEMMA BoundedEmpty ==
  ASSUME NEW S, NEW max \in Nat
  PROVE  <<>> \in BoundedLists(S, max)
<1>1. <<>> \in Seq(S) /\ Len(<<>>) = 0
  BY EmptySeq
<1>2. Len(<<>>) <= max
  BY <1>1
<1> QED
  BY <1>1, <1>2, BoundedIfShort

(* A list that is not full has room for one more.                            *)
LEMMA BoundedAppend ==
  ASSUME NEW S, NEW max \in Nat, NEW s \in BoundedLists(S, max), Len(s) < max, NEW x \in S
  PROVE  Append(s, x) \in BoundedLists(S, max)
<1>1. s \in Seq(S) /\ Len(s) \in 0..max
  BY BoundedList
<1>2. Append(s, x) \in Seq(S) /\ Len(Append(s, x)) = Len(s) + 1
  BY <1>1, AppendProperties
<1>3. Len(Append(s, x)) <= max
  BY <1>1, <1>2
<1> QED
  BY <1>2, <1>3, BoundedIfShort

-----------------------------------------------------------------------------
(* Peer discovery *)
DhtInv ==
  /\ DOMAIN knownPeers = DhtNodes
  /\ dhtNow \in 0..MaxDhtTime
  /\ DhtTypeOK

(* A peer added with its address is a peer; discovery only adds itself.      *)
LEMMA DhtAddPeer ==
  ASSUME DhtInv, NEW n \in DhtNodes, NEW p \in AllPeers, AddPeer(n, p),
         n = "discovery" => p = "discovery"
  PROVE  DhtInv'
<1>1. PICK a \in Addresses : knownPeers' = [knownPeers EXCEPT ![n] = Pushed(knownPeers[n], p, a)]
  BY DEF AddPeer
<1>2. UNCHANGED <<pendingLookups, discovered, dhtNow, byHand>>
  BY DEF AddPeer
<1>3. /\ DOMAIN knownPeers' = DhtNodes
      /\ DOMAIN knownPeers'[n] = DOMAIN knownPeers[n] \cup {p}
      /\ \A m \in DhtNodes : m # n => knownPeers'[m] = knownPeers[m]
  BY <1>1 DEF DhtInv, Pushed
<1>4. \A m \in DhtNodes : DOMAIN knownPeers'[m] \subseteq AllPeers
  BY <1>3 DEF DhtInv, DhtTypeOK
<1>5. "discovery" \in DhtNodes
  BY DEF DhtNodes
<1>6. DOMAIN knownPeers'["discovery"] \subseteq {"discovery"}
  BY <1>3, <1>5 DEF DhtInv, DhtTypeOK
<1> QED
  BY <1>2, <1>3, <1>4, <1>6 DEF DhtInv, DhtTypeOK

(* The nodes share no peers: the one that peer discovery looks in knows none *)
(* but itself, whatever the other is told, and by hand is only what is still *)
(* in the cache after it was pruned (DhtNode, PeerDiscovery).                *)
THEOREM DhtTypeCorrect == DhtSpec => []DhtTypeOK
<1>1. DhtInit => DhtInv
  BY DhtAssumption DEF DhtInit, DhtInv, DhtTypeOK, DhtNodes
<1>2. DhtInv /\ [DhtNext]_dhtVars => DhtInv'
  <2> SUFFICES ASSUME DhtInv, [DhtNext]_dhtVars PROVE DhtInv'
    OBVIOUS
  <2>1. ASSUME NEW p \in AllPeers \ {"node"}, AddPeer("node", p) PROVE DhtInv'
    BY <2>1, DhtAddPeer DEF DhtNodes
  <2>2. CASE PublishSelf
    BY <2>2, DhtAddPeer DEF PublishSelf, AllPeers
  <2>3. CASE RemovePeer
    <3>1. PICK p \in DOMAIN knownPeers["node"] :
            knownPeers' = [knownPeers EXCEPT !["node"] =
                             [q \in DOMAIN knownPeers["node"] \ {p} |-> knownPeers["node"][q]]]
      BY <2>3 DEF RemovePeer
    <3>2. /\ DOMAIN knownPeers' = DhtNodes
          /\ \A m \in DhtNodes : DOMAIN knownPeers'[m] \subseteq DOMAIN knownPeers[m]
      BY <3>1 DEF DhtInv, DhtNodes
    <3>3. "discovery" \in DhtNodes
      BY DEF DhtNodes
    <3> QED  BY <2>3, <3>2, <3>3 DEF DhtInv, DhtTypeOK, RemovePeer
  <2>4. CASE StartLookup
    BY <2>4 DEF StartLookup, DhtInv, DhtTypeOK
  <2>5. CASE FindPeer
    <3>1. PICK f \in Prints : \E info \in LookupPeer("discovery", f) : discovered' = Cached(f, info)
      BY <2>5 DEF FindPeer
    <3>2. PICK info : discovered' = Cached(f, info) /\ info.seen = dhtNow
      BY <3>1 DEF LookupPeer
    <3> QED  BY <2>5, <3>1, <3>2 DEF FindPeer, Cached, DhtInv, DhtTypeOK
  <2>6. CASE AddDiscoveredPeer
    <3>1. PICK f, info : /\ discovered' = Cached(f, info) /\ info.seen = dhtNow
                         /\ byHand' = byHand \cup {f}
      BY <2>6 DEF AddDiscoveredPeer
    <3> QED  BY <2>6, <3>1 DEF AddDiscoveredPeer, Cached, DhtInv, DhtTypeOK
  <2>7. CASE PruneCache
    <3>1. PICK fresh \in SUBSET DOMAIN discovered :
            discovered' = [f \in fresh |-> discovered[f]] /\ byHand' = byHand \cap fresh
      BY <2>7 DEF PruneCache
    <3> QED  BY <2>7, <3>1 DEF PruneCache, DhtInv, DhtTypeOK
  <2>8. CASE DhtClock
    BY <2>8 DEF DhtClock, DhtInv, DhtTypeOK
  <2>9. CASE UNCHANGED dhtVars
    BY <2>9 DEF dhtVars, DhtInv, DhtTypeOK
  <2> QED  BY <2>1, <2>2, <2>3, <2>4, <2>5, <2>6, <2>7, <2>8, <2>9 DEF DhtNext
<1>3. DhtInv => DhtTypeOK
  BY DEF DhtInv
<1> QED
  BY <1>1, <1>2, <1>3, PTL DEF DhtSpec

-----------------------------------------------------------------------------
(* The transports added have known types, and what was sent is a value of the*)
(* layout it was sent in (TransportSelector, message_transport.rs).          *)
THEOREM WireTypeCorrect == WireSpec => []WireTypeOK
<1> DEFINE Lists == BoundedLists(TransportTypes, MaxTransports)
<1>0. MaxTransports \in Nat /\ Lists = UNION {[1..n -> TransportTypes] : n \in 0..MaxTransports}
  BY WireAssumption DEF BoundedLists
<1>1. WireInit => WireTypeOK
  <2>1. <<>> \in Lists
    BY <1>0, BoundedEmpty
  <2> HIDE DEF Lists
  <2> QED  BY <1>0, <2>1 DEF WireInit, WireTypeOK, WireFormatNames
<1>2. WireTypeOK /\ [WireNext]_wireVars => WireTypeOK'
  <2> SUFFICES ASSUME WireTypeOK, [WireNext]_wireVars PROVE WireTypeOK'
    OBVIOUS
  <2>1. transports \in Lists
    BY <1>0 DEF WireTypeOK
  <2>2. CASE AddTransport
    <3>1. transports' \in Lists
      BY <1>0, <2>1, <2>2, BoundedAppend DEF AddTransport
    <3> HIDE DEF Lists
    <3> QED  BY <1>0, <2>2, <3>1 DEF AddTransport, WireTypeOK
  <2> HIDE DEF Lists
  <2>3. ASSUME NEW format \in WireFormatNames, Send(format) PROVE WireTypeOK'
    BY <2>3 DEF Send, WireTypeOK
  <2>4. CASE SendFormat
    BY <2>3, <2>4 DEF SendFormat
  <2>5. CASE SendSelected
    <3>1. PICK preferred, t : t \in Selected(preferred) /\ Send(t)
      BY <2>5 DEF SendSelected
    <3>2. \E i \in Available : t = transports[i]
      BY <3>1 DEF Selected
    <3>3. t \in TransportTypes
      BY <1>0, <2>1, <3>2, BoundedList DEF Available, Lists
    <3> QED  BY <2>3, <3>1, <3>3 DEF WireFormatNames
  <2>6. CASE Damage
    BY <2>6 DEF Damage, WireTypeOK
  <2>7. CASE Receive
    BY <2>7 DEF Receive, WireTypeOK
  <2>8. CASE UNCHANGED wireVars
    BY <2>8 DEF wireVars, WireTypeOK
  <2> QED  BY <2>2, <2>4, <2>5, <2>6, <2>7, <2>8 DEF WireNext
<1> QED
  BY <1>1, <1>2, PTL DEF WireSpec

(* At most one message is made ahead, and it is the last one made, however   *)
(* often cover traffic is started and configured anew; real messages leave   *)
(* the rate and their count as they were (CoverTrafficGenerator).            *)
THEOREM CoverTypeCorrect == CoverSpec => []CoverTypeOK
<1>1. CoverInv => CoverTypeOK
  BY DEF CoverInv
<1> QED
  BY <1>1, CoverInductive, PTL

-----------------------------------------------------------------------------
(* What BookTypeOK says beside the two books and the calls of add_contact(). *)
BookRest ==
  /\ bookOpen \in BOOLEAN /\ bookApart \subseteq People
  /\ syncDevices \in BoundedLists(Devices, MaxQueued) /\ syncOps \in 0..MaxQueued

(* Whatever the callers of add_contact() interleave, book and rows keep      *)
(* people with trust levels, and the sync queues their types (contact.rs,    *)
(* sync.rs).                                                                 *)
THEOREM BookTypeCorrect == BookSpec => []BookTypeOK
<1>0. MaxQueued \in Nat
  BY ContactAssumption
<1>a. <<>> \in BoundedLists(Devices, MaxQueued) /\ 0 \in 0..MaxQueued
  BY <1>0, BoundedEmpty
<1>1. BookInit => BookRest
  BY <1>a, Zenon DEF BookInit, BookRest
<1>2. BookInv /\ BookRest /\ [BookNext]_bookVars => BookRest'
  <2> SUFFICES ASSUME BookInv, BookRest, [BookNext]_bookVars PROVE BookRest'
    OBVIOUS
  <2>1. ASSUME NEW t \in ContactCallers, AddToMemory(t) PROVE BookRest'
    BY <2>1 DEF AddToMemory, SyncIdle, BookRest
  <2>2. ASSUME NEW t \in ContactCallers, AddRow(t) PROVE BookRest'
    <3>1. adding[t].person \in People
      BY <2>2 DEF AddRow, BookInv, AddingInv, Adding
    <3> QED  BY <2>2, <3>1 DEF AddRow, SyncIdle, BookRest
  <2>3. CASE RemoveContact
    BY <2>3 DEF RemoveContact, SyncIdle, BookRest
  <2>4. CASE OpenOrClose
    BY <2>4 DEF OpenOrClose, SyncIdle, BookRest
  <2>5. CASE BookRestart
    BY <1>a, <2>5, Zenon DEF BookRestart, BookRest
  <2>6. CASE RunPsi
    BY <2>6 DEF RunPsi, BookRest
  <2>7. CASE RegisterDevice
    BY <1>0, <2>7, BoundedAppend DEF RegisterDevice, BookRest
  <2>8. CASE QueueOperation
    BY <1>0, <2>8 DEF QueueOperation, BookRest
  <2>9. CASE TakePendingOps
    BY <1>0, <2>9 DEF TakePendingOps, BookRest
  <2>10. CASE UNCHANGED bookVars
    BY <2>10 DEF bookVars, BookRest
  <2> QED
    BY <2>1, <2>2, <2>3, <2>4, <2>5, <2>6, <2>7, <2>8, <2>9, <2>10 DEF BookNext
<1>3. BookInv /\ BookRest => BookTypeOK
  <2> SUFFICES ASSUME BookInv, BookRest PROVE BookTypeOK
    OBVIOUS
  <2>1. Len(syncDevices) <= MaxQueued
    BY <1>0, BoundedList DEF BookRest
  <2> QED  BY <2>1 DEF BookInv, BookRest, AddingInv, BookTypeOK
<1> QED
  BY <1>1, <1>2, <1>3, BookInductive, PTL DEF BookSpec

-----------------------------------------------------------------------------
(* Mixnet: where the messages are *)

(* What has left the queue before the batch is out or lost, once each, and   *)
(* the batch is what came next.                                              *)
MixPlaces ==
  /\ SeqSet(mixOut) \cup mixLost = 1..Before
  /\ IsFiniteSet(mixLost) /\ Len(mixOut) + Cardinality(mixLost) = Before
  /\ SeqSet(mixBatch) = (Before + 1)..Taken

MixRest ==
  /\ mixNodes \in BoundedLists(MixNodes, MaxMixNodes)
  /\ mixQueued <= MaxMixed
  /\ mixPath \in Paths(Len(mixNodes)) \cup {<<>>}

(* Nothing is in the empty list.                                             *)
LEMMA SeqSetOfEmpty ==
  SeqSet(<<>>) = {}
BY EmptySeq DEF SeqSet

(* A shuffle takes every message of the batch: a one-to-one function of a    *)
(* finite set to itself leaves nothing out.                                  *)
LEMMA ShuffleTakesAll ==
  ASSUME NEW n \in Nat, NEW f \in [1..n -> 1..n],
         \A i, j \in 1..n : i # j => f[i] # f[j]
  PROVE  \A k \in 1..n : \E i \in 1..n : f[i] = k
<1>1. IsFiniteSet(1..n)
  BY FS_Interval
<1>2. f \in Injection(1..n, 1..n)
  BY DEF Injection, IsInjective
<1>3. f \in Surjection(1..n, 1..n)
  BY <1>1, <1>2, FS_Injection
<1> QED
  BY <1>3 DEF Surjection

(* The messages of a batch are the ones that come next, in any order.        *)
LEMMA MixTakeBatchPlaces ==
  ASSUME MixInv, MixPlaces, TakeBatch
  PROVE  MixPlaces'
<1> DEFINE len == Len(mixQueue)
           n == Take(len)
<1>1. /\ mixBatch = <<>> /\ mixQueue' = SubSeq(mixQueue, n + 1, len)
      /\ UNCHANGED <<mixOut, mixLost, mixQueued>>
  BY DEF TakeBatch
<1>2. PICK order \in {f \in [1..n -> 1..n] : \A i, j \in 1..n : i # j => f[i] # f[j]} :
        mixBatch' = [i \in 1..n |-> mixQueue[order[i]]]
  BY DEF TakeBatch
<1>3. len \in Nat /\ n \in Nat /\ n <= len
  BY MixLengths, MixAssumption DEF Take
<1>4. \A i \in 1..len : mixQueue[i] = Taken + i /\ mixQueue[i] \in Nat
  BY MixLengths DEF MixInv
<1>5. Len(mixQueue') = len - n
  <2>1. \A i \in (n + 1)..len : mixQueue[i] \in Nat
    BY <1>3, <1>4
  <2>2. Len(mixQueue') = IF n + 1 <= len THEN len - (n + 1) + 1 ELSE 0
    BY <1>1, <1>3, <2>1, SubSeqProperties
  <2> QED  BY <1>3, <2>2
<1>6. Taken' = Taken + n /\ Before = Taken
  <2>1. Len(mixBatch) = 0
    BY <1>1, EmptySeq
  <2> QED  BY <1>1, <1>3, <1>5, <2>1, MixLengths DEF Taken, Before
<1>7. Len(mixBatch') = n /\ DOMAIN mixBatch' = 1..n
  <2>1. mixBatch' \in [1..n -> Nat]
    BY <1>2, <1>3, <1>4
  <2> QED  BY <1>3, <2>1, SegmentIsSequence
<1> HIDE DEF n
<1>8. Before' = Before
  BY <1>3, <1>6, <1>7, MixLengths DEF Before
<1>9. Taken \in Nat
  BY MixLengths
<1>10. SeqSet(mixBatch') = (Before' + 1)..Taken'
  <2>1. SeqSet(mixBatch') \subseteq (Taken + 1)..(Taken + n)
    <3> SUFFICES ASSUME NEW i \in 1..n PROVE mixBatch'[i] \in (Taken + 1)..(Taken + n)
      BY <1>7 DEF SeqSet
    <3>1. order[i] \in 1..n /\ order[i] \in 1..len
      BY <1>2, <1>3
    <3>2. mixBatch'[i] = Taken + order[i]
      BY <1>2, <1>4, <3>1
    <3>3. order[i] \in Nat /\ 1 <= order[i] /\ order[i] <= n
      BY <1>3, <3>1
    <3> HIDE DEF len
    <3> QED  BY <1>3, <1>9, <3>2, <3>3
  <2>2. ASSUME NEW m \in (Taken + 1)..(Taken + n) PROVE m \in SeqSet(mixBatch')
    <3> HIDE DEF len
    <3>1. m - Taken \in 1..n /\ Taken + (m - Taken) = m /\ m - Taken \in 1..len
      BY <1>3, <1>9
    <3>2. PICK i \in 1..n : order[i] = m - Taken
      BY <1>2, <1>3, <3>1, ShuffleTakesAll
    <3>3. mixBatch'[i] = Taken + (m - Taken)
      BY <1>2, <1>4, <3>1, <3>2
    <3> QED  BY <1>7, <3>1, <3>3 DEF SeqSet
  <2> QED  BY <1>6, <1>8, <2>1, <2>2
<1> QED
  BY <1>1, <1>8, <1>10 DEF MixPlaces

(* What is in the batch follows what is gone, and is none of it.             *)
LEMMA MixSegments ==
  ASSUME MixInv, MixPlaces
  PROVE  /\ 1..Before \cup SeqSet(mixBatch) = 1..Taken /\ Taken = Before + Len(mixBatch)
         /\ \A m \in SeqSet(mixBatch) : m \notin mixLost
         /\ IsFiniteSet(SeqSet(mixBatch)) /\ Cardinality(SeqSet(mixBatch)) = Len(mixBatch)
<1>1. Before \in Nat /\ Taken \in Nat /\ Taken = Before + Len(mixBatch) /\ Len(mixBatch) \in Nat
  BY MixLengths
<1>2. SeqSet(mixBatch) = (Before + 1)..Taken /\ mixLost \subseteq 1..Before
  BY DEF MixPlaces
<1>3. /\ IsFiniteSet((Before + 1)..Taken)
      /\ Cardinality((Before + 1)..Taken) = IF Before + 1 > Taken THEN 0 ELSE Taken - (Before + 1) + 1
  <2>1. Before + 1 \in Int /\ Taken \in Int
    BY <1>1
  <2> QED  BY <2>1, FS_Interval
<1>4. Cardinality((Before + 1)..Taken) = Len(mixBatch)
  BY <1>1, <1>3
<1>5. 1..Before \cup (Before + 1)..Taken = 1..Taken
  BY <1>1
<1>6. \A m \in (Before + 1)..Taken : m \notin 1..Before
  BY <1>1
<1> QED
  BY <1>1, <1>2, <1>3, <1>4, <1>5, <1>6

(* A batch that is returned is out.                                          *)
LEMMA MixReturnPlaces ==
  ASSUME MixInv, MixPlaces, ReturnBatch
  PROVE  MixPlaces'
<1> DEFINE len == Len(mixOut)
           n == Len(mixBatch)
<1>1. /\ mixOut' = mixOut \o mixBatch /\ mixBatch' = <<>>
      /\ UNCHANGED <<mixQueue, mixQueued, mixLost>>
  BY DEF ReturnBatch
<1>2. len \in Nat /\ n \in Nat
  BY MixLengths
<1>3. /\ Len(mixOut') = len + n
      /\ \A i \in 1..len : mixOut'[i] = mixOut[i]
      /\ \A i \in 1..n : mixOut'[len + i] = mixBatch[i]
  BY <1>1, ConcatProperties DEF MixInv
<1>4. Len(mixBatch') = 0 /\ SeqSet(mixBatch') = {}
  BY <1>1, EmptySeq, SeqSetOfEmpty
<1>5. Taken' = Taken /\ Before' = Taken /\ Taken = Before + n
  BY <1>1, <1>4, MixLengths DEF Taken, Before
<1>6. SeqSet(mixOut') = SeqSet(mixOut) \cup SeqSet(mixBatch)
  <2>1. ASSUME NEW i \in 1..len + n PROVE mixOut'[i] \in SeqSet(mixOut) \cup SeqSet(mixBatch)
    <3>1. CASE i \in 1..len
      BY <1>3, <3>1 DEF SeqSet
    <3>2. CASE i \notin 1..len
      <4>1. i - len \in 1..n /\ len + (i - len) = i
        BY <1>2, <3>2
      <4> QED  BY <1>3, <4>1 DEF SeqSet
    <3> QED  BY <3>1, <3>2
  <2>2. ASSUME NEW i \in 1..len PROVE mixOut[i] \in SeqSet(mixOut')
    <3>1. i \in 1..len + n
      BY <1>2
    <3> QED  BY <1>3, <3>1 DEF SeqSet
  <2>3. ASSUME NEW i \in 1..n PROVE mixBatch[i] \in SeqSet(mixOut')
    <3>1. len + i \in 1..len + n
      BY <1>2
    <3> QED  BY <1>3, <3>1 DEF SeqSet
  <2> QED  BY <1>3, <2>1, <2>2, <2>3 DEF SeqSet
<1>7. SeqSet(mixOut') \cup mixLost = 1..Taken
  BY <1>6, MixSegments DEF MixPlaces
<1>8. Len(mixOut') + Cardinality(mixLost) = Taken
  BY <1>2, <1>3, <1>5, FS_CardinalityType DEF MixPlaces
<1>9. (Taken + 1)..Taken = {}
  BY MixLengths
<1> QED
  BY <1>1, <1>4, <1>5, <1>7, <1>8, <1>9 DEF MixPlaces

(* A batch that goes with a dropped call is lost.                            *)
LEMMA MixDropPlaces ==
  ASSUME MixInv, MixPlaces, DropBatch
  PROVE  MixPlaces'
<1>1. /\ mixLost' = mixLost \cup SeqSet(mixBatch) /\ mixBatch' = <<>>
      /\ UNCHANGED <<mixQueue, mixQueued, mixOut>>
  BY DEF DropBatch
<1>2. Len(mixBatch') = 0 /\ SeqSet(mixBatch') = {}
  BY <1>1, EmptySeq, SeqSetOfEmpty
<1>3. Taken' = Taken /\ Before' = Taken
  BY <1>1, <1>2, MixLengths DEF Taken, Before
<1>4. IsFiniteSet(mixLost') /\ Cardinality(mixLost') = Cardinality(mixLost) + Len(mixBatch)
  <2> DEFINE batch == SeqSet(mixBatch)
  <2>1. IsFiniteSet(mixLost) /\ IsFiniteSet(batch) /\ Cardinality(batch) = Len(mixBatch)
    BY MixSegments DEF MixPlaces
  <2>2. mixLost \cap batch = {}
    BY MixSegments
  <2> HIDE DEF batch
  <2>3. Cardinality(mixLost \cap batch) = 0
    BY <2>2, FS_EmptySet
  <2>4. /\ IsFiniteSet(mixLost \cup batch)
        /\ Cardinality(mixLost \cup batch) = Cardinality(mixLost) + Cardinality(batch)
                                              - Cardinality(mixLost \cap batch)
    BY <2>1, FS_Union
  <2> QED  BY <1>1, <2>1, <2>3, <2>4, FS_CardinalityType, MixLengths DEF batch
<1>5. SeqSet(mixOut) \cup mixLost' = 1..Taken
  BY <1>1, MixSegments DEF MixPlaces
<1>6. Len(mixOut) + Cardinality(mixLost') = Taken
  BY <1>4, MixSegments, FS_CardinalityType, MixLengths DEF MixPlaces
<1>7. (Taken + 1)..Taken = {}
  BY MixLengths
<1> QED
  BY <1>1, <1>2, <1>3, <1>4, <1>5, <1>6, <1>7 DEF MixPlaces

(* A message queued is the last of the queue, and nowhere else.              *)
LEMMA MixEnqueuePlaces ==
  ASSUME MixInv, MixPlaces, Enqueue, UNCHANGED <<mixBatch, mixOut, mixLost>>
  PROVE  MixPlaces'
<1>1. /\ mixQueued' = mixQueued + 1 /\ mixQueue' = Append(mixQueue, mixQueued + 1)
      /\ mixQueue \in Seq(Nat) /\ mixQueued + 1 \in Nat
  BY MixLengths DEF Enqueue, MixInv
<1>2. Len(mixQueue') = Len(mixQueue) + 1
  BY <1>1, AppendProperties
<1>3. Taken' = Taken
  BY <1>1, <1>2, MixLengths DEF Taken
<1>4. Before' = Before
  BY <1>3 DEF Before
<1> QED
  BY <1>3, <1>4 DEF MixPlaces

(* A path over n nodes is one over more.                                     *)
LEMMA MorePaths ==
  ASSUME NEW n \in Nat
  PROVE  Paths(n) \subseteq Paths(n + 1)
<1>1. 1..n \subseteq 1..(n + 1)
  OBVIOUS
<1> QED
  BY <1>1 DEF Paths

(* A registered node leaves the path chosen before it as it is.              *)
LEMMA MixRestStep ==
  ASSUME MixInv, MixRest, [MixNext]_mixVars
  PROVE  MixRest'
<1>1. /\ MaxMixed \in Nat /\ MaxMixNodes \in Nat /\ mixQueued \in Nat
      /\ Len(mixNodes) \in Nat
  <2>1. MaxMixed \in Nat /\ MaxMixNodes \in Nat
    BY MixAssumption
  <2>2. Len(mixNodes) \in 0..MaxMixNodes
    BY <2>1, BoundedList DEF MixRest
  <2> QED  BY <2>1, <2>2, MixLengths
<1>2. ASSUME Enqueue PROVE mixQueued' <= MaxMixed
  BY <1>1, <1>2 DEF Enqueue
<1>3. CASE RegisterNode
  <2>1. PICK n \in MixNodes : mixNodes' = Append(mixNodes, n)
    BY <1>3 DEF RegisterNode
  <2>2. mixNodes' \in BoundedLists(MixNodes, MaxMixNodes)
    BY <1>1, <1>3, <2>1, BoundedAppend DEF RegisterNode, MixRest
  <2>3. Len(mixNodes') = Len(mixNodes) + 1
    <3>1. mixNodes \in Seq(MixNodes)
      BY <1>1, BoundedList DEF MixRest
    <3> QED  BY <2>1, <3>1, AppendProperties
  <2>4. mixPath \in Paths(Len(mixNodes')) \cup {<<>>}
    BY <1>1, <2>3, MorePaths DEF MixRest
  <2> QED  BY <1>3, <2>2, <2>4 DEF RegisterNode, MixRest
<1>4. CASE QueueMessage
  BY <1>2, <1>4 DEF QueueMessage, MixRest
<1>5. CASE MixSend
  <2>1. mixQueued' <= MaxMixed
    BY <1>2, <1>5 DEF MixSend, MixRest
  <2>2. mixPath' \in Paths(Len(mixNodes)) \cup {<<>>}
    BY <1>5 DEF MixSend, MixRest
  <2> QED  BY <1>5, <2>1, <2>2 DEF MixSend, MixRest
<1>6. CASE TakeBatch \/ ReturnBatch \/ DropBatch \/ UNCHANGED mixVars
  BY <1>6 DEF TakeBatch, ReturnBatch, DropBatch, mixVars, MixRest
<1> QED
  BY <1>3, <1>4, <1>5, <1>6 DEF MixNext

(* Every message queued is in just one place: the queue, the batch that is   *)
(* being delayed, what was returned, or what a dropped call took with it.    *)
THEOREM MixTypeCorrect == MixSpec => []MixTypeOK
<1>1. MixInit => MixPlaces /\ MixRest
  <2> SUFFICES ASSUME MixInit PROVE MixPlaces /\ MixRest
    OBVIOUS
  <2>1. Len(<<>>) = 0 /\ 1..0 = {} /\ SeqSet(<<>>) = {} /\ IsFiniteSet({}) /\ Cardinality({}) = 0
    BY EmptySeq, SeqSetOfEmpty, FS_EmptySet
  <2>2. Taken = 0 /\ Before = 0
    <3>1. mixQueued = 0 /\ Len(mixQueue) = 0 /\ Len(mixBatch) = 0
      BY <2>1 DEF MixInit
    <3> QED  BY <3>1 DEF Taken, Before
  <2>3. MixPlaces
    BY <2>1, <2>2 DEF MixInit, MixPlaces
  <2>4. MixRest
    BY MixAssumption, BoundedEmpty DEF MixInit, MixRest
  <2> QED  BY <2>3, <2>4
<1>2. MixInv /\ MixPlaces /\ MixRest /\ [MixNext]_mixVars => MixPlaces' /\ MixRest'
  <2> SUFFICES ASSUME MixInv, MixPlaces, MixRest, [MixNext]_mixVars PROVE MixPlaces'
    BY MixRestStep
  <2>1. ASSUME UNCHANGED <<mixQueue, mixBatch, mixOut, mixLost, mixQueued>> PROVE MixPlaces'
    BY <2>1 DEF MixPlaces, Taken, Before
  <2>2. CASE RegisterNode
    BY <2>1, <2>2 DEF RegisterNode
  <2>3. CASE QueueMessage
    BY <2>3, MixEnqueuePlaces DEF QueueMessage
  <2>4. CASE MixSend
    BY <2>1, <2>4, MixEnqueuePlaces DEF MixSend
  <2>5. CASE TakeBatch
    BY <2>5, MixTakeBatchPlaces
  <2>6. CASE ReturnBatch
    BY <2>6, MixReturnPlaces
  <2>7. CASE DropBatch
    BY <2>7, MixDropPlaces
  <2>8. CASE UNCHANGED mixVars
    BY <2>1, <2>8 DEF mixVars
  <2> QED  BY <2>2, <2>3, <2>4, <2>5, <2>6, <2>7, <2>8 DEF MixNext
<1>3. MixInv /\ MixPlaces /\ MixRest => MixTypeOK
  <2> SUFFICES ASSUME MixInv, MixPlaces, MixRest PROVE MixTypeOK
    OBVIOUS
  <2>1. SeqSet(mixQueue) = (Taken + 1)..mixQueued
    <3>1. /\ Taken \in Nat /\ Len(mixQueue) \in Nat /\ mixQueued \in Nat
          /\ mixQueued = Taken + Len(mixQueue)
      BY MixLengths
    <3>2. \A i \in 1..Len(mixQueue) : mixQueue[i] = Taken + i
      BY DEF MixInv
    <3>3. SeqSet(mixQueue) \subseteq (Taken + 1)..mixQueued
      BY <3>1, <3>2 DEF SeqSet
    <3>4. ASSUME NEW m \in (Taken + 1)..mixQueued PROVE m \in SeqSet(mixQueue)
      <4>1. m - Taken \in 1..Len(mixQueue) /\ Taken + (m - Taken) = m
        BY <3>1
      <4>2. mixQueue[m - Taken] = Taken + (m - Taken)
        BY <3>2, <4>1
      <4> QED  BY <4>1, <4>2 DEF SeqSet
    <3> QED  BY <3>3, <3>4
  <2>2. 1..Taken \cup (Taken + 1)..mixQueued = 1..mixQueued
    BY MixLengths
  <2>3. SeqSet(mixQueue) \cup SeqSet(mixBatch) \cup SeqSet(mixOut) \cup mixLost = 1..mixQueued
    BY <2>1, <2>2, MixSegments DEF MixPlaces
  <2>4. Len(mixQueue) + Len(mixBatch) + Len(mixOut) + Cardinality(mixLost) = mixQueued
    <3>1. Cardinality(mixLost) \in Nat /\ Len(mixOut) + Cardinality(mixLost) = Before
      BY FS_CardinalityType DEF MixPlaces
    <3> QED  BY <3>1, MixLengths
  <2>5. mixQueued \in 0..MaxMixed /\ Len(mixBatch) <= BatchSize
    BY MixLengths, MixAssumption DEF MixRest, MixInv
  <2> QED  BY <2>3, <2>4, <2>5 DEF MixTypeOK, MixRest, BoundedLists
<1> QED
  BY <1>1, <1>2, <1>3, MixInductive, PTL DEF MixSpec

-----------------------------------------------------------------------------
(* Relay pool *)

(* A result recorded after only the last n were kept leaves the last n.      *)
LEMMA LastOfAppend ==
  ASSUME NEW S, NEW s \in Seq(S), NEW n \in Nat, NEW x \in S
  PROVE  LastOf(Append(LastOf(s, n), x), n) = LastOf(Append(s, x), n)
<1> DEFINE len == Len(s)
           long == Append(s, x)
<1>1. len \in Nat
  BY LenProperties
<1>2. long \in Seq(S) /\ Len(long) = len + 1 /\ long[len + 1] = x
      /\ \A i \in 1..len : long[i] = s[i]
  BY AppendProperties
<1>3. CASE ~(len > n)
  BY <1>3 DEF LastOf
<1>4. CASE len > n
  <2> DEFINE low == len - n + 1
             kept == SubSeq(s, low, len)
             next == Append(kept, x)
             left == SubSeq(next, 2, n + 1)
             right == SubSeq(long, low + 1, len + 1)
  <2>1. low \in Int /\ low >= 2 /\ low <= len + 1
    BY <1>1, <1>4
  <2>2. \A i \in low..len : s[i] \in S
    BY <1>1, <2>1, ElementOfSeq
  <2>3. IsSubSeq(kept, S, s, low, len)
    <3>1. kept = SubSeq(s, low, len) /\ low \in Int /\ len \in Int
      BY <1>1, <2>1
    <3> HIDE DEF kept, low, len
    <3> QED  BY <2>2, <3>1, SubSeqIs, Zenon
  <2>4. kept \in Seq(S) /\ Len(kept) = n /\ \A i \in 1..n : kept[i] = s[low + i - 1]
    <3> HIDE DEF kept
    <3>1. Len(kept) = n /\ len - low + 1 = n
      BY <1>1, <1>4, <2>1, <2>3 DEF IsSubSeq
    <3> QED  BY <2>3, <3>1 DEF IsSubSeq
  <2> HIDE DEF kept
  <2>5. /\ next \in Seq(S) /\ Len(next) = n + 1 /\ next[n + 1] = x
        /\ \A i \in 1..n : next[i] = kept[i]
    BY <2>4, AppendProperties
  <2> HIDE DEF next, long
  <2>6. IsSubSeq(left, S, next, 2, n + 1)
    <3>1. \A i \in 2..(n + 1) : next[i] \in S
      BY <2>5, ElementOfSeq
    <3> DEFINE high == n + 1
    <3>2. left = SubSeq(next, 2, high) /\ high \in Int /\ 2 \in Int
      OBVIOUS
    <3> HIDE DEF left, high
    <3>3. \A i \in 2..high : next[i] \in S
      BY <3>1 DEF high
    <3>4. IsSubSeq(left, S, next, 2, high)
      BY <3>2, <3>3, SubSeqIs
    <3> QED  BY <3>4 DEF high
  <2>7. IsSubSeq(right, S, long, low + 1, len + 1)
    <3>1. \A i \in (low + 1)..(len + 1) : long[i] \in S
      BY <1>1, <1>2, <2>1, ElementOfSeq
    <3>2. right = SubSeq(long, low + 1, len + 1) /\ low + 1 \in Int /\ len + 1 \in Int
      BY <1>1, <2>1
    <3> HIDE DEF right, low
    <3> QED  BY <3>1, <3>2, SubSeqIs
  <2> HIDE DEF left, right
  <2>8. left \in Seq(S) /\ Len(left) = n /\ \A i \in 1..n : left[i] = next[i + 1]
    <3>1. Len(left) = n /\ (n + 1) - 2 + 1 = n /\ \A i \in 1..n : 2 + i - 1 = i + 1
      BY <2>6 DEF IsSubSeq
    <3> QED  BY <2>6, <3>1 DEF IsSubSeq
  <2>9. right \in Seq(S) /\ Len(right) = n /\ \A i \in 1..n : right[i] = long[low + i]
    <3>1. /\ Len(right) = n /\ (len + 1) - (low + 1) + 1 = n
          /\ \A i \in 1..n : low + 1 + i - 1 = low + i
      BY <1>1, <1>4, <2>1, <2>7 DEF IsSubSeq
    <3> QED  BY <2>7, <3>1 DEF IsSubSeq
  <2>10. ASSUME NEW i \in 1..n PROVE left[i] = right[i]
    <3>1. CASE i = n
      <4>1. low + i = len + 1
        BY <1>1, <3>1
      <4> QED  BY <1>2, <2>5, <2>8, <2>9, <3>1, <4>1
    <3>2. CASE i # n
      <4>1. i + 1 \in 1..n /\ low + i \in 1..len /\ low + (i + 1) - 1 = low + i
        BY <1>1, <1>4, <2>1, <3>2
      <4>2. left[i] = kept[i + 1]
        BY <2>5, <2>8, <4>1
      <4>3. kept[i + 1] = s[low + (i + 1) - 1]
        BY <2>4, <4>1
      <4>4. right[i] = s[low + i]
        BY <1>2, <2>9, <4>1 DEF long
      <4> QED  BY <4>1, <4>2, <4>3, <4>4
    <3> QED  BY <3>1, <3>2
  <2>11. left = right
    BY <2>8, <2>9, <2>10, SeqEqual
  <2>12. LastOf(s, n) = kept
    BY <1>4 DEF LastOf, kept
  <2>13. LastOf(next, n) = left
    <3>1. n + 1 > n /\ (n + 1) - n + 1 = 2
      OBVIOUS
    <3> QED  BY <2>5, <3>1 DEF LastOf, left
  <2>14. LastOf(long, n) = right
    <3>1. len + 1 > n /\ (len + 1) - n + 1 = low + 1
      BY <1>1, <1>4
    <3> QED  BY <1>2, <3>1 DEF LastOf, right
  <2> QED  BY <2>11, <2>12, <2>13, <2>14 DEF next, long
<1> QED
  BY <1>3, <1>4

RelayResults == [relay : Relays, success : BOOLEAN]

(* No relay has failed more often than results were recorded, since the one  *)
(* it was added with; so no success rate is asked for beyond MaxResults.     *)
RelayRecord(n) == [latency : Nat, failures : 0..n, load : RelayLoads, active : BOOLEAN]

RelayInv ==
  /\ DOMAIN relays \subseteq Relays /\ IsFiniteSet(DOMAIN relays)
  /\ \A r \in DOMAIN relays : relays[r] \in RelayRecord(Len(relayResults))
  /\ relayResults \in Seq(RelayResults) /\ Len(relayResults) <= MaxResults
  /\ pathHistory = LastOf(relayResults, HistoryMax)
  /\ relayChosen.ids \subseteq Relays /\ Cardinality(relayChosen.ids) <= relayChosen.asked

(* A moving average of latencies is a latency.                               *)
LEMMA AverageIsLatency ==
  ASSUME NEW old \in Nat, NEW new \in Nat, NEW average \in Averages(old, new)
  PROVE  average \in Nat
<1> DEFINE tenths == 9 * old + new
<1>1. tenths \in Nat
  OBVIOUS
<1>2. average = tenths \div 10
        \/ (tenths % 10 = 0 /\ tenths > 0 /\ average = (tenths \div 10) - 1)
  BY DEF Averages
<1> HIDE DEF tenths
<1>3. tenths \div 10 \in Nat
  BY <1>1
<1>4. tenths % 10 = 0 /\ tenths > 0 => tenths \div 10 >= 1
  BY <1>1
<1> QED
  BY <1>2, <1>3, <1>4

(* A result goes to the history and, if the relay is known, to its record.   *)
LEMMA RecordStep ==
  ASSUME RelayInv, RecordPathResult
  PROVE  RelayInv'
<1> DEFINE n == Len(relayResults)
<1>1. PICK id \in Relays, success \in BOOLEAN, latency \in Latencies \cup {NoLatency} :
        /\ relayResults' = Append(relayResults, [relay |-> id, success |-> success])
        /\ pathHistory' = Recent(Append(pathHistory, [relay |-> id, success |-> success]))
        /\ IF id \notin DOMAIN relays THEN UNCHANGED relays
           ELSE \E average \in IF latency = NoLatency THEN {relays[id].latency}
                               ELSE Averages(relays[id].latency, latency) :
                  relays' = [relays EXCEPT ![id].latency = average,
                                           ![id].failures = IF success THEN @ ELSE @ + 1]
  BY DEF RecordPathResult
<1> DEFINE result == [relay |-> id, success |-> success]
<1>2. result \in RelayResults
  BY DEF RelayResults
<1> HIDE DEF result
<1>3. relayResults' = Append(relayResults, result) /\ pathHistory' = Recent(Append(pathHistory, result))
  BY <1>1 DEF result
<1>4. n \in Nat /\ n < MaxResults /\ MaxResults \in Nat /\ HistoryMax \in Nat
  BY LenProperties, RelayAssumption DEF RecordPathResult, RelayInv
<1>5. relayResults' \in Seq(RelayResults) /\ Len(relayResults') = n + 1
  BY <1>2, <1>3, AppendProperties DEF RelayInv
<1>6. pathHistory' = LastOf(relayResults', HistoryMax)
  BY <1>2, <1>3, <1>4, LastOfAppend DEF RelayInv, Recent
<1>7. ASSUME NEW r \in DOMAIN relays PROVE relays[r] \in RelayRecord(n + 1)
  BY <1>4 DEF RelayInv, RelayRecord
<1>8. /\ DOMAIN relays' = DOMAIN relays
      /\ \A r \in DOMAIN relays : relays'[r] \in RelayRecord(n + 1)
  <2>1. CASE id \notin DOMAIN relays
    BY <1>1, <1>7, <2>1
  <2>2. CASE id \in DOMAIN relays
    <3>1. relays[id] \in RelayRecord(n)
      BY <2>2 DEF RelayInv
    <3>2. PICK average \in IF latency = NoLatency THEN {relays[id].latency}
                           ELSE Averages(relays[id].latency, latency) :
            relays' = [relays EXCEPT ![id].latency = average,
                                     ![id].failures = IF success THEN @ ELSE @ + 1]
      BY <1>1, <2>2
    <3>3. average \in Nat
      BY <3>1, <3>2, AverageIsLatency, RelayAssumption DEF RelayRecord
    <3> DEFINE failures == IF success THEN relays[id].failures ELSE relays[id].failures + 1
    <3>4. failures \in 0..(n + 1)
      BY <1>4, <3>1 DEF RelayRecord
    <3>5. /\ DOMAIN relays' = DOMAIN relays
          /\ \A r \in DOMAIN relays : r # id => relays'[r] = relays[r]
          /\ relays'[id] = [[relays[id] EXCEPT !.latency = average] EXCEPT !.failures = failures]
      BY <2>2, <3>1, <3>2 DEF RelayRecord
    <3> HIDE DEF failures
    <3>6. relays'[id] \in RelayRecord(n + 1)
      BY <3>1, <3>3, <3>4, <3>5 DEF RelayRecord
    <3> QED  BY <1>7, <3>5, <3>6
  <2> QED  BY <2>1, <2>2
<1>9. relayChosen' = relayChosen
  BY DEF RecordPathResult
<1> QED
  BY <1>4, <1>5, <1>6, <1>8, <1>9 DEF RelayInv

(* Of n relays asked for, no more than n are chosen.                         *)
LEMMA ChosenFit ==
  ASSUME RelayInv, NEW n \in Int, NEW key, NEW ids \in Chosen(n, key)
  PROVE  ids \subseteq Relays /\ Cardinality(ids) <= n
<1>1. ActiveRelays \subseteq DOMAIN relays
  BY DEF ActiveRelays
<1>2. IsFiniteSet(ActiveRelays)
  BY <1>1, FS_Subset DEF RelayInv
<1>3. Cardinality(ActiveRelays) \in Nat
  BY <1>2, FS_CardinalityType
<1> QED
  BY <1>1, <1>3 DEF Chosen, RelayInv

(* Relays keep their types, the history is what the code keeps of all results*)
(* (record_result), and no choice gives more relays than it was asked for.   *)
THEOREM RelayTypeCorrect == RelaySpec => []RelayTypeOK
<1>1. RelayInit => RelayInv
  <2> SUFFICES ASSUME RelayInit PROVE RelayInv
    OBVIOUS
  <2>1. relayResults \in Seq(RelayResults) /\ Len(relayResults) = 0
    BY EmptySeq DEF RelayInit
  <2>2. pathHistory = LastOf(relayResults, HistoryMax)
    BY <2>1, RelayAssumption DEF RelayInit, LastOf
  <2>3. IsFiniteSet({}) /\ Cardinality({}) = 0
    BY FS_EmptySet
  <2> QED  BY <2>1, <2>2, <2>3, RelayAssumption DEF RelayInit, RelayInv
<1>2. RelayInv /\ [RelayNext]_relayVars => RelayInv'
  <2> SUFFICES ASSUME RelayInv, [RelayNext]_relayVars PROVE RelayInv'
    OBVIOUS
  <2>1. CASE AddRelay
    <3>1. PICK id \in Relays, load \in RelayLoads, active \in BOOLEAN :
            relays' = [r \in DOMAIN relays \cup {id} |->
                         IF r = id THEN [latency |-> 0, failures |-> 0, load |-> load, active |-> active]
                                   ELSE relays[r]]
      BY <2>1 DEF AddRelay
    <3>2. Len(relayResults) \in Nat
      BY LenProperties DEF RelayInv
    <3>3. [latency |-> 0, failures |-> 0, load |-> load, active |-> active]
            \in RelayRecord(Len(relayResults))
      BY <3>2 DEF RelayRecord
    <3>4. IsFiniteSet(DOMAIN relays')
      BY <3>1, FS_AddElement DEF RelayInv
    <3> QED  BY <2>1, <3>1, <3>3, <3>4 DEF AddRelay, RelayInv
  <2>2. CASE RemoveRelay
    <3>1. PICK id : relays' = [r \in DOMAIN relays \ {id} |-> relays[r]]
      BY <2>2 DEF RemoveRelay
    <3>2. IsFiniteSet(DOMAIN relays')
      BY <3>1, FS_Subset DEF RelayInv
    <3> QED  BY <2>2, <3>1, <3>2 DEF RemoveRelay, RelayInv
  <2>3. CASE RecordPathResult
    BY <2>3, RecordStep
  <2>4. CASE SelectRelays
    <3>1. PICK n \in 0..Cardinality(Relays), key \in Preferences : \E ids \in Chosen(n, key) :
            relayChosen' = [ids |-> ids, asked |-> n]
      BY <2>4 DEF SelectRelays
    <3>2. PICK ids \in Chosen(n, key) : relayChosen' = [ids |-> ids, asked |-> n]
      BY <3>1
    <3>3. n \in Int
      BY <3>1
    <3> QED  BY <2>4, <3>2, <3>3, ChosenFit DEF SelectRelays, RelayInv
  <2>5. CASE BuildPaths
    <3>1. PICK ids \in Chosen(MaxPaths, [r \in ActiveRelays |-> 0]) :
            relayChosen' = [ids |-> ids, asked |-> MaxPaths]
      BY <2>5 DEF BuildPaths
    <3>2. MaxPaths \in Int
      BY RelayAssumption
    <3> QED  BY <2>5, <3>1, <3>2, ChosenFit DEF BuildPaths, RelayInv
  <2>6. CASE UNCHANGED relayVars
    BY <2>6 DEF relayVars, RelayInv
  <2> QED  BY <2>1, <2>2, <2>3, <2>4, <2>5, <2>6 DEF RelayNext
<1>3. RelayInv => RelayTypeOK
  <2> SUFFICES ASSUME RelayInv, NEW r \in DOMAIN relays PROVE relays[r] \in RelayNode
    BY DEF RelayInv, RelayTypeOK
  <2>1. Len(relayResults) \in Nat /\ Len(relayResults) <= MaxResults /\ MaxResults \in Nat
    BY LenProperties, RelayAssumption DEF RelayInv
  <2> QED  BY <2>1 DEF RelayInv, RelayRecord, RelayNode
<1> QED
  BY <1>1, <1>2, <1>3, PTL DEF RelaySpec

(* Double ratchet: what the type leaves out *)

ReceivingChains == [label : {"receiving"}, root : Roots, counter : Nat]

(* A store of skipped keys within its limit.                                 *)
Held(skipped) ==
  /\ skipped = [l \in DOMAIN skipped |-> skipped[l]]
  /\ IsFiniteSet(DOMAIN skipped) /\ Cardinality(DOMAIN skipped) <= MaxSkip

(* Only an initiator that has not turned yet has no chain to receive on.     *)
Received(p, r) ==
  /\ r.receiving \in ReceivingChains \/ (r.receiving = NoChain /\ p = Initiator /\ r.steps = 0)
  /\ Held(r.skipped)

RatchetRest ==
  /\ \A p \in DOMAIN ratchet : Received(p, ratchet[p])
  /\ chatCount \in [RatchetEnds -> Nat]

(* A receiving chain is not its absence.                                     *)
LEMMA ReceivingIsChain ==
  ASSUME NEW chain \in ReceivingChains
  PROVE  chain # NoChain /\ chain.counter \in Nat
BY RatchetAssumption DEF ReceivingChains, Roots, CurvePoints

(* A key is kept only where there is room.                                   *)
LEMMA KeptHeld ==
  ASSUME NEW s, Held(s), NEW label, NEW key
  PROVE  /\ Held(Kept(s, label, key))
         /\ DOMAIN Kept(s, label, key) \subseteq DOMAIN s \cup {label}
         /\ \A l \in DOMAIN Kept(s, label, key) :
              Kept(s, label, key)[l] = key \/ (l \in DOMAIN s /\ Kept(s, label, key)[l] = s[l])
<1>1. CASE ~(Cardinality(DOMAIN s) < MaxSkip)
  <2>1. Kept(s, label, key) = s
    BY <1>1 DEF Kept
  <2> QED  BY <2>1
<1>2. CASE Cardinality(DOMAIN s) < MaxSkip
  <2> DEFINE D == DOMAIN s \cup {label}
             next == [l \in D |-> IF l = label THEN key ELSE s[l]]
  <2>1. Kept(s, label, key) = next
    BY <1>2 DEF Kept
  <2>2. /\ IsFiniteSet(DOMAIN s) /\ Cardinality(DOMAIN s) \in Nat
    BY FS_CardinalityType DEF Held
  <2>3. /\ IsFiniteSet(D)
        /\ Cardinality(D) = IF label \in DOMAIN s THEN Cardinality(DOMAIN s)
                            ELSE Cardinality(DOMAIN s) + 1
    BY <2>2, FS_AddElement
  <2>4. Cardinality(D) <= MaxSkip
    BY <1>2, <2>2, <2>3, RatchetAssumption
  <2>5. DOMAIN next = D /\ next = [l \in DOMAIN next |-> next[l]]
    BY Zenon
  <2>6. \A l \in D : next[l] = key \/ (l \in DOMAIN s /\ next[l] = s[l])
    OBVIOUS
  <2> HIDE DEF next
  <2>7. Held(next)
    BY <2>3, <2>4, <2>5 DEF Held
  <2> QED  BY <2>1, <2>5, <2>6, <2>7
<1> QED
  BY <1>1, <1>2

Moved(r, skipped) == [r EXCEPT !.receiving = Stepped(@), !.skipped = skipped]

(* The keys skipped on the way to a counter are kept within the limit.       *)
LEMMA SkippedHeld ==
  ASSUME NEW r, NEW dh, NEW counter, Held(r.skipped),
         counter - r.receiving.counter \in 0..MaxCounter
  PROVE  \E skipped : Held(skipped) /\ InOrder(r, dh, counter) = Moved(r, skipped)
<1> DEFINE old == r.receiving.counter
           n == counter - old
           first == r.skipped
           Label(i) == <<dh.point, old + i - 1>>
           Key(i) == [r.receiving EXCEPT !.counter = old + i]
           L == DOMAIN first \cup {Label(i) : i \in Nat}
           K == {first[l] : l \in DOMAIN first} \cup {Key(i) : i \in Nat}
           S == {s \in UNION {[D -> K] : D \in SUBSET L} : Held(s)}
           step == [i \in Nat |-> [s \in S |-> Kept(s, Label(i), Key(i))]]
<1>1. first \in S
  <2>1. first \in [DOMAIN first -> K]
    BY DEF Held
  <2>2. DOMAIN first \in SUBSET L
    OBVIOUS
  <2> HIDE DEF first, K, L
  <2>3. first \in UNION {[D -> K] : D \in SUBSET L}
    BY <2>1, <2>2
  <2>4. Held(first)
    BY DEF first
  <2> QED  BY <2>3, <2>4
<1>2. ASSUME NEW i \in Nat, NEW s \in S
      PROVE  Kept(s, Label(i), Key(i)) \in S
  <2> DEFINE next == Kept(s, Label(i), Key(i))
  <2>1. Label(i) \in L /\ Key(i) \in K
    OBVIOUS
  <2> HIDE DEF Label, Key
  <2>2. Held(s)
    OBVIOUS
  <2>3. PICK D \in SUBSET L : s \in [D -> K]
    BY Zenon
  <2> HIDE DEF L, K, S
  <2>4. DOMAIN s \subseteq L /\ \A l \in DOMAIN s : s[l] \in K
    BY <2>3
  <2>5. /\ Held(next) /\ DOMAIN next \subseteq DOMAIN s \cup {Label(i)}
        /\ \A l \in DOMAIN next : next[l] = Key(i) \/ (l \in DOMAIN s /\ next[l] = s[l])
    BY <2>2, KeptHeld
  <2> HIDE DEF next
  <2>6. DOMAIN next \in SUBSET L /\ \A l \in DOMAIN next : next[l] \in K
    BY <2>1, <2>4, <2>5
  <2>7. next = [l \in DOMAIN next |-> next[l]]
    BY <2>5 DEF Held
  <2>8. next \in [DOMAIN next -> K]
    BY <2>6, <2>7
  <2>9. next \in S
    BY <2>5, <2>6, <2>8 DEF S
  <2> QED  BY <2>9 DEF next
<1> HIDE DEF S
<1>3. step \in [Nat -> [S -> S]]
  BY <1>2
<1>4. MaxCounter \in Nat
  BY RatchetAssumption
<1>5. PICK f \in [0..MaxCounter -> S] : Iterates(f, 0..MaxCounter, first, step)
  <2> HIDE DEF first, step
  <2> QED  BY <1>1, <1>3, <1>4, RecursionUpTo
<1>6. \A i \in 0..MaxCounter : i # 0 => i - 1 \in 0..MaxCounter /\ i \in Nat /\ f[i - 1] \in S
  BY <1>4
<1>7. ASSUME NEW i \in 0..MaxCounter
      PROVE  f[i] = IF i = 0 THEN r.skipped
                    ELSE Kept(f[i - 1], <<dh.point, old + i - 1>>,
                              [r.receiving EXCEPT !.counter = old + i])
  <2>1. f[i] = IF i = 0 THEN first ELSE step[i][f[i - 1]]
    <3> HIDE DEF first, step
    <3> QED  BY <1>5, Zenon DEF Iterates
  <2>2. CASE i = 0
    BY <2>1, <2>2
  <2>3. CASE i # 0
    <3>1. step[i] = [s \in S |-> Kept(s, Label(i), Key(i))]
      BY <1>6, <2>3
    <3>2. step[i][f[i - 1]] = Kept(f[i - 1], Label(i), Key(i))
      BY <1>6, <2>3, <3>1
    <3> QED  BY <2>1, <2>3, <3>2
  <2> QED  BY <2>2, <2>3
<1> DEFINE Body(g) == [i \in 0..MaxCounter |->
                        IF i = 0 THEN r.skipped
                        ELSE Kept(g[i - 1], <<dh.point, old + i - 1>>,
                                  [r.receiving EXCEPT !.counter = old + i])]
<1>8. f = Body(f)
  BY <1>5, <1>7, Zenon
<1> DEFINE keep == CHOOSE g : g = Body(g)
<1>9. keep = Body(keep)
  BY <1>8, Zenon
<1>10. InOrder(r, dh, counter) = Moved(r, keep[n])
  BY DEF InOrder, Moved
<1>n. n \in 0..MaxCounter
  OBVIOUS
<1> HIDE DEF n
<1>11. ASSUME NEW i \in 0..MaxCounter
       PROVE  keep[i] = IF i = 0 THEN r.skipped
                        ELSE Kept(keep[i - 1], <<dh.point, old + i - 1>>,
                                  [r.receiving EXCEPT !.counter = old + i])
  <2> HIDE DEF keep
  <2> QED  BY <1>9, Zenon
<1> HIDE DEF keep, Body, old
<1> DEFINE T == {i \in Nat : i \in 0..MaxCounter => Held(keep[i])}
<1>12. 0 \in T
  BY <1>4, <1>11
<1>13. ASSUME NEW i \in T PROVE i + 1 \in T
  <2> SUFFICES ASSUME i + 1 \in 0..MaxCounter PROVE Held(keep[i + 1])
    OBVIOUS
  <2>1. i \in 0..MaxCounter /\ i + 1 # 0 /\ (i + 1) - 1 = i
    BY <1>4
  <2>2. Held(keep[i])
    BY <2>1
  <2>3. keep[i + 1] = Kept(keep[i], <<dh.point, old + (i + 1) - 1>>,
                           [r.receiving EXCEPT !.counter = old + (i + 1)])
    BY <1>11, <2>1
  <2> QED  BY <2>2, <2>3, KeptHeld
<1>14. Held(keep[n])
  <2>1. T = Nat
    <3> HIDE DEF T
    <3> QED  BY <1>12, <1>13, NatSet, T \in SUBSET Nat DEF T
  <2>2. n \in Nat
    BY <1>4, <1>n
  <2> QED  BY <1>n, <2>1, <2>2
<1> QED
  BY <1>10, <1>14

(* A new responder has a chain to receive on, an initiator has none.         *)
LEMMA NewRatchetReceived ==
  ASSUME NEW p \in RatchetEnds
  PROVE  Received(p, NewRatchet(p))
<1> DEFINE r == NewRatchet(p)
<1>1. <<>> \in Roots
  BY EmptySeq DEF Roots
<1>2. r.receiving \in ReceivingChains \/ (r.receiving = NoChain /\ p = Initiator /\ r.steps = 0)
  BY <1>1, RatchetAssumption DEF NewRatchet, Chain, ReceivingChains, RatchetEnds
<1>3. Held(NoKeys)
  <2>1. DOMAIN NoKeys = {} /\ NoKeys = [l \in DOMAIN NoKeys |-> NoKeys[l]]
    BY DEF NoKeys
  <2> QED  BY <2>1, FS_EmptySet, RatchetAssumption DEF Held
<1>4. r.skipped = NoKeys
  BY DEF NewRatchet
<1> QED
  BY <1>2, <1>3, <1>4 DEF Received

(* A DH step makes a receiving chain.                                        *)
LEMMA TurnedReceived ==
  ASSUME NEW p \in RatchetEnds, NEW r, Sound(p, r), Received(p, r), NEW dh \in PublicKeys
  PROVE  Received(p, Turned(p, r, dh))
<1>1. CASE dh = r.remote
  BY <1>1 DEF Turned
<1>2. CASE dh # r.remote
  <2> DEFINE next == DhRatchet(p, r, dh)
  <2>1. next = Turned(p, r, dh)
    BY <1>2 DEF Turned
  <2>2. next.receiving = Chain("receiving", next.root) /\ next.skipped = r.skipped
    BY DEF DhRatchet
  <2> HIDE DEF next
  <2>3. Sound(p, next)
    BY <2>1, TurnedSound
  <2>4. next.root \in Roots
    <3>1. PICK Receiving, Skipped : next \in Ratchets(Receiving, Skipped)
      BY <2>3 DEF Sound
    <3> QED  BY <3>1 DEF Ratchets
  <2>5. next.receiving \in ReceivingChains
    BY <2>2, <2>4 DEF Chain, ReceivingChains
  <2> QED  BY <2>1, <2>2, <2>5 DEF Received
<1> QED
  BY <1>1, <1>2

(* The skipped keys without one.                                             *)
LEMMA OutOfOrderReceived ==
  ASSUME NEW p \in RatchetEnds, NEW r, Sound(p, r), Received(p, r), NEW dh, NEW counter
  PROVE  Received(p, OutOfOrder(r, dh, counter))
<1>1. PICK Receiving, Skipped : r \in Ratchets(Receiving, Skipped)
  BY DEF Sound
<1> DEFINE D == DOMAIN r.skipped \ {<<dh.point, counter>>}
           skipped == [l \in D |-> r.skipped[l]]
           next == [r EXCEPT !.skipped = skipped]
<1>2. next = OutOfOrder(r, dh, counter)
  BY DEF OutOfOrder
<1>3. DOMAIN skipped = D /\ skipped = [l \in DOMAIN skipped |-> skipped[l]]
  BY Zenon
<1>4. IsFiniteSet(D) /\ Cardinality(D) <= Cardinality(DOMAIN r.skipped)
  BY FS_Subset DEF Received, Held
<1>5. Cardinality(D) \in Nat /\ Cardinality(DOMAIN r.skipped) \in Nat
  BY <1>4, FS_CardinalityType DEF Received, Held
<1> HIDE DEF skipped
<1>6. Held(skipped)
  BY <1>3, <1>4, <1>5, RatchetAssumption DEF Received, Held
<1>7. next.receiving = r.receiving /\ next.steps = r.steps /\ next.skipped = skipped
  BY <1>1 DEF Ratchets
<1> HIDE DEF next
<1> QED
  BY <1>2, <1>6, <1>7 DEF Received

(* A message in order moves the receiving chain one step.                    *)
LEMMA InOrderReceived ==
  ASSUME NEW p \in RatchetEnds, NEW r, Sound(p, r), Received(p, r), NEW dh,
         NEW counter \in 0..MaxCounter, r.receiving # NoChain,
         ~(counter < r.receiving.counter)
  PROVE  Received(p, InOrder(r, dh, counter))
<1>1. PICK Receiving, Skipped : r \in Ratchets(Receiving, Skipped)
  BY DEF Sound
<1>2. r.receiving \in ReceivingChains /\ r.receiving.counter \in Nat /\ Held(r.skipped)
  BY ReceivingIsChain DEF Received
<1>3. counter - r.receiving.counter \in 0..MaxCounter
  BY <1>2, RatchetAssumption
<1>4. PICK skipped : Held(skipped) /\ InOrder(r, dh, counter) = Moved(r, skipped)
  BY <1>2, <1>3, SkippedHeld
<1> DEFINE stepped == Stepped(r.receiving)
           next == InOrder(r, dh, counter)
<1>5. stepped \in ReceivingChains
  BY <1>2 DEF Stepped, ReceivingChains
<1>6. next = [r EXCEPT !.receiving = stepped, !.skipped = skipped]
  BY <1>4 DEF Moved
<1> HIDE DEF next, stepped
<1>7. next.receiving = stepped /\ next.skipped = skipped
  BY <1>1, <1>6 DEF Ratchets
<1> QED
  BY <1>4, <1>5, <1>7 DEF Received, next

(* An encryption leaves the receiving side alone.                            *)
LEMMA SteppedReceived ==
  ASSUME NEW p \in RatchetEnds, NEW r, Sound(p, r), Received(p, r)
  PROVE  Received(p, [r EXCEPT !.sending = Stepped(@)])
<1>1. PICK Receiving, Skipped : r \in Ratchets(Receiving, Skipped)
  BY DEF Sound
<1> DEFINE next == [r EXCEPT !.sending = Stepped(@)]
<1>2. next.receiving = r.receiving /\ next.steps = r.steps /\ next.skipped = r.skipped
  BY <1>1 DEF Ratchets
<1> HIDE DEF next
<1>3. Received(p, next)
  BY <1>2 DEF Received
<1> QED
  BY <1>3 DEF next

(* Whatever arrives, the receiving side stays what it is.                    *)
LEMMA ChatDecryptReceived ==
  ASSUME RatchetInv, RatchetRest, NEW p \in RatchetEnds, ChatDecrypt(p)
  PROVE  RatchetRest'
<1> DEFINE R(dh) == Turned(p, ratchet[p], dh)
           Old(r, counter) == r.receiving # NoChain /\ counter < r.receiving.counter
           Tried(r, label, counter) ==
             IF r.receiving = NoChain THEN {}
             ELSE IF ~Old(r, counter) THEN {MessageKey(r.receiving)}
             ELSE IF label \in DOMAIN r.skipped THEN {r.skipped[label]} ELSE {}
           Read(packet, dh, counter) ==
             {k \in Tried(R(dh), <<dh.point, counter>>, counter) : Opens(k, packet.key, ZeroTag)}
           Arrives(packet, dh, counter) ==
             /\ ratchet' = [ratchet EXCEPT ![p] =
                              IF R(dh).receiving = NoChain THEN R(dh)
                              ELSE IF Old(R(dh), counter) THEN OutOfOrder(R(dh), dh, counter)
                              ELSE InOrder(R(dh), dh, counter)]
             /\ chatCount' = [chatCount EXCEPT ![p] =
                                @ + Cardinality(Read(packet, dh, counter))]
<1>0. PICK packet \in {m \in chatNet : m.from # p} :
        \E dh \in {packet.dh} \cup Changed(packet.dh), counter \in 0..MaxCounter :
          Arrives(packet, dh, counter)
  BY ZenonT(60) DEF ChatDecrypt
<1>1. PICK dh \in {packet.dh} \cup Changed(packet.dh), counter \in 0..MaxCounter :
        Arrives(packet, dh, counter)
  BY <1>0
<1>2. Established(p) /\ p \in DOMAIN ratchet /\ Sound(p, ratchet[p]) /\ Received(p, ratchet[p])
  BY DEF ChatDecrypt, RatchetInv, RatchetRest
<1>3. dh \in PublicKeys
  BY SentKeys
<1> DEFINE r == R(dh)
           next == ratchet'[p]
           read == Read(packet, dh, counter)
<1>4. Sound(p, r) /\ Received(p, r)
  BY <1>2, <1>3, TurnedSound, TurnedReceived
<1>5. read = {} \/ \E k : read = {k}
  <2> DEFINE tried == Tried(r, <<dh.point, counter>>, counter)
  <2>1. tried = {} \/ \E k : tried = {k}
    BY Zenon
  <2>2. read \subseteq tried
    OBVIOUS
  <2> HIDE DEF tried, read
  <2> QED  BY <2>1, <2>2
<1> HIDE DEF Tried
<1>6. /\ DOMAIN ratchet' = DOMAIN ratchet
      /\ \A q \in DOMAIN ratchet : q # p => ratchet'[q] = ratchet[q]
      /\ next = IF r.receiving = NoChain THEN r
                ELSE IF Old(r, counter) THEN OutOfOrder(r, dh, counter)
                ELSE InOrder(r, dh, counter)
      /\ chatCount' = [chatCount EXCEPT ![p] = @ + Cardinality(read)]
  BY <1>1, <1>2
<1> HIDE DEF r, R, next, read, Arrives
<1>7. Received(p, next)
  <2>1. CASE r.receiving = NoChain
    BY <1>4, <1>6, <2>1
  <2>2. CASE r.receiving # NoChain /\ counter < r.receiving.counter
    BY <1>4, <1>6, <2>2, OutOfOrderReceived
  <2>3. CASE r.receiving # NoChain /\ ~(counter < r.receiving.counter)
    BY <1>4, <1>6, <2>3, InOrderReceived
  <2> QED  BY <2>1, <2>2, <2>3
<1>8. Cardinality(read) \in Nat
  <2>0. \A k : IsFiniteSet({k})
    BY FS_Singleton
  <2>1. IsFiniteSet(read)
    BY <1>5, <2>0, FS_EmptySet, Zenon
  <2> QED  BY <2>1, FS_CardinalityType
<1>9. chatCount' \in [RatchetEnds -> Nat]
  BY <1>6, <1>8 DEF RatchetRest
<1> QED
  BY <1>6, <1>7, <1>9 DEF RatchetRest, next

(* A ratchet has turned as often as its root has secrets, keeps no more than *)
(* max_skip skipped keys whatever counter a header claims, and lacks a       *)
(* receiving chain only at an initiator that never turned (decrypt(),        *)
(* skip_message_keys()).                                                     *)
THEOREM RatchetTypeCorrect == RatchetSpec => []RatchetTypeOK
<1>1. RatchetInit => RatchetRest
  BY DEF RatchetInit, RatchetRest
<1>2. RatchetInv /\ RatchetRest /\ [RatchetNext]_ratVars => RatchetRest'
  <2> SUFFICES ASSUME RatchetInv, RatchetRest, [RatchetNext]_ratVars PROVE RatchetRest'
    OBVIOUS
  <2>1. ASSUME NEW p \in RatchetEnds, SetRatchet(p) PROVE RatchetRest'
    <3>1. /\ ratchet' = [q \in DOMAIN ratchet \cup {p} |->
                          IF q = p THEN NewRatchet(p) ELSE ratchet[q]]
          /\ chatCount' = chatCount
      BY <2>1 DEF SetRatchet
    <3>2. \A q \in DOMAIN ratchet' : Received(q, ratchet'[q])
      BY <3>1, NewRatchetReceived DEF RatchetRest
    <3> QED  BY <3>1, <3>2 DEF RatchetRest
  <2>2. ASSUME NEW p \in RatchetEnds, ChatEncrypt(p) PROVE RatchetRest'
    <3> DEFINE next == [ratchet[p] EXCEPT !.sending = Stepped(@)]
    <3>1. p \in DOMAIN ratchet /\ Sound(p, ratchet[p]) /\ Received(p, ratchet[p])
      BY <2>2 DEF ChatEncrypt, RatchetInv, RatchetRest
    <3>2. Received(p, next)
      BY <3>1, SteppedReceived
    <3>3. ratchet' = [ratchet EXCEPT ![p].sending = Stepped(@)] /\ chatCount' = chatCount
      BY <2>2 DEF ChatEncrypt
    <3>4. ratchet' = [ratchet EXCEPT ![p] = next]
      BY <3>3
    <3> HIDE DEF next
    <3>5. \A q \in DOMAIN ratchet' : Received(q, ratchet'[q])
      BY <3>1, <3>2, <3>4 DEF RatchetRest
    <3> QED  BY <3>3, <3>5 DEF RatchetRest
  <2>3. ASSUME NEW p \in RatchetEnds, ChatDecrypt(p) PROVE RatchetRest'
    BY <2>3, ChatDecryptReceived
  <2>4. CASE UNCHANGED ratVars
    BY <2>4 DEF ratVars, RatchetRest
  <2> QED  BY <2>1, <2>2, <2>3, <2>4 DEF RatchetNext
<1>3. RatchetInv /\ RatchetRest => RatchetTypeOK
  <2> SUFFICES ASSUME RatchetInv, RatchetRest, NEW p \in DOMAIN ratchet
               PROVE  /\ ratchet[p].steps = Len(ratchet[p].root)
                      /\ Cardinality(DOMAIN ratchet[p].skipped) <= MaxSkip
                      /\ ratchet[p].receiving = NoChain => p = Initiator /\ ratchet[p].steps = 0
    BY DEF RatchetTypeOK, RatchetInv, RatchetRest
  <2>1. Sound(p, ratchet[p]) /\ Received(p, ratchet[p])
    BY DEF RatchetInv, RatchetRest
  <2> QED  BY <2>1, ReceivingIsChain DEF Sound, Received, Held
<1> QED
  BY <1>1, <1>2, <1>3, RatchetInductive, PTL DEF RatchetSpec

-----------------------------------------------------------------------------
(* The parts together *)

(* Every step of the whole is a step of a part or leaves that part alone.    *)
LEMMA PartSteps ==
  ASSUME [Next]_vars
  PROVE  /\ UNCHANGED part
         /\ [CacheNext]_cacheVars
         /\ [NoiseNext]_noiseVars
         /\ [RatchetNext]_ratVars
         /\ [CoverNext]_coverVars
         /\ [MixNext]_mixVars
         /\ [RelayNext]_relayVars
         /\ [DhtNext]_dhtVars
         /\ [WireNext]_wireVars
         /\ [PadNext]_padVars
         /\ [BookNext]_bookVars
         /\ [VaultNext]_vaultVars
         /\ [ShareNext]_shareVars
<1>1. CASE CacheMoves
  BY <1>1 DEF CacheMoves
<1>2. CASE NoiseMoves
  BY <1>2 DEF NoiseMoves
<1>3. CASE RatchetMoves
  BY <1>3 DEF RatchetMoves
<1>4. CASE CoverMoves
  BY <1>4 DEF CoverMoves
<1>5. CASE MixMoves
  BY <1>5 DEF MixMoves
<1>6. CASE RelayMoves
  BY <1>6 DEF RelayMoves
<1>7. CASE DhtMoves
  BY <1>7 DEF DhtMoves
<1>8. CASE WireMoves
  BY <1>8 DEF WireMoves
<1>9. CASE PadMoves
  BY <1>9 DEF PadMoves
<1>10. CASE BookMoves
  BY <1>10 DEF BookMoves
<1>11. CASE VaultMoves
  BY <1>11 DEF VaultMoves
<1>12. CASE ShareMoves
  BY <1>12 DEF ShareMoves
<1>13. CASE UNCHANGED vars
  BY <1>13 DEF vars
<1> QED
  BY <1>1, <1>2, <1>3, <1>4, <1>5, <1>6, <1>7, <1>8, <1>9, <1>10, <1>11, <1>12, <1>13 DEF Next

(* So what holds of each part by itself holds of them together.              *)
LEMMA PartSpecs ==
  Spec => /\ [](part \in Parts)
          /\ CacheSpec
          /\ NoiseSpec
          /\ RatchetSpec
          /\ CoverSpec
          /\ MixSpec
          /\ RelaySpec
          /\ DhtSpec
          /\ WireSpec
          /\ PadSpec
          /\ BookSpec
          /\ VaultSpec
          /\ ShareSpec
<1>1. Init => /\ part \in Parts
              /\ CacheInit
              /\ NoiseInit
              /\ RatchetInit
              /\ CoverInit
              /\ MixInit
              /\ RelayInit
              /\ DhtInit
              /\ WireInit
              /\ PadInit
              /\ BookInit
              /\ VaultInit
              /\ ShareInit
  BY DEF Init
<1>2. part \in Parts /\ UNCHANGED part => (part \in Parts)'
  OBVIOUS
<1> QED
  BY <1>1, <1>2, PartSteps, PTL DEF Spec, CacheSpec, NoiseSpec, RatchetSpec, CoverSpec,
     MixSpec, RelaySpec, DhtSpec, WireSpec, PadSpec, BookSpec, VaultSpec, ShareSpec

(* Each library component keeps its variables within what its code can hold, *)
(* whatever is done to it and for every size of its queues and caches: no    *)
(* step of one reaches the variables of another (the crates share no state). *)
THEOREM LibrariesTypeCorrect == Spec => []TypeOK
<1>1. /\ part \in Parts
      /\ CacheTypeOK /\ NoiseTypeOK /\ RatchetTypeOK /\ CoverTypeOK
      /\ MixTypeOK /\ RelayTypeOK /\ DhtTypeOK /\ WireTypeOK
      /\ PadTypeOK /\ BookTypeOK /\ VaultTypeOK /\ ShareTypeOK
      => TypeOK
  BY DEF TypeOK
<1> QED
  BY <1>1, PartSpecs, CacheTypeCorrect, NoiseTypeCorrect, RatchetTypeCorrect,
     CoverTypeCorrect, MixTypeCorrect, RelayTypeCorrect, DhtTypeCorrect, WireTypeCorrect,
     PadTypeCorrect, BookTypeCorrect, VaultTypeCorrect, ShareTypeCorrect, PTL

(* And each keeps its own promise: frames are read in order, no end uses a   *)
(* message key twice, cover messages leave once, a batch overtakes only      *)
(* itself, lookups find only ourselves, formats and padding read back, the   *)
(* contact book and its rows agree, identities and shares hold, the oldest   *)
(* entry is evicted.                                                         *)
THEOREM LibrariesSafety ==
  Spec => /\ []ReadInOrder /\ []MessageKeysFresh /\ []CoverSpentOnce
          /\ []OvertakesWithinBatch /\ []FindsOnlyOurselves /\ []WireReadsBack
          /\ []SizesHold /\ []ContactBookAgrees /\ []IdentityHolds /\ []SharesHold
          /\ EvictsOldestOnly
BY PartSpecs, ReadSafety, RatchetSafety, CoverSafety, MixSafety, DhtSafety, WireSafety,
   SizeSafety, BookSafety, VaultSafety, ShareSafety, CacheEviction, PTL
=============================================================================

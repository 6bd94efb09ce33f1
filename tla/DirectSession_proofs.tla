------------------------ MODULE DirectSession_proofs ------------------------
(***************************************************************************)
(* Theorems about DirectSession, for every set of clients and bodies and   *)
(* every value of the bounds.                                              *)
(***************************************************************************)
EXTENDS DirectSession, FiniteSetTheorems, TLAPS

USE BoundsAssumption

SessionMap == [Client -> [Client -> Session \cup {NoSession}]]

(* The sessions map after one entry is written.                              *)
LEMMA PutSession ==
  ASSUME TypeOK, NEW c \in Client, NEW p \in Client, NEW s \in Session
  PROVE  [sessions EXCEPT ![c][p] = s] \in SessionMap
BY DEF TypeOK, SessionMap

(* A session that has just been established is a session.                    *)
LEMMA NewSessionType ==
  ASSUME NEW k \in 1..MaxKeypairs, NEW r \in 1..MaxResponses, NEW role \in Role
  PROVE  NewSession([keypair |-> k, response |-> r], role) \in Session
BY DEF NewSession, Session, Secret

(* What a session map yields for a pair that has a session.                  *)
LEMMA HeldSession ==
  ASSUME TypeOK, NEW c \in Client, NEW p \in Client, HasSession(c, p)
  PROVE  /\ sessions[c][p] \in Session
         /\ SendKey(sessions[c][p]) \in Key
         /\ ReceiveKey(sessions[c][p]) \in Key
<1>1. sessions[c][p] \in Session
  BY DEF TypeOK, HasSession
<1> QED
  BY <1>1 DEF Session, Secret, Key, SendKey, ReceiveKey, Role, OtherRole

(* Writing a message row keeps the tables well-formed.                       *)
LEMMA PersistType ==
  ASSUME TypeOK, NEW c \in Client, NEW p \in Client, NEW q \in 0..MaxSends,
         NEW d \in {"in", "out"}, NEW b \in Body, Persist(c, RowOf(p, q, d, b))
  PROVE  rows' \in [Client -> SUBSET Row]
<1>1. RowOf(p, q, d, b) \in Row
  BY DEF RowOf, Row
<1> QED
  BY <1>1 DEF Persist, TypeOK

(* Marking a sequence as seen keeps the sessions well-formed.                *)
LEMMA TakeSequenceType ==
  ASSUME TypeOK, NEW m \in ciphertexts, TakeSequence(m)
  PROVE  sessions' \in SessionMap
<1> DEFINE s == sessions[m.to][m.from]
<1>1. m.to \in Client /\ m.from \in Client /\ m.seq \in 0..MaxSends
  BY DEF TypeOK, Ciphertext
<1>2. s \in Session
  BY <1>1, HeldSession DEF TakeSequence
<1>3. [s EXCEPT !.seen = @ \cup {m.seq}] \in Session
  BY <1>1, <1>2 DEF Session
<1> QED
  BY <1>1, <1>3, PutSession DEF TakeSequence

(* Each step keeps every variable well-formed.                               *)
LEMMA TypeStep == TypeOK /\ [Next]_vars => TypeOK'
<1> SUFFICES ASSUME TypeOK, [Next]_vars PROVE TypeOK'
  OBVIOUS
<1> USE DEF TypeOK
<1>1. ASSUME NEW c \in Client, NEW p \in Client, Initiate(c, p)
      PROVE  TypeOK'
  BY <1>1 DEF Initiate, Initiation, history
<1>2. ASSUME NEW e \in initiations, HandleInitiation(e)
      PROVE  TypeOK'
  <2>1. /\ e.to \in Client /\ e.from \in Client
        /\ e.keypair \in 1..MaxKeypairs /\ responses + 1 \in 1..MaxResponses
    BY <1>2 DEF HandleInitiation, Initiation
  <2>2. sessions' \in SessionMap
    BY <1>2, <2>1, NewSessionType, PutSession
    DEF HandleInitiation, RespondingSession, Role
  <2>3. pendingResponses' \in [Client -> Seq(Response)]
    <3>1. [from |-> e.to, to |-> e.from,
           secret |-> [keypair |-> e.keypair, response |-> responses + 1]]
            \in Response
      BY <2>1 DEF Response, Secret
    <3> QED
      BY <1>2, <2>1, <3>1 DEF HandleInitiation
  <2>4. responses' \in 0..MaxResponses
    BY <1>2 DEF HandleInitiation
  <2>5. UNCHANGED <<keypairs, pendingInitiators, store, rows, network, history>>
    BY <1>2 DEF HandleInitiation
  <2> QED
    BY <2>2, <2>3, <2>4, <2>5 DEF SessionMap, network, history
<1>3. ASSUME NEW c \in Client, Respond(c)
      PROVE  TypeOK'
  BY <1>3 DEF Respond, Last, Front, history
<1>4. ASSUME NEW e \in replies, HandleResponse(e)
      PROVE  TypeOK'
  <2>1. /\ e.to \in Client /\ e.from \in Client
        /\ e.secret.response \in 1..MaxResponses
    BY DEF Response, Secret
  <2>2. pendingInitiators[e.to][e.from] \in 1..MaxKeypairs
    BY <1>4, <2>1 DEF HandleResponse, NoKeypair
  <2>3. sessions' \in SessionMap
    BY <1>4, <2>1, <2>2, NewSessionType, PutSession
    DEF HandleResponse, InitiatingSession, Role
  <2>4. pendingInitiators' \in [Client -> [Client -> 0..MaxKeypairs]]
    BY <1>4, <2>1 DEF HandleResponse, TakenInitiators, NoKeypair
  <2> QED
    BY <1>4, <2>3, <2>4 DEF HandleResponse, SessionMap, network, history
<1>12. ASSUME NEW e \in replies, RejectResponse(e)
       PROVE  TypeOK'
  <2>1. e.to \in Client /\ e.from \in Client
    BY DEF Response
  <2>2. pendingInitiators' \in [Client -> [Client -> 0..MaxKeypairs]]
    BY <1>12, <2>1 DEF RejectResponse, TakenInitiators, NoKeypair
  <2> QED
    BY <1>12, <2>2 DEF RejectResponse, SessionMap, network, history
<1>5. ASSUME NEW c \in Client, NEW p \in Client, NEW b \in Body, Send(c, p, b)
      PROVE  TypeOK'
  <2> DEFINE s == sessions[c][p]
             m == [from |-> c, to |-> p, key |-> SendKey(s),
                   seq |-> s.sendCounter, body |-> b]
  <2>1. s \in Session /\ SendKey(s) \in Key /\ s.sendCounter \in 0..MaxSends
    BY <1>5, HeldSession DEF Send, Session
  <2>2. [s EXCEPT !.sendCounter = @ + 1] \in Session
    <3>1. s.sendCounter + 1 \in 0..MaxSends
      BY <1>5, <2>1 DEF Send
    <3> QED
      BY <2>1, <3>1 DEF Session
  <2>3. sessions' \in SessionMap
    BY <1>5, <2>2, PutSession DEF Send
  <2>4. rows' \in [Client -> SUBSET Row]
    BY <1>5, <2>1, PersistType DEF Send
  <2>5. ciphertexts' \subseteq Ciphertext
    BY <1>5, <2>1 DEF Send, Ciphertext
  <2> QED
    BY <1>5, <2>3, <2>4, <2>5 DEF Send, SessionMap, history
<1>6. ASSUME NEW m \in ciphertexts, RejectUndecryptable(m)
      PROVE  TypeOK'
  BY <1>6, TakeSequenceType
  DEF RejectUndecryptable, TakeSequence, SessionMap, network, history
<1>7. ASSUME NEW m \in ciphertexts, RejectUnstorable(m)
      PROVE  TypeOK'
  BY <1>7, TakeSequenceType
  DEF RejectUnstorable, TakeSequence, SessionMap, network, history
<1>8. ASSUME NEW m \in ciphertexts, Accept(m)
      PROVE  TypeOK'
  <2>1. sessions' \in SessionMap
    BY <1>8, TakeSequenceType DEF Accept
  <2>2. rows' \in [Client -> SUBSET Row]
    BY <1>8, PersistType DEF Accept, IncomingRow, Ciphertext
  <2>3. m \in Ciphertext /\ m.to \in Client
    BY DEF Ciphertext
  <2>4. /\ accepted' \in [Client -> SUBSET Ciphertext]
        /\ acceptCount' \in [Client -> Nat]
    BY <1>8, <2>3 DEF Accept
  <2> QED
    BY <1>8, <2>1, <2>2, <2>4 DEF Accept, TakeSequence, SessionMap, network
<1>9. ASSUME NEW c \in Client, Start(c)
      PROVE  TypeOK'
  BY <1>9 DEF Start, network, history
<1>10. ASSUME NEW c \in Client, Restart(c)
       PROVE  TypeOK'
  BY <1>10 DEF Restart, network, history, NoKeypair
<1>11. CASE UNCHANGED vars
  BY <1>11 DEF vars, network, history
<1> QED
  BY <1>1, <1>2, <1>3, <1>4, <1>5, <1>6, <1>7, <1>8, <1>9, <1>10, <1>11, <1>12
  DEF Next

(* Every variable keeps the shape the code's types give it.                  *)
THEOREM TypeCorrect == Spec => []TypeOK
<1>1. Init => TypeOK
  BY DEF Init, TypeOK, NoKeypair
<1> QED
  BY <1>1, TypeStep, PTL DEF Spec

-----------------------------------------------------------------------------
(***************************************************************************)
(* The inductive invariant.  A key is named by what made it fresh: the     *)
(* initiator's sending key by its keypair, the responder's by its          *)
(* encapsulation.  Announced says which pair a keypair belongs to, and a   *)
(* keypair that is still pending has never been used.                      *)
(***************************************************************************)
Announced(c, p, k) == [from |-> c, to |-> p, keypair |-> k] \in initiations

InitiationsInv ==
  /\ \A e, f \in initiations : e.keypair = f.keypair => e = f
  /\ \A e \in initiations : e.keypair <= keypairs

PendingInv ==
  \A c, p \in Client : pendingInitiators[c][p] # NoKeypair =>
    Announced(c, p, pendingInitiators[c][p])

\* Where a session comes from, and that it has used up what it comes from.
SessionInv ==
  \A c, p \in Client : HasSession(c, p) =>
    LET s == sessions[c][p]
    IN  /\ s.role = "initiator" =>
              /\ Announced(c, p, s.secret.keypair)
              /\ s.secret.keypair # pendingInitiators[c][p]
        /\ s.role = "responder" =>
              /\ Announced(p, c, s.secret.keypair)
              /\ s.secret.response <= responses

ResponderInv ==
  \A c, p, d, q \in Client :
    /\ HasSession(c, p) /\ sessions[c][p].role = "responder"
    /\ HasSession(d, q) /\ sessions[d][q].role = "responder"
    /\ sessions[c][p].secret.response = sessions[d][q].secret.response
    => c = d /\ p = q

\* The same for every key under which something was sent.
CiphertextInv ==
  \A m \in ciphertexts :
    LET k == m.key.secret
    IN  /\ m.key.label = "initiator" =>
              /\ Announced(m.from, m.to, k.keypair)
              /\ k.keypair # pendingInitiators[m.from][m.to]
        /\ m.key.label = "responder" => k.response <= responses

CounterInv ==
  \A c, p \in Client : \A m \in ciphertexts :
    HasSession(c, p) /\ m.key = SendKey(sessions[c][p])
      => m.seq < sessions[c][p].sendCounter

\* ... and for every key under which something was accepted.
AcceptedInv ==
  \A c \in Client : \A m \in accepted[c] :
    LET k == m.key.secret
    IN  /\ m \in ciphertexts /\ m.to = c
        /\ m.key.label = "responder" =>
              /\ k.keypair <= keypairs
              /\ k.keypair # pendingInitiators[c][m.from]
        /\ m.key.label = "initiator" => k.response <= responses

SeenInv ==
  \A c, p \in Client : \A m \in accepted[c] :
    HasSession(c, p) /\ m.from = p /\ m.key = ReceiveKey(sessions[c][p])
      => m.seq \in sessions[c][p].seen

KeyInv ==
  InitiationsInv /\ PendingInv /\ SessionInv /\ ResponderInv /\ CiphertextInv

IInv == TypeOK /\ KeyInv /\ CounterInv /\ NonceNeverReused /\ AcceptedInv /\ SeenInv

-----------------------------------------------------------------------------
(* Writing one entry of the sessions map leaves the others alone.            *)
LEMMA SessionsAfterPut ==
  ASSUME TypeOK, NEW c \in Client, NEW p \in Client, NEW s \in Session,
         sessions' = [sessions EXCEPT ![c][p] = s]
  PROVE  /\ sessions'[c][p] = s /\ HasSession(c, p)'
         /\ \A d, q \in Client : d # c \/ q # p =>
              sessions'[d][q] = sessions[d][q] /\ (HasSession(d, q)' <=> HasSession(d, q))
<1>1. s # NoSession
  BY NoSessionAssumption
<1> QED
  BY <1>1 DEF TypeOK, HasSession

(* Likewise for the pending keypairs.                                        *)
LEMMA PendingAfterPut ==
  ASSUME TypeOK, NEW c \in Client, NEW p \in Client, NEW k,
         pendingInitiators' = [pendingInitiators EXCEPT ![c][p] = k]
  PROVE  /\ pendingInitiators'[c][p] = k
         /\ \A d, q \in Client : d # c \/ q # p =>
              pendingInitiators'[d][q] = pendingInitiators[d][q]
BY DEF TypeOK

(* The fields of the keys of a session, and of a ciphertext.                 *)
LEMMA KeyFields ==
  ASSUME NEW s \in Session
  PROVE  /\ s.role \in {"initiator", "responder"}
         /\ SendKey(s).secret = s.secret /\ SendKey(s).label = s.role
         /\ ReceiveKey(s).secret = s.secret
         /\ ReceiveKey(s).label = "initiator" <=> s.role = "responder"
         /\ ReceiveKey(s).label = "responder" <=> s.role = "initiator"
         /\ s.secret.keypair \in 1..MaxKeypairs
         /\ s.secret.response \in 1..MaxResponses
BY DEF Session, Role, Secret, SendKey, ReceiveKey, OtherRole

LEMMA CiphertextFields ==
  ASSUME TypeOK, NEW m \in ciphertexts
  PROVE  /\ m.from \in Client /\ m.to \in Client /\ m.seq \in 0..MaxSends
         /\ m.key.label \in {"initiator", "responder"}
         /\ m.key.secret.keypair \in 1..MaxKeypairs
         /\ m.key.secret.response \in 1..MaxResponses
BY DEF TypeOK, Ciphertext, Key, Role, Secret

(* A keypair is announced for one pair of clients, and is not a future one.  *)
LEMMA AnnouncedOnce ==
  ASSUME TypeOK, InitiationsInv, NEW c, NEW p, NEW k, Announced(c, p, k)
  PROVE  /\ k <= keypairs /\ k \in 1..MaxKeypairs
         /\ \A d, q : Announced(d, q, k) => d = c /\ q = p
<1> DEFINE e(d, q) == [from |-> d, to |-> q, keypair |-> k]
<1>1. e(c, p).keypair <= keypairs /\ e(c, p).keypair \in 1..MaxKeypairs
  BY DEF Announced, InitiationsInv, TypeOK, Initiation
<1>2. ASSUME NEW d, NEW q, Announced(d, q, k) PROVE d = c /\ q = p
  <2>1. e(d, q) = e(c, p)
    BY <1>2 DEF Announced, InitiationsInv
  <2> QED
    BY <2>1
<1> QED
  BY <1>1, <1>2

(* Two sessions with the same sending key are the same entry of the map.     *)
LEMMA SendKeyOwner ==
  ASSUME TypeOK, KeyInv, NEW c \in Client, NEW p \in Client,
         NEW d \in Client, NEW q \in Client, HasSession(c, p), HasSession(d, q),
         SendKey(sessions[c][p]) = SendKey(sessions[d][q])
  PROVE  c = d /\ p = q
<1> DEFINE s == sessions[c][p]
           t == sessions[d][q]
<1>1. s \in Session /\ t \in Session
  BY HeldSession
<1>2. s.role = t.role /\ s.secret = t.secret /\ s.role \in {"initiator", "responder"}
  BY <1>1, KeyFields
<1>3. CASE s.role = "initiator"
  <2>1. Announced(c, p, s.secret.keypair) /\ Announced(d, q, s.secret.keypair)
    BY <1>2, <1>3 DEF KeyInv, SessionInv
  <2> QED
    BY <2>1, AnnouncedOnce DEF KeyInv
<1>4. CASE s.role = "responder"
  BY <1>2, <1>4 DEF KeyInv, ResponderInv
<1> QED
  BY <1>2, <1>3, <1>4

-----------------------------------------------------------------------------
(* Every step keeps the inductive invariant: one lemma per action.           *)

\* A new keypair is larger than all those in use.
LEMMA InitiateStep ==
  ASSUME IInv, TypeOK', NEW c \in Client, NEW p \in Client, Initiate(c, p)
  PROVE  IInv'
<1> USE DEF IInv, KeyInv
<1> PICK k : k = keypairs + 1
  OBVIOUS
<1> DEFINE e0 == [from |-> c, to |-> p, keypair |-> k]
<1>1. /\ UNCHANGED <<responses, sessions, ciphertexts, accepted>>
      /\ initiations' = initiations \cup {e0} /\ keypairs' = k
      /\ pendingInitiators' = [pendingInitiators EXCEPT ![c][p] = k]
  BY DEF Initiate, history
<1>2. keypairs \in Nat
  BY DEF TypeOK
<1>3. \A d, q, j : Announced(d, q, j) => Announced(d, q, j)' /\ j <= keypairs
  BY <1>1, AnnouncedOnce DEF Announced
<1>4. \A d, q \in Client :
        \/ pendingInitiators'[d][q] = pendingInitiators[d][q]
        \/ d = c /\ q = p /\ pendingInitiators'[d][q] = k
  BY <1>1, <1>2, PendingAfterPut
<1>5. InitiationsInv'
  <2>1. \A e \in initiations : e.keypair \in Nat /\ e.keypair <= keypairs
    BY DEF InitiationsInv, TypeOK, Initiation
  <2> QED
    BY <1>1, <1>2, <2>1 DEF InitiationsInv
<1>6. PendingInv'
  <2>1. Announced(c, p, k)'
    BY <1>1 DEF Announced
  <2> QED
    BY <1>3, <1>4, <2>1 DEF PendingInv
<1>7. SessionInv'
  <2> SUFFICES ASSUME NEW d \in Client, NEW q \in Client, NEW s,
                      HasSession(d, q), s = sessions[d][q]
               PROVE  /\ s.role = "initiator" =>
                           /\ Announced(d, q, s.secret.keypair)'
                           /\ s.secret.keypair # pendingInitiators'[d][q]
                      /\ s.role = "responder" =>
                           /\ Announced(q, d, s.secret.keypair)'
                           /\ s.secret.response <= responses
    BY <1>1 DEF SessionInv, HasSession
  <2>1. s.secret.keypair \in Nat
    BY HeldSession, KeyFields
  <2>2. CASE s.role = "initiator"
    <3>1. /\ Announced(d, q, s.secret.keypair)
          /\ s.secret.keypair # pendingInitiators[d][q]
      BY <2>2 DEF SessionInv
    <3> QED
      BY <1>1, <1>2, <1>3, <1>4, <2>1, <2>2, <3>1
  <2>3. CASE s.role = "responder"
    BY <1>3, <2>3 DEF SessionInv
  <2> QED
    BY <2>2, <2>3
<1>8. ResponderInv'
  BY <1>1 DEF ResponderInv, HasSession
<1>9. CiphertextInv'
  <2> SUFFICES ASSUME NEW m \in ciphertexts
               PROVE  LET j == m.key.secret
                      IN  /\ m.key.label = "initiator" =>
                               /\ Announced(m.from, m.to, j.keypair)'
                               /\ j.keypair # pendingInitiators'[m.from][m.to]
                          /\ m.key.label = "responder" => j.response <= responses
    BY <1>1 DEF CiphertextInv
  <2>1. m.from \in Client /\ m.to \in Client /\ m.key.secret.keypair \in Nat
    BY CiphertextFields
  <2> QED
    BY <1>2, <1>3, <1>4, <2>1 DEF CiphertextInv
<1>10. CounterInv' /\ NonceNeverReused' /\ SeenInv'
  BY <1>1 DEF CounterInv, NonceNeverReused, SeenInv, HasSession
<1>11. AcceptedInv'
  <2> SUFFICES ASSUME NEW d \in Client, NEW m \in accepted[d]
               PROVE  LET j == m.key.secret
                      IN  /\ m \in ciphertexts /\ m.to = d
                          /\ m.key.label = "responder" =>
                               /\ j.keypair <= k
                               /\ j.keypair # pendingInitiators'[d][m.from]
                          /\ m.key.label = "initiator" => j.response <= responses
    BY <1>1 DEF AcceptedInv
  <2>1. m \in ciphertexts
    BY DEF AcceptedInv
  <2>2. m.from \in Client /\ m.key.secret.keypair \in Nat
    BY <2>1, CiphertextFields
  <2> QED
    BY <1>2, <1>4, <2>2 DEF AcceptedInv
<1> QED
  BY <1>5, <1>6, <1>7, <1>8, <1>9, <1>10, <1>11

\* A response is a fresh encapsulation: no session, no message carries it yet.
LEMMA HandleInitiationStep ==
  ASSUME IInv, TypeOK', NEW e \in initiations, HandleInitiation(e)
  PROVE  IInv'
<1> USE DEF IInv, KeyInv
<1> PICK r : r = responses + 1
  OBVIOUS
<1> DEFINE c == e.to
           p == e.from
<1> DEFINE s0 == RespondingSession([keypair |-> e.keypair, response |-> r])
<1>1. /\ UNCHANGED <<keypairs, pendingInitiators, initiations, ciphertexts, accepted>>
      /\ responses' = r /\ sessions' = [sessions EXCEPT ![c][p] = s0]
  BY DEF HandleInitiation, network, history
<1>2. /\ c \in Client /\ p \in Client /\ e.keypair \in 1..MaxKeypairs
      /\ responses \in Nat /\ r \in 1..MaxResponses
      /\ e = [from |-> p, to |-> c, keypair |-> e.keypair]
  BY DEF TypeOK, Initiation, HandleInitiation
<1>3. s0 \in Session
  BY <1>2, NewSessionType DEF RespondingSession, Role
<1>4. /\ s0.role = "responder" /\ s0.secret.response = r
      /\ s0.secret.keypair = e.keypair
  BY DEF RespondingSession, NewSession
<1> HIDE DEF s0
<1>5. /\ sessions'[c][p] = s0 /\ HasSession(c, p)'
      /\ \A d, q \in Client : d # c \/ q # p =>
           sessions'[d][q] = sessions[d][q] /\ (HasSession(d, q)' <=> HasSession(d, q))
  BY <1>1, <1>2, <1>3, SessionsAfterPut
<1>6. \A d, q, j : Announced(d, q, j)' <=> Announced(d, q, j)
  BY <1>1 DEF Announced
<1>7. InitiationsInv' /\ PendingInv'
  BY <1>1, <1>6 DEF InitiationsInv, PendingInv
<1>8. SessionInv'
  <2> SUFFICES ASSUME NEW d \in Client, NEW q \in Client, NEW s,
                      HasSession(d, q)', s = sessions'[d][q]
               PROVE  /\ s.role = "initiator" =>
                           /\ Announced(d, q, s.secret.keypair)
                           /\ s.secret.keypair # pendingInitiators[d][q]
                      /\ s.role = "responder" =>
                           /\ Announced(q, d, s.secret.keypair)
                           /\ s.secret.response <= r
    BY <1>1, <1>6 DEF SessionInv
  <2>1. CASE d = c /\ q = p
    BY <1>2, <1>4, <1>5, <2>1 DEF Announced
  <2>2. CASE d # c \/ q # p
    <3>1. HasSession(d, q) /\ s = sessions[d][q]
      BY <1>5, <2>2
    <3>2. s.secret.response \in Nat
      BY <3>1, HeldSession, KeyFields
    <3> QED
      BY <1>2, <3>1, <3>2 DEF SessionInv
  <2> QED
    BY <2>1, <2>2
<1>9. \A d, q \in Client : HasSession(d, q) /\ sessions[d][q].role = "responder"
        => sessions[d][q].secret.response # r
  BY <1>2 DEF SessionInv
<1>10. ResponderInv'
  <2> SUFFICES ASSUME NEW d \in Client, NEW q \in Client, NEW x \in Client,
                      NEW y \in Client, HasSession(d, q)', HasSession(x, y)',
                      sessions'[d][q].role = "responder",
                      sessions'[x][y].role = "responder",
                      sessions'[d][q].secret.response = sessions'[x][y].secret.response
               PROVE  d = x /\ q = y
    BY DEF ResponderInv
  <2>1. CASE d = c /\ q = p
    BY <1>4, <1>5, <1>9, <2>1
  <2>2. CASE x = c /\ y = p
    BY <1>4, <1>5, <1>9, <2>2
  <2>3. CASE (d # c \/ q # p) /\ (x # c \/ y # p)
    <3>1. /\ HasSession(d, q) /\ sessions'[d][q] = sessions[d][q]
          /\ HasSession(x, y) /\ sessions'[x][y] = sessions[x][y]
      BY <1>5, <2>3
    <3> QED
      BY <3>1 DEF ResponderInv
  <2> QED
    BY <2>1, <2>2, <2>3
<1>11. CiphertextInv' /\ AcceptedInv'
  <2>1. \A m \in ciphertexts : m.key.secret.response \in Nat
    BY CiphertextFields
  <2> QED
    BY <1>1, <1>2, <1>6, <2>1 DEF CiphertextInv, AcceptedInv
<1>12. CounterInv'
  <2>1. \A m \in ciphertexts : m.key # SendKey(s0)
    BY <1>2, <1>3, <1>4, KeyFields DEF CiphertextInv
  <2> QED
    BY <1>1, <1>5, <2>1 DEF CounterInv
<1>13. SeenInv'
  <2>1. \A d \in Client : \A m \in accepted[d] : m.key # ReceiveKey(s0)
    BY <1>2, <1>3, <1>4, KeyFields DEF AcceptedInv
  <2> QED
    BY <1>1, <1>5, <2>1 DEF SeenInv
<1>14. NonceNeverReused'
  BY <1>1 DEF NonceNeverReused
<1> QED
  BY <1>7, <1>8, <1>10, <1>11, <1>12, <1>13, <1>14

\* The pending keypair becomes a session's, and no longer is pending.
LEMMA HandleResponseStep ==
  ASSUME IInv, TypeOK', NEW e \in replies, HandleResponse(e)
  PROVE  IInv'
<1> USE DEF IInv, KeyInv
<1> DEFINE c == e.to
           p == e.from
<1> PICK k : k = pendingInitiators[c][p]
  OBVIOUS
<1> DEFINE s0 == InitiatingSession([keypair |-> k, response |-> e.secret.response])
<1>1. /\ UNCHANGED <<keypairs, responses, initiations, ciphertexts, accepted>>
      /\ sessions' = [sessions EXCEPT ![c][p] = s0]
      /\ pendingInitiators' = [pendingInitiators EXCEPT ![c][p] = NoKeypair]
  BY DEF HandleResponse, TakenInitiators, network, history
<1>2. /\ c \in Client /\ p \in Client /\ k \in 1..MaxKeypairs
      /\ e.secret.response \in 1..MaxResponses /\ k # NoKeypair
  <2>1. c \in Client /\ p \in Client /\ e.secret.response \in 1..MaxResponses
    BY DEF TypeOK, Response, Secret
  <2>2. k # NoKeypair /\ k \in 0..MaxKeypairs
    BY <2>1 DEF TypeOK, HandleResponse
  <2> QED
    BY <2>1, <2>2 DEF NoKeypair
<1>3. s0 \in Session
  BY <1>2, NewSessionType DEF InitiatingSession, Role
<1>4. s0.role = "initiator" /\ s0.secret.keypair = k
  BY DEF InitiatingSession, NewSession
<1> HIDE DEF s0
<1>5. /\ sessions'[c][p] = s0 /\ HasSession(c, p)'
      /\ \A d, q \in Client : d # c \/ q # p =>
           sessions'[d][q] = sessions[d][q] /\ (HasSession(d, q)' <=> HasSession(d, q))
  BY <1>1, <1>2, <1>3, SessionsAfterPut
<1>6. /\ pendingInitiators'[c][p] = NoKeypair
      /\ \A d, q \in Client : d # c \/ q # p =>
           pendingInitiators'[d][q] = pendingInitiators[d][q]
  BY <1>1, <1>2 DEF TypeOK
<1>7. \A d, q, j : Announced(d, q, j)' <=> Announced(d, q, j)
  BY <1>1 DEF Announced
<1>8. Announced(c, p, k)
  BY <1>2 DEF PendingInv
<1>9. InitiationsInv' /\ PendingInv'
  <2>1. InitiationsInv'
    BY <1>1 DEF InitiationsInv
  <2>2. PendingInv'
    BY <1>6, <1>7 DEF PendingInv
  <2> QED
    BY <2>1, <2>2
<1>10. SessionInv'
  <2> SUFFICES ASSUME NEW d \in Client, NEW q \in Client, NEW s,
                      HasSession(d, q)', s = sessions'[d][q]
               PROVE  /\ s.role = "initiator" =>
                           /\ Announced(d, q, s.secret.keypair)
                           /\ s.secret.keypair # pendingInitiators'[d][q]
                      /\ s.role = "responder" =>
                           /\ Announced(q, d, s.secret.keypair)
                           /\ s.secret.response <= responses
    BY <1>1, <1>7 DEF SessionInv
  <2>1. CASE d = c /\ q = p
    BY <1>2, <1>4, <1>5, <1>6, <1>8, <2>1
  <2>2. CASE d # c \/ q # p
    BY <1>5, <1>6, <2>2 DEF SessionInv
  <2> QED
    BY <2>1, <2>2
<1>11. ResponderInv'
  BY <1>4, <1>5 DEF ResponderInv
<1>12. CiphertextInv'
  <2>1. \A m \in ciphertexts : /\ m.from \in Client /\ m.to \in Client
                               /\ m.key.secret.keypair # NoKeypair
    BY CiphertextFields DEF NoKeypair
  <2> QED
    BY <1>1, <1>6, <1>7, <2>1 DEF CiphertextInv
<1>13. AcceptedInv'
  <2>1. \A d \in Client : \A m \in accepted[d] :
          m.from \in Client /\ m.key.secret.keypair # NoKeypair
    BY CiphertextFields DEF NoKeypair, AcceptedInv
  <2> QED
    BY <1>1, <1>6, <2>1 DEF AcceptedInv
<1>14. CounterInv'
  <2>1. ASSUME NEW m \in ciphertexts, m.key = SendKey(s0) PROVE FALSE
    <3>1. m.key.label = "initiator" /\ m.key.secret.keypair = k
      BY <1>3, <1>4, <2>1, KeyFields
    <3>2. Announced(m.from, m.to, k) /\ k # pendingInitiators[m.from][m.to]
      BY <3>1 DEF CiphertextInv
    <3> QED
      BY <1>8, <3>2, AnnouncedOnce
  <2> QED
    BY <1>1, <1>5, <2>1 DEF CounterInv
<1>15. SeenInv'
  <2>1. ASSUME NEW m \in accepted[c], m.from = p, m.key = ReceiveKey(s0)
        PROVE  FALSE
    BY <1>2, <1>3, <1>4, <2>1, KeyFields DEF AcceptedInv
  <2> QED
    BY <1>1, <1>5, <2>1 DEF SeenInv
<1>16. NonceNeverReused'
  BY <1>1 DEF NonceNeverReused
<1> QED
  BY <1>9, <1>10, <1>11, <1>12, <1>13, <1>14, <1>15, <1>16

(* Counting a send or marking a sequence does not change who holds which key. *)
LEMMA KeysKept ==
  ASSUME IInv, NEW c \in Client, NEW p \in Client, NEW s \in Session,
         HasSession(c, p), sessions' = [sessions EXCEPT ![c][p] = s],
         s.secret = sessions[c][p].secret, s.role = sessions[c][p].role,
         UNCHANGED <<responses, pendingInitiators, initiations>>
  PROVE  /\ SessionInv' /\ ResponderInv'
         /\ sessions'[c][p] = s
         /\ \A d, q \in Client : d # c \/ q # p => sessions'[d][q] = sessions[d][q]
         /\ \A d, q \in Client :
              /\ HasSession(d, q)' <=> HasSession(d, q)
              /\ SendKey(sessions'[d][q]) = SendKey(sessions[d][q])
              /\ ReceiveKey(sessions'[d][q]) = ReceiveKey(sessions[d][q])
<1> USE DEF IInv, KeyInv
<1>1. /\ sessions'[c][p] = s /\ HasSession(c, p)'
      /\ \A d, q \in Client : d # c \/ q # p =>
           sessions'[d][q] = sessions[d][q] /\ (HasSession(d, q)' <=> HasSession(d, q))
  BY SessionsAfterPut
<1>2. \A d, q \in Client :
        /\ HasSession(d, q)' <=> HasSession(d, q)
        /\ sessions'[d][q].secret = sessions[d][q].secret
        /\ sessions'[d][q].role = sessions[d][q].role
  BY <1>1
<1>3. \A d, q, j : Announced(d, q, j)' <=> Announced(d, q, j)
  BY DEF Announced
<1>4. SessionInv'
  BY <1>2, <1>3 DEF SessionInv
<1>5. ResponderInv'
  BY <1>2 DEF ResponderInv
<1> QED
  BY <1>1, <1>2, <1>4, <1>5 DEF SendKey, ReceiveKey

\* A sent message takes the sequence its session's counter was at.
LEMMA SendStep ==
  ASSUME IInv, TypeOK', NEW c \in Client, NEW p \in Client, NEW b \in Body,
         Send(c, p, b)
  PROVE  IInv'
<1> USE DEF IInv, KeyInv
<1> DEFINE s  == sessions[c][p]
           s1 == [s EXCEPT !.sendCounter = @ + 1]
           m0 == [from |-> c, to |-> p, key |-> SendKey(s), seq |-> s.sendCounter,
                  body |-> b]
<1>1. /\ UNCHANGED <<keypairs, responses, pendingInitiators, initiations, accepted>>
      /\ sessions' = [sessions EXCEPT ![c][p] = s1]
      /\ ciphertexts' = ciphertexts \cup {m0}
      /\ HasSession(c, p) /\ s.sendCounter < MaxSends
  BY DEF Send, history
<1>2. s \in Session
  BY <1>1, HeldSession
<1>3. /\ s1 \in Session /\ s1.secret = s.secret /\ s1.role = s.role
      /\ s1.sendCounter = s.sendCounter + 1 /\ s1.seen = s.seen
      /\ s.sendCounter \in Nat
  <2>1. s.sendCounter + 1 \in 0..MaxSends /\ s.sendCounter \in Nat
    BY <1>1, <1>2 DEF Session
  <2> QED
    BY <1>2, <2>1 DEF Session
<1>4. /\ m0.from = c /\ m0.to = p /\ m0.key = SendKey(s) /\ m0.seq = s.sendCounter
  OBVIOUS
<1>5. m0.key.secret = s.secret /\ m0.key.label = s.role
  BY <1>2, KeyFields
<1> HIDE DEF s1, m0
<1>6. /\ SessionInv' /\ ResponderInv'
      /\ sessions'[c][p] = s1
      /\ \A d, q \in Client : d # c \/ q # p => sessions'[d][q] = sessions[d][q]
      /\ \A d, q \in Client :
           /\ HasSession(d, q)' <=> HasSession(d, q)
           /\ SendKey(sessions'[d][q]) = SendKey(sessions[d][q])
           /\ ReceiveKey(sessions'[d][q]) = ReceiveKey(sessions[d][q])
  BY <1>1, <1>3, KeysKept
<1>7. \A d, q, j : Announced(d, q, j)' <=> Announced(d, q, j)
  BY <1>1 DEF Announced
<1>8. InitiationsInv' /\ PendingInv'
  BY <1>1, <1>7 DEF InitiationsInv, PendingInv
<1>9. CiphertextInv'
  <2>1. /\ s.role = "initiator" => /\ Announced(c, p, s.secret.keypair)
                                   /\ s.secret.keypair # pendingInitiators[c][p]
        /\ s.role = "responder" => s.secret.response <= responses
    BY <1>1 DEF SessionInv
  <2> QED
    BY <1>1, <1>4, <1>5, <1>7, <2>1 DEF CiphertextInv
<1>10. CounterInv'
  <2> SUFFICES ASSUME NEW d \in Client, NEW q \in Client, NEW m \in ciphertexts',
                      HasSession(d, q), m.key = SendKey(sessions[d][q])
               PROVE  m.seq < sessions'[d][q].sendCounter
    BY <1>6 DEF CounterInv
  <2>1. m.seq \in Nat /\ sessions[d][q].sendCounter \in Nat
    BY CiphertextFields, HeldSession, <1>1, <1>3, <1>4 DEF Session
  <2>2. CASE m \in ciphertexts
    <3>1. m.seq < sessions[d][q].sendCounter
      BY <2>2 DEF CounterInv
    <3>2. CASE d = c /\ q = p
      BY <1>3, <1>6, <2>1, <3>1, <3>2
    <3>3. CASE d # c \/ q # p
      BY <1>6, <3>1, <3>3
    <3> QED
      BY <3>2, <3>3
  <2>3. CASE m = m0
    <3>1. SendKey(sessions[c][p]) = SendKey(sessions[d][q])
      BY <1>4, <2>3
    <3>2. d = c /\ q = p
      BY <1>1, <3>1, SendKeyOwner
    <3> QED
      BY <1>3, <1>4, <1>6, <2>3, <3>2
  <2> QED
    BY <1>1, <2>2, <2>3
<1>11. NonceNeverReused'
  <2>1. ASSUME NEW m \in ciphertexts, m.key = m0.key, m.seq = m0.seq
        PROVE  FALSE
    BY <1>1, <1>3, <1>4, <2>1 DEF CounterInv
  <2> QED
    BY <1>1, <2>1 DEF NonceNeverReused
<1>12. AcceptedInv'
  BY <1>1 DEF AcceptedInv
<1>13. SeenInv'
  <2>1. \A d, q \in Client : sessions'[d][q].seen = sessions[d][q].seen
    BY <1>3, <1>6
  <2> QED
    BY <1>1, <1>6, <2>1 DEF SeenInv
<1> QED
  BY <1>6, <1>8, <1>9, <1>10, <1>11, <1>12, <1>13

\* What marking the sequence of a message as seen leaves in order.
LEMMA TakeSequenceStep ==
  ASSUME IInv, NEW m \in ciphertexts, TakeSequence(m)
  PROVE  /\ KeyInv' /\ CounterInv' /\ NonceNeverReused'
         /\ m.seq \in sessions'[m.to][m.from].seen
         /\ \A d, q \in Client :
              /\ HasSession(d, q)' <=> HasSession(d, q)
              /\ ReceiveKey(sessions'[d][q]) = ReceiveKey(sessions[d][q])
              /\ HasSession(d, q) => sessions[d][q].seen \subseteq sessions'[d][q].seen
<1> USE DEF IInv, KeyInv
<1> DEFINE c == m.to
           p == m.from
           s == sessions[c][p]
           s1 == [s EXCEPT !.seen = @ \cup {m.seq}]
<1>1. /\ UNCHANGED <<keypairs, responses, pendingInitiators, initiations, ciphertexts>>
      /\ sessions' = [sessions EXCEPT ![c][p] = s1]
      /\ HasSession(c, p)
  BY DEF TakeSequence, network
<1>2. c \in Client /\ p \in Client /\ m.seq \in 0..MaxSends
  BY CiphertextFields
<1>3. s \in Session
  BY <1>1, <1>2, HeldSession
<1>4. /\ s1 \in Session /\ s1.secret = s.secret /\ s1.role = s.role
      /\ s1.sendCounter = s.sendCounter /\ s1.seen = s.seen \cup {m.seq}
  BY <1>2, <1>3 DEF Session
<1> HIDE DEF s1
<1>5. /\ SessionInv' /\ ResponderInv'
      /\ sessions'[c][p] = s1
      /\ \A d, q \in Client : d # c \/ q # p => sessions'[d][q] = sessions[d][q]
      /\ \A d, q \in Client :
           /\ HasSession(d, q)' <=> HasSession(d, q)
           /\ SendKey(sessions'[d][q]) = SendKey(sessions[d][q])
           /\ ReceiveKey(sessions'[d][q]) = ReceiveKey(sessions[d][q])
  BY <1>1, <1>2, <1>4, KeysKept
<1>6. \A d, q, j : Announced(d, q, j)' <=> Announced(d, q, j)
  BY <1>1 DEF Announced
<1>7. InitiationsInv' /\ PendingInv' /\ CiphertextInv'
  BY <1>1, <1>6 DEF InitiationsInv, PendingInv, CiphertextInv
<1>8. CounterInv'
  <2>1. \A d, q \in Client : sessions'[d][q].sendCounter = sessions[d][q].sendCounter
    BY <1>4, <1>5
  <2> QED
    BY <1>1, <1>5, <2>1 DEF CounterInv
<1>9. NonceNeverReused'
  BY <1>1 DEF NonceNeverReused
<1> QED
  BY <1>4, <1>5, <1>7, <1>8, <1>9

LEMMA RejectStep ==
  ASSUME IInv, TypeOK', NEW m \in ciphertexts, TakeSequence(m), UNCHANGED history
  PROVE  IInv'
<1> USE DEF IInv
<1>1. UNCHANGED <<keypairs, responses, pendingInitiators, ciphertexts, accepted>>
  BY DEF TakeSequence, network, history
<1>2. AcceptedInv'
  BY <1>1 DEF AcceptedInv
<1>3. SeenInv'
  BY <1>1, TakeSequenceStep DEF SeenInv
<1> QED
  BY <1>2, <1>3, TakeSequenceStep

\* What is accepted came under the receiving key of the session at hand.
LEMMA AcceptStep ==
  ASSUME IInv, TypeOK', NEW m \in ciphertexts, Accept(m)
  PROVE  IInv'
<1> USE DEF IInv, KeyInv
<1> DEFINE c == m.to
           p == m.from
           s == sessions[c][p]
<1>1. /\ UNCHANGED <<keypairs, responses, pendingInitiators, ciphertexts>>
      /\ accepted' = [accepted EXCEPT ![c] = @ \cup {m}]
      /\ HasSession(c, p) /\ m.key = ReceiveKey(s) /\ TakeSequence(m)
  BY DEF Accept, TakeSequence, Decrypts, network
<1>2. c \in Client /\ p \in Client
  BY CiphertextFields
<1>3. \A d \in Client : \A n \in accepted'[d] : n \in accepted[d] \/ (d = c /\ n = m)
  BY <1>1, <1>2 DEF TypeOK
<1>4. s \in Session
  BY <1>1, <1>2, HeldSession
<1>5. AcceptedInv'
  <2>1. m.key.secret = s.secret
    BY <1>1, <1>4, KeyFields
  <2>2. ASSUME m.key.label = "responder"
        PROVE  /\ m.key.secret.keypair <= keypairs
               /\ m.key.secret.keypair # pendingInitiators[c][p]
    <3>1. /\ Announced(c, p, s.secret.keypair)
          /\ s.secret.keypair # pendingInitiators[c][p]
      BY <1>1, <1>2, <1>4, <2>2, KeyFields DEF SessionInv
    <3> QED
      BY <2>1, <3>1, AnnouncedOnce
  <2>3. ASSUME m.key.label = "initiator"
        PROVE  m.key.secret.response <= responses
    BY <1>1, <1>2, <1>4, <2>1, <2>3, KeyFields DEF SessionInv
  <2> QED
    BY <1>1, <1>3, <2>2, <2>3 DEF AcceptedInv
<1>6. SeenInv'
  BY <1>1, <1>3, TakeSequenceStep DEF SeenInv
<1> QED
  BY <1>1, <1>5, <1>6, TakeSequenceStep

\* Sessions and pending keypairs that are dropped take no key with them.
LEMMA ForgetStep ==
  ASSUME IInv, TypeOK',
         UNCHANGED <<keypairs, responses, initiations, ciphertexts, accepted>>,
         \A d, q \in Client : HasSession(d, q)' =>
           HasSession(d, q) /\ sessions'[d][q] = sessions[d][q],
         \A d, q \in Client :
           pendingInitiators'[d][q] \in {pendingInitiators[d][q], NoKeypair}
  PROVE  IInv'
<1> USE DEF IInv, KeyInv
<1>1. UNCHANGED <<keypairs, responses, initiations, ciphertexts, accepted>>
  OBVIOUS
<1>2. \A d, q \in Client : HasSession(d, q)' =>
        HasSession(d, q) /\ sessions'[d][q] = sessions[d][q]
  OBVIOUS
<1>3. \A d, q \in Client :
        pendingInitiators'[d][q] \in {pendingInitiators[d][q], NoKeypair}
  OBVIOUS
<1>4. \A d, q, j : Announced(d, q, j)' <=> Announced(d, q, j)
  BY <1>1 DEF Announced
<1>5. InitiationsInv' /\ PendingInv'
  BY <1>1, <1>3, <1>4 DEF InitiationsInv, PendingInv
<1>6. SessionInv'
  <2>1. \A d, q \in Client : HasSession(d, q) =>
          sessions[d][q].secret.keypair # NoKeypair
    BY HeldSession, KeyFields DEF NoKeypair
  <2> QED
    BY <1>1, <1>2, <1>3, <1>4, <2>1 DEF SessionInv
<1>7. ResponderInv'
  BY <1>2 DEF ResponderInv
<1>8. \A m \in ciphertexts : /\ m.from \in Client /\ m.to \in Client
                             /\ m.key.secret.keypair # NoKeypair
  BY CiphertextFields DEF NoKeypair
<1>9. CiphertextInv'
  BY <1>1, <1>3, <1>4, <1>8 DEF CiphertextInv
<1>10. AcceptedInv'
  BY <1>1, <1>3, <1>8 DEF AcceptedInv
<1>11. CounterInv' /\ SeenInv' /\ NonceNeverReused'
  BY <1>1, <1>2 DEF CounterInv, SeenInv, NonceNeverReused
<1> QED
  BY <1>5, <1>6, <1>7, <1>9, <1>10, <1>11

LEMMA RestartStep ==
  ASSUME IInv, TypeOK', NEW c \in Client, Restart(c)
  PROVE  IInv'
<1>1. /\ UNCHANGED <<keypairs, responses, initiations, ciphertexts, accepted>>
      /\ sessions' = [sessions EXCEPT ![c] = [p \in Client |-> NoSession]]
      /\ pendingInitiators' =
           [pendingInitiators EXCEPT ![c] = [p \in Client |-> NoKeypair]]
  BY DEF Restart, network, history
<1>2. \A d, q \in Client : HasSession(d, q)' =>
        HasSession(d, q) /\ sessions'[d][q] = sessions[d][q]
  BY <1>1 DEF IInv, TypeOK, HasSession
<1>3. \A d, q \in Client :
        pendingInitiators'[d][q] \in {pendingInitiators[d][q], NoKeypair}
  BY <1>1 DEF IInv, TypeOK
<1> QED
  BY <1>1, <1>2, <1>3, ForgetStep

LEMMA RejectResponseStep ==
  ASSUME IInv, TypeOK', NEW e \in replies, RejectResponse(e)
  PROVE  IInv'
<1>1. /\ UNCHANGED <<keypairs, responses, initiations, ciphertexts, accepted, sessions>>
      /\ pendingInitiators' = [pendingInitiators EXCEPT ![e.to][e.from] = NoKeypair]
  BY DEF RejectResponse, TakenInitiators, network, history
<1>2. e.to \in Client /\ e.from \in Client
  BY DEF IInv, TypeOK, Response
<1>3. \A d, q \in Client :
        pendingInitiators'[d][q] \in {pendingInitiators[d][q], NoKeypair}
  BY <1>1, <1>2 DEF IInv, TypeOK
<1>4. \A d, q \in Client : HasSession(d, q)' =>
        HasSession(d, q) /\ sessions'[d][q] = sessions[d][q]
  BY <1>1 DEF HasSession
<1> QED
  BY <1>1, <1>3, <1>4, ForgetStep

-----------------------------------------------------------------------------
(* The inductive invariant holds of every reachable state.                   *)
LEMMA IInvInit == Init => IInv
<1> SUFFICES ASSUME Init PROVE IInv
  OBVIOUS
<1>1. TypeOK
  BY DEF Init, TypeOK, NoKeypair
<1>2. \A c, p \in Client : ~HasSession(c, p) /\ pendingInitiators[c][p] = NoKeypair
  BY DEF Init, HasSession
<1>3. /\ initiations = {} /\ ciphertexts = {}
      /\ \A c \in Client : accepted[c] = {}
  BY DEF Init
<1> QED
  BY <1>1, <1>2, <1>3
  DEF IInv, KeyInv, InitiationsInv, PendingInv, SessionInv, ResponderInv,
      CiphertextInv, CounterInv, NonceNeverReused, AcceptedInv, SeenInv

LEMMA IInvStep == IInv /\ [Next]_vars => IInv'
<1> SUFFICES ASSUME IInv, [Next]_vars PROVE IInv'
  OBVIOUS
<1>1. TypeOK'
  BY TypeStep DEF IInv
<1>2. ASSUME NEW c \in Client, NEW p \in Client, Initiate(c, p) PROVE IInv'
  BY <1>1, <1>2, InitiateStep
<1>3. ASSUME NEW e \in initiations, HandleInitiation(e) PROVE IInv'
  BY <1>1, <1>3, HandleInitiationStep
<1>4. ASSUME NEW e \in replies, HandleResponse(e) PROVE IInv'
  BY <1>1, <1>4, HandleResponseStep
<1>12. ASSUME NEW e \in replies, RejectResponse(e) PROVE IInv'
  BY <1>1, <1>12, RejectResponseStep
<1>5. ASSUME NEW c \in Client, NEW p \in Client, NEW b \in Body, Send(c, p, b)
      PROVE  IInv'
  BY <1>1, <1>5, SendStep
<1>6. ASSUME NEW m \in ciphertexts, RejectUndecryptable(m) \/ RejectUnstorable(m)
      PROVE  IInv'
  BY <1>1, <1>6, RejectStep DEF RejectUndecryptable, RejectUnstorable, history
<1>7. ASSUME NEW m \in ciphertexts, Accept(m) PROVE IInv'
  BY <1>1, <1>7, AcceptStep
<1>8. ASSUME NEW c \in Client, Restart(c) PROVE IInv'
  BY <1>1, <1>8, RestartStep
<1>9. ASSUME UNCHANGED <<keypairs, responses, pendingInitiators, sessions,
                         initiations, ciphertexts, accepted>>
      PROVE  IInv'
  BY <1>1, <1>9
  DEF IInv, KeyInv, InitiationsInv, PendingInv, SessionInv, ResponderInv,
      CiphertextInv, CounterInv, NonceNeverReused, AcceptedInv, SeenInv,
      Announced, HasSession
<1>10. ASSUME NEW c \in Client, Respond(c) \/ Start(c) PROVE IInv'
  BY <1>9, <1>10 DEF Respond, Start, network, history
<1>11. CASE UNCHANGED vars
  BY <1>9, <1>11 DEF vars, network, history
<1> QED
  BY <1>2, <1>3, <1>4, <1>5, <1>6, <1>7, <1>8, <1>10, <1>11, <1>12 DEF Next

THEOREM Inductive == Spec => []IInv
BY IInvInit, IInvStep, PTL DEF Spec

(* Whatever the loss, duplication and reordering of envelopes, the repeated  *)
(* and crossing handshakes and the restarts: no two ciphertexts share a key  *)
(* and a nonce.                                                              *)
THEOREM NonceSafety == Spec => []NonceNeverReused
<1>1. IInv => NonceNeverReused
  BY DEF IInv
<1> QED
  BY <1>1, Inductive, PTL

(* Two sessions with one secret are the two ends of one conversation.        *)
LEMMA SecretsFollow == IInv => SecretsPairUp
<1> SUFFICES ASSUME IInv, NEW c \in Client, NEW p \in Client,
                    NEW d \in Client, NEW q \in Client,
                    HasSession(c, p), HasSession(d, q), <<c, p>> # <<d, q>>,
                    sessions[c][p].secret = sessions[d][q].secret
             PROVE  /\ d = p /\ q = c
                    /\ SendKey(sessions[c][p]) = ReceiveKey(sessions[d][q])
  BY DEF SecretsPairUp
<1> USE DEF IInv, KeyInv
<1> DEFINE s == sessions[c][p]
           t == sessions[d][q]
<1>1. s \in Session /\ t \in Session
  BY HeldSession
<1>2. s.role \in {"initiator", "responder"} /\ t.role \in {"initiator", "responder"}
  BY <1>1, KeyFields
<1>3. s.role # t.role
  <2> SUFFICES ASSUME s.role = t.role PROVE FALSE
    OBVIOUS
  <2>1. SendKey(s) = SendKey(t)
    BY DEF SendKey
  <2> QED
    BY <2>1, SendKeyOwner
<1>4. d = p /\ q = c
  <2>1. CASE s.role = "initiator"
    <3>1. Announced(c, p, s.secret.keypair) /\ Announced(q, d, s.secret.keypair)
      BY <1>2, <1>3, <2>1 DEF SessionInv
    <3> QED
      BY <3>1, AnnouncedOnce
  <2>2. CASE s.role = "responder"
    <3>1. Announced(p, c, s.secret.keypair) /\ Announced(d, q, s.secret.keypair)
      BY <1>2, <1>3, <2>2 DEF SessionInv
    <3> QED
      BY <3>1, AnnouncedOnce
  <2> QED
    BY <1>2, <2>1, <2>2
<1>5. SendKey(s) = ReceiveKey(t)
  BY <1>2, <1>3 DEF SendKey, ReceiveKey, OtherRole
<1> QED
  BY <1>4, <1>5

(* A secret never ties together two clients that were not each other's peer, *)
(* and it gives matching keys to the two that were.                          *)
THEOREM SecretSafety == Spec => []SecretsPairUp
BY SecretsFollow, Inductive, PTL

-----------------------------------------------------------------------------
(* Implementation of SecureChannel: a send is a fresh transmission, an       *)
(* acceptance a first delivery, and everything else a stutter.               *)
LEMMA ChannelInit == Init => Channel!ChanInit
BY DEF Init, Channel!ChanInit

LEMMA ChannelStep ==
  IInv /\ [Next]_vars => [Channel!ChanNext]_(Channel!chanVars)
<1> SUFFICES ASSUME IInv, [Next]_vars
             PROVE  Channel!ChanNext \/ UNCHANGED Channel!chanVars
  OBVIOUS
<1> USE DEF IInv, Channel!ChanNext, Channel!chanVars
<1>1. ASSUME NEW c \in Client, NEW p \in Client, NEW b \in Body, Send(c, p, b)
      PROVE  Channel!ChanNext
  <2> DEFINE s == sessions[c][p]
             m0 == [from |-> c, to |-> p, key |-> SendKey(s),
                    seq |-> s.sendCounter, body |-> b]
  <2>1. /\ UNCHANGED <<accepted, acceptCount>> /\ HasSession(c, p)
        /\ ciphertexts' = ciphertexts \cup {m0}
    BY <1>1 DEF Send, history
  <2>2. s \in Session /\ SendKey(s) \in Key /\ s.sendCounter \in 0..MaxSends
    BY <2>1, HeldSession DEF Session
  <2>3. m0 \in Ciphertext
    BY <2>2 DEF Ciphertext
  <2>4. \A n \in ciphertexts : ~Channel!SameSlot(m0, n)
    BY <2>1, <2>2 DEF CounterInv, Channel!SameSlot
  <2>5. Channel!Transmit(m0)
    BY <2>1, <2>4 DEF Channel!Transmit
  <2> QED
    BY <2>3, <2>5
<1>2. ASSUME NEW m \in ciphertexts, Accept(m)
      PROVE  Channel!ChanNext
  <2>1. /\ HasSession(m.to, m.from) /\ m.key = ReceiveKey(sessions[m.to][m.from])
        /\ m.seq \notin sessions[m.to][m.from].seen /\ ciphertexts' = ciphertexts
    BY <1>2 DEF Accept, TakeSequence, Decrypts, NotSeen, network
  <2>2. m \notin accepted[m.to]
    BY <2>1, CiphertextFields DEF SeenInv
  <2>3. Channel!Deliver(m)
    BY <1>2, <2>1, <2>2 DEF Accept, Channel!Deliver
  <2> QED
    BY <2>3
<1>3. ASSUME NEW m \in ciphertexts, RejectUndecryptable(m) \/ RejectUnstorable(m)
      PROVE  UNCHANGED Channel!chanVars
  BY <1>3 DEF RejectUndecryptable, RejectUnstorable, TakeSequence, network, history
<1>4. ASSUME NEW c \in Client, NEW p \in Client, Initiate(c, p)
      PROVE  UNCHANGED Channel!chanVars
  BY <1>4 DEF Initiate, history
<1>5. ASSUME NEW e, HandleInitiation(e) \/ HandleResponse(e) \/ RejectResponse(e)
      PROVE  UNCHANGED Channel!chanVars
  BY <1>5 DEF HandleInitiation, HandleResponse, RejectResponse, network, history
<1>6. ASSUME NEW c \in Client, Respond(c) \/ Start(c) \/ Restart(c)
      PROVE  UNCHANGED Channel!chanVars
  BY <1>6 DEF Respond, Start, Restart, network, history
<1>7. CASE UNCHANGED vars
  BY <1>7 DEF vars, network, history
<1> QED
  BY <1>1, <1>2, <1>3, <1>4, <1>5, <1>6, <1>7 DEF Next

(* The direct-message layer is an at-most-once channel: every send opens a   *)
(* new slot, and no client is told twice that it received the same message.  *)
THEOREM ChannelRefinement == Spec => ChannelSpec
<1>1. ChannelSpec <=> Channel!ChanInit /\ [][Channel!ChanNext]_(Channel!chanVars)
  BY DEF ChannelSpec, Channel!ChanSpec
<1> QED
  BY <1>1, ChannelInit, ChannelStep, Inductive, PTL DEF Spec

-----------------------------------------------------------------------------
(* The rows a step adds: none, or one of the client that sends or accepts.   *)
LEMMA RowsAfterPersist ==
  ASSUME TypeOK, NEW c \in Client, NEW row, Persist(c, row)
  PROVE  \A d \in Client :
           /\ d # c => rows'[d] = rows[d]
           /\ store[c] = "open" => /\ rows'[c] = rows[c] \cup {row}
                                   /\ row \notin rows[c]
           /\ rows[d] \subseteq rows'[d]
<1>1. store[c] = "open" => row \notin rows[c]
  BY DEF Persist, CanPersist, Collides
<1> QED
  BY <1>1 DEF TypeOK, Persist

LEMMA SentStep == TypeOK /\ SentIsStored /\ [Next]_vars => SentIsStored'
<1> SUFFICES ASSUME TypeOK, SentIsStored, [Next]_vars PROVE SentIsStored'
  OBVIOUS
<1>1. ASSUME NEW c \in Client, NEW p \in Client, NEW b \in Body, Send(c, p, b)
      PROVE  SentIsStored'
  <2> DEFINE s == sessions[c][p]
             m0 == [from |-> c, to |-> p, key |-> SendKey(s),
                    seq |-> s.sendCounter, body |-> b]
             row == RowOf(p, s.sendCounter, "out", b)
  <2>1. /\ ciphertexts' = ciphertexts \cup {m0} /\ store' = store /\ Persist(c, row)
    BY <1>1 DEF Send
  <2>2. store[c] = "open" => row \in rows'[c]
    BY <2>1, RowsAfterPersist
  <2>3. \A m \in ciphertexts : m.from \in Client /\ rows[m.from] \subseteq rows'[m.from]
    BY <2>1, RowsAfterPersist, CiphertextFields
  <2> QED
    BY <2>1, <2>2, <2>3 DEF SentIsStored
<1>2. ASSUME NEW m \in ciphertexts, Accept(m)
      PROVE  SentIsStored'
  <2>1. /\ UNCHANGED <<store, ciphertexts>> /\ Persist(m.to, IncomingRow(m))
    BY <1>2 DEF Accept, TakeSequence, network
  <2>2. \A n \in ciphertexts : n.from \in Client /\ rows[n.from] \subseteq rows'[n.from]
    BY <2>1, RowsAfterPersist, CiphertextFields
  <2> QED
    BY <2>1, <2>2 DEF SentIsStored
<1>3. ASSUME UNCHANGED <<ciphertexts, rows>>,
             \A c \in Client : store'[c] = "open" => store[c] = "open"
      PROVE  SentIsStored'
  BY <1>3, CiphertextFields DEF SentIsStored
<1>4. ASSUME NEW m \in ciphertexts, RejectUndecryptable(m) \/ RejectUnstorable(m)
      PROVE  SentIsStored'
  BY <1>3, <1>4 DEF RejectUndecryptable, RejectUnstorable, TakeSequence, network
<1>5. ASSUME NEW c \in Client, NEW p \in Client, Initiate(c, p)
      PROVE  SentIsStored'
  BY <1>3, <1>5 DEF Initiate
<1>6. ASSUME NEW e, HandleInitiation(e) \/ HandleResponse(e) \/ RejectResponse(e)
      PROVE  SentIsStored'
  BY <1>3, <1>6 DEF HandleInitiation, HandleResponse, RejectResponse, network
<1>7. ASSUME NEW c \in Client, Respond(c) \/ Restart(c)
      PROVE  SentIsStored'
  BY <1>3, <1>7 DEF Respond, Restart, network
<1>8. ASSUME NEW c \in Client, Start(c)
      PROVE  SentIsStored'
  <2>1. \A d \in Client : store'[d] = "open" => store[d] = "open"
    BY <1>8 DEF Start, TypeOK
  <2> QED
    BY <1>3, <1>8, <2>1 DEF Start, network
<1>9. CASE UNCHANGED vars
  BY <1>3, <1>9 DEF vars, network
<1> QED
  BY <1>1, <1>2, <1>4, <1>5, <1>6, <1>7, <1>8, <1>9 DEF Next

(* A client with a working database still shows whatever it has sent.        *)
THEOREM SentSafety == Spec => []SentIsStored
<1>1. Init => SentIsStored
  BY DEF Init, SentIsStored
<1> QED
  BY <1>1, SentStep, TypeCorrect, PTL DEF Spec

-----------------------------------------------------------------------------
(* The history invariant with what it needs to be inductive: the incoming    *)
(* rows are finitely many.                                                   *)
Incoming(c) == {r \in rows[c] : r.direction = "in"}

HistoryInv ==
  \A c \in Client : store[c] = "open" =>
    /\ IsFiniteSet(Incoming(c))
    /\ Incoming(c) = {IncomingRow(m) : m \in accepted[c]}
    /\ Cardinality(Incoming(c)) = acceptCount[c]

LEMMA HistoryAcceptStep ==
  ASSUME TypeOK, HistoryInv, NEW m \in ciphertexts, Accept(m)
  PROVE  HistoryInv'
<1> DEFINE c == m.to
           row == IncomingRow(m)
<1>1. c \in Client
  BY CiphertextFields
<1>2. /\ store' = store /\ Persist(c, row)
      /\ accepted' = [accepted EXCEPT ![c] = @ \cup {m}]
      /\ acceptCount' = [acceptCount EXCEPT ![c] = @ + 1]
  BY DEF Accept, TakeSequence
<1>3. row.direction = "in"
  BY DEF IncomingRow, RowOf
<1> SUFFICES ASSUME NEW d \in Client, store[d] = "open"
             PROVE  /\ IsFiniteSet(Incoming(d)')
                    /\ Incoming(d)' = {IncomingRow(n) : n \in accepted'[d]}
                    /\ Cardinality(Incoming(d)') = acceptCount'[d]
  BY <1>2 DEF HistoryInv
<1>4. /\ IsFiniteSet(Incoming(d)) /\ Cardinality(Incoming(d)) = acceptCount[d]
      /\ Incoming(d) = {IncomingRow(n) : n \in accepted[d]}
  BY DEF HistoryInv
<1>5. CASE d # c
  <2>1. rows'[d] = rows[d]
    BY <1>1, <1>2, <1>5, RowsAfterPersist
  <2>2. accepted'[d] = accepted[d] /\ acceptCount'[d] = acceptCount[d]
    BY <1>1, <1>2, <1>5 DEF TypeOK
  <2>3. Incoming(d)' = Incoming(d)
    BY <2>1 DEF Incoming
  <2> QED
    BY <1>4, <2>2, <2>3
<1>6. CASE d = c
  <2>1. rows'[d] = rows[d] \cup {row} /\ row \notin rows[d]
    BY <1>1, <1>2, <1>6, RowsAfterPersist
  <2>2. accepted'[d] = accepted[d] \cup {m} /\ acceptCount'[d] = acceptCount[d] + 1
    BY <1>1, <1>2, <1>6 DEF TypeOK
  <2>3. Incoming(d)' = Incoming(d) \cup {row} /\ row \notin Incoming(d)
    BY <1>3, <2>1 DEF Incoming
  <2>4. /\ IsFiniteSet(Incoming(d)')
        /\ Cardinality(Incoming(d)') = Cardinality(Incoming(d)) + 1
    BY <1>4, <2>3, FS_AddElement
  <2>5. Incoming(d)' = {IncomingRow(n) : n \in accepted'[d]}
    BY <1>4, <2>2, <2>3
  <2> QED
    BY <1>4, <2>2, <2>4, <2>5
<1> QED
  BY <1>5, <1>6

LEMMA HistoryStep == TypeOK /\ HistoryInv /\ [Next]_vars => HistoryInv'
<1> SUFFICES ASSUME TypeOK, HistoryInv, [Next]_vars PROVE HistoryInv'
  OBVIOUS
<1>1. ASSUME UNCHANGED history,
             \A c \in Client : /\ store'[c] = "open" => store[c] = "open"
                               /\ store'[c] = "open" => Incoming(c)' = Incoming(c)
      PROVE  HistoryInv'
  BY <1>1 DEF HistoryInv, history
<1>2. ASSUME NEW c \in Client, NEW p \in Client, NEW b \in Body, Send(c, p, b)
      PROVE  HistoryInv'
  <2> DEFINE row == RowOf(p, sessions[c][p].sendCounter, "out", b)
  <2>1. Persist(c, row) /\ store' = store /\ UNCHANGED history
    BY <1>2 DEF Send
  <2>2. row.direction = "out"
    BY DEF RowOf
  <2>3. ASSUME NEW d \in Client, store[d] = "open"
        PROVE  rows'[d] \in {rows[d], rows[d] \cup {row}}
    BY <2>1, <2>3, RowsAfterPersist
  <2>4. ASSUME NEW d \in Client, store[d] = "open"
        PROVE  Incoming(d)' = Incoming(d)
    BY <2>2, <2>3, <2>4 DEF Incoming
  <2> QED
    BY <1>1, <2>1, <2>4
<1>3. ASSUME NEW m \in ciphertexts, Accept(m)
      PROVE  HistoryInv'
  BY <1>3, HistoryAcceptStep
<1>4. ASSUME UNCHANGED <<store, rows, accepted, acceptCount>> PROVE HistoryInv'
  BY <1>4 DEF HistoryInv, Incoming
<1>5. ASSUME NEW m \in ciphertexts, RejectUndecryptable(m) \/ RejectUnstorable(m)
      PROVE  HistoryInv'
  BY <1>4, <1>5 DEF RejectUndecryptable, RejectUnstorable, TakeSequence, history
<1>6. ASSUME NEW c \in Client, NEW p \in Client, Initiate(c, p)
      PROVE  HistoryInv'
  BY <1>4, <1>6 DEF Initiate, history
<1>7. ASSUME NEW e, HandleInitiation(e) \/ HandleResponse(e) \/ RejectResponse(e)
      PROVE  HistoryInv'
  BY <1>4, <1>7 DEF HandleInitiation, HandleResponse, RejectResponse, history
<1>8. ASSUME NEW c \in Client, Respond(c) \/ Restart(c)
      PROVE  HistoryInv'
  BY <1>4, <1>8 DEF Respond, Restart, history
<1>9. ASSUME NEW c \in Client, Start(c)
      PROVE  HistoryInv'
  <2>1. UNCHANGED history /\ rows' = rows
    BY <1>9 DEF Start
  <2>2. \A d \in Client : store'[d] = "open" => store[d] = "open"
    BY <1>9 DEF Start, TypeOK
  <2>3. \A d \in Client : Incoming(d)' = Incoming(d)
    BY <2>1 DEF Incoming
  <2> QED
    BY <1>1, <2>1, <2>2, <2>3
<1>10. CASE UNCHANGED vars
  BY <1>4, <1>10 DEF vars, history
<1> QED
  BY <1>2, <1>3, <1>5, <1>6, <1>7, <1>8, <1>9, <1>10 DEF Next

(* What a client with a working database shows as received is what it was    *)
(* told it received, once each.                                              *)
THEOREM HistorySafety == Spec => []HistoryMatchesReceipts
<1>1. Init => HistoryInv
  <2> SUFFICES ASSUME Init, NEW c \in Client
               PROVE  /\ Incoming(c) = {}
                      /\ {IncomingRow(m) : m \in accepted[c]} = {}
                      /\ acceptCount[c] = 0
    BY FS_EmptySet DEF HistoryInv
  <2> QED
    BY DEF Init, Incoming
<1>2. HistoryInv => HistoryMatchesReceipts
  BY DEF HistoryInv, HistoryMatchesReceipts, Incoming
<1> QED
  BY <1>1, <1>2, HistoryStep, TypeCorrect, PTL DEF Spec
=============================================================================

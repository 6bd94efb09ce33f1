--------------------------- MODULE DirectSession ---------------------------
(***************************************************************************)
(* The direct (1:1) messaging path of crates/messenger/src/client.rs: the  *)
(* hybrid key exchange between two clients, the directional session keys   *)
(* it yields, the per-session send counter and replay set, and the message *)
(* rows each client keeps in its SQLite database.                          *)
(*                                                                         *)
(* Randomness is a counter: a keypair or an encapsulation is named by the  *)
(* number of those made before it.  The transport keeps every envelope it  *)
(* was ever given, so an envelope can be lost (never read), duplicated     *)
(* (read twice) and reordered.  Each handler runs to its end under the     *)
(* locks the code takes, so it is one action; a handler that returns an    *)
(* error and changes nothing is no step at all.                            *)
(***************************************************************************)
EXTENDS Naturals, FiniteSets, SequencesExt

CONSTANTS Client,        \* identities, by fingerprint
          Body,          \* plaintexts
          NoSession,     \* no entry in the direct_sessions map
          MaxKeypairs,   \* bound: initiator keypairs generated, by all clients
          MaxResponses,  \* bound: responder encapsulations, by all clients
          MaxSends       \* bound: messages sent in one session

NoKeypair == 0           \* no entry in the pending_initiators map

Role      == {"initiator", "responder"}
Secret    == [keypair : 1..MaxKeypairs, response : 1..MaxResponses]
Key       == [secret : Secret, label : Role]
Session   == [secret : Secret, role : Role, sendCounter : 0..MaxSends,
              seen : SUBSET (0..MaxSends)]
Row       == [peer : Client, seq : 1..(MaxSends + 1), direction : {"in", "out"},
              body : Body]

Initiation == [from : Client, to : Client, keypair : 1..MaxKeypairs]
Response   == [from : Client, to : Client, secret : Secret]
Ciphertext == [from : Client, to : Client, key : Key, seq : 0..MaxSends,
               body : Body]

ASSUME BoundsAssumption ==
  MaxKeypairs \in Nat /\ MaxResponses \in Nat /\ MaxSends \in Nat

ASSUME NoSessionAssumption == NoSession \notin Session

VARIABLES
  keypairs,           \* initiator keypairs generated so far
  responses,          \* responder encapsulations made so far
  pendingInitiators,  \* client -> peer -> the keypair waiting for a response
  pendingResponses,   \* client -> stack of responses nobody has fetched yet
  sessions,           \* client -> peer -> the direct session
  store,              \* client -> "closed", "open", or "orphan": open, but
                      \*   without a row for the identity in use
  rows,               \* client -> rows of its messages table
  initiations, replies, ciphertexts,   \* envelopes handed to the transport
  accepted,           \* history: client -> messages reported Ok
  acceptCount         \* history: client -> how often Ok was reported

network  == <<initiations, replies, ciphertexts>>
history  == <<accepted, acceptCount>>
vars == <<keypairs, responses, pendingInitiators, pendingResponses, sessions,
          store, rows, network, history>>

TypeOK ==
  /\ keypairs \in 0..MaxKeypairs
  /\ responses \in 0..MaxResponses
  /\ pendingInitiators \in [Client -> [Client -> 0..MaxKeypairs]]
  /\ pendingResponses \in [Client -> Seq(Response)]
  /\ sessions \in [Client -> [Client -> Session \cup {NoSession}]]
  /\ store \in [Client -> {"closed", "open", "orphan"}]
  /\ rows \in [Client -> SUBSET Row]
  /\ initiations \subseteq Initiation
  /\ replies \subseteq Response
  /\ ciphertexts \subseteq Ciphertext
  /\ accepted \in [Client -> SUBSET Ciphertext]
  /\ acceptCount \in [Client -> Nat]

(***************************************************************************)
(* A client has an identity from the start.  Its database is open with the *)
(* identity in it (start, then create_identity), or never opened           *)
(* (create_identity alone); Start below makes the third case.              *)
(***************************************************************************)
Init ==
  /\ keypairs = 0
  /\ responses = 0
  /\ pendingInitiators = [c \in Client |-> [p \in Client |-> NoKeypair]]
  /\ pendingResponses = [c \in Client |-> <<>>]
  /\ sessions = [c \in Client |-> [p \in Client |-> NoSession]]
  /\ store \in [Client -> {"closed", "open"}]
  /\ rows = [c \in Client |-> {}]
  /\ initiations = {} /\ replies = {} /\ ciphertexts = {}
  /\ accepted = [c \in Client |-> {}]
  /\ acceptCount = [c \in Client |-> 0]

-----------------------------------------------------------------------------
(* Keys and sessions *)

HasSession(c, p) == sessions[c][p] # NoSession

\* Two keys come out of one shared secret, one per sending role.
OtherRole(r) == IF r = "initiator" THEN "responder" ELSE "initiator"
SendKey(s)    == [secret |-> s.secret, label |-> s.role]
ReceiveKey(s) == [secret |-> s.secret, label |-> OtherRole(s.role)]

\* Whatever session there was is overwritten: counter and replay set restart.
NewSession(secret, role) ==
  [secret |-> secret, role |-> role, sendCounter |-> 0, seen |-> {}]

(* Message rows *)

\* Mutant of RowOf: rows numbered like the session's sequences, from 0.
UnshiftedRowOf(peer, seq, direction, body) ==
  [peer |-> peer, seq |-> seq, direction |-> direction, body |-> body]

RowOf(peer, seq, direction, body) ==
  [peer |-> peer, seq |-> seq + 1, direction |-> direction, body |-> body]

\* UNIQUE(conversation_id, sequence): both directions draw on the same numbers.
Collides(c, row) == \E r \in rows[c] : r.peer = row.peer /\ r.seq = row.seq

\* With no database persisting is Ok and does nothing; when the identity has no
\* row of its own the conversation's foreign key fails, and so does persisting.
CanPersist(c, row) ==
  \/ store[c] = "closed"
  \/ store[c] = "open" /\ ~Collides(c, row)

\* Mutant of Persist: INSERT OR IGNORE, and no error when nothing was inserted.
PersistOrIgnore(c, row) ==
  rows' = IF store[c] # "closed" /\ ~Collides(c, row)
            THEN [rows EXCEPT ![c] = @ \cup {row}] ELSE rows

Persist(c, row) ==
  /\ CanPersist(c, row)
  /\ rows' = IF store[c] = "closed" THEN rows
              ELSE [rows EXCEPT ![c] = @ \cup {row}]

-----------------------------------------------------------------------------
(* The handshake *)

Initiate(c, p) ==
  /\ c # p
  /\ keypairs < MaxKeypairs
  /\ keypairs' = keypairs + 1
  /\ pendingInitiators' = [pendingInitiators EXCEPT ![c][p] = keypairs + 1]
  /\ initiations' =
       initiations \cup {[from |-> c, to |-> p, keypair |-> keypairs + 1]}
  /\ UNCHANGED <<responses, pendingResponses, sessions, store, rows, replies,
                 ciphertexts, history>>

RespondingSession(secret) == NewSession(secret, "responder")

HandleInitiation(e) ==
  LET secret == [keypair |-> e.keypair, response |-> responses + 1]
  IN  /\ responses < MaxResponses
      /\ responses' = responses + 1
      /\ sessions' = [sessions EXCEPT ![e.to][e.from] =
                        RespondingSession(secret)]
      /\ pendingResponses' = [pendingResponses EXCEPT ![e.to] =
           Append(@, [from |-> e.to, to |-> e.from, secret |-> secret])]
      /\ UNCHANGED <<keypairs, pendingInitiators, store, rows, network, history>>

\* The last response pushed is the one fetched, whoever it is for.
Respond(c) ==
  /\ pendingResponses[c] # <<>>
  /\ replies' = replies \cup {Last(pendingResponses[c])}
  /\ pendingResponses' = [pendingResponses EXCEPT ![c] = Front(@)]
  /\ UNCHANGED <<keypairs, responses, pendingInitiators, sessions, store, rows,
                 initiations, ciphertexts, history>>

\* Mutant of TakenInitiators: get() instead of remove().
KeptInitiators(c, p) == pendingInitiators

\* The keypair is removed from the map as it is read.
TakenInitiators(c, p) == [pendingInitiators EXCEPT ![c][p] = NoKeypair]

InitiatingSession(secret) == NewSession(secret, "initiator")

\* The response is combined with the keypair that is pending now, whichever
\* keypair it answers: decapsulating with another one gives another secret.
HandleResponse(e) ==
  LET c == e.to
      p == e.from
      secret == [keypair |-> pendingInitiators[c][p],
                 response |-> e.secret.response]
  IN  /\ pendingInitiators[c][p] # NoKeypair
      /\ pendingInitiators' = TakenInitiators(c, p)
      /\ sessions' = [sessions EXCEPT ![c][p] = InitiatingSession(secret)]
      /\ UNCHANGED <<keypairs, responses, pendingResponses, store, rows,
                     network, history>>

\* A response damaged on the way: the keypair is gone before it is parsed.
RejectResponse(e) ==
  LET c == e.to
      p == e.from
  IN  /\ pendingInitiators[c][p] # NoKeypair
      /\ pendingInitiators' = TakenInitiators(c, p)
      /\ UNCHANGED <<keypairs, responses, pendingResponses, sessions, store, rows,
                     network, history>>

-----------------------------------------------------------------------------
(* Messages *)

\* A send that cannot be stored fails before the counter moves and the
\* ciphertext is dropped.
Send(c, p, body) ==
  LET s == sessions[c][p]
  IN  /\ HasSession(c, p)
      /\ s.sendCounter < MaxSends
      /\ Persist(c, RowOf(p, s.sendCounter, "out", body))
      /\ sessions' = [sessions EXCEPT ![c][p] = [s EXCEPT !.sendCounter = @ + 1]]
      /\ ciphertexts' = ciphertexts \cup
           {[from |-> c, to |-> p, key |-> SendKey(s), seq |-> s.sendCounter,
             body |-> body]}
      /\ UNCHANGED <<keypairs, responses, pendingInitiators, pendingResponses,
                     store, initiations, replies, history>>

\* Mutant of NotSeen: the replay set is not consulted.
AnySequence(s, m) == TRUE

NotSeen(s, m) == m.seq \notin s.seen

\* The sequence is marked as seen before the ciphertext is even decrypted, and
\* stays marked when decrypting or storing fails.
TakeSequence(m) ==
  LET s == sessions[m.to][m.from]
  IN  /\ HasSession(m.to, m.from)
      /\ NotSeen(s, m)
      /\ sessions' = [sessions EXCEPT ![m.to][m.from] =
                        [s EXCEPT !.seen = @ \cup {m.seq}]]
      /\ UNCHANGED <<keypairs, responses, pendingInitiators, pendingResponses,
                     store, network>>

Decrypts(m) == m.key = ReceiveKey(sessions[m.to][m.from])

IncomingRow(m) == RowOf(m.from, m.seq, "in", m.body)

RejectUndecryptable(m) ==
  /\ TakeSequence(m)
  /\ ~Decrypts(m)
  /\ UNCHANGED <<rows, history>>

RejectUnstorable(m) ==
  /\ TakeSequence(m)
  /\ Decrypts(m)
  /\ ~CanPersist(m.to, IncomingRow(m))
  /\ UNCHANGED <<rows, history>>

Accept(m) ==
  /\ TakeSequence(m)
  /\ Decrypts(m)
  /\ Persist(m.to, IncomingRow(m))
  /\ accepted' = [accepted EXCEPT ![m.to] = @ \cup {m}]
  /\ acceptCount' = [acceptCount EXCEPT ![m.to] = @ + 1]

-----------------------------------------------------------------------------
(* The process *)

\* start() after create_identity(): the database opens with no identity in it,
\* and the one in memory stays in use.
Start(c) ==
  /\ store[c] = "closed"
  /\ store' = [store EXCEPT ![c] = "orphan"]
  /\ UNCHANGED <<keypairs, responses, pendingInitiators, pendingResponses,
                 sessions, rows, network, history>>

\* The process dies and start() runs again: the SessionStore is empty, the rows
\* and the identity come back.  An identity that is in no database does not.
Restart(c) ==
  /\ store[c] = "open"
  /\ sessions' = [sessions EXCEPT ![c] = [p \in Client |-> NoSession]]
  /\ pendingInitiators' =
       [pendingInitiators EXCEPT ![c] = [p \in Client |-> NoKeypair]]
  /\ pendingResponses' = [pendingResponses EXCEPT ![c] = <<>>]
  /\ UNCHANGED <<keypairs, responses, store, rows, network, history>>

Next ==
  \/ \E c, p \in Client : Initiate(c, p)
  \/ \E e \in initiations : HandleInitiation(e)
  \/ \E c \in Client : Respond(c)
  \/ \E e \in replies : HandleResponse(e)
  \/ \E e \in replies : RejectResponse(e)
  \/ \E c, p \in Client, b \in Body : Send(c, p, b)
  \/ \E m \in ciphertexts : RejectUndecryptable(m)
  \/ \E m \in ciphertexts : RejectUnstorable(m)
  \/ \E m \in ciphertexts : Accept(m)
  \/ \E c \in Client : Start(c)
  \/ \E c \in Client : Restart(c)

Spec == Init /\ [][Next]_vars

-----------------------------------------------------------------------------
(* Properties *)

(* Across re-handshakes, duplicated handshake envelopes, failed stores and   *)
(* restarts, no two different ciphertexts ever leave under the same key and  *)
(* nonce (client.rs derives the nonce from the session's send counter).      *)
NonceNeverReused ==
  \A m, n \in ciphertexts : m.key = n.key /\ m.seq = n.seq => m = n

(* A secret is shared by two sessions at most, and then they are the two     *)
(* ends of one conversation in opposite roles, so that each one's send key   *)
(* is the other's receive key.                                               *)
SecretsPairUp ==
  \A c, p, d, q \in Client :
    /\ HasSession(c, p) /\ HasSession(d, q) /\ <<c, p>> # <<d, q>>
    /\ sessions[c][p].secret = sessions[d][q].secret
    => /\ d = p /\ q = c
       /\ SendKey(sessions[c][p]) = ReceiveKey(sessions[d][q])

(* A message leaves only after its row is written: whatever a client with a  *)
(* working database has sent, its own history still shows, with the same     *)
(* text, after any number of restarts.                                       *)
SentIsStored ==
  \A m \in ciphertexts :
    store[m.from] = "open" => RowOf(m.to, m.seq, "out", m.body) \in rows[m.from]

(* The incoming rows of a working database are exactly the messages that     *)
(* were reported as received, one row each.                                  *)
HistoryMatchesReceipts ==
  \A c \in Client :
    LET incoming == {r \in rows[c] : r.direction = "in"}
    IN  store[c] = "open" =>
          /\ incoming = {IncomingRow(m) : m \in accepted[c]}
          /\ Cardinality(incoming) = acceptCount[c]

(* The layer implements the at-most-once channel of SecureChannel.           *)
Channel == INSTANCE SecureChannel
             WITH Message <- Ciphertext, sent <- ciphertexts,
                  delivered <- accepted, receipts <- acceptCount

ChannelSpec == Channel!ChanSpec

(* README.md's message flow answers an encrypted message with an encrypted   *)
(* reply over the session just established: a client that holds a session    *)
(* can store, and so send, its next message in it.                           *)
ReplyIsSendable ==
  \A c, p \in Client, b \in Body :
    HasSession(c, p) /\ store[c] = "open" /\ sessions[c][p].sendCounter < MaxSends
      => CanPersist(c, RowOf(p, sessions[c][p].sendCounter, "out", b))
=============================================================================

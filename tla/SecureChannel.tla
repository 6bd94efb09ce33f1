--------------------------- MODULE SecureChannel ---------------------------
(***************************************************************************)
(* What the direct-message layer promises its callers, with no handshake,  *)
(* key, counter or database in sight: clients put messages into a channel  *)
(* that may lose, delay, duplicate and reorder them, no encryption slot    *)
(* (key and sequence number) is ever used for two messages, and a client   *)
(* is told "received" only about a message that was really addressed to    *)
(* it, and at most once about each.                                        *)
(***************************************************************************)
EXTENDS Naturals

CONSTANTS Client,    \* the parties
          Message    \* what can be sent: records with at least from, to, key, seq

VARIABLES sent,        \* every message ever handed to the transport
          delivered,   \* per client, the messages reported as received
          receipts     \* per client, how many times "received" was reported

chanVars == <<sent, delivered, receipts>>

ChanInit ==
  /\ sent = {}
  /\ delivered = [c \in Client |-> {}]
  /\ receipts = [c \in Client |-> 0]

SameSlot(m, n) == m.key = n.key /\ m.seq = n.seq

Transmit(m) ==
  /\ \A n \in sent : ~SameSlot(m, n)
  /\ sent' = sent \cup {m}
  /\ UNCHANGED <<delivered, receipts>>

Deliver(m) ==
  /\ m \notin delivered[m.to]
  /\ delivered' = [delivered EXCEPT ![m.to] = @ \cup {m}]
  /\ receipts' = [receipts EXCEPT ![m.to] = @ + 1]
  /\ UNCHANGED sent

ChanNext ==
  \/ \E m \in Message : Transmit(m)
  \/ \E m \in sent : Deliver(m)

ChanSpec == ChanInit /\ [][ChanNext]_chanVars
=============================================================================

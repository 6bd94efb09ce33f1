--------------------------- MODULE MessageOutbox ---------------------------
(***************************************************************************)
(* What the desktop shell promises of an outgoing message, with no         *)
(* channel, task or contact in sight.  Several senders may try one message *)
(* at once, and the last of them to end decides its status: a failure may  *)
(* hide an earlier success.  But a message that is delivered and that      *)
(* nobody is trying is not tried again, and a message that was wiped never *)
(* comes back, whoever is still trying it.                                 *)
(***************************************************************************)
CONSTANT Outgoing    \* messages that can be sent

VARIABLES status,    \* what is shown of each message
          trying     \* messages somebody may still send or report about

outboxVars == <<status, trying>>

Pending == {m \in Outgoing : status[m] \in {"queued", "failed"}}

\* A wiped message keeps no status, whatever becomes of it.
Shown(m, s) == status' = [status EXCEPT ![m] = IF @ = "gone" THEN @ ELSE s]

OutboxInit ==
  /\ status = [m \in Outgoing |-> "unsent"]
  /\ trying = {}

Submit(m) ==
  /\ status[m] = "unsent"
  /\ Shown(m, "queued")
  /\ trying' = trying \cup {m}

Resume(some) ==
  /\ some \subseteq Pending
  /\ trying' = trying \cup some
  /\ UNCHANGED status

\* One attempt ends; others may go on.
Succeed(m) ==
  /\ m \in trying
  /\ Shown(m, "delivered")
  /\ trying' \in {trying, trying \ {m}}

Fail(m) ==
  /\ m \in trying
  /\ Shown(m, "queued") \/ Shown(m, "failed")
  /\ trying' \in {trying, trying \ {m}}

GiveUp(some) ==
  /\ trying' = trying \ some
  /\ UNCHANGED status

Wipe ==
  /\ status' = [m \in Outgoing |-> IF status[m] = "unsent" THEN "unsent" ELSE "gone"]
  /\ UNCHANGED trying

OutboxNext ==
  \/ \E m \in Outgoing : Submit(m) \/ Succeed(m) \/ Fail(m)
  \/ \E some \in SUBSET Outgoing : Resume(some) \/ GiveUp(some)
  \/ Wipe

OutboxSpec == OutboxInit /\ [][OutboxNext]_outboxVars
=============================================================================

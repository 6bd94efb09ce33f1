--------------------------- MODULE MailboxRetries ---------------------------
(***************************************************************************)
(* When the sender of Mailbox asks the relay again.  Two histories go with *)
(* its steps: the times of the requests made for a queued envelope, and    *)
(* those whose failure its row knew when it was saved.  A crash forgets the *)
(* others, and with them the back-off: a row that was saved before the     *)
(* first failure is due at once when the process is back.                  *)
(***************************************************************************)
EXTENDS Mailbox, SequencesExt

VARIABLES
  asked,  \* id -> while it is queued, the times of the requests made for it
  known   \* id -> while it has a row, the times of those that the row knows of

retryVars == <<vars, asked, known>>

RetryInit ==
  /\ Init
  /\ asked = [i \in Id |-> << >>]
  /\ known = [i \in Id |-> << >>]

AskFor(i) ==
  /\ Submit(i)
  /\ asked' = [asked EXCEPT ![i] = Append(@, now)]
  /\ UNCHANGED known

\* A row saved while a request is out does not know of it.
SaveRow(i) ==
  /\ StorePendingOutbox(i)
  /\ known' = [known EXCEPT ![i] = IF attempt.id = i THEN Front(asked[i]) ELSE asked[i]]
  /\ UNCHANGED asked

\* The history goes with the entry, or the row, that it belongs to.
OnlyOf(ids, times) == [i \in Id |-> IF i \in ids THEN times[i] ELSE << >>]

ComeBack ==
  /\ Restart
  /\ asked' = OnlyOf(DOMAIN queue', known)
  /\ UNCHANGED known

AskNobody ==
  /\ \/ \E r \in Recipient, ttl \in Ttl : Enqueue(r, ttl)
     \/ RecordSuccess \/ RecordFailure \/ SweepQueue
     \/ \E i \in DOMAIN outbox : DeletePendingOutbox(i)
     \/ SweepExpiredOutbox \/ Crash
     \/ ServeRequest \/ \E i \in Id : ServeStray(i)
     \/ \E r \in Recipient : Retrieve(r)
     \/ \E i \in DOMAIN envelopes : Acknowledge(i)
     \/ SweepRelay \/ Tick
  /\ asked' = OnlyOf(DOMAIN queue', asked)
  /\ known' = OnlyOf(DOMAIN outbox', known)

RetryNext ==
  \/ \E i \in DOMAIN queue : AskFor(i)
  \/ \E i \in DOMAIN queue : SaveRow(i)
  \/ ComeBack
  \/ AskNobody

RetrySpec == RetryInit /\ [][RetryNext]_retryVars

(* Requests stay spread out: an envelope that was requested n times is       *)
(* requested again no earlier than the n-th back-off after the last of them, *)
(* whether that was lost, late, refused or served without an answer          *)
(* (record_attempt).  After a crash this counts the requests whose failure   *)
(* the row knew when it was last saved; of later ones nothing is said, for   *)
(* the code forgets them.                                                    *)
AttemptsSpread ==
  [][\A i \in Id :
       attempt.id # i /\ attempt'.id = i /\ asked[i] # << >>
         => now >= Last(asked[i]) + Backoff(Len(asked[i]))]_retryVars
=============================================================================

------------------------------ MODULE Mailbox ------------------------------
(***************************************************************************)
(* The offline path of crates/network/src/mailbox.rs: the sender's         *)
(* OutboundQueue, its rows in the pending_outbox table of                  *)
(* crates/storage/src/database.rs, and the relay's RelayMailbox.           *)
(*                                                                         *)
(* The library leaves to its caller when to submit, to save and to delete; *)
(* the caller here may do each whenever the comments of mailbox.rs and     *)
(* database.rs allow it.  A request may be lost, may arrive after its      *)
(* sender gave up, and its answer may be lost.  The process may die        *)
(* between any two steps; the relay does not.  Envelopes are numbered in   *)
(* the order of their creation, and created no larger than the limit that  *)
(* store() checks again.                                                   *)
(***************************************************************************)
EXTENDS Naturals, Sequences, Functions

CONSTANTS Recipient,
          Capacity,        \* MAX_PENDING_PER_RECIPIENT, 100 in the code
          Ttl,             \* the times to live that senders ask for
          BaseBackoff,     \* 30 s in the code
          MaxBackoff,      \* 3600 s in the code
          MaxEnvelopes,    \* bound: envelopes created
          MaxSubmissions,  \* bound: requests sent
          MaxTime          \* bound: the clock; every envelope expires before it

ASSUME MailboxAssumption ==
  /\ Capacity \in Nat \ {0}
  /\ Ttl \subseteq Nat
  /\ BaseBackoff \in Nat /\ MaxBackoff \in Nat
  /\ MaxEnvelopes \in Nat /\ MaxSubmissions \in Nat /\ MaxTime \in Nat

Id       == 1..MaxEnvelopes
None     == 0
Envelope == [to : Recipient, created : Nat, expires : Nat]
Entry    == [attempts : Nat, retryAfter : Nat]

VARIABLES
  now,        \* the clock, the same for sender and relay
  envelopes,  \* id -> envelope
  running,    \* the sender's process
  queue,      \* id -> entry of OutboundQueue.pending, for the ids in it
  outbox,     \* id -> row of pending_outbox, for the ids in it
  attempt,    \* the request the sender waits for: its id and the answer so far
  stray,      \* id -> requests on their way that nobody waits for
  slots,      \* recipient -> ids in the relay's slot
  submitted,  \* requests sent, for the bound
  handed,     \* history: ids given to the recipient
  saved       \* history: ids that ever had a row

sender == <<running, queue, outbox, attempt>>
vars == <<now, envelopes, sender, stray, slots, submitted, handed, saved>>

Attempt == [id : Id \cup {None}, answer : {"none", "ok", "full"}]
NoAttempt == [id |-> None, answer |-> "none"]

TypeOK ==
  /\ now \in 0..MaxTime
  /\ envelopes \in Seq(Envelope) /\ Len(envelopes) <= MaxEnvelopes
  /\ running \in BOOLEAN
  /\ DOMAIN queue \subseteq DOMAIN envelopes
  /\ DOMAIN outbox \subseteq DOMAIN envelopes
  /\ \A i \in DOMAIN queue : queue[i] \in Entry
  /\ \A i \in DOMAIN outbox : outbox[i] \in Entry
  /\ attempt \in Attempt
  /\ stray \in [Id -> Nat]
  /\ slots \in [Recipient -> Seq(Id)]
  /\ \A r \in Recipient : Len(slots[r]) <= Capacity
  /\ submitted \in 0..MaxSubmissions
  /\ handed \subseteq Id
  /\ saved \subseteq Id

Init ==
  /\ now = 0
  /\ envelopes = << >>
  /\ running = TRUE
  /\ queue = << >>
  /\ outbox = << >>
  /\ attempt = NoAttempt
  /\ stray = [i \in Id |-> 0]
  /\ slots = [r \in Recipient |-> << >>]
  /\ submitted = 0
  /\ handed = {}
  /\ saved = {}

-----------------------------------------------------------------------------
(* Helpers *)

Without(f, i)  == [j \in DOMAIN f \ {i} |-> f[j]]
With(f, i, x)  == [j \in DOMAIN f \cup {i} |-> IF j = i THEN x ELSE f[j]]
SlotOf(i)      == slots[envelopes[i].to]

\* is_expired: an envelope still lives in the second it expires in.
Expired(i) == envelopes[i].expires < now

\* The SQL of the outbox: it does not.
RowExpired(i) == envelopes[i].expires <= now

\* 30 * 2^(attempts - 1), the exponent at most 11, the result at most an hour.
Backoff(attempts) ==
  LET exponent == IF attempts > 12 THEN 11 ELSE attempts - 1
      uncapped == BaseBackoff * 2^exponent
  IN  IF uncapped > MaxBackoff THEN MaxBackoff ELSE uncapped

-----------------------------------------------------------------------------
(* The sender *)

Enqueue(to, ttl) ==
  LET i == Len(envelopes) + 1
  IN  /\ running
      /\ i \in Id /\ now + ttl < MaxTime
      /\ envelopes' = Append(envelopes, [to |-> to, created |-> now,
                                         expires |-> now + ttl])
      /\ queue' = With(queue, i, [attempts |-> 0, retryAfter |-> 0])
      /\ UNCHANGED <<now, running, outbox, attempt, stray, slots, submitted,
                     handed, saved>>

Due(i) == i \in DOMAIN queue /\ queue[i].retryAfter <= now /\ ~Expired(i)

Submit(i) ==
  /\ running
  /\ attempt = NoAttempt
  /\ Due(i)
  /\ submitted < MaxSubmissions
  /\ attempt' = [id |-> i, answer |-> "none"]
  /\ submitted' = submitted + 1
  /\ UNCHANGED <<now, envelopes, running, queue, outbox, stray, slots, handed,
                 saved>>

RecordSuccess ==
  /\ attempt.answer = "ok"
  /\ queue' = Without(queue, attempt.id)
  /\ attempt' = NoAttempt
  /\ UNCHANGED <<now, envelopes, running, outbox, stray, slots, submitted,
                 handed, saved>>

\* Mutant of Failed: the back-off is taken for the time of the retry.
FailedRelative(entry) ==
  [attempts   |-> entry.attempts + 1,
   retryAfter |-> Backoff(entry.attempts + 1)]

Failed(entry) ==
  [attempts   |-> entry.attempts + 1,
   retryAfter |-> now + Backoff(entry.attempts + 1)]

\* The sender was refused, or gave up waiting: then the request may still be
\* on its way, or may have been served and its answer lost.
RecordFailure ==
  LET i == attempt.id
  IN  /\ i # None
      /\ queue' = IF i \in DOMAIN queue THEN [queue EXCEPT ![i] = Failed(@)]
                  ELSE queue
      /\ attempt' = NoAttempt
      /\ \/ UNCHANGED stray
         \/ attempt.answer = "none" /\ stray' = [stray EXCEPT ![i] = @ + 1]
      /\ UNCHANGED <<now, envelopes, running, outbox, slots, submitted, handed,
                     saved>>

SweepQueue ==
  /\ running
  /\ queue' = [i \in {j \in DOMAIN queue : ~Expired(j)} |-> queue[i]]
  /\ UNCHANGED <<now, envelopes, running, outbox, attempt, stray, slots,
                 submitted, handed, saved>>

(* Its table *)

StorePendingOutbox(i) ==
  /\ running
  /\ i \in DOMAIN queue
  /\ outbox' = With(outbox, i, queue[i])
  /\ saved' = saved \cup {i}
  /\ UNCHANGED <<now, envelopes, running, queue, attempt, stray, slots,
                 submitted, handed>>

\* "after successful delivery or expiry"
MayDelete(i) == i \notin DOMAIN queue \/ Expired(i)

DeletePendingOutbox(i) ==
  /\ running
  /\ i \in DOMAIN outbox
  /\ MayDelete(i)
  /\ outbox' = Without(outbox, i)
  /\ UNCHANGED <<now, envelopes, running, queue, attempt, stray, slots,
                 submitted, handed, saved>>

LiveRows == [i \in {j \in DOMAIN outbox : ~RowExpired(j)} |-> outbox[i]]

SweepExpiredOutbox ==
  /\ running
  /\ outbox' = LiveRows
  /\ UNCHANGED <<now, envelopes, running, queue, attempt, stray, slots,
                 submitted, handed, saved>>

\* A request not yet answered may survive its sender.
Crash ==
  /\ running
  /\ running' = FALSE
  /\ queue' = << >>
  /\ attempt' = NoAttempt
  /\ \/ UNCHANGED stray
     \/ /\ attempt.id # None /\ attempt.answer = "none"
        /\ stray' = [stray EXCEPT ![attempt.id] = @ + 1]
  /\ UNCHANGED <<now, envelopes, outbox, slots, submitted, handed, saved>>

\* load_pending_outbox and load_from
Restart ==
  /\ ~running
  /\ running' = TRUE
  /\ queue' = LiveRows
  /\ UNCHANGED <<now, envelopes, outbox, attempt, stray, slots, submitted,
                 handed, saved>>

-----------------------------------------------------------------------------
(* The relay *)

\* Mutant of Full: one envelope too many.
OverFull(i) == Len(SlotOf(i)) > Capacity

Full(i)   == Len(SlotOf(i)) >= Capacity
Stored(i) == i \in Range(SlotOf(i))

\* Mutant of Kept: a duplicate is pushed like any other.
KeptTwice(i) == [slots EXCEPT ![envelopes[i].to] = Append(@, i)]

\* What store() makes of the slots when there is room.
Kept(i) ==
  IF Stored(i) THEN slots
  ELSE [slots EXCEPT ![envelopes[i].to] = Append(@, i)]

\* Mutant of Answer: a full slot drops the envelope and says nothing.
AlwaysOk(i) == "ok"

Answer(i) == IF Full(i) THEN "full" ELSE "ok"

RelayStores(i) == slots' = IF Full(i) THEN slots ELSE Kept(i)

ServeRequest ==
  /\ attempt.id # None
  /\ attempt.answer = "none"
  /\ RelayStores(attempt.id)
  /\ attempt' = [attempt EXCEPT !.answer = Answer(attempt.id)]
  /\ UNCHANGED <<now, envelopes, running, queue, outbox, stray, submitted,
                 handed, saved>>

ServeStray(i) ==
  /\ stray[i] > 0
  /\ stray' = [stray EXCEPT ![i] = @ - 1]
  /\ RelayStores(i)
  /\ UNCHANGED <<now, envelopes, sender, submitted, handed, saved>>

\* Vec::retain: the elements of s in ids, in their order.
Only(s, ids) ==
  LET kept[n \in 0..Len(s)] ==
        IF n = 0 THEN << >>
        ELSE IF s[n] \in ids THEN Append(kept[n - 1], s[n])
        ELSE kept[n - 1]
  IN  kept[Len(s)]

\* Mutant of Fresh: what has expired is kept, and handed out.
FreshAny(slot) == slot

Fresh(slot) == Only(slot, {i \in DOMAIN envelopes : ~Expired(i)})

EmptiedSlot(slot) == << >>

Retrieve(r) ==
  /\ slots' = [slots EXCEPT ![r] = EmptiedSlot(@)]
  /\ handed' = handed \cup Range(Fresh(slots[r]))
  /\ UNCHANGED <<now, envelopes, sender, stray, submitted, saved>>

\* A recipient acknowledges what it was handed; only a copy that was stored
\* again since is still there, and otherwise the answer is NotFound.
Acknowledge(i) ==
  /\ i \in handed
  /\ Stored(i)
  /\ slots' = [slots EXCEPT ![envelopes[i].to] = Only(@, Id \ {i})]
  /\ UNCHANGED <<now, envelopes, sender, stray, submitted, handed, saved>>

SweepRelay ==
  /\ slots' = [r \in Recipient |-> Fresh(slots[r])]
  /\ UNCHANGED <<now, envelopes, sender, stray, submitted, handed, saved>>

Tick ==
  /\ now < MaxTime
  /\ now' = now + 1
  /\ UNCHANGED <<envelopes, sender, stray, slots, submitted, handed, saved>>

Next ==
  \/ \E r \in Recipient, ttl \in Ttl : Enqueue(r, ttl)
  \/ \E i \in DOMAIN queue : Submit(i)
  \/ RecordSuccess
  \/ RecordFailure
  \/ SweepQueue
  \/ \E i \in DOMAIN queue : StorePendingOutbox(i)
  \/ \E i \in DOMAIN outbox : DeletePendingOutbox(i)
  \/ SweepExpiredOutbox
  \/ Crash
  \/ Restart
  \/ ServeRequest
  \/ \E i \in Id : ServeStray(i)
  \/ \E r \in Recipient : Retrieve(r)
  \/ \E i \in DOMAIN envelopes : Acknowledge(i)
  \/ SweepRelay
  \/ Tick

Spec == Init /\ [][Next]_vars

-----------------------------------------------------------------------------
(* Properties *)

(* Through late and repeated requests, sweeps and acknowledgements, a slot   *)
(* never holds an envelope twice.                                            *)
SlotsSound == \A r \in Recipient : IsInjective(slots[r])

(* An envelope that had a row in the outbox is somewhere until it expires:   *)
(* in the queue, in the table, at the relay, or with its recipient -- at     *)
(* whatever step the process dies and whichever answers are lost.            *)
SavedIsNotLost ==
  \A i \in saved :
    \/ i \in DOMAIN queue \cup DOMAIN outbox
    \/ Stored(i)
    \/ i \in handed
    \/ RowExpired(i)

(* The queue, its table and the relay implement LetterStore.  A letter is    *)
(* adrift when only a request still knows of it, and gone when nothing does. *)
UnderWay(i) == stray[i] > 0 \/ attempt = [id |-> i, answer |-> "none"]
Held(i)     == i \in DOMAIN queue \/ i \in DOMAIN outbox \/ Stored(i)

FateOf(i) ==
  IF i \in handed THEN "handed"
  ELSE IF i \in saved /\ (Held(i) \/ UnderWay(i)) THEN "kept"
  ELSE IF Held(i) THEN "written"
  ELSE IF UnderWay(i) THEN "adrift"
  ELSE "gone"

Letters == INSTANCE LetterStore WITH
  clock <- now,
  letters <- envelopes,
  fate <- [i \in DOMAIN envelopes |-> FateOf(i)]

LetterSpec == Letters!LetterSpec
=============================================================================

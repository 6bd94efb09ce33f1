---------------------------- MODULE CoverTraffic ----------------------------
(* The cover traffic generators of crates/network/src/cover_traffic.rs:        *)
(* CoverTraffic, which hands out one message it made ahead, and                *)
(* AdaptiveCoverTraffic, whose rate follows the real traffic.  A cover message *)
(* is its sequence number; payload, timestamp and delays are random.           *)
EXTENDS Naturals, Sequences

CONSTANT MaxArms     \* bound: calls of start() and set_config(), and of record_real_message()

ASSUME CoverAssumption == MaxArms \in Nat

VARIABLES
  coverEnabled,    \* config.enabled
  coverRunning,    \* running
  coverSequence,   \* sequence
  coverPending,    \* pending_message: none or the one message made ahead
  coverSent,       \* history: the messages next_message() gave out
  coverArms,       \* history: calls that may make a message
  coverRate,       \* rate_multiplier of the adaptive generator, in quarters
  coverReal        \* recent_real_messages

coverVars == <<coverEnabled, coverRunning, coverSequence, coverPending, coverSent,
               coverArms, coverRate, coverReal>>

CoverTypeOK ==
  /\ coverEnabled \in BOOLEAN /\ coverRunning \in BOOLEAN
  /\ coverArms \in 0..MaxArms /\ coverSequence \in 0..coverArms
  /\ coverPending \in {{}, {coverSequence}}
  /\ coverRate = 4 /\ coverReal = 0

CoverInit ==
  /\ coverEnabled \in BOOLEAN /\ coverRunning = FALSE
  /\ coverSequence = 0 /\ coverPending = {}
  /\ coverSent = <<>> /\ coverArms = 0
  /\ coverRate = 4 /\ coverReal = 0

\* pre_generate(), under the configuration as it now is.
PreGenerate ==
  /\ coverArms < MaxArms
  /\ coverArms' = coverArms + 1
  /\ IF coverEnabled' /\ coverPending = {}
       THEN /\ coverSequence' = coverSequence + 1
            /\ coverPending' = {coverSequence + 1}
       ELSE UNCHANGED <<coverSequence, coverPending>>

\* start()
CoverStart ==
  /\ coverRunning' = TRUE
  /\ UNCHANGED coverEnabled
  /\ PreGenerate
  /\ UNCHANGED <<coverSent, coverRate, coverReal>>

\* set_config(): a message is made even when the generator is not running.
SetConfig ==
  /\ coverEnabled' \in BOOLEAN
  /\ PreGenerate
  /\ UNCHANGED <<coverRunning, coverSent, coverRate, coverReal>>

\* stop()
CoverStop ==
  /\ coverRunning' = FALSE
  /\ coverPending' = {}
  /\ UNCHANGED <<coverEnabled, coverSequence, coverSent, coverArms, coverRate, coverReal>>

\* Mutant of NextMessage: the message is copied out and stays.
NextMessageCopied ==
  /\ coverEnabled /\ coverRunning /\ Len(coverSent) <= MaxArms
  /\ \E m \in coverPending : coverSent' = Append(coverSent, m)
  /\ UNCHANGED <<coverEnabled, coverRunning, coverSequence, coverPending, coverArms,
                 coverRate, coverReal>>

\* next_message(): takes the message made ahead; nothing makes another.
NextMessage ==
  /\ coverEnabled /\ coverRunning
  /\ \E m \in coverPending : coverSent' = Append(coverSent, m)
  /\ coverPending' = {}
  /\ UNCHANGED <<coverEnabled, coverRunning, coverSequence, coverArms, coverRate, coverReal>>

\* adjust_rate(): doubled below 1, halved above 4, and kept in between.
Adjusted(rate) == IF rate < 4 THEN rate * 2 ELSE IF rate > 16 THEN rate \div 2 ELSE rate

\* record_real_message(): the count is raised and, in adjust_rate(), lowered.
RecordReal ==
  /\ coverRate' = Adjusted(coverRate)
  /\ coverReal' = LET n == coverReal + 1 IN IF n = 0 THEN 0 ELSE n - 1
  /\ UNCHANGED <<coverEnabled, coverRunning, coverSequence, coverPending, coverSent, coverArms>>

CoverNext == CoverStart \/ SetConfig \/ CoverStop \/ NextMessage \/ RecordReal

CoverSpec == CoverInit /\ [][CoverNext]_coverVars

-----------------------------------------------------------------------------
\* Cover messages leave with rising sequence numbers, so that a receiver which
\* drops what it has seen (cover_traffic.rs:62) drops none of them, through any
\* order of start(), stop(), set_config() and next_message().
CoverSpentOnce ==
  \A i, j \in 1..Len(coverSent) : i < j => coverSent[i] < coverSent[j]
=============================================================================

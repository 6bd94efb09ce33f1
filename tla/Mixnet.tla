------------------------------- MODULE Mixnet -------------------------------
(* MixnetClient of crates/network/src/mixnet.rs: the known nodes, the queue    *)
(* that process_batch() empties batch by batch, and send(), which picks a path *)
(* and may leave a cover message in the queue.  A message is the number of its *)
(* place in the queue.  process_batch() is awaiting while a batch is delayed:  *)
(* its caller may drop the call there.                                         *)
EXTENDS Naturals, Sequences, FiniteSets

CONSTANTS
  MixNodes,       \* the nodes there are
  HopCount,       \* hop_count
  BatchSize,      \* batch_size
  MaxMixNodes,    \* bound: registrations
  MaxMixed        \* bound: messages queued

ASSUME MixAssumption ==
  HopCount \in Nat /\ BatchSize \in Nat \ {0} /\ MaxMixNodes \in Nat /\ MaxMixed \in Nat

VARIABLES
  mixNodes,       \* nodes: the registered ones, in order, repeats included
  mixQueue,       \* queue
  mixBatch,       \* the shuffled batch process_batch() is delaying
  mixOut,         \* history: the batches it returned, one after the other
  mixLost,        \* history: messages of batches whose call was dropped
  mixQueued,      \* history: how many messages have been queued
  mixPath         \* the path of the last send(): places in mixNodes

mixVars == <<mixNodes, mixQueue, mixBatch, mixOut, mixLost, mixQueued, mixPath>>

SeqSet(s) == {s[i] : i \in 1..Len(s)}
Paths(n) == {p \in [1..HopCount -> 1..n] :
               \A i, j \in 1..HopCount : i # j => p[i] # p[j]}

MixTypeOK ==
  /\ mixNodes \in UNION {[1..n -> MixNodes] : n \in 0..MaxMixNodes}
  /\ mixQueued \in 0..MaxMixed
  /\ Len(mixBatch) <= BatchSize
  /\ mixPath \in Paths(Len(mixNodes)) \cup {<<>>}
  /\ SeqSet(mixQueue) \cup SeqSet(mixBatch) \cup SeqSet(mixOut) \cup mixLost = 1..mixQueued
  /\ Len(mixQueue) + Len(mixBatch) + Len(mixOut) + Cardinality(mixLost) = mixQueued

MixInit ==
  /\ mixNodes = <<>> /\ mixQueue = <<>> /\ mixBatch = <<>> /\ mixOut = <<>>
  /\ mixLost = {} /\ mixQueued = 0 /\ mixPath = <<>>

\* register_node()
RegisterNode ==
  /\ Len(mixNodes) < MaxMixNodes
  /\ \E n \in MixNodes : mixNodes' = Append(mixNodes, n)
  /\ UNCHANGED <<mixQueue, mixBatch, mixOut, mixLost, mixQueued, mixPath>>

Enqueue ==
  /\ mixQueued < MaxMixed
  /\ mixQueued' = mixQueued + 1
  /\ mixQueue' = Append(mixQueue, mixQueued + 1)

\* queue_message()
QueueMessage ==
  /\ mixBatch = <<>>
  /\ Enqueue
  /\ UNCHANGED <<mixNodes, mixBatch, mixOut, mixLost, mixPath>>

\* send(): a cover message may be queued first, and stays queued when no full
\* path can be built.
MixSend ==
  /\ mixBatch = <<>>
  /\ Enqueue \/ UNCHANGED <<mixQueue, mixQueued>>
  /\ mixPath' \in IF Len(mixNodes) < HopCount THEN {mixPath} ELSE Paths(Len(mixNodes))
  /\ UNCHANGED <<mixNodes, mixBatch, mixOut, mixLost>>

\* Mutant of Take: one message too many.
TakeOneMore(n) == IF n < BatchSize + 1 THEN n ELSE BatchSize + 1

\* How many of n queued messages a batch takes.
Take(n) == IF n < BatchSize THEN n ELSE BatchSize

\* process_batch() up to its first await: the batch is popped and shuffled.
TakeBatch ==
  /\ mixBatch = <<>> /\ mixQueue # <<>>
  /\ LET n == Take(Len(mixQueue)) IN
       /\ \E order \in {f \in [1..n -> 1..n] : \A i, j \in 1..n : i # j => f[i] # f[j]} :
            mixBatch' = [i \in 1..n |-> mixQueue[order[i]]]
       /\ mixQueue' = SubSeq(mixQueue, n + 1, Len(mixQueue))
  /\ UNCHANGED <<mixNodes, mixOut, mixLost, mixQueued, mixPath>>

\* process_batch() returns the batch.
ReturnBatch ==
  /\ mixBatch # <<>>
  /\ mixOut' = mixOut \o mixBatch
  /\ mixBatch' = <<>>
  /\ UNCHANGED <<mixNodes, mixQueue, mixLost, mixQueued, mixPath>>

\* The caller drops process_batch() during a delay: the batch is gone.
DropBatch ==
  /\ mixBatch # <<>>
  /\ mixLost' = mixLost \cup SeqSet(mixBatch)
  /\ mixBatch' = <<>>
  /\ UNCHANGED <<mixNodes, mixQueue, mixOut, mixQueued, mixPath>>

MixNext == RegisterNode \/ QueueMessage \/ MixSend \/ TakeBatch \/ ReturnBatch \/ DropBatch

MixSpec == MixInit /\ [][MixNext]_mixVars

-----------------------------------------------------------------------------
\* A message overtakes only messages queued less than a batch before it, and
\* none that is still queued: process_batch() (mixnet.rs:157) mixes within a
\* batch and keeps the order of batches, also around calls that were dropped.
OvertakesWithinBatch ==
  /\ \A i, j \in 1..Len(mixOut) : i < j => mixOut[i] < mixOut[j] + BatchSize
  /\ \A m \in SeqSet(mixOut), q \in SeqSet(mixQueue) : m < q
=============================================================================

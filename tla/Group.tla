-------------------------------- MODULE Group --------------------------------
(***************************************************************************)
(* One group of crates/messenger/src/group.rs as its members hold it, with *)
(* the group calls of client.rs around it: the list of members, the leaves *)
(* of the tree, the epoch, the root secret, the outgoing sequence and the  *)
(* window of received messages.                                            *)
(*                                                                         *)
(* Commits and messages may be lost, repeated and reordered: a member may  *)
(* read any of them at any time.  A message may also arrive garbled.  The  *)
(* root secret is the list of the epochs that were hashed into it.  The    *)
(* key packages in the tree and the list of pending commits are written    *)
(* and never read; they are left out.                                      *)
(***************************************************************************)
EXTENDS Naturals, FiniteSets, SequencesExt

CONSTANTS Member,      \* fingerprints
          Creator,
          NoGroup,     \* this client does not hold the group
          Window,      \* bound of received_ids, 4096 in the code
          MaxEpoch,    \* bound: epochs
          MaxEntries,  \* bound: length of the list of members
          MaxSent,     \* bound: messages sent
          MaxReceipts  \* bound: messages decrypted by each member

ASSUME GroupAssumption ==
  /\ Creator \in Member
  /\ Window \in Nat \ {0}
  /\ MaxEpoch \in Nat /\ MaxEntries \in Nat \ {0} /\ MaxSent \in Nat
  /\ MaxReceipts \in Nat

Epoch  == 0..MaxEpoch
Secret == Seq(1..MaxEpoch)
Entry  == [who : Member, active : BOOLEAN]
State  == [epoch : Epoch, root : Secret, members : Seq(Entry),
           leaves : SUBSET Member, sequence : Nat]

ASSUME NoGroupAssumption == NoGroup \notin State

Commit  == [epoch : 1..MaxEpoch, root : Secret]
Message == [sender : Member, epoch : Epoch, sequence : Nat, root : Secret]

VARIABLES
  group,      \* member -> its copy of the group, or NoGroup
  received,   \* member -> the (epoch, sequence) pairs it remembers
  commits,    \* commits handed to the transport
  messages,   \* messages handed to the transport
  sentCount,  \* history: how many were
  accepted,   \* history: member -> messages it decrypted
  acceptCount \* history: member -> how often it decrypted one

vars == <<group, received, commits, messages, sentCount, accepted, acceptCount>>

TypeOK ==
  /\ group \in [Member -> State \cup {NoGroup}]
  /\ received \in [Member -> SUBSET (Epoch \X Nat)]
  /\ commits \subseteq Commit
  /\ messages \subseteq Message
  /\ sentCount \in 0..MaxSent
  /\ accepted \in [Member -> SUBSET Message]
  /\ acceptCount \in [Member -> 0..MaxReceipts]

Created == [epoch |-> 0, root |-> << >>,
            members |-> <<[who |-> Creator, active |-> TRUE]>>,
            leaves |-> {Creator}, sequence |-> 0]

Init ==
  /\ group = [m \in Member |-> IF m = Creator THEN Created ELSE NoGroup]
  /\ received = [m \in Member |-> {}]
  /\ commits = {} /\ messages = {}
  /\ sentCount = 0
  /\ accepted = [m \in Member |-> {}]
  /\ acceptCount = [m \in Member |-> 0]

-----------------------------------------------------------------------------
(* One copy of the group *)

Holds(m) == group[m] # NoGroup

IsActive(g, x) == \E i \in DOMAIN g.members :
                    g.members[i].who = x /\ g.members[i].active
WasAdded(g, x) == \E i \in DOMAIN g.members : g.members[i].who = x

\* position(): the first entry, also when the member has left it.
FirstEntry(g, x) ==
  CHOOSE i \in DOMAIN g.members :
    /\ g.members[i].who = x
    /\ \A j \in 1..(i - 1) : g.members[j].who # x

\* Mutant of Advanced: the secret is rotated before the epoch is set.
RotatedEarly(g) ==
  [g EXCEPT !.epoch = @ + 1, !.sequence = 0, !.root = Append(@, g.epoch)]

\* The epoch goes on, the sequence restarts, and the new epoch is hashed into
\* the root secret.
Advanced(g) ==
  [g EXCEPT !.epoch = @ + 1, !.sequence = 0, !.root = Append(@, g.epoch + 1)]

\* Mutant of CommitOf: the commit is built after the rotation.
CommitBuiltLate(g) == [epoch |-> g.epoch + 1, root |-> Advanced(g).root]

\* build_commit: the signature is a hash of the old root secret (and of the
\* commit's kind, which changes nothing for the one who processes it).
CommitOf(g) == [epoch |-> g.epoch + 1, root |-> g.root]

Publish(m, g) ==
  /\ group[m].epoch < MaxEpoch
  /\ group' = [group EXCEPT ![m] = Advanced(g)]
  /\ commits' = commits \cup {CommitOf(group[m])}
  /\ UNCHANGED <<received, messages, sentCount, accepted, acceptCount>>

-----------------------------------------------------------------------------
(* Members *)

WithMember(g, x) ==
  [g EXCEPT !.members = Append(@, [who |-> x, active |-> TRUE]),
            !.leaves  = @ \cup {x}]

\* Mutant of WithoutMember: the entry is marked as left, the leaf stays.
WithoutEntryOnly(g, x) == [g EXCEPT !.members[FirstEntry(g, x)].active = FALSE]

WithoutMember(g, x) ==
  [g EXCEPT !.members[FirstEntry(g, x)].active = FALSE,
            !.leaves = @ \ {x}]

AddMember(m, x) ==
  /\ Holds(m)
  /\ ~IsActive(group[m], x)
  /\ Len(group[m].members) < MaxEntries
  /\ Publish(m, WithMember(group[m], x))

RemoveMember(m, x) ==
  /\ Holds(m)
  /\ WasAdded(group[m], x)
  /\ x # Creator
  /\ x \in group[m].leaves
  /\ Publish(m, WithoutMember(group[m], x))

\* Mutant of NotRemoved: the counter is reset before the leaf is looked for.
NotRemovedButReset(g, x) == [WithoutMember(g, x) EXCEPT !.sequence = 0]

\* remove_leaf fails after the entry was marked as left.
NotRemoved(g, x) == WithoutMember(g, x)

RemoveMemberFails(m, x) ==
  /\ Holds(m)
  /\ WasAdded(group[m], x)
  /\ x # Creator
  /\ x \notin group[m].leaves
  /\ group' = [group EXCEPT ![m] = NotRemoved(@, x)]
  /\ UNCHANGED <<received, commits, messages, sentCount, accepted, acceptCount>>

UpdateKeys(m) ==
  /\ Holds(m)
  /\ Publish(m, group[m])

\* How a new member comes by the group is not in the code, which only assumes
\* that members share it: it gets the copy of a member who has added it.
Welcome(m) ==
  /\ ~Holds(m)
  /\ \E n \in Member :
       /\ Holds(n)
       /\ IsActive(group[n], m)
       /\ group' = [group EXCEPT ![m] = [group[n] EXCEPT !.sequence = 0]]
  /\ UNCHANGED <<received, commits, messages, sentCount, accepted, acceptCount>>

(* Commits *)

\* stale, crossing and early commits have another epoch.
CanProcess(g, c) == c.epoch = g.epoch + 1 /\ c.root = g.root

\* Mutant of Processed: the secret is not rotated.
NotRotated(g) == [g EXCEPT !.epoch = @ + 1, !.sequence = 0]

\* The list of members stays as it is.
Processed(g) == Advanced(g)

ProcessCommit(m, c) ==
  /\ Holds(m)
  /\ CanProcess(group[m], c)
  /\ group' = [group EXCEPT ![m] = Processed(@)]
  /\ UNCHANGED <<received, commits, messages, sentCount, accepted, acceptCount>>

-----------------------------------------------------------------------------
(* Messages *)

SlotOf(msg) == <<msg.epoch, msg.sequence>>

EncryptMessage(m) ==
  LET g == group[m]
  IN  /\ Holds(m)
      /\ IsActive(g, m)
      /\ sentCount < MaxSent
      /\ messages' = messages \cup
           {[sender |-> m, epoch |-> g.epoch, sequence |-> g.sequence,
             root |-> g.root]}
      /\ group' = [group EXCEPT ![m].sequence = @ + 1]
      /\ sentCount' = sentCount + 1
      /\ UNCHANGED <<received, commits, accepted, acceptCount>>

\* All is forgotten when the window is full.
Bounded(ids) == IF Cardinality(ids) >= Window THEN {} ELSE ids

\* Mutant of Admits: the window is not looked at.
AdmitsReplayed(m, msg) == Holds(m) /\ msg.epoch = group[m].epoch

\* The checks that come before the decryption.
Admits(m, msg) ==
  /\ Holds(m)
  /\ msg.epoch = group[m].epoch
  /\ SlotOf(msg) \notin received[m]

DecryptMessage(m, msg) ==
  /\ Admits(m, msg)
  /\ msg.root = group[m].root
  /\ acceptCount[m] < MaxReceipts
  /\ received' = [received EXCEPT ![m] = Bounded(@) \cup {SlotOf(msg)}]
  /\ accepted' = [accepted EXCEPT ![m] = @ \cup {msg}]
  /\ acceptCount' = [acceptCount EXCEPT ![m] = @ + 1]
  /\ UNCHANGED <<group, commits, messages, sentCount>>

\* Mutant of WindowAfterFailure: the pair is remembered all the same.
RememberedAnyhow(m, msg) == Bounded(received[m]) \cup {SlotOf(msg)}

WindowAfterFailure(m, msg) == Bounded(received[m])

DecryptGarbled(m, msg) ==
  /\ Admits(m, msg)
  /\ received' = [received EXCEPT ![m] = WindowAfterFailure(m, msg)]
  /\ UNCHANGED <<group, commits, messages, sentCount, accepted, acceptCount>>

Next ==
  \/ \E m, x \in Member : AddMember(m, x)
  \/ \E m, x \in Member : RemoveMember(m, x)
  \/ \E m, x \in Member : RemoveMemberFails(m, x)
  \/ \E m \in Member : UpdateKeys(m)
  \/ \E m \in Member : Welcome(m)
  \/ \E m \in Member, c \in commits : ProcessCommit(m, c)
  \/ \E m \in Member : EncryptMessage(m)
  \/ \E m \in Member, msg \in messages : DecryptMessage(m, msg)
  \/ \E m \in Member, msg \in messages : DecryptGarbled(m, msg)

Spec == Init /\ [][Next]_vars

-----------------------------------------------------------------------------
(* Properties *)

(* process_commit says that committer and other members converge on the same *)
(* root secret.  They do, even when commits cross: two members at the same   *)
(* epoch have the same secret.                                               *)
SecretsConverge ==
  \A m, n \in Member :
    Holds(m) /\ Holds(n) /\ group[m].epoch = group[n].epoch
      => group[m].root = group[n].root

(* A member that is behind is never stuck: whatever commits crossed, were    *)
(* lost or came out of order, some commit that was sent takes it forward.    *)
CanCatchUp ==
  \A m, n \in Member :
    Holds(m) /\ Holds(n) /\ group[m].epoch < group[n].epoch
      => \E c \in commits : CanProcess(group[m], c)

(* Through leaving, rejoining and failing removals, a leaf belongs to an     *)
(* active member, and a member added once is active as long as it has one.   *)
LeavesAreActive ==
  \A m \in Member : Holds(m) =>
    LET g == group[m]
    IN  \A i \in DOMAIN g.members :
          LET x == g.members[i].who
          IN  /\ x \in g.leaves => IsActive(g, x)
              /\ i = FirstEntry(g, x) /\ g.members[i].active => x \in g.leaves

(* A member never sends two messages with one epoch and sequence, although   *)
(* every commit, its own or another's, restarts the counter.                 *)
SlotsNotReused == Cardinality(messages) = sentCount

(* Only a message that was decrypted takes a place in the window: a garbled  *)
(* copy that comes first does not shut the message out.                      *)
WindowWasAccepted ==
  \A m \in Member : received[m] \subseteq {SlotOf(msg) : msg \in accepted[m]}

(* As long as no more messages were decrypted than the window holds, none of *)
(* them was decrypted twice.                                                 *)
AcceptedOnce ==
  \A m \in Member :
    acceptCount[m] <= Window => Cardinality(accepted[m]) = acceptCount[m]

(* The window shuts out what was decrypted before, and only that.            *)
WindowSound == WindowWasAccepted /\ AcceptedOnce

(* "Group message: all members can decrypt" (security_regression.rs): a      *)
(* member at the epoch of a message that it has not decrypted before, and    *)
(* that reads only what others send, does not take it for a replay.          *)
MembersCanDecrypt ==
  \A m \in Member, msg \in messages :
    /\ Holds(m) /\ msg.epoch = group[m].epoch
    /\ m \notin {k.sender : k \in accepted[m] \cup {msg}}
    /\ msg \notin accepted[m]
    => SlotOf(msg) \notin received[m]
=============================================================================

---------------------------- MODULE Group_proofs ----------------------------
(* Proofs about Group, for any members, window and bounds. *)
EXTENDS Group, NaturalLemmas, FiniteSetTheorems, SequenceTheorems, TLAPS

(* Putting a copy in the place of another.                                   *)
LEMMA PutGroup ==
  ASSUME TypeOK, NEW m \in Member, NEW g \in State
  PROVE  [group EXCEPT ![m] = g] \in [Member -> State \cup {NoGroup}]
BY DEF TypeOK

(* A copy that is held has the type of one.                                  *)
LEMMA HeldState ==
  ASSUME TypeOK, NEW m \in Member, Holds(m)
  PROVE  /\ group[m] \in State
         /\ group[m].epoch \in Epoch /\ group[m].root \in Secret
         /\ group[m].members \in Seq(Entry)
         /\ group[m].leaves \in SUBSET Member
         /\ group[m].sequence \in Nat
BY DEF TypeOK, Holds, State

(* The first entry of a member that was added is an entry.                   *)
LEMMA FirstEntryIsEntry ==
  ASSUME NEW g \in State, NEW x \in Member, WasAdded(g, x)
  PROVE  /\ FirstEntry(g, x) \in DOMAIN g.members
         /\ g.members[FirstEntry(g, x)].who = x
         /\ \A j \in 1..(FirstEntry(g, x) - 1) : g.members[j].who # x
<1> DEFINE T == {i \in DOMAIN g.members : g.members[i].who = x}
<1>1. g.members \in Seq(Entry) /\ DOMAIN g.members = 1..Len(g.members)
      /\ Len(g.members) \in Nat
  BY DEF State
<1>2. T \in SUBSET Nat /\ T # {}
  BY <1>1 DEF WasAdded
<1>3. PICK i \in T : \A j \in T : ~(j < i)
  <2> HIDE DEF T
  <2> QED  BY <1>2, LeastNumber
<1>4. /\ i \in DOMAIN g.members /\ g.members[i].who = x
      /\ \A j \in 1..(i - 1) : g.members[j].who # x
  BY <1>1, <1>3
<1> QED
  BY <1>4 DEF FirstEntry

(* An entry appended or marked leaves a list of members.                     *)
LEMMA ChangedMembers ==
  ASSUME NEW g \in State, NEW x \in Member
  PROVE  /\ WithMember(g, x) \in State
         /\ WasAdded(g, x) => WithoutMember(g, x) \in State
<1>1. g.members \in Seq(Entry) /\ g.leaves \in SUBSET Member
  BY DEF State
<1>2. WithMember(g, x) \in State
  <2>1. Append(g.members, [who |-> x, active |-> TRUE]) \in Seq(Entry)
    BY <1>1 DEF Entry
  <2> QED
    BY <1>1, <2>1 DEF State, WithMember
<1>3. ASSUME WasAdded(g, x)
      PROVE  WithoutMember(g, x) \in State
  <2> DEFINE i == FirstEntry(g, x)
             e == [g.members[i] EXCEPT !.active = FALSE]
  <2>1. i \in DOMAIN g.members
    BY <1>3, FirstEntryIsEntry
  <2>2. e \in Entry
    <3>1. g.members[i] \in Entry
      BY <1>1, <2>1
    <3> QED
      BY <3>1 DEF Entry
  <2> HIDE DEF i, e
  <2>3. [g.members EXCEPT ![i] = e] \in Seq(Entry)
    BY <1>1, <2>1, <2>2
  <2>4. WithoutMember(g, x) = [g EXCEPT !.members = [g.members EXCEPT ![i] = e],
                                        !.leaves = g.leaves \ {x}]
    BY <1>1, <2>1 DEF WithoutMember, i, e
  <2> QED
    BY <1>1, <2>3, <2>4 DEF State
<1> QED
  BY <1>2, <1>3

(* A copy keeps its type when one part is replaced.                          *)
LEMMA ReplacedPart ==
  ASSUME NEW g \in State
  PROVE  /\ \A n \in Epoch : [g EXCEPT !.epoch = n] \in State
         /\ \A n \in Nat : [g EXCEPT !.sequence = n] \in State
         /\ \A r \in Secret : [g EXCEPT !.root = r] \in State
BY DEF State

(* A copy that advances to an epoch in the bound keeps its type.             *)
LEMMA AdvancedState ==
  ASSUME NEW g \in State, g.epoch < MaxEpoch
  PROVE  Advanced(g) \in State
<1> DEFINE r == Append(g.root, g.epoch + 1)
           f == [g EXCEPT !.epoch = g.epoch + 1]
           h == [f EXCEPT !.sequence = 0]
<1>1. /\ g.epoch \in Nat /\ g.epoch + 1 \in 1..MaxEpoch
      /\ g.epoch + 1 \in Epoch
  BY GroupAssumption DEF State, Epoch
<1>2. r \in Secret
  BY <1>1 DEF Secret, State
<1>3. f \in State /\ f.root = g.root
  BY <1>1, ReplacedPart DEF State
<1> HIDE DEF f
<1>4. h \in State /\ h.root = g.root
  BY <1>3, ReplacedPart DEF State
<1>5. Advanced(g) = [h EXCEPT !.root = Append(h.root, g.epoch + 1)]
  BY DEF Advanced, f
<1> HIDE DEF h, r
<1>6. Advanced(g) = [h EXCEPT !.root = r]
  BY <1>4, <1>5 DEF r
<1> QED
  BY <1>2, <1>4, <1>6, ReplacedPart

(* What an advance changes and what it leaves alone.                         *)
LEMMA AdvancedFields ==
  ASSUME NEW g \in State
  PROVE  /\ Advanced(g).epoch = g.epoch + 1
         /\ Advanced(g).root = Append(g.root, g.epoch + 1)
         /\ Advanced(g).members = g.members
         /\ Advanced(g).leaves = g.leaves
         /\ Advanced(g).sequence = 0
BY DEF State, Advanced

(* A change of the members is not one of epoch, secret or counter.           *)
LEMMA ChangedMembersFields ==
  ASSUME NEW g \in State, NEW x \in Member
  PROVE  /\ WithMember(g, x).epoch = g.epoch
         /\ WithMember(g, x).root = g.root
         /\ WithMember(g, x).sequence = g.sequence
         /\ WithoutMember(g, x).epoch = g.epoch
         /\ WithoutMember(g, x).root = g.root
         /\ WithoutMember(g, x).sequence = g.sequence
BY DEF State, WithMember, WithoutMember

LEMMA PublishType ==
  ASSUME TypeOK, NEW m \in Member, NEW g \in State, Holds(m),
         g.epoch = group[m].epoch, Publish(m, g)
  PROVE  TypeOK'
<1>1. Advanced(g) \in State
  BY AdvancedState DEF Publish
<1>2. group' \in [Member -> State \cup {NoGroup}]
  <2> DEFINE a == Advanced(g)
  <2>1. a \in State /\ group' = [group EXCEPT ![m] = a]
    BY <1>1 DEF Publish
  <2> HIDE DEF a
  <2> QED
    BY <2>1, PutGroup
<1>3. CommitOf(group[m]) \in Commit
  BY HeldState, GroupAssumption DEF Publish, CommitOf, Commit, Epoch
<1> QED
  BY <1>2, <1>3 DEF TypeOK, Publish

LEMMA TypeStep == TypeOK /\ [Next]_vars => TypeOK'
<1> SUFFICES ASSUME TypeOK, [Next]_vars PROVE TypeOK'
  OBVIOUS
<1>1. ASSUME NEW m \in Member, NEW x \in Member, AddMember(m, x)
      PROVE  TypeOK'
  BY <1>1, HeldState, ChangedMembers, ChangedMembersFields, PublishType DEF AddMember
<1>2. ASSUME NEW m \in Member, NEW x \in Member, RemoveMember(m, x)
      PROVE  TypeOK'
  BY <1>2, HeldState, ChangedMembers, ChangedMembersFields, PublishType DEF RemoveMember
<1>3. ASSUME NEW m \in Member, NEW x \in Member, RemoveMemberFails(m, x)
      PROVE  TypeOK'
  <2>1. NotRemoved(group[m], x) \in State
    BY <1>3, HeldState, ChangedMembers DEF RemoveMemberFails, NotRemoved
  <2>2. group' = [group EXCEPT ![m] = NotRemoved(group[m], x)]
    BY <1>3 DEF RemoveMemberFails
  <2>3. group' \in [Member -> State \cup {NoGroup}]
    BY <2>1, <2>2, PutGroup
  <2> QED
    BY <1>3, <2>3 DEF RemoveMemberFails, TypeOK
<1>4. ASSUME NEW m \in Member, UpdateKeys(m)
      PROVE  TypeOK'
  BY <1>4, HeldState, PublishType DEF UpdateKeys
<1>5. ASSUME NEW m \in Member, Welcome(m)
      PROVE  TypeOK'
  <2>1. PICK n \in Member :
          Holds(n) /\ group' = [group EXCEPT ![m] = [group[n] EXCEPT !.sequence = 0]]
    BY <1>5 DEF Welcome
  <2>2. [group[n] EXCEPT !.sequence = 0] \in State
    BY <2>1, HeldState, ReplacedPart
  <2>3. group' \in [Member -> State \cup {NoGroup}]
    BY <2>1, <2>2, PutGroup
  <2> QED
    BY <1>5, <2>3 DEF Welcome, TypeOK
<1>6. ASSUME NEW m \in Member, NEW c \in commits, ProcessCommit(m, c)
      PROVE  TypeOK'
  <2>1. group[m] \in State /\ group[m].epoch < MaxEpoch
    <3>1. c \in Commit /\ c.epoch = group[m].epoch + 1
      BY <1>6 DEF TypeOK, ProcessCommit, CanProcess
    <3> QED
      BY <1>6, <3>1, HeldState, GroupAssumption DEF ProcessCommit, Commit, Epoch
  <2>2. Processed(group[m]) \in State
    BY <2>1, AdvancedState DEF Processed
  <2>3. group' \in [Member -> State \cup {NoGroup}]
    BY <1>6, <2>2, PutGroup DEF ProcessCommit
  <2> QED
    BY <1>6, <2>3 DEF ProcessCommit, TypeOK
<1>7. ASSUME NEW m \in Member, EncryptMessage(m)
      PROVE  TypeOK'
  <2>1. [group[m] EXCEPT !.sequence = group[m].sequence + 1] \in State
    <3>1. group[m] \in State /\ group[m].sequence + 1 \in Nat
      BY <1>7, HeldState DEF EncryptMessage
    <3> QED
      BY <3>1, ReplacedPart
  <2>2. group' = [group EXCEPT ![m] = [group[m] EXCEPT !.sequence = group[m].sequence + 1]]
    BY <1>7 DEF EncryptMessage
  <2>3. group' \in [Member -> State \cup {NoGroup}]
    BY <2>1, <2>2, PutGroup
  <2>4. messages' \subseteq Message
    BY <1>7, HeldState DEF EncryptMessage, TypeOK, Message
  <2>5. sentCount' \in 0..MaxSent
    BY <1>7, GroupAssumption DEF EncryptMessage, TypeOK
  <2> QED
    BY <1>7, <2>3, <2>4, <2>5 DEF EncryptMessage, TypeOK
<1>8. ASSUME NEW m \in Member, NEW msg \in messages, DecryptMessage(m, msg)
      PROVE  TypeOK'
  <2>1. msg \in Message /\ SlotOf(msg) \in Epoch \X Nat
    BY DEF TypeOK, Message, SlotOf
  <2>2. received' \in [Member -> SUBSET (Epoch \X Nat)]
    BY <1>8, <2>1 DEF DecryptMessage, TypeOK, Bounded
  <2>3. accepted' \in [Member -> SUBSET Message]
    BY <1>8, <2>1 DEF DecryptMessage, TypeOK
  <2>4. acceptCount' \in [Member -> 0..MaxReceipts]
    BY <1>8, GroupAssumption DEF DecryptMessage, TypeOK
  <2> QED
    BY <1>8, <2>2, <2>3, <2>4 DEF DecryptMessage, TypeOK
<1>9. ASSUME NEW m \in Member, NEW msg \in messages, DecryptGarbled(m, msg)
      PROVE  TypeOK'
  <2>1. received' \in [Member -> SUBSET (Epoch \X Nat)]
    BY <1>9 DEF DecryptGarbled, WindowAfterFailure, TypeOK, Bounded
  <2> QED
    BY <1>9, <2>1 DEF DecryptGarbled, TypeOK
<1>10. CASE UNCHANGED vars
  BY <1>10 DEF vars, TypeOK
<1> QED
  BY <1>1, <1>2, <1>3, <1>4, <1>5, <1>6, <1>7, <1>8, <1>9, <1>10 DEF Next

LEMMA TypeInit == Init => TypeOK
<1> SUFFICES ASSUME Init PROVE TypeOK
  OBVIOUS
<1>1. Created \in State
  BY GroupAssumption DEF Created, State, Epoch, Secret, Entry
<1>2. group \in [Member -> State \cup {NoGroup}]
  BY <1>1 DEF Init
<1> QED
  BY <1>2, GroupAssumption DEF Init, TypeOK

(* Every copy of the group, window, commit and message keeps its type.       *)
THEOREM TypeCorrect == Spec => []TypeOK
BY TypeInit, TypeStep, PTL DEF Spec

-----------------------------------------------------------------------------
(* The secret at an epoch is the same for everybody: all epochs up to it,    *)
(* hashed in one after the other.                                            *)
Chain(e) == [i \in 1..e |-> i]

(* A copy holds the secret of its epoch.                                     *)
RootInv ==
  \A m \in Member : Holds(m) => group[m].root = Chain(group[m].epoch)

(* Every epoch that a copy has reached was announced by a commit.            *)
TrailInv ==
  \A m \in Member : Holds(m) =>
    \A e \in 1..group[m].epoch : [epoch |-> e, root |-> Chain(e - 1)] \in commits

HistoryInv == TypeOK /\ RootInv /\ TrailInv

LEMMA ChainNext ==
  ASSUME NEW e \in Nat
  PROVE  Append(Chain(e), e + 1) = Chain(e + 1)
<1>1. Chain(e) \in Seq(Nat) /\ Len(Chain(e)) = e
  BY DEF Chain
<1>2. Append(Chain(e), e + 1) \in Seq(Nat) /\ Len(Append(Chain(e), e + 1)) = e + 1
  BY <1>1
<1>3. Chain(e + 1) \in Seq(Nat) /\ Len(Chain(e + 1)) = e + 1
  BY DEF Chain
<1>4. \A i \in 1..(e + 1) : Append(Chain(e), e + 1)[i] = Chain(e + 1)[i]
  BY <1>1 DEF Chain
<1> QED
  BY <1>2, <1>3, <1>4, SeqEqual

(* A step that invents no epoch and no secret keeps the history.             *)
LEMMA SameHistory ==
  ASSUME HistoryInv, commits \subseteq commits',
         \A m \in Member : Holds(m)' =>
           \E n \in Member : /\ Holds(n)
                             /\ group'[m].epoch = group[n].epoch
                             /\ group'[m].root = group[n].root
  PROVE  RootInv' /\ TrailInv'
BY DEF HistoryInv, RootInv, TrailInv

(* So does one that takes a copy forward with a commit of its own secret.    *)
LEMMA NextHistory ==
  ASSUME HistoryInv, commits \subseteq commits', NEW m \in Member, Holds(m),
         group'[m].epoch = group[m].epoch + 1,
         group'[m].root = Append(group[m].root, group[m].epoch + 1),
         [epoch |-> group[m].epoch + 1, root |-> group[m].root] \in commits',
         \A n \in Member \ {m} : group'[n] = group[n]
  PROVE  RootInv' /\ TrailInv'
<1>1. group[m].epoch \in Nat /\ group[m].root = Chain(group[m].epoch)
  BY HeldState DEF HistoryInv, RootInv, Epoch
<1>2. group'[m].root = Chain(group'[m].epoch)
  BY <1>1, ChainNext
<1>3. \A n \in Member \ {m} : Holds(n)' <=> Holds(n)
  BY DEF Holds
<1>4. RootInv'
  BY <1>2, <1>3 DEF HistoryInv, RootInv
<1>5. \A e \in 1..group'[m].epoch : [epoch |-> e, root |-> Chain(e - 1)] \in commits'
  <2> TAKE e \in 1..group'[m].epoch
  <2>1. CASE e \in 1..group[m].epoch
    BY <2>1 DEF HistoryInv, TrailInv
  <2>2. CASE e = group[m].epoch + 1
    <3>1. e - 1 = group[m].epoch
      BY <1>1, <2>2
    <3> QED
      BY <1>1, <2>2, <3>1
  <2> QED
    BY <1>1, <2>1, <2>2
<1>6. TrailInv'
  <2>1. ASSUME NEW n \in Member \ {m}, Holds(n)'
        PROVE  \A e \in 1..group'[n].epoch :
                 [epoch |-> e, root |-> Chain(e - 1)] \in commits'
    BY <1>3, <2>1 DEF HistoryInv, TrailInv
  <2> QED
    BY <1>5, <2>1 DEF TrailInv
<1> QED
  BY <1>4, <1>6

LEMMA PublishHistory ==
  ASSUME HistoryInv, NEW m \in Member, NEW g \in State, Holds(m),
         g.epoch = group[m].epoch, g.root = group[m].root, Publish(m, g)
  PROVE  RootInv' /\ TrailInv'
<1> DEFINE a == Advanced(g)
<1>1. /\ a.epoch = group[m].epoch + 1
      /\ a.root = Append(group[m].root, group[m].epoch + 1)
  BY AdvancedFields
<1>2. group' = [group EXCEPT ![m] = a] /\ group \in [Member -> State \cup {NoGroup}]
  BY DEF Publish, HistoryInv, TypeOK
<1> HIDE DEF a
<1>3. /\ group'[m] = a
      /\ \A n \in Member \ {m} : group'[n] = group[n]
  BY <1>2
<1>4. /\ commits \subseteq commits'
      /\ [epoch |-> group[m].epoch + 1, root |-> group[m].root] \in commits'
  BY DEF Publish, CommitOf
<1> QED
  BY <1>1, <1>3, <1>4, NextHistory

LEMMA HistoryStep == HistoryInv /\ [Next]_vars => HistoryInv'
<1> SUFFICES ASSUME HistoryInv, [Next]_vars PROVE HistoryInv'
  OBVIOUS
<1>1. TypeOK /\ TypeOK'
  BY TypeStep DEF HistoryInv
<1>2. ASSUME NEW m \in Member, NEW x \in Member, AddMember(m, x)
      PROVE  RootInv' /\ TrailInv'
  BY <1>1, <1>2, HeldState, ChangedMembers, ChangedMembersFields, PublishHistory DEF AddMember
<1>3. ASSUME NEW m \in Member, NEW x \in Member, RemoveMember(m, x)
      PROVE  RootInv' /\ TrailInv'
  BY <1>1, <1>3, HeldState, ChangedMembers, ChangedMembersFields, PublishHistory DEF RemoveMember
<1>4. ASSUME NEW m \in Member, NEW x \in Member, RemoveMemberFails(m, x)
      PROVE  RootInv' /\ TrailInv'
  <2> DEFINE a == NotRemoved(group[m], x)
  <2>1. a.epoch = group[m].epoch /\ a.root = group[m].root
    BY <1>1, <1>4, HeldState, ChangedMembersFields DEF RemoveMemberFails, NotRemoved
  <2>2. group' = [group EXCEPT ![m] = a] /\ group \in [Member -> State \cup {NoGroup}]
    BY <1>1, <1>4 DEF RemoveMemberFails, TypeOK
  <2> HIDE DEF a
  <2>3. group'[m] = a /\ \A n \in Member \ {m} : group'[n] = group[n]
    BY <2>2
  <2>4. Holds(m) /\ commits' = commits
    BY <1>4 DEF RemoveMemberFails
  <2> QED
    BY <2>1, <2>3, <2>4, SameHistory DEF Holds
<1>5. ASSUME NEW m \in Member, UpdateKeys(m)
      PROVE  RootInv' /\ TrailInv'
  BY <1>1, <1>5, HeldState, PublishHistory DEF UpdateKeys
<1>6. ASSUME NEW m \in Member, Welcome(m)
      PROVE  RootInv' /\ TrailInv'
  <2>1. PICK k \in Member :
          Holds(k) /\ group' = [group EXCEPT ![m] = [group[k] EXCEPT !.sequence = 0]]
    BY <1>6 DEF Welcome
  <2> DEFINE a == [group[k] EXCEPT !.sequence = 0]
  <2>2. a.epoch = group[k].epoch /\ a.root = group[k].root
    BY <1>1, <2>1, HeldState DEF State
  <2>3. group' = [group EXCEPT ![m] = a] /\ group \in [Member -> State \cup {NoGroup}]
    BY <1>1, <2>1 DEF TypeOK
  <2> HIDE DEF a
  <2>4. group'[m] = a /\ \A n \in Member \ {m} : group'[n] = group[n]
    BY <2>3
  <2>5. commits' = commits
    BY <1>6 DEF Welcome
  <2> QED
    BY <2>1, <2>2, <2>4, <2>5, SameHistory DEF Holds
<1>7. ASSUME NEW m \in Member, NEW c \in commits, ProcessCommit(m, c)
      PROVE  RootInv' /\ TrailInv'
  <2> DEFINE a == Processed(group[m])
  <2>1. Holds(m) /\ commits' = commits
    BY <1>7 DEF ProcessCommit
  <2>2. /\ a.epoch = group[m].epoch + 1
        /\ a.root = Append(group[m].root, group[m].epoch + 1)
    BY <1>1, <2>1, HeldState, AdvancedFields DEF Processed
  <2>3. group' = [group EXCEPT ![m] = a] /\ group \in [Member -> State \cup {NoGroup}]
    BY <1>1, <1>7 DEF ProcessCommit, TypeOK
  <2> HIDE DEF a
  <2>4. group'[m] = a /\ \A n \in Member \ {m} : group'[n] = group[n]
    BY <2>3
  <2>5. c = [epoch |-> group[m].epoch + 1, root |-> group[m].root]
    BY <1>1, <1>7 DEF ProcessCommit, CanProcess, TypeOK, Commit
  <2> QED
    BY <2>1, <2>2, <2>4, <2>5, NextHistory
<1>8. ASSUME NEW m \in Member, EncryptMessage(m)
      PROVE  RootInv' /\ TrailInv'
  <2> DEFINE a == [group[m] EXCEPT !.sequence = group[m].sequence + 1]
  <2>1. Holds(m) /\ commits' = commits
    BY <1>8 DEF EncryptMessage
  <2>2. a.epoch = group[m].epoch /\ a.root = group[m].root
    BY <1>1, <2>1, HeldState DEF State
  <2>3. group' = [group EXCEPT ![m] = a] /\ group \in [Member -> State \cup {NoGroup}]
    BY <1>1, <1>8 DEF EncryptMessage, TypeOK
  <2> HIDE DEF a
  <2>4. group'[m] = a /\ \A n \in Member \ {m} : group'[n] = group[n]
    BY <2>3
  <2> QED
    BY <2>1, <2>2, <2>4, SameHistory DEF Holds
<1>9. ASSUME group' = group, commits' = commits
      PROVE  RootInv' /\ TrailInv'
  BY <1>9 DEF HistoryInv, RootInv, TrailInv, Holds
<1>10. ASSUME NEW m \in Member, NEW msg \in messages, DecryptMessage(m, msg)
       PROVE  RootInv' /\ TrailInv'
  BY <1>9, <1>10 DEF DecryptMessage
<1>11. ASSUME NEW m \in Member, NEW msg \in messages, DecryptGarbled(m, msg)
       PROVE  RootInv' /\ TrailInv'
  BY <1>9, <1>11 DEF DecryptGarbled
<1>12. ASSUME UNCHANGED vars
       PROVE  RootInv' /\ TrailInv'
  BY <1>9, <1>12 DEF vars
<1>13. ASSUME Next
       PROVE  RootInv' /\ TrailInv'
  BY <1>2, <1>3, <1>4, <1>5, <1>6, <1>7, <1>8, <1>10, <1>11, <1>13, Zenon DEF Next
<1> QED
  BY <1>1, <1>12, <1>13 DEF HistoryInv

LEMMA HistoryInductive == Spec => []HistoryInv
<1>1. Init => HistoryInv
  <2> SUFFICES ASSUME Init PROVE RootInv /\ TrailInv
    BY TypeInit DEF HistoryInv
  <2>1. \A m \in Member : Holds(m) => group[m] = Created
    BY DEF Init, Holds
  <2>2. Created.epoch = 0 /\ Created.root = Chain(0)
    BY DEF Created, Chain
  <2> QED
    BY <2>1, <2>2 DEF RootInv, TrailInv
<1> QED
  BY <1>1, HistoryStep, PTL DEF Spec

(* Two members at the same epoch have the same root secret, whatever commits *)
(* crossed: process_commit's promise that all members converge.              *)
THEOREM SecretSafety == Spec => []SecretsConverge
<1>1. HistoryInv => SecretsConverge
  BY DEF HistoryInv, RootInv, SecretsConverge
<1> QED
  BY <1>1, HistoryInductive, PTL

(* A member that is behind can process one of the commits that were sent.    *)
THEOREM CatchUpSafety == Spec => []CanCatchUp
<1>1. HistoryInv => CanCatchUp
  <2> SUFFICES ASSUME HistoryInv, NEW m \in Member, NEW n \in Member,
                      Holds(m), Holds(n), group[m].epoch < group[n].epoch
               PROVE  \E c \in commits : CanProcess(group[m], c)
    BY DEF CanCatchUp
  <2> DEFINE k == group[m].epoch
  <2>1. k \in Nat /\ k + 1 \in 1..group[n].epoch /\ k + 1 - 1 = k
    BY HeldState DEF HistoryInv, Epoch
  <2>2. group[m].root = Chain(k)
    BY DEF HistoryInv, RootInv
  <2>3. \A e \in 1..group[n].epoch : [epoch |-> e, root |-> Chain(e - 1)] \in commits
    BY DEF HistoryInv, TrailInv
  <2> HIDE DEF k
  <2>4. [epoch |-> k + 1, root |-> Chain(k + 1 - 1)] \in commits
    BY <2>1, <2>3
  <2> QED
    BY <2>1, <2>2, <2>4 DEF CanProcess, k
<1> QED
  BY <1>1, HistoryInductive, PTL

-----------------------------------------------------------------------------
(* The window *)

LEMMA WindowStep == TypeOK /\ WindowWasAccepted /\ [Next]_vars => WindowWasAccepted'
<1> SUFFICES ASSUME TypeOK, WindowWasAccepted, [Next]_vars PROVE WindowWasAccepted'
  OBVIOUS
<1>1. ASSUME received' = received, accepted' = accepted
      PROVE  WindowWasAccepted'
  BY <1>1 DEF WindowWasAccepted
<1>2. ASSUME NEW m \in Member, NEW msg \in messages, DecryptMessage(m, msg)
      PROVE  WindowWasAccepted'
  BY <1>2 DEF DecryptMessage, Bounded, TypeOK, WindowWasAccepted
<1>3. ASSUME NEW m \in Member, NEW msg \in messages, DecryptGarbled(m, msg)
      PROVE  WindowWasAccepted'
  BY <1>3 DEF DecryptGarbled, WindowAfterFailure, Bounded, TypeOK, WindowWasAccepted
<1>4. CASE UNCHANGED vars
  BY <1>1, <1>4 DEF vars
<1> QED
  BY <1>1, <1>2, <1>3, <1>4 DEF Next, AddMember, RemoveMember, RemoveMemberFails,
     UpdateKeys, Welcome, ProcessCommit, EncryptMessage, Publish

(* Only decrypted messages take a place in the window.                       *)
LEMMA WindowAccepted == Spec => []WindowWasAccepted
<1>1. Init => WindowWasAccepted
  BY DEF Init, WindowWasAccepted
<1> QED
  BY <1>1, TypeCorrect, WindowStep, PTL DEF Spec

(* Until the window was full once it names every message that was decrypted, *)
(* so that no message is decrypted twice.                                    *)
AcceptInv ==
  \A m \in Member :
    /\ IsFiniteSet(accepted[m]) /\ IsFiniteSet(received[m])
    /\ Cardinality(received[m]) <= acceptCount[m]
    /\ acceptCount[m] < Window => \A msg \in accepted[m] : SlotOf(msg) \in received[m]
    /\ acceptCount[m] <= Window => Cardinality(accepted[m]) = acceptCount[m]

LEMMA DecryptAccepts ==
  ASSUME TypeOK, AcceptInv, NEW m \in Member, NEW msg \in messages,
         DecryptMessage(m, msg)
  PROVE  AcceptInv'
<1> DEFINE slot == SlotOf(msg)
           kept == Bounded(received[m])
<1>1. /\ received'[m] = kept \cup {slot} /\ accepted'[m] = accepted[m] \cup {msg}
      /\ acceptCount'[m] = acceptCount[m] + 1
      /\ slot \notin received[m] /\ acceptCount[m] \in Nat
  BY GroupAssumption DEF DecryptMessage, Admits, TypeOK
<1>2. \A n \in Member \ {m} : /\ received'[n] = received[n]
                              /\ accepted'[n] = accepted[n]
                              /\ acceptCount'[n] = acceptCount[n]
  BY DEF DecryptMessage, TypeOK
<1>3. /\ IsFiniteSet(accepted[m]) /\ IsFiniteSet(received[m])
      /\ Cardinality(accepted[m]) \in Nat /\ Cardinality(received[m]) \in Nat
      /\ Cardinality(received[m]) <= acceptCount[m]
  BY FS_CardinalityType DEF AcceptInv
<1>4. IsFiniteSet(kept) /\ Cardinality(kept) \in Nat /\ Cardinality(kept) <= acceptCount[m]
  BY <1>1, <1>3, FS_EmptySet DEF Bounded
<1>5. /\ IsFiniteSet(accepted'[m]) /\ IsFiniteSet(received'[m])
      /\ Cardinality(received'[m]) <= acceptCount'[m]
  <2>1. /\ IsFiniteSet(kept \cup {slot})
        /\ Cardinality(kept \cup {slot}) \in Nat
        /\ Cardinality(kept \cup {slot}) <= Cardinality(kept) + 1
    <3> HIDE DEF kept, slot
    <3> QED  BY <1>4, FS_AddElement
  <2>2. IsFiniteSet(accepted[m] \cup {msg})
    BY <1>3, FS_AddElement
  <2> HIDE DEF kept, slot
  <2> QED
    BY <1>1, <1>4, <2>1, <2>2
<1>6. ASSUME acceptCount'[m] <= Window
      PROVE  /\ msg \notin accepted[m] /\ kept = received[m]
             /\ \A n \in accepted[m] : SlotOf(n) \in received[m]
             /\ Cardinality(accepted[m]) = acceptCount[m]
  <2>1. acceptCount[m] < Window
    BY <1>1, <1>6, GroupAssumption
  <2>2. /\ \A n \in accepted[m] : SlotOf(n) \in received[m]
        /\ Cardinality(accepted[m]) = acceptCount[m]
    BY <1>1, <2>1, GroupAssumption DEF AcceptInv
  <2>3. ~(Cardinality(received[m]) >= Window)
    BY <1>1, <1>3, <2>1, GroupAssumption
  <2> QED
    BY <1>1, <2>2, <2>3 DEF Bounded
<1>7. acceptCount'[m] <= Window =>
        Cardinality(accepted'[m]) = acceptCount'[m]
  BY <1>1, <1>3, <1>6, FS_AddElement
<1>8. acceptCount'[m] < Window =>
        \A n \in accepted'[m] : SlotOf(n) \in received'[m]
  <2> SUFFICES ASSUME acceptCount'[m] <= Window, NEW n \in accepted'[m]
               PROVE  SlotOf(n) \in received'[m]
    BY <1>1, GroupAssumption
  <2>1. n = msg \/ n \in accepted[m]
    BY <1>1
  <2> QED
    BY <1>1, <1>6, <2>1
<1>9. ASSUME NEW n \in Member \ {m}
      PROVE  /\ IsFiniteSet(accepted'[n]) /\ IsFiniteSet(received'[n])
             /\ Cardinality(received'[n]) <= acceptCount'[n]
             /\ acceptCount'[n] < Window =>
                  \A k \in accepted'[n] : SlotOf(k) \in received'[n]
             /\ acceptCount'[n] <= Window => Cardinality(accepted'[n]) = acceptCount'[n]
  BY <1>2 DEF AcceptInv
<1> HIDE DEF kept, slot
<1> QED
  BY <1>5, <1>7, <1>8, <1>9 DEF AcceptInv, SlotOf

LEMMA GarbledAccepts ==
  ASSUME TypeOK, AcceptInv, NEW m \in Member, NEW msg \in messages,
         DecryptGarbled(m, msg)
  PROVE  AcceptInv'
<1> DEFINE kept == Bounded(received[m])
<1>1. /\ received' = [received EXCEPT ![m] = kept]
      /\ accepted' = accepted /\ acceptCount' = acceptCount
      /\ received \in [Member -> SUBSET (Epoch \X Nat)]
      /\ acceptCount[m] \in Nat
  BY GroupAssumption DEF DecryptGarbled, WindowAfterFailure, TypeOK
<1>2. /\ IsFiniteSet(kept) /\ Cardinality(kept) <= acceptCount[m]
      /\ acceptCount[m] < Window => kept = received[m]
  <2>1. /\ IsFiniteSet(received[m]) /\ Cardinality(received[m]) \in Nat
        /\ Cardinality(received[m]) <= acceptCount[m]
    BY FS_CardinalityType DEF AcceptInv
  <2>2. CASE Cardinality(received[m]) >= Window
    BY <1>1, <2>1, <2>2, FS_EmptySet, GroupAssumption DEF Bounded
  <2>3. CASE ~(Cardinality(received[m]) >= Window)
    BY <2>1, <2>3 DEF Bounded
  <2> QED
    BY <2>2, <2>3
<1> HIDE DEF kept
<1>3. received'[m] = kept /\ \A n \in Member \ {m} : received'[n] = received[n]
  BY <1>1
<1> QED
  BY <1>1, <1>2, <1>3 DEF AcceptInv

LEMMA AcceptStep == TypeOK /\ AcceptInv /\ [Next]_vars => AcceptInv'
<1> SUFFICES ASSUME TypeOK, AcceptInv, [Next]_vars PROVE AcceptInv'
  OBVIOUS
<1>1. ASSUME received' = received, accepted' = accepted, acceptCount' = acceptCount
      PROVE  AcceptInv'
  BY <1>1 DEF AcceptInv
<1>2. CASE UNCHANGED vars
  BY <1>1, <1>2 DEF vars
<1> QED
  BY <1>1, <1>2, DecryptAccepts, GarbledAccepts
  DEF Next, AddMember, RemoveMember, RemoveMemberFails, UpdateKeys, Welcome,
      ProcessCommit, EncryptMessage, Publish

(* As long as a member has decrypted no more than the window holds, it has   *)
(* decrypted no message twice.                                               *)
LEMMA AcceptSafety == Spec => []AcceptedOnce
<1>1. Init => AcceptInv
  BY FS_EmptySet, GroupAssumption DEF Init, AcceptInv
<1>2. AcceptInv => AcceptedOnce
  BY DEF AcceptInv, AcceptedOnce
<1> QED
  BY <1>1, <1>2, TypeCorrect, AcceptStep, PTL DEF Spec

(* The replay window shuts out what was decrypted before (group.rs), and     *)
(* never what only a garbled copy has been seen of.                          *)
THEOREM WindowSafety == Spec => []WindowSound
  BY WindowAccepted, AcceptSafety, PTL DEF WindowSound

-----------------------------------------------------------------------------
(* The outgoing counter *)

(* Whoever has sent a message still holds the group, and has left the slot   *)
(* of the message behind.                                                    *)
SlotInv ==
  /\ IsFiniteSet(messages) /\ Cardinality(messages) = sentCount
  /\ \A msg \in messages :
       LET g == group[msg.sender]
       IN  /\ Holds(msg.sender)
           /\ msg.epoch < g.epoch \/ (msg.epoch = g.epoch /\ msg.sequence < g.sequence)

(* The slots of a copy that goes on are not behind those it has left.        *)
LEMMA SlotsLeftBehind ==
  ASSUME TypeOK, TypeOK', SlotInv, messages' = messages, sentCount' = sentCount,
         \A n \in Member : Holds(n) =>
           /\ Holds(n)'
           /\ \/ group'[n].epoch > group[n].epoch
              \/ /\ group'[n].epoch = group[n].epoch
                 /\ group'[n].sequence = group[n].sequence
  PROVE  SlotInv'
<1>1. ASSUME NEW msg \in messages
      PROVE  LET g == group'[msg.sender]
             IN  /\ Holds(msg.sender)'
                 /\ msg.epoch < g.epoch \/ (msg.epoch = g.epoch /\ msg.sequence < g.sequence)
  <2> DEFINE n == msg.sender
  <2>1. n \in Member /\ msg.epoch \in Nat /\ msg.sequence \in Nat
    BY DEF TypeOK, Message, Epoch
  <2>2. /\ Holds(n) /\ Holds(n)'
        /\ msg.epoch < group[n].epoch \/ (msg.epoch = group[n].epoch /\ msg.sequence < group[n].sequence)
    BY <2>1 DEF SlotInv
  <2>3. /\ group[n].epoch \in Nat /\ group[n].sequence \in Nat
        /\ group'[n].epoch \in Nat /\ group'[n].sequence \in Nat
    BY <2>1, <2>2 DEF TypeOK, Holds, State, Epoch
  <2>4. \/ group'[n].epoch > group[n].epoch
        \/ /\ group'[n].epoch = group[n].epoch
           /\ group'[n].sequence = group[n].sequence
    BY <2>1, <2>2
  <2> QED
    BY <2>1, <2>2, <2>3, <2>4
<1> QED
  BY <1>1 DEF SlotInv

LEMMA CopyGoesOn ==
  ASSUME TypeOK, TypeOK', SlotInv, messages' = messages, sentCount' = sentCount,
         NEW m \in Member, NEW a \in State, group' = [group EXCEPT ![m] = a],
         Holds(m) => \/ a.epoch > group[m].epoch
                     \/ a.epoch = group[m].epoch /\ a.sequence = group[m].sequence
  PROVE  SlotInv'
<1>1. group'[m] = a /\ \A n \in Member \ {m} : group'[n] = group[n]
  BY DEF TypeOK
<1>2. Holds(m)'
  BY <1>1, NoGroupAssumption DEF Holds
<1>3. ASSUME NEW n \in Member, Holds(n)
      PROVE  /\ Holds(n)'
             /\ \/ group'[n].epoch > group[n].epoch
                \/ /\ group'[n].epoch = group[n].epoch
                   /\ group'[n].sequence = group[n].sequence
  BY <1>1, <1>2, <1>3 DEF Holds
<1> QED
  BY <1>3, SlotsLeftBehind

LEMMA PublishSlots ==
  ASSUME TypeOK, TypeOK', SlotInv, NEW m \in Member, NEW g \in State, Holds(m),
         g.epoch = group[m].epoch, Publish(m, g)
  PROVE  SlotInv'
<1> DEFINE a == Advanced(g)
<1>1. /\ a \in State /\ group' = [group EXCEPT ![m] = a]
      /\ messages' = messages /\ sentCount' = sentCount
  BY AdvancedState DEF Publish
<1>2. a.epoch > group[m].epoch
  <2>1. a.epoch = group[m].epoch + 1 /\ group[m].epoch \in Nat
    BY AdvancedFields, HeldState DEF Epoch
  <2> QED
    BY <2>1
<1> HIDE DEF a
<1> QED
  BY <1>1, <1>2, CopyGoesOn

LEMMA EncryptSlots ==
  ASSUME TypeOK, SlotInv, NEW m \in Member, EncryptMessage(m)
  PROVE  SlotInv'
<1> DEFINE g == group[m]
           new == [sender |-> m, epoch |-> g.epoch, sequence |-> g.sequence,
                   root |-> g.root]
           a == [g EXCEPT !.sequence = g.sequence + 1]
<1>1. /\ Holds(m) /\ messages' = messages \cup {new}
      /\ sentCount' = sentCount + 1 /\ group' = [group EXCEPT ![m] = a]
  BY DEF EncryptMessage
<1>2. g \in State /\ g.epoch \in Nat /\ g.sequence \in Nat
  BY <1>1, HeldState DEF Epoch
<1>3. /\ group'[m] = a /\ a \in State
      /\ a.epoch = g.epoch /\ a.sequence = g.sequence + 1
      /\ \A n \in Member \ {m} : group'[n] = group[n]
  <2>1. a \in State /\ a.epoch = g.epoch /\ a.sequence = g.sequence + 1
    BY <1>2 DEF State
  <2>2. group \in [Member -> State \cup {NoGroup}]
    BY DEF TypeOK
  <2> HIDE DEF a, g
  <2> QED
    BY <1>1, <2>1, <2>2
<1>4. Holds(m)'
  BY <1>3, NoGroupAssumption DEF Holds
<1>5. new \notin messages
  <2> SUFFICES ASSUME new \in messages PROVE FALSE
    OBVIOUS
  <2>1. new.sender = m /\ new.epoch = g.epoch /\ new.sequence = g.sequence
    OBVIOUS
  <2>2. new.epoch < g.epoch \/ (new.epoch = g.epoch /\ new.sequence < g.sequence)
    BY <2>1 DEF SlotInv
  <2> QED
    BY <1>2, <2>1, <2>2
<1>6. IsFiniteSet(messages') /\ Cardinality(messages') = sentCount'
  <2>1. IsFiniteSet(messages) /\ Cardinality(messages) = sentCount
    BY DEF SlotInv
  <2> HIDE DEF new
  <2> QED
    BY <1>1, <1>5, <2>1, FS_AddElement
<1>7. ASSUME NEW msg \in messages'
      PROVE  LET h == group'[msg.sender]
             IN  /\ Holds(msg.sender)'
                 /\ msg.epoch < h.epoch \/ (msg.epoch = h.epoch /\ msg.sequence < h.sequence)
  <2>1. CASE msg = new
    <3>1. new.sender = m /\ new.epoch = g.epoch /\ new.sequence = g.sequence
      OBVIOUS
    <3> HIDE DEF new, a, g
    <3> QED
      BY <1>2, <1>3, <1>4, <2>1, <3>1
  <2>2. CASE msg \in messages
    <3>1. /\ msg.sender \in Member /\ Holds(msg.sender)
          /\ msg.epoch \in Nat /\ msg.sequence \in Nat
          /\ \/ msg.epoch < group[msg.sender].epoch
             \/ /\ msg.epoch = group[msg.sender].epoch
                /\ msg.sequence < group[msg.sender].sequence
      BY <2>2 DEF SlotInv, TypeOK, Message, Epoch
    <3> HIDE DEF new, a
    <3>2. CASE msg.sender = m
      BY <1>2, <1>3, <1>4, <3>1, <3>2
    <3>3. CASE msg.sender # m
      BY <1>3, <3>1, <3>3 DEF Holds
    <3> QED
      BY <3>2, <3>3
  <2> QED
    BY <1>1, <2>1, <2>2
<1> QED
  BY <1>6, <1>7 DEF SlotInv

LEMMA SlotStep == TypeOK /\ SlotInv /\ [Next]_vars => SlotInv'
<1> SUFFICES ASSUME TypeOK, SlotInv, [Next]_vars PROVE SlotInv'
  OBVIOUS
<1>1. TypeOK'
  BY TypeStep
<1>2. ASSUME NEW m \in Member, NEW x \in Member, AddMember(m, x)
      PROVE  SlotInv'
  BY <1>1, <1>2, HeldState, ChangedMembers, ChangedMembersFields, PublishSlots DEF AddMember
<1>3. ASSUME NEW m \in Member, NEW x \in Member, RemoveMember(m, x)
      PROVE  SlotInv'
  BY <1>1, <1>3, HeldState, ChangedMembers, ChangedMembersFields, PublishSlots DEF RemoveMember
<1>4. ASSUME NEW m \in Member, NEW x \in Member, RemoveMemberFails(m, x)
      PROVE  SlotInv'
  <2> DEFINE a == NotRemoved(group[m], x)
  <2>1. a \in State /\ a.epoch = group[m].epoch /\ a.sequence = group[m].sequence
    BY <1>4, HeldState, ChangedMembers, ChangedMembersFields DEF RemoveMemberFails, NotRemoved
  <2>2. /\ group' = [group EXCEPT ![m] = a]
        /\ messages' = messages /\ sentCount' = sentCount
    BY <1>4 DEF RemoveMemberFails
  <2> HIDE DEF a
  <2> QED
    BY <1>1, <2>1, <2>2, CopyGoesOn
<1>5. ASSUME NEW m \in Member, UpdateKeys(m)
      PROVE  SlotInv'
  BY <1>1, <1>5, HeldState, PublishSlots DEF UpdateKeys
<1>6. ASSUME NEW m \in Member, Welcome(m)
      PROVE  SlotInv'
  <2>1. PICK k \in Member :
          Holds(k) /\ group' = [group EXCEPT ![m] = [group[k] EXCEPT !.sequence = 0]]
    BY <1>6 DEF Welcome
  <2> DEFINE a == [group[k] EXCEPT !.sequence = 0]
  <2>2. a \in State
    BY <2>1, HeldState, ReplacedPart
  <2>3. /\ group' = [group EXCEPT ![m] = a] /\ ~Holds(m)
        /\ messages' = messages /\ sentCount' = sentCount
    BY <1>6, <2>1 DEF Welcome
  <2> HIDE DEF a
  <2> QED
    BY <1>1, <2>2, <2>3, CopyGoesOn
<1>7. ASSUME NEW m \in Member, NEW c \in commits, ProcessCommit(m, c)
      PROVE  SlotInv'
  <2> DEFINE a == Processed(group[m])
  <2>1. Holds(m) /\ group[m] \in State /\ group[m].epoch \in Nat
    BY <1>7, HeldState DEF ProcessCommit, Epoch
  <2>2. a.epoch = group[m].epoch + 1
    BY <2>1, AdvancedFields DEF Processed
  <2>3. /\ group' = [group EXCEPT ![m] = a] /\ group \in [Member -> State \cup {NoGroup}]
        /\ messages' = messages /\ sentCount' = sentCount
    BY <1>7 DEF ProcessCommit, TypeOK
  <2>4. c.epoch = group[m].epoch + 1 /\ c \in Commit
    BY <1>7 DEF ProcessCommit, CanProcess, TypeOK
  <2>5. group[m].epoch < MaxEpoch
    BY <2>1, <2>4, GroupAssumption DEF Commit
  <2>6. a \in State
    BY <2>1, <2>5, AdvancedState DEF Processed
  <2> HIDE DEF a
  <2>7. a.epoch > group[m].epoch
    BY <2>1, <2>2
  <2> QED
    BY <1>1, <2>3, <2>6, <2>7, CopyGoesOn
<1>8. ASSUME group' = group, messages' = messages, sentCount' = sentCount
      PROVE  SlotInv'
  BY <1>8 DEF SlotInv, Holds
<1>9. CASE UNCHANGED vars
  BY <1>8, <1>9 DEF vars
<1>10. ASSUME NEW m \in Member, NEW msg \in messages,
              DecryptMessage(m, msg) \/ DecryptGarbled(m, msg)
       PROVE  SlotInv'
  BY <1>8, <1>10 DEF DecryptMessage, DecryptGarbled
<1> QED
  BY <1>2, <1>3, <1>4, <1>5, <1>6, <1>7, <1>9, <1>10, EncryptSlots DEF Next

(* No member ever sends two messages with the same epoch and sequence.       *)
THEOREM SlotSafety == Spec => []SlotsNotReused
<1>1. Init => SlotInv
  BY FS_EmptySet DEF Init, SlotInv
<1>2. SlotInv => SlotsNotReused
  BY DEF SlotInv, SlotsNotReused
<1> QED
  BY <1>1, <1>2, TypeCorrect, SlotStep, PTL DEF Spec

-----------------------------------------------------------------------------
(* The list of members and the leaves *)

(* The entry that FirstEntry finds.                                          *)
IsFirst(g, i) ==
  /\ i \in DOMAIN g.members
  /\ \A j \in 1..(i - 1) : g.members[j].who # g.members[i].who

(* Leaves and entries of one copy agree.                                     *)
Agree(g) ==
  /\ \A x \in g.leaves : WasAdded(g, x) => IsActive(g, x)
  /\ \A i \in DOMAIN g.members :
       IsFirst(g, i) /\ g.members[i].active => g.members[i].who \in g.leaves

LEMMA FirstEntryUnique ==
  ASSUME NEW g \in State, NEW i \in DOMAIN g.members
  PROVE  /\ g.members[i].who \in Member
         /\ IsFirst(g, i) <=> i = FirstEntry(g, g.members[i].who)
<1>1. /\ g.members \in Seq(Entry) /\ DOMAIN g.members = 1..Len(g.members)
      /\ Len(g.members) \in Nat
  BY DEF State
<1>2. g.members[i].who \in Member /\ i \in Nat
  <2>1. g.members[i] \in Entry /\ i \in Nat
    BY <1>1
  <2> QED
    BY <2>1 DEF Entry
<1> DEFINE x == g.members[i].who
           f == FirstEntry(g, x)
<1>3. WasAdded(g, x)
  BY DEF WasAdded
<1>4. /\ f \in DOMAIN g.members /\ g.members[f].who = x
      /\ \A j \in 1..(f - 1) : g.members[j].who # x
  BY <1>2, <1>3, FirstEntryIsEntry
<1>5. ASSUME IsFirst(g, i)
      PROVE  i = f
  <2>1. \A j \in 1..(i - 1) : g.members[j].who # x
    BY <1>5 DEF IsFirst
  <2> HIDE DEF f, x
  <2>2. ~(f \in 1..(i - 1)) /\ ~(i \in 1..(f - 1))
    BY <1>4, <2>1 DEF x
  <2> QED
    BY <1>1, <1>4, <2>2
<1>6. ASSUME i = f
      PROVE  IsFirst(g, i)
  BY <1>4, <1>6 DEF IsFirst
<1> QED
  BY <1>2, <1>5, <1>6

LEMMA AddedAgree ==
  ASSUME NEW g \in State, NEW x \in Member, Agree(g)
  PROVE  Agree(WithMember(g, x))
<1> DEFINE h == WithMember(g, x)
           n == Len(g.members)
<1>1. /\ g.members \in Seq(Entry) /\ n \in Nat /\ DOMAIN g.members = 1..n
      /\ h.members = Append(g.members, [who |-> x, active |-> TRUE])
      /\ h.leaves = g.leaves \cup {x}
  BY DEF State, WithMember
<1>2. /\ DOMAIN h.members = 1..(n + 1)
      /\ \A i \in 1..n : h.members[i] = g.members[i]
      /\ h.members[n + 1] = [who |-> x, active |-> TRUE]
  <2> HIDE DEF h
  <2> QED  BY <1>1
<1> HIDE DEF h, n
<1>3. ASSUME NEW y \in h.leaves, WasAdded(h, y)
      PROVE  IsActive(h, y)
  <2>1. CASE y = x
    BY <1>1, <1>2, <2>1 DEF IsActive
  <2>2. CASE y # x
    <3>1. y \in g.leaves /\ WasAdded(g, y)
      BY <1>1, <1>2, <1>3, <2>2 DEF WasAdded
    <3>2. IsActive(g, y)
      BY <3>1 DEF Agree
    <3> QED
      BY <1>1, <1>2, <3>2 DEF IsActive
  <2> QED
    BY <2>1, <2>2
<1>4. ASSUME NEW i \in DOMAIN h.members, IsFirst(h, i), h.members[i].active
      PROVE  h.members[i].who \in h.leaves
  <2>1. CASE i = n + 1
    BY <1>1, <1>2, <2>1
  <2>2. CASE i \in 1..n
    <3>1. IsFirst(g, i) /\ g.members[i].active
      BY <1>1, <1>2, <1>4, <2>2 DEF IsFirst
    <3> QED
      BY <1>1, <1>2, <2>2, <3>1 DEF Agree
  <2> QED
    BY <1>1, <1>2, <2>1, <2>2
<1> QED
  BY <1>3, <1>4 DEF Agree, h

LEMMA RemovedAgree ==
  ASSUME NEW g \in State, NEW x \in Member, WasAdded(g, x), Agree(g)
  PROVE  Agree(WithoutMember(g, x))
<1> DEFINE h == WithoutMember(g, x)
           f == FirstEntry(g, x)
           e == [g.members[f] EXCEPT !.active = FALSE]
<1>1. /\ f \in DOMAIN g.members /\ g.members[f].who = x
      /\ \A j \in 1..(f - 1) : g.members[j].who # x
  BY FirstEntryIsEntry
<1>2. /\ g.members \in Seq(Entry) /\ DOMAIN g.members = 1..Len(g.members)
      /\ Len(g.members) \in Nat
  BY DEF State
<1>3. h.members = [g.members EXCEPT ![f] = e] /\ h.leaves = g.leaves \ {x}
  BY DEF State, WithoutMember
<1>4. e.who = x /\ e.active = FALSE
  <2>1. g.members[f] \in Entry
    BY <1>1, <1>2
  <2> QED
    BY <1>1, <2>1 DEF Entry
<1>5. /\ DOMAIN h.members = DOMAIN g.members
      /\ h.members[f] = e
      /\ \A i \in DOMAIN g.members \ {f} : h.members[i] = g.members[i]
  <2> HIDE DEF h, e, f
  <2> QED  BY <1>1, <1>2, <1>3
<1> HIDE DEF h, e, f
<1>6. \A i \in DOMAIN g.members : h.members[i].who = g.members[i].who
  BY <1>1, <1>4, <1>5
<1>7. ASSUME NEW y \in h.leaves, WasAdded(h, y)
      PROVE  IsActive(h, y)
  <2>1. y \in g.leaves /\ y # x /\ WasAdded(g, y)
    BY <1>3, <1>5, <1>6, <1>7 DEF WasAdded
  <2>2. PICK i \in DOMAIN g.members : g.members[i].who = y /\ g.members[i].active
    BY <2>1 DEF Agree, IsActive
  <2>3. i # f
    BY <1>1, <2>1, <2>2
  <2> QED
    BY <1>5, <2>2, <2>3 DEF IsActive
<1>8. ASSUME NEW i \in DOMAIN h.members, IsFirst(h, i), h.members[i].active
      PROVE  h.members[i].who \in h.leaves
  <2>1. i \in DOMAIN g.members /\ i # f
    BY <1>4, <1>5, <1>8
  <2>2. \A j \in 1..(i - 1) : j \in DOMAIN g.members
    BY <1>2, <2>1
  <2>3. IsFirst(g, i) /\ g.members[i].active
    BY <1>5, <1>6, <1>8, <2>1, <2>2 DEF IsFirst
  <2>4. g.members[i].who \in g.leaves
    BY <2>1, <2>3 DEF Agree
  <2>5. g.members[i].who # x
    <3> SUFFICES ASSUME g.members[i].who = x PROVE FALSE
      OBVIOUS
    <3>1. ~(i \in 1..(f - 1)) /\ ~(f \in 1..(i - 1))
      BY <1>1, <2>3 DEF IsFirst
    <3> QED
      BY <1>1, <1>2, <2>1, <3>1
  <2> QED
    BY <1>3, <1>6, <2>1, <2>4, <2>5
<1> QED
  BY <1>7, <1>8 DEF Agree, h

(* The epoch, the secret and the counter play no part in it.                 *)
LEMMA OtherPartsAgree ==
  ASSUME NEW g, NEW h, Agree(g), h.members = g.members, h.leaves = g.leaves
  PROVE  Agree(h)
BY DEF Agree, WasAdded, IsActive, IsFirst

AgreeInv == \A m \in Member : Holds(m) => Agree(group[m])

LEMMA CopyAgrees ==
  ASSUME TypeOK, AgreeInv, NEW m \in Member, NEW a, Agree(a),
         group' = [group EXCEPT ![m] = a]
  PROVE  AgreeInv'
<1>1. group'[m] = a /\ \A n \in Member \ {m} : group'[n] = group[n]
  BY DEF TypeOK
<1> QED
  BY <1>1 DEF AgreeInv, Holds

LEMMA PublishAgrees ==
  ASSUME TypeOK, AgreeInv, NEW m \in Member, NEW g \in State, Agree(g), Publish(m, g)
  PROVE  AgreeInv'
<1> DEFINE a == Advanced(g)
<1>1. group' = [group EXCEPT ![m] = a]
  BY DEF Publish
<1>2. a.members = g.members /\ a.leaves = g.leaves
  BY AdvancedFields
<1> HIDE DEF a
<1> QED
  BY <1>1, <1>2, OtherPartsAgree, CopyAgrees

LEMMA AgreeStep == TypeOK /\ AgreeInv /\ [Next]_vars => AgreeInv'
<1> SUFFICES ASSUME TypeOK, AgreeInv, [Next]_vars PROVE AgreeInv'
  OBVIOUS
<1>1. ASSUME NEW m \in Member, Holds(m)
      PROVE  group[m] \in State /\ Agree(group[m])
  BY <1>1, HeldState DEF AgreeInv
<1>2. ASSUME NEW m \in Member, NEW x \in Member, AddMember(m, x)
      PROVE  AgreeInv'
  BY <1>1, <1>2, ChangedMembers, AddedAgree, PublishAgrees DEF AddMember
<1>3. ASSUME NEW m \in Member, NEW x \in Member, RemoveMember(m, x)
      PROVE  AgreeInv'
  BY <1>1, <1>3, ChangedMembers, RemovedAgree, PublishAgrees DEF RemoveMember
<1>4. ASSUME NEW m \in Member, NEW x \in Member, RemoveMemberFails(m, x)
      PROVE  AgreeInv'
  BY <1>1, <1>4, RemovedAgree, CopyAgrees DEF RemoveMemberFails, NotRemoved
<1>5. ASSUME NEW m \in Member, UpdateKeys(m)
      PROVE  AgreeInv'
  BY <1>1, <1>5, PublishAgrees DEF UpdateKeys
<1>6. ASSUME NEW m \in Member, Welcome(m)
      PROVE  AgreeInv'
  <2>1. PICK k \in Member :
          Holds(k) /\ group' = [group EXCEPT ![m] = [group[k] EXCEPT !.sequence = 0]]
    BY <1>6 DEF Welcome
  <2> DEFINE a == [group[k] EXCEPT !.sequence = 0]
  <2>2. a.members = group[k].members /\ a.leaves = group[k].leaves
    BY <1>1, <2>1 DEF State
  <2>3. group' = [group EXCEPT ![m] = a]
    BY <2>1
  <2> HIDE DEF a
  <2> QED
    BY <1>1, <2>1, <2>2, <2>3, OtherPartsAgree, CopyAgrees
<1>7. ASSUME NEW m \in Member, NEW c \in commits, ProcessCommit(m, c)
      PROVE  AgreeInv'
  <2> DEFINE a == Processed(group[m])
  <2>1. Holds(m) /\ group' = [group EXCEPT ![m] = a]
    BY <1>7 DEF ProcessCommit
  <2>2. a.members = group[m].members /\ a.leaves = group[m].leaves
    BY <1>1, <2>1, AdvancedFields DEF Processed
  <2> HIDE DEF a
  <2> QED
    BY <1>1, <2>1, <2>2, OtherPartsAgree, CopyAgrees
<1>8. ASSUME NEW m \in Member, EncryptMessage(m)
      PROVE  AgreeInv'
  <2> DEFINE a == [group[m] EXCEPT !.sequence = group[m].sequence + 1]
  <2>1. Holds(m) /\ group' = [group EXCEPT ![m] = a]
    BY <1>8 DEF EncryptMessage
  <2>2. a.members = group[m].members /\ a.leaves = group[m].leaves
    BY <1>1, <2>1 DEF State
  <2> HIDE DEF a
  <2> QED
    BY <1>1, <2>1, <2>2, OtherPartsAgree, CopyAgrees
<1>9. ASSUME group' = group
      PROVE  AgreeInv'
  BY <1>9 DEF AgreeInv, Holds
<1>10. ASSUME NEW m \in Member, NEW msg \in messages,
              DecryptMessage(m, msg) \/ DecryptGarbled(m, msg)
       PROVE  AgreeInv'
  BY <1>9, <1>10 DEF DecryptMessage, DecryptGarbled
<1>11. CASE UNCHANGED vars
  BY <1>9, <1>11 DEF vars
<1> QED
  BY <1>2, <1>3, <1>4, <1>5, <1>6, <1>7, <1>8, <1>10, <1>11 DEF Next

(* However often members leave, rejoin and are removed, the leaves of a copy *)
(* belong to active members, and a first entry that is active has its leaf.  *)
THEOREM LeafSafety == Spec => []LeavesAreActive
<1>1. Init => AgreeInv
  <2>1. Agree(Created)
    BY DEF Created, Agree, WasAdded, IsActive, IsFirst
  <2> QED
    BY <2>1 DEF Init, AgreeInv, Holds
<1>2. TypeOK /\ AgreeInv => LeavesAreActive
  <2> SUFFICES ASSUME TypeOK, AgreeInv, NEW m \in Member, Holds(m),
                      NEW i \in DOMAIN group[m].members
               PROVE  LET g == group[m]
                          x == g.members[i].who
                      IN  /\ x \in g.leaves => IsActive(g, x)
                          /\ i = FirstEntry(g, x) /\ g.members[i].active => x \in g.leaves
    BY DEF LeavesAreActive
  <2>1. group[m] \in State /\ Agree(group[m])
    BY HeldState DEF AgreeInv
  <2>2. WasAdded(group[m], group[m].members[i].who)
    BY DEF WasAdded
  <2> QED
    BY <2>1, <2>2, FirstEntryUnique DEF Agree
<1> QED
  BY <1>1, <1>2, TypeCorrect, AgreeStep, PTL DEF Spec
=============================================================================

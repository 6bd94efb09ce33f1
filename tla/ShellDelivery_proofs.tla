------------------------ MODULE ShellDelivery_proofs ------------------------
(* Proofs about ShellDelivery, for any contacts, routes, managers and bounds. *)
EXTENDS ShellDelivery, SequenceTheorems, TLAPS

-----------------------------------------------------------------------------
(* What the commands do to the rows *)

(* The rows are the messages 1..n.                                           *)
LEMMA RowDomain ==
  ASSUME ProfileTypeOK
  PROVE  /\ Len(messages) \in 0..MaxMessages
         /\ DOMAIN messages = 1..Len(messages)
         /\ \A m \in DOMAIN messages : messages[m] \in Message /\ m \in 1..MaxMessages
BY ProfileBounds DEF ProfileTypeOK

(* A new status leaves everything else of the rows as it is.                 *)
LEMMA StatusUpdatedRows ==
  ASSUME ProfileTypeOK, NEW m, NEW s \in Status
  PROVE  /\ StatusUpdated(m, s) \in Seq(Message)
         /\ Len(StatusUpdated(m, s)) = Len(messages)
         /\ DOMAIN StatusUpdated(m, s) = DOMAIN messages
         /\ \A i \in DOMAIN messages :
              /\ StatusUpdated(m, s)[i].destination = messages[i].destination
              /\ StatusUpdated(m, s)[i].status
                   = IF i = m /\ Live(m) THEN s ELSE messages[i].status
<1>1. messages \in Seq(Message) /\ DOMAIN messages = 1..Len(messages)
  BY DEF ProfileTypeOK
<1>2. CASE Live(m)
  <2>1. m \in 1..Len(messages) /\ messages[m] \in Message
    BY <1>1, <1>2 DEF Live
  <2> DEFINE row == [messages[m] EXCEPT !.status = s]
  <2>2. row \in Message /\ row.destination = messages[m].destination /\ row.status = s
    BY <2>1 DEF Message
  <2>3. StatusUpdated(m, s) = [messages EXCEPT ![m] = row]
    BY <1>2 DEF StatusUpdated
  <2> HIDE DEF row
  <2>4. /\ [messages EXCEPT ![m] = row] \in Seq(Message)
        /\ Len([messages EXCEPT ![m] = row]) = Len(messages)
        /\ \A j \in 1..Len(messages) :
             [messages EXCEPT ![m] = row][j] = IF j = m THEN row ELSE messages[j]
    BY <1>1, <2>1, <2>2, ExceptSeq
  <2> QED  BY <1>1, <1>2, <2>2, <2>3, <2>4
<1>3. CASE ~Live(m)
  BY <1>1, <1>3 DEF StatusUpdated
<1> QED  BY <1>2, <1>3

(* A sent message is the last row.                                           *)
LEMMA AppendedRows ==
  ASSUME ProfileTypeOK, NEW c \in DOMAIN chats, chats[c] # "gone",
         Len(messages) < MaxMessages
  PROVE  /\ Appended(c) \in Seq(Message)
         /\ Len(Appended(c)) = Len(messages) + 1
         /\ DOMAIN Appended(c) = DOMAIN messages \cup {Len(messages) + 1}
         /\ \A i \in DOMAIN messages : Appended(c)[i] = messages[i]
         /\ Appended(c)[Len(messages) + 1]
              = [chat |-> c, destination |-> chats[c], status |-> "queued"]
<1> DEFINE row == [chat |-> c, destination |-> chats[c], status |-> "queued"]
<1>1. /\ messages \in Seq(Message) /\ DOMAIN messages = 1..Len(messages)
      /\ Len(messages) \in Nat
  BY DEF ProfileTypeOK
<1>2. c \in 1..MaxChats /\ chats[c] \in Fingerprint
  BY ProfileBounds DEF ProfileTypeOK
<1>3. row \in Message
  BY <1>2 DEF Message, Status
<1>4. Appended(c) = Append(messages, row)
  BY DEF Appended
<1> HIDE DEF row
<1>5. /\ Append(messages, row) \in Seq(Message)
      /\ Len(Append(messages, row)) = Len(messages) + 1
      /\ \A i \in 1..Len(messages) : Append(messages, row)[i] = messages[i]
      /\ Append(messages, row)[Len(messages) + 1] = row
  BY <1>1, <1>3, AppendProperties
<1>6. DOMAIN Append(messages, row) = 1..(Len(messages) + 1)
  BY <1>5, LenProperties
<1> QED  BY <1>1, <1>4, <1>5, <1>6 DEF row

(* A reset leaves the rows, marked as gone.                                  *)
LEMMA ResetRows ==
  ASSUME ProfileTypeOK, ResetIdentity
  PROVE  /\ messages' \in Seq(Message)
         /\ Len(messages') = Len(messages) /\ DOMAIN messages' = DOMAIN messages
         /\ \A i \in DOMAIN messages : messages'[i].status = "gone"
         /\ chats' \in Seq(Fingerprint \cup {"gone"}) /\ Len(chats') = Len(chats)
         /\ \A c \in DOMAIN chats' : chats'[c] = "gone"
         /\ DOMAIN contacts' = {}
<1>1. /\ messages \in Seq(Message) /\ DOMAIN messages = 1..Len(messages)
      /\ Len(messages) \in Nat
      /\ chats \in Seq(Fingerprint \cup {"gone"}) /\ DOMAIN chats = 1..Len(chats)
      /\ Len(chats) \in Nat
  BY DEF ProfileTypeOK
<1>2. messages' = [m \in 1..Len(messages) |-> [messages[m] EXCEPT !.status = "gone"]]
  BY <1>1 DEF ResetIdentity
<1>3. \A m \in 1..Len(messages) : [messages[m] EXCEPT !.status = "gone"] \in Message
  <2> TAKE m \in 1..Len(messages)
  <2>1. messages[m] \in Message
    BY <1>1, ElementOfSeq
  <2> QED  BY <2>1 DEF Message, Status
<1>4. /\ messages' \in [1..Len(messages) -> Message]
      /\ \A m \in 1..Len(messages) : messages'[m].status = "gone"
  <2>1. \A m \in 1..Len(messages) : messages'[m] = [messages[m] EXCEPT !.status = "gone"]
    BY <1>2
  <2>2. \A m \in 1..Len(messages) : messages'[m].status = "gone"
    <3> TAKE m \in 1..Len(messages)
    <3>1. messages[m] \in Message
      BY <1>1, ElementOfSeq
    <3> QED  BY <2>1, <3>1 DEF Message
  <2> QED  BY <1>2, <1>3, <2>2
<1>5. chats' \in [1..Len(chats) -> {"gone"}]
  BY <1>1 DEF ResetIdentity
<1>6. DOMAIN contacts' = {}
  BY DEF ResetIdentity
<1>7. messages' \in Seq(Message) /\ Len(messages') = Len(messages)
  BY <1>1, <1>4
<1>8. chats' \in Seq(Fingerprint \cup {"gone"}) /\ Len(chats') = Len(chats)
  <2>1. chats' \in [1..Len(chats) -> Fingerprint \cup {"gone"}]
    BY <1>5
  <2> QED  BY <1>1, <2>1
<1>9. DOMAIN messages' = DOMAIN messages /\ DOMAIN chats' = DOMAIN chats
  BY <1>1, <1>4, <1>5
<1> QED  BY <1>1, <1>4, <1>5, <1>6, <1>7, <1>8, <1>9

-----------------------------------------------------------------------------
(* What the tasks of a manager do *)

\* The part of Held that one manager accounts for.
HeldBy(t, m) ==
  \/ m \in {t.channel[i] : i \in DOMAIN t.channel}
  \/ m \in {t.sending, t.resending} \cup t.todo

GoodTasks(t) == t \in Tasks /\ Len(t.channel) <= ChannelSize

\* Manager n changes, and no other.
Alone(n) ==
  /\ manager' \in [Manager -> Tasks]
  /\ \A k \in Manager : Len(manager'[k].channel) <= ChannelSize
  /\ \A k \in Manager : k # n => manager'[k] = manager[k]

LEMMA PutTasks ==
  ASSUME TypeOK, NEW n \in Manager, NEW t, GoodTasks(t),
         manager' = [manager EXCEPT ![n] = t]
  PROVE  Alone(n) /\ manager'[n] = t
BY DEF TypeOK, GoodTasks, Alone

(* A manager's tasks, field by field.                                        *)
LEMMA OldTasks ==
  ASSUME TypeOK, NEW n \in Manager
  PROVE  /\ manager[n] \in Tasks /\ Len(manager[n].channel) <= ChannelSize
         /\ manager[n].channel \in Seq(1..MaxMessages)
         /\ manager[n].sending \in Id /\ manager[n].resending \in Id
         /\ manager[n].todo \in SUBSET (1..MaxMessages)
         /\ manager[n].looping \in BOOLEAN
BY DEF TypeOK, Tasks

(* Ended tasks hold nothing that they did not hold.                          *)
LEMMA EndedTasks ==
  ASSUME TypeOK, NEW n \in Manager, manager' = [manager EXCEPT ![n] = Ended(@)]
  PROVE  Alone(n) /\ \A m : HeldBy(manager'[n], m) => HeldBy(manager[n], m)
<1> DEFINE t == Ended(manager[n])
<1>1. manager' = [manager EXCEPT ![n] = t]
  BY DEF TypeOK
<1>2. t \in Tasks /\ t.channel = << >>
  <2>1. << >> \in Seq(1..MaxMessages)
    BY EmptySeq
  <2>2. "ended" \in {"unborn", "booting", "running", "ended"}
    OBVIOUS
  <2> DEFINE u == [manager[n] EXCEPT !.phase = "ended"]
  <2>3. u \in Tasks
    BY OldTasks, <2>2 DEF Tasks
  <2>4. t = [u EXCEPT !.channel = << >>]
    BY DEF Ended
  <2> HIDE DEF u, t
  <2> QED  BY <2>1, <2>3, <2>4 DEF Tasks
<1>3. t.sending = manager[n].sending /\ t.resending = manager[n].resending
      /\ t.todo = manager[n].todo
  BY OldTasks DEF Tasks, Ended
<1>4. GoodTasks(t)
  BY <1>2, DeliveryBounds, EmptySeq DEF GoodTasks
<1> HIDE DEF t
<1>5. Alone(n) /\ manager'[n] = t
  BY <1>1, <1>4, PutTasks
<1> QED  BY <1>2, <1>3, <1>5 DEF HeldBy

LEMMA BootsTasks ==
  ASSUME TypeOK, NEW n \in Manager, Boots(n)
  PROVE  Alone(n) /\ \A m : HeldBy(manager'[n], m) => HeldBy(manager[n], m)
<1> DEFINE t == [manager[n] EXCEPT !.phase = "running", !.looping = TRUE]
<1>1. manager' = [manager EXCEPT ![n] = t]
  BY DEF TypeOK, Boots
<1>2. t \in Tasks
  BY OldTasks DEF Tasks
<1>3. t.channel = manager[n].channel /\ t.sending = manager[n].sending
      /\ t.resending = manager[n].resending /\ t.todo = manager[n].todo
  BY OldTasks DEF Tasks
<1>4. GoodTasks(t)
  BY <1>2, <1>3, OldTasks DEF GoodTasks
<1> HIDE DEF t
<1>5. Alone(n) /\ manager'[n] = t
  BY <1>1, <1>4, PutTasks
<1> QED  BY <1>3, <1>5 DEF HeldBy

(* The command received is in the channel.                                   *)
LEMMA ReceiveTasks ==
  ASSUME TypeOK, NEW n \in Manager, ReceiveCommand(n)
  PROVE  Alone(n) /\ \A m \in 1..MaxMessages :
           HeldBy(manager'[n], m) => HeldBy(manager[n], m)
<1> DEFINE q == manager[n].channel
           t == [manager[n] EXCEPT !.channel = Tail(q), !.sending = Head(q)]
<1>1. manager' = [manager EXCEPT ![n] = t]
  BY DEF TypeOK, ReceiveCommand
<1>2. q \in Seq(1..MaxMessages) /\ q # << >> /\ Len(q) \in Nat \ {0}
  BY OldTasks, EmptySeq DEF ReceiveCommand
<1>3. /\ Head(q) \in 1..MaxMessages /\ Tail(q) \in Seq(1..MaxMessages)
      /\ Len(Tail(q)) = Len(q) - 1
      /\ \A i \in 1..Len(Tail(q)) : Tail(q)[i] = q[i + 1]
      /\ Head(q) = q[1] /\ DOMAIN q = 1..Len(q) /\ DOMAIN Tail(q) = 1..Len(Tail(q))
  <2> HIDE DEF q
  <2>1. /\ Head(q) \in 1..MaxMessages /\ Tail(q) \in Seq(1..MaxMessages)
        /\ Len(Tail(q)) = Len(q) - 1
        /\ \A i \in 1..Len(Tail(q)) : Tail(q)[i] = q[i + 1]
    BY <1>2, HeadTailProperties
  <2>2. DOMAIN q = 1..Len(q) /\ DOMAIN Tail(q) = 1..Len(Tail(q))
    BY <1>2, <2>1, LenProperties
  <2>3. Head(q) = q[1]
    BY <1>2
  <2> QED  BY <2>1, <2>2, <2>3
<1>4. t \in Tasks
  <2> DEFINE u == [manager[n] EXCEPT !.channel = Tail(q)]
  <2>1. u \in Tasks
    <3> HIDE DEF q
    <3> QED  BY <1>3, OldTasks DEF Tasks
  <2>2. t = [u EXCEPT !.sending = Head(q)]
    OBVIOUS
  <2>3. Head(q) \in Id
    BY <1>3 DEF Id
  <2> HIDE DEF u, t, q
  <2> QED  BY <2>1, <2>2, <2>3 DEF Tasks
<1> HIDE DEF q
<1>5. t.channel = Tail(q) /\ t.sending = Head(q)
      /\ t.resending = manager[n].resending /\ t.todo = manager[n].todo
  BY OldTasks DEF Tasks
<1>6. GoodTasks(t)
  BY <1>2, <1>3, <1>4, <1>5, OldTasks, DeliveryBounds DEF GoodTasks, q
<1> HIDE DEF t
<1>7. Alone(n) /\ manager'[n] = t
  BY <1>1, <1>6, PutTasks
<1>8. ASSUME NEW m \in {Tail(q)[i] : i \in DOMAIN Tail(q)} \cup {Head(q)}
      PROVE  m \in {q[i] : i \in DOMAIN q}
  BY <1>2, <1>3
<1> QED  BY <1>5, <1>7, <1>8 DEF HeldBy, q

(* One field changes at a time.                                              *)
LEMMA OneField ==
  ASSUME NEW t \in Tasks
  PROVE  /\ \A c \in Seq(1..MaxMessages) : [t EXCEPT !.channel = c] \in Tasks
         /\ \A i \in Id : [t EXCEPT !.sending = i] \in Tasks
         /\ \A i \in Id : [t EXCEPT !.resending = i] \in Tasks
         /\ \A S \in SUBSET (1..MaxMessages) : [t EXCEPT !.todo = S] \in Tasks
         /\ [t EXCEPT !.phase = "booting"] \in Tasks
BY DEF Tasks

(* The rest of a snapshot gives way to the message being sent, or to none.   *)
LEMMA RetryNextTasks ==
  ASSUME TypeOK, NEW n \in Manager, RetryNext(n)
  PROVE  Alone(n) /\ \A m \in 1..MaxMessages :
           HeldBy(manager'[n], m) => HeldBy(manager[n], m)
<1> PICK m \in manager[n].todo :
      manager' = [manager EXCEPT
        ![n].todo = @ \ {m},
        ![n].resending = IF HasRoute(messages[m].destination, "onion") THEN m ELSE None]
  BY DEF RetryNext
<1> DEFINE rest == manager[n].todo \ {m}
           next == IF HasRoute(messages[m].destination, "onion") THEN m ELSE None
           u == [manager[n] EXCEPT !.todo = rest]
           t == [manager[n] EXCEPT !.todo = rest, !.resending = next]
<1>1. manager' = [manager EXCEPT ![n] = t]
  BY DEF TypeOK
<1>2. rest \in SUBSET (1..MaxMessages) /\ next \in Id /\ next \in {m, None}
  <2>1. next \in {m, None}
    OBVIOUS
  <2> HIDE DEF next
  <2>2. m \in 1..MaxMessages /\ None \in Id /\ 1..MaxMessages \subseteq Id
    BY OldTasks, ProfileBounds DEF Id, None
  <2> QED  BY OldTasks, <2>1, <2>2
<1>3. t \in Tasks
  <2> HIDE DEF rest, next
  <2>1. u \in Tasks
    BY <1>2, OldTasks, OneField
  <2>2. t = [u EXCEPT !.resending = next]
    OBVIOUS
  <2> HIDE DEF u, t
  <2> QED  BY <1>2, <2>1, <2>2, OneField
<1>4. t.channel = manager[n].channel /\ t.sending = manager[n].sending
      /\ t.resending = next /\ t.todo = rest
  BY OldTasks DEF Tasks
<1>5. GoodTasks(t)
  BY <1>3, <1>4, OldTasks DEF GoodTasks
<1> HIDE DEF t
<1>6. Alone(n) /\ manager'[n] = t
  BY <1>1, <1>5, PutTasks
<1>7. \A k \in 1..MaxMessages : k # None
  BY DEF None
<1> QED  BY <1>2, <1>4, <1>6, <1>7 DEF HeldBy

(* A new snapshot is what is pending.                                        *)
LEMMA RetryPendingTasks ==
  ASSUME TypeOK, NEW n \in Manager, RetryPending(n)
  PROVE  Alone(n) /\ \A m \in 1..MaxMessages :
           HeldBy(manager'[n], m) <=> HeldBy(manager[n], m) \/ m \in PendingOutbound
<1> DEFINE t == [manager[n] EXCEPT !.todo = PendingOutbound]
<1>1. manager' = [manager EXCEPT ![n] = t]
  BY DEF TypeOK, RetryPending
<1>2. PendingOutbound \in SUBSET (1..MaxMessages)
  BY RowDomain DEF PendingOutbound, TypeOK
<1>3. t \in Tasks
  BY <1>2, OldTasks, OneField
<1>4. t.channel = manager[n].channel /\ t.sending = manager[n].sending
      /\ t.resending = manager[n].resending /\ t.todo = PendingOutbound
  BY OldTasks DEF Tasks
<1>5. GoodTasks(t)
  BY <1>3, <1>4, OldTasks DEF GoodTasks
<1> HIDE DEF t
<1>6. Alone(n) /\ manager'[n] = t
  BY <1>1, <1>5, PutTasks
<1> QED  BY <1>4, <1>6 DEF HeldBy, RetryPending

(* A send that ends was of a message held; all others stay held.             *)
LEMMA FinishTasks ==
  ASSUME TypeOK, NEW n \in Manager, NEW x \in 1..MaxMessages,
         \/ /\ manager[n].sending = x
            /\ manager' = [manager EXCEPT ![n].sending = None]
         \/ /\ manager[n].resending = x
            /\ manager' = [manager EXCEPT ![n].resending = None]
  PROVE  /\ Alone(n) /\ HeldBy(manager[n], x)
         /\ \A m \in 1..MaxMessages :
              /\ HeldBy(manager'[n], m) => HeldBy(manager[n], m)
              /\ HeldBy(manager[n], m) /\ m # x => HeldBy(manager'[n], m)
<1>1. None \in Id /\ \A k \in 1..MaxMessages : k # None
  BY ProfileBounds DEF None, Id
<1>2. CASE manager[n].sending = x /\ manager' = [manager EXCEPT ![n].sending = None]
  <2> DEFINE t == [manager[n] EXCEPT !.sending = None]
  <2>1. manager' = [manager EXCEPT ![n] = t]
    BY <1>2 DEF TypeOK
  <2>2. t \in Tasks
    BY <1>1, OldTasks, OneField
  <2>3. t.channel = manager[n].channel /\ t.sending = None
        /\ t.resending = manager[n].resending /\ t.todo = manager[n].todo
    BY OldTasks DEF Tasks
  <2>4. GoodTasks(t)
    BY <2>2, <2>3, OldTasks DEF GoodTasks
  <2> HIDE DEF t
  <2>5. Alone(n) /\ manager'[n] = t
    BY <2>1, <2>4, PutTasks
  <2> QED  BY <1>1, <1>2, <2>3, <2>5 DEF HeldBy
<1>3. CASE manager[n].resending = x /\ manager' = [manager EXCEPT ![n].resending = None]
  <2> DEFINE t == [manager[n] EXCEPT !.resending = None]
  <2>1. manager' = [manager EXCEPT ![n] = t]
    BY <1>3 DEF TypeOK
  <2>2. t \in Tasks
    BY <1>1, OldTasks, OneField
  <2>3. t.channel = manager[n].channel /\ t.sending = manager[n].sending
        /\ t.resending = None /\ t.todo = manager[n].todo
    BY OldTasks DEF Tasks
  <2>4. GoodTasks(t)
    BY <2>2, <2>3, OldTasks DEF GoodTasks
  <2> HIDE DEF t
  <2>5. Alone(n) /\ manager'[n] = t
    BY <2>1, <2>4, PutTasks
  <2> QED  BY <1>1, <1>3, <2>3, <2>5 DEF HeldBy
<1> QED  BY <1>2, <1>3

(* A dispatched message goes to the end of the channel.                      *)
LEMMA DispatchTasks ==
  ASSUME TypeOK, NEW n \in Manager, NEW x \in 1..MaxMessages, Accepts(n),
         manager' = [manager EXCEPT ![n].channel = Append(@, x)]
  PROVE  Alone(n) /\ \A m \in 1..MaxMessages :
           HeldBy(manager'[n], m) <=> HeldBy(manager[n], m) \/ m = x
<1> DEFINE q == manager[n].channel
           t == [manager[n] EXCEPT !.channel = Append(q, x)]
<1>1. manager' = [manager EXCEPT ![n] = t]
  BY DEF TypeOK
<1>2. q \in Seq(1..MaxMessages) /\ Len(q) < ChannelSize /\ Len(q) \in Nat
  BY OldTasks DEF Accepts
<1> HIDE DEF q
<1>3. /\ Append(q, x) \in Seq(1..MaxMessages) /\ Len(Append(q, x)) = Len(q) + 1
      /\ \A i \in 1..Len(q) : Append(q, x)[i] = q[i]
      /\ Append(q, x)[Len(q) + 1] = x
  BY <1>2, AppendProperties
<1>4. DOMAIN q = 1..Len(q) /\ DOMAIN Append(q, x) = 1..(Len(q) + 1)
  BY <1>2, <1>3, LenProperties
<1>5. t \in Tasks
  BY <1>3, OldTasks, OneField
<1>6. t.channel = Append(q, x) /\ t.sending = manager[n].sending
      /\ t.resending = manager[n].resending /\ t.todo = manager[n].todo
  BY OldTasks DEF Tasks
<1>7. GoodTasks(t)
  BY <1>2, <1>3, <1>5, <1>6, DeliveryBounds DEF GoodTasks
<1> HIDE DEF t
<1>8. Alone(n) /\ manager'[n] = t
  BY <1>1, <1>7, PutTasks
<1>9. \A m : m \in {Append(q, x)[i] : i \in DOMAIN Append(q, x)}
               <=> m \in {q[i] : i \in DOMAIN q} \/ m = x
  BY <1>2, <1>3, <1>4
<1> QED  BY <1>6, <1>8, <1>9 DEF HeldBy, q

-----------------------------------------------------------------------------
(* The invariant: types, and every message somebody holds has its row. *)

HeldInv ==
  /\ \A m \in 1..MaxMessages : Held(m) => m \in DOMAIN messages
  /\ caller.at # "idle" => caller.message \in DOMAIN messages
  /\ caller.at = "idle" => caller.message = None

IInv == TypeOK /\ HeldInv

LEMMA HeldBySome ==
  \A m : Held(m) <=> caller.message = m \/ \E n \in Manager : HeldBy(manager[n], m)
BY DEF Held, HeldBy

LEMMA HeldBySomeNext ==
  \A m : Held(m)' <=> caller'.message = m \/ \E n \in Manager : HeldBy(manager'[n], m)
BY DEF Held, HeldBy

\* The five things a step may do to the messages, as MessageOutbox names them.
Nothing ==
  /\ messages' = messages
  /\ \A m \in 1..MaxMessages : Held(m)' => Held(m)
Resumes ==
  /\ messages' = messages
  /\ \A m \in 1..MaxMessages : Held(m)' <=> Held(m) \/ m \in PendingOutbound
Submits ==
  /\ Len(messages) < MaxMessages
  /\ \E c \in DOMAIN chats : chats[c] # "gone" /\ IsContact(chats[c]) /\ messages' = Appended(c)
  /\ \A m \in 1..MaxMessages : Held(m)' <=> Held(m) \/ m = Len(messages) + 1
Ends ==
  \E x \in 1..MaxMessages, ok \in BOOLEAN, failure \in {"queued", "failed"} :
    /\ Held(x)
    /\ messages' = StatusUpdated(x, IF ok THEN "delivered" ELSE failure)
    /\ \A m \in 1..MaxMessages :
         /\ Held(m)' => Held(m)
         /\ Held(m) /\ m # x => Held(m)'
Wipes ==
  /\ ResetIdentity
  /\ \A m \in 1..MaxMessages : Held(m)' <=> Held(m)

Effect == Nothing \/ Resumes \/ Submits \/ Ends \/ Wipes

\* What a step does to the types of the variables that are not the profile's.
TasksOK ==
  /\ txTo \in 0..MaxManagers /\ spawned \in 0..MaxManagers
  /\ manager \in [Manager -> Tasks]
  /\ \A n \in Manager : Len(manager[n].channel) <= ChannelSize
  /\ caller \in Caller /\ steady \in BOOLEAN
  /\ caller.at = "idle" => caller.message = None
  /\ caller.at # "idle" => caller.message # None

(* Manager n goes on, alone, and holds no more than it did.                  *)
LEMMA TaskEffect ==
  ASSUME IInv, NEW n \in Manager, Alone(n), txTo' = txTo, spawned' = spawned,
         caller' = caller, UNCHANGED <<profile, steady>>,
         \A m \in 1..MaxMessages : HeldBy(manager'[n], m) => HeldBy(manager[n], m)
  PROVE  Nothing
<1>1. ASSUME NEW m \in 1..MaxMessages, Held(m)' PROVE Held(m)
  BY <1>1, HeldBySome, HeldBySomeNext DEF Alone
<1> QED  BY <1>1 DEF Nothing, profile

(* The end of a send, by whomever, as far as the messages are concerned.     *)
LEMMA ConcludeEffect ==
  ASSUME IInv, NEW x \in 1..MaxMessages, NEW failure \in {"queued", "failed"},
         Held(x), Conclude(x, failure),
         \A m \in 1..MaxMessages :
           (Held(m)' => Held(m)) /\ (Held(m) /\ m # x => Held(m)')
  PROVE  Ends
BY DEF Ends, Conclude, Concluded

LEMMA CallerFacts ==
  ASSUME IInv
  PROVE  /\ caller \in Caller /\ TasksOK
         /\ \A m \in 1..MaxMessages : m # None
         /\ caller.at # "idle" => /\ caller.message \in 1..MaxMessages
                                  /\ caller.message \in DOMAIN messages
                                  /\ Held(caller.message)
<1>1. TypeOK /\ HeldInv
  BY DEF IInv
<1>2. caller.at # "idle" => /\ caller.message \in 1..MaxMessages
                            /\ caller.message \in DOMAIN messages
                            /\ Held(caller.message)
  BY <1>1, RowDomain DEF HeldInv, Held, TypeOK
<1>3. \A m \in 1..MaxMessages : m # None
  BY DEF None
<1> QED  BY <1>1, <1>2, <1>3 DEF TasksOK, TypeOK, HeldInv

LEMMA ProfileEffect ==
  ASSUME IInv, Command
  PROVE  Effect /\ TasksOK'
<1>1. UNCHANGED <<txTo, spawned, manager, caller, steady>>
  BY DEF Command, tasks
<1>2. \A m : Held(m)' <=> Held(m)
  BY <1>1 DEF Held
<1>3. TasksOK'
  BY <1>1, CallerFacts DEF TasksOK
<1>4. messages' = messages \/ ResetIdentity
  BY DEF Command, ProfileCommand, AddContact, UpdateContact, CreateChat,
         RefreshChatDestination, CreateIdentity
<1> QED  BY <1>1, <1>2, <1>3, <1>4 DEF Effect, Nothing, Wipes

LEMMA SendEffect ==
  ASSUME IInv, NEW c \in DOMAIN chats, SendMessage(c)
  PROVE  Submits /\ TasksOK'
<1>1. TypeOK /\ caller.message = None
  BY DEF IInv, HeldInv, SendMessage, MainThreadFree
<1>2. Len(messages) + 1 \in 1..MaxMessages
  BY <1>1, RowDomain, ProfileBounds DEF TypeOK, SendMessage
<1>3. /\ caller' = [at |-> "appended", message |-> Len(messages) + 1]
      /\ UNCHANGED <<txTo, spawned, manager, steady>>
      /\ messages' = Appended(c) /\ chats[c] # "gone" /\ IsContact(chats[c])
      /\ Len(messages) < MaxMessages
  BY DEF SendMessage
<1>4. ASSUME NEW m \in 1..MaxMessages PROVE Held(m)' <=> Held(m) \/ m = Len(messages) + 1
  BY <1>1, <1>3, CallerFacts, HeldBySome, HeldBySomeNext
<1>5. TasksOK'
  BY <1>2, <1>3, CallerFacts DEF TasksOK, Caller, Id, None
<1> QED  BY <1>3, <1>4, <1>5 DEF Submits

LEMMA DispatchEffect ==
  ASSUME IInv, DispatchToTor
  PROVE  Nothing /\ TasksOK'
<1> DEFINE x == caller.message
<1>1. TypeOK /\ x \in 1..MaxMessages /\ Held(x)
  BY CallerFacts DEF IInv, DispatchToTor
<1>2. txTo \in Manager
  BY CallerFacts DEF DispatchToTor, Accepts, TasksOK, Manager, None
<1>3. /\ manager' = [manager EXCEPT ![txTo].channel = Append(@, x)] /\ Accepts(txTo)
      /\ caller' = Idle /\ UNCHANGED <<profile, txTo, spawned, steady>>
  BY DEF DispatchToTor
<1> HIDE DEF x
<1>4. Alone(txTo) /\ \A m \in 1..MaxMessages :
        HeldBy(manager'[txTo], m) <=> HeldBy(manager[txTo], m) \/ m = x
  BY <1>1, <1>2, <1>3, DispatchTasks
<1>5. ASSUME NEW m \in 1..MaxMessages, Held(m)' PROVE Held(m)
  <2>1. PICK k \in Manager : HeldBy(manager'[k], m)
    BY <1>3, <1>5, CallerFacts, HeldBySomeNext DEF Idle
  <2> QED  BY <1>1, <1>2, <1>4, <2>1, HeldBySome DEF Alone
<1>6. TasksOK'
  BY <1>3, <1>4, CallerFacts, ProfileBounds DEF TasksOK, Alone, Idle, Caller, Id, None
<1> QED  BY <1>3, <1>5, <1>6 DEF Nothing, profile

LEMMA LanEffect ==
  ASSUME IInv, FallBackToLan \/ LanDelivery
  PROVE  Effect /\ TasksOK'
<1> DEFINE x == caller.message
<1>1. TypeOK /\ x \in 1..MaxMessages /\ Held(x)
  BY CallerFacts DEF IInv, FallBackToLan, LanDelivery
<1>2. CASE FallBackToLan
  <2>1. /\ caller' = [caller EXCEPT !.at = "lan"]
        /\ UNCHANGED <<profile, txTo, spawned, manager, steady>>
    BY <1>2 DEF FallBackToLan
  <2>2. caller' \in Caller /\ caller'.message = caller.message /\ caller'.at = "lan"
    BY <2>1, CallerFacts DEF Caller
  <2>3. \A m : Held(m)' <=> Held(m)
    BY <2>1, <2>2 DEF Held
  <2>4. TasksOK'
    BY <1>1, <2>1, <2>2, CallerFacts DEF TasksOK
  <2> QED  BY <2>1, <2>3, <2>4 DEF Effect, Nothing, profile
<1>3. CASE LanDelivery
  <2>1. caller' = Idle /\ UNCHANGED <<txTo, spawned, manager>>
        /\ (LanWithoutIdentity \/ LanWithoutEndpoint \/ LanAnswer)
    BY <1>3 DEF LanDelivery
  <2>2. /\ \A m \in 1..MaxMessages : Held(m)' => Held(m)
        /\ \A m \in 1..MaxMessages : Held(m) /\ m # x => Held(m)'
    BY <2>1, CallerFacts, HeldBySome, HeldBySomeNext DEF Idle
  <2>3. steady' \in BOOLEAN
    BY <2>1, CallerFacts DEF LanWithoutIdentity, LanWithoutEndpoint, LanAnswer, Conclude, TasksOK
  <2>4. TasksOK'
    BY <2>1, <2>3, CallerFacts, ProfileBounds DEF TasksOK, Idle, Caller, Id, None
  <2>5. CASE LanWithoutIdentity
    BY <2>2, <2>4, <2>5 DEF Effect, Nothing, LanWithoutIdentity, profile
  <2>6. CASE LanWithoutEndpoint
    <3>1. messages' = StatusUpdated(x, IF FALSE THEN "delivered" ELSE "queued")
      BY <2>6 DEF LanWithoutEndpoint
    <3> HIDE DEF x
    <3>2. Ends
      BY <1>1, <2>2, <3>1, FALSE \in BOOLEAN, "queued" \in {"queued", "failed"}, Zenon DEF Ends
    <3> QED  BY <2>4, <3>2 DEF Effect
  <2>7. CASE LanAnswer
    <3>1. \E failure \in {"queued", "failed"} : Conclude(x, failure)
      BY <2>7 DEF LanAnswer
    <3> HIDE DEF x
    <3>2. Ends
      BY <1>1, <2>2, <3>1, ConcludeEffect
    <3> QED  BY <2>4, <3>2 DEF Effect
  <2> QED  BY <2>1, <2>5, <2>6, <2>7
<1> QED  BY <1>2, <1>3

(* A new manager holds nothing, whoever has left it tasks or not.            *)
LEMMA StartEffect ==
  ASSUME IInv, StartClient \/ StopClient
  PROVE  Nothing /\ TasksOK'
<1>1. TypeOK
  BY DEF IInv
<1>2. CASE StopClient
  <2>1. UNCHANGED <<profile, spawned, manager, caller, steady>> /\ txTo' = 0
    BY <1>2 DEF StopClient, None
  <2>2. \A m : Held(m)' <=> Held(m)
    BY <2>1 DEF Held
  <2>3. TasksOK'
    BY <2>1, CallerFacts, DeliveryBounds DEF TasksOK
  <2> QED  BY <2>1, <2>2, <2>3 DEF Nothing, profile
<1>3. CASE StartClient
  <2> DEFINE n == spawned + 1
             t == [manager[n] EXCEPT !.phase = "booting"]
  <2>1. /\ n \in Manager /\ spawned' = n /\ txTo' = n
        /\ UNCHANGED <<profile, caller, steady>>
    BY <1>3, CallerFacts, DeliveryBounds DEF StartClient, TasksOK, Manager
  <2>2. manager' = [manager EXCEPT ![n] = t]
    BY <1>1, <1>3 DEF StartClient, TypeOK
  <2> HIDE DEF n
  <2>3. t \in Tasks
    BY <1>1, <2>1, OldTasks, OneField
  <2>4. t.channel = manager[n].channel /\ t.sending = manager[n].sending
        /\ t.resending = manager[n].resending /\ t.todo = manager[n].todo
    BY <1>1, <2>1, OldTasks DEF Tasks
  <2>5. GoodTasks(t)
    BY <1>1, <2>1, <2>3, <2>4, OldTasks DEF GoodTasks
  <2> HIDE DEF t
  <2>6. Alone(n) /\ manager'[n] = t
    BY <1>1, <2>1, <2>2, <2>5, PutTasks
  <2>7. \A m : HeldBy(manager'[n], m) => HeldBy(manager[n], m)
    BY <2>4, <2>6 DEF HeldBy
  <2>8. \A m \in 1..MaxMessages : Held(m)' => Held(m)
    BY <2>1, <2>6, <2>7, HeldBySome, HeldBySomeNext DEF Alone
  <2>9. TasksOK'
    BY <2>1, <2>6, CallerFacts, DeliveryBounds DEF TasksOK, Alone, Manager
  <2> QED  BY <2>1, <2>8, <2>9 DEF Nothing, profile
<1> QED  BY <1>2, <1>3

(* The other variables of TasksOK stay.                                      *)
LEMMA AloneTypes ==
  ASSUME IInv, NEW n \in Manager, Alone(n), UNCHANGED <<txTo, spawned, caller>>,
         steady' \in BOOLEAN
  PROVE  TasksOK'
BY CallerFacts DEF TasksOK, Alone

LEMMA ManagerEffect ==
  ASSUME IInv, NEW n \in Manager,
         \/ BootFails(n) \/ Boots(n) \/ ReceiveCommand(n)
         \/ ChannelCloses(n) \/ InboundStreamEnds(n) \/ RetryNext(n)
  PROVE  Nothing /\ TasksOK'
<1>1. UNCHANGED <<profile, txTo, spawned, caller, steady>>
  BY DEF BootFails, Boots, ReceiveCommand, ChannelCloses, InboundStreamEnds, RetryNext
<1>2. TypeOK
  BY DEF IInv
<1>3. Alone(n) /\ \A m \in 1..MaxMessages : HeldBy(manager'[n], m) => HeldBy(manager[n], m)
  <2>1. CASE BootFails(n) \/ ChannelCloses(n) \/ InboundStreamEnds(n)
    BY <1>2, <2>1, EndedTasks DEF BootFails, ChannelCloses, InboundStreamEnds
  <2>2. CASE Boots(n)
    BY <1>2, <2>2, BootsTasks
  <2>3. CASE ReceiveCommand(n)
    BY <1>2, <2>3, ReceiveTasks
  <2>4. CASE RetryNext(n)
    BY <1>2, <2>4, RetryNextTasks
  <2> QED  BY <2>1, <2>2, <2>3, <2>4
<1>4. Nothing
  BY <1>1, <1>3, TaskEffect
<1>5. TasksOK'
  BY <1>1, <1>3, CallerFacts, AloneTypes DEF TasksOK
<1> QED  BY <1>4, <1>5

LEMMA RetryEffect ==
  ASSUME IInv, NEW n \in Manager, RetryPending(n)
  PROVE  Resumes /\ TasksOK'
<1>1. UNCHANGED <<profile, txTo, spawned, caller, steady>>
  BY DEF RetryPending
<1>2. Alone(n) /\ \A m \in 1..MaxMessages :
        HeldBy(manager'[n], m) <=> HeldBy(manager[n], m) \/ m \in PendingOutbound
  BY RetryPendingTasks DEF IInv
<1>3. ASSUME NEW m \in 1..MaxMessages PROVE Held(m)' <=> Held(m) \/ m \in PendingOutbound
  BY <1>1, <1>2, HeldBySome, HeldBySomeNext DEF Alone
<1>4. TasksOK'
  BY <1>1, <1>2, CallerFacts, AloneTypes DEF TasksOK
<1> QED  BY <1>1, <1>3, <1>4 DEF Resumes, profile

LEMMA FinishEffect ==
  ASSUME IInv, NEW n \in Manager, FinishSend(n) \/ FinishRetry(n)
  PROVE  Ends /\ TasksOK'
<1> DEFINE x == IF FinishSend(n) THEN manager[n].sending ELSE manager[n].resending
<1>1. TypeOK /\ x \in 1..MaxMessages
  BY OldTasks, ProfileBounds DEF IInv, FinishSend, FinishRetry, Id, None
<1>2. /\ Conclude(x, "queued") /\ UNCHANGED <<txTo, spawned, caller>>
      /\ \/ manager[n].sending = x /\ manager' = [manager EXCEPT ![n].sending = None]
         \/ manager[n].resending = x /\ manager' = [manager EXCEPT ![n].resending = None]
  BY DEF FinishSend, FinishRetry
<1> HIDE DEF x
<1>3. /\ Alone(n) /\ HeldBy(manager[n], x)
      /\ \A m \in 1..MaxMessages :
           /\ HeldBy(manager'[n], m) => HeldBy(manager[n], m)
           /\ HeldBy(manager[n], m) /\ m # x => HeldBy(manager'[n], m)
  BY <1>1, <1>2, FinishTasks
<1>4. Held(x)
  BY <1>3, HeldBySome
<1>5. ASSUME NEW m \in 1..MaxMessages
      PROVE  (Held(m)' => Held(m)) /\ (Held(m) /\ m # x => Held(m)')
  BY <1>2, <1>3, HeldBySome, HeldBySomeNext DEF Alone
<1>6. Ends
  BY <1>1, <1>2, <1>4, <1>5, ConcludeEffect
<1>7. TasksOK'
  BY <1>2, <1>3, CallerFacts, AloneTypes DEF TasksOK, Conclude
<1> QED  BY <1>6, <1>7

LEMMA CrashEffect ==
  ASSUME IInv, Crash
  PROVE  Nothing /\ TasksOK'
<1>1. /\ txTo' = None /\ caller' = Idle /\ UNCHANGED <<profile, spawned, steady>>
      /\ manager' = [n \in Manager |-> IF n <= spawned THEN Ended(Unborn) ELSE Unborn]
  BY DEF Crash
<1>2. << >> \in Seq(1..MaxMessages) /\ Len(<< >>) = 0
  BY EmptySeq
<1>3. Unborn \in Tasks /\ Ended(Unborn) \in Tasks
  <2>1. Unborn \in Tasks
    BY <1>2, ProfileBounds DEF Unborn, Tasks, Id, None
  <2> DEFINE u == [Unborn EXCEPT !.phase = "ended"]
  <2>2. u \in Tasks
    BY <2>1 DEF Tasks
  <2>3. Ended(Unborn) = [u EXCEPT !.channel = << >>]
    BY DEF Ended
  <2> HIDE DEF u
  <2>4. Ended(Unborn) \in Tasks
    BY <1>2, <2>2, <2>3, OneField
  <2> QED  BY <2>1, <2>4
<1>4. \A t \in {Unborn, Ended(Unborn)} :
        t.channel = << >> /\ t.sending = None /\ t.resending = None /\ t.todo = {}
  <2>1. /\ Unborn.channel = << >> /\ Unborn.sending = None
        /\ Unborn.resending = None /\ Unborn.todo = {}
    BY DEF Unborn
  <2>2. /\ Ended(Unborn).channel = << >> /\ Ended(Unborn).sending = Unborn.sending
        /\ Ended(Unborn).resending = Unborn.resending /\ Ended(Unborn).todo = Unborn.todo
    <3>1. Unborn \in Tasks
      BY <1>3
    <3> QED  BY <3>1 DEF Ended, Tasks
  <2> QED  BY <2>1, <2>2
<1>5. \A n \in Manager : manager'[n] \in {Unborn, Ended(Unborn)}
  BY <1>1
<1>6. ASSUME NEW m \in 1..MaxMessages, Held(m)' PROVE FALSE
  <2>1. m # None
    BY CallerFacts
  <2>2. PICK n \in Manager : HeldBy(manager'[n], m)
    BY <1>1, <1>6, <2>1, HeldBySomeNext DEF Idle
  <2>3. m \in {<< >>[i] : i \in DOMAIN << >>}
    BY <1>4, <1>5, <2>1, <2>2 DEF HeldBy
  <2> QED  BY <2>3
<1>7. manager' \in [Manager -> Tasks] /\ \A n \in Manager : Len(manager'[n].channel) <= ChannelSize
  BY <1>1, <1>2, <1>3, <1>4, <1>5, DeliveryBounds
<1>8. TasksOK'
  BY <1>1, <1>7, CallerFacts, DeliveryBounds, ProfileBounds DEF TasksOK, Idle, Caller, Id, None
<1> QED  BY <1>1, <1>6, <1>8 DEF Nothing, profile

-----------------------------------------------------------------------------
(* Every step has one of the five effects, and keeps the invariant. *)

LEMMA SettleEffect ==
  ASSUME IInv, NetworkSettles
  PROVE  Nothing /\ TasksOK'
<1>1. steady' = TRUE /\ UNCHANGED <<profile, txTo, spawned, manager, caller>>
  BY DEF NetworkSettles, tasks
<1>2. \A m : Held(m)' <=> Held(m)
  BY <1>1 DEF Held
<1>3. TasksOK'
  BY <1>1, CallerFacts DEF TasksOK
<1> QED  BY <1>1, <1>2, <1>3 DEF Nothing, profile

LEMMA StutterEffect ==
  ASSUME IInv, UNCHANGED vars
  PROVE  Nothing /\ TasksOK'
<1>1. UNCHANGED <<profile, txTo, spawned, manager, caller, steady>>
  BY DEF vars, tasks
<1>2. \A m : Held(m)' <=> Held(m)
  BY <1>1 DEF Held
<1>3. TasksOK'
  BY <1>1, CallerFacts DEF TasksOK
<1> QED  BY <1>1, <1>2, <1>3 DEF Nothing, profile

LEMMA StepEffect ==
  ASSUME IInv, [Next]_vars
  PROVE  Effect /\ TasksOK'
<1>1. CASE Command
  BY <1>1, ProfileEffect
<1>2. CASE \E c \in DOMAIN chats : SendMessage(c)
  BY <1>2, SendEffect DEF Effect
<1>3. CASE DispatchToTor
  BY <1>3, DispatchEffect DEF Effect
<1>4. CASE FallBackToLan \/ LanDelivery
  BY <1>4, LanEffect
<1>5. CASE StartClient \/ StopClient
  BY <1>5, StartEffect DEF Effect
<1>6. ASSUME NEW n \in Manager,
             \/ BootFails(n) \/ Boots(n) \/ ReceiveCommand(n)
             \/ ChannelCloses(n) \/ InboundStreamEnds(n) \/ RetryNext(n)
      PROVE  Effect /\ TasksOK'
  BY <1>6, ManagerEffect DEF Effect
<1>7. ASSUME NEW n \in Manager, RetryPending(n)
      PROVE  Effect /\ TasksOK'
  BY <1>7, RetryEffect DEF Effect
<1>8. ASSUME NEW n \in Manager, FinishSend(n) \/ FinishRetry(n)
      PROVE  Effect /\ TasksOK'
  BY <1>8, FinishEffect DEF Effect
<1>9. CASE Crash
  BY <1>9, CrashEffect DEF Effect
<1>10. CASE NetworkSettles
  BY <1>10, SettleEffect DEF Effect
<1>11. CASE UNCHANGED vars
  BY <1>11, StutterEffect DEF Effect
<1> QED
  BY <1>1, <1>2, <1>3, <1>4, <1>5, <1>6, <1>7, <1>8, <1>9, <1>10, <1>11, Zenon DEF Next

(* Only the profile's commands touch contacts and chats.                     *)
LEMMA OnlyCommands ==
  ASSUME [Next]_vars
  PROVE  Command \/ UNCHANGED <<identity, contacts, chats>>
<1>1. CASE \E c \in DOMAIN chats : SendMessage(c)
  BY <1>1 DEF SendMessage
<1>2. CASE DispatchToTor \/ FallBackToLan \/ StartClient \/ StopClient \/ Crash \/ NetworkSettles
  BY <1>2 DEF DispatchToTor, FallBackToLan, StartClient, StopClient, Crash, NetworkSettles, profile
<1>3. CASE LanDelivery
  BY <1>3 DEF LanDelivery, LanWithoutIdentity, LanWithoutEndpoint, LanAnswer, Conclude, profile
<1>4. ASSUME NEW n \in Manager,
             \/ BootFails(n) \/ Boots(n) \/ ReceiveCommand(n)
             \/ ChannelCloses(n) \/ InboundStreamEnds(n) \/ RetryNext(n) \/ RetryPending(n)
      PROVE  UNCHANGED <<identity, contacts, chats>>
  BY <1>4 DEF BootFails, Boots, ReceiveCommand, ChannelCloses, InboundStreamEnds,
              RetryNext, RetryPending, profile
<1>5. ASSUME NEW n \in Manager, FinishSend(n) \/ FinishRetry(n)
      PROVE  UNCHANGED <<identity, contacts, chats>>
  BY <1>5 DEF FinishSend, FinishRetry, Conclude
<1>6. CASE UNCHANGED vars
  BY <1>6 DEF vars, profile
<1> QED  BY <1>1, <1>2, <1>3, <1>4, <1>5, <1>6, Zenon DEF Next

\* ProfileTypeOK without the messages.
BookOK ==
  /\ identity \in BOOLEAN
  /\ DOMAIN contacts \subseteq Fingerprint
  /\ \A f \in DOMAIN contacts : contacts[f] \in Contact
  /\ chats \in Seq(Fingerprint \cup {"gone"}) /\ Len(chats) <= MaxChats

\* The part of RoutesResolve about chats.
ChatsResolve == \A c \in DOMAIN chats : chats[c] # "gone" => IsContact(chats[c])

(* An invite adds a contact, or changes one, and loses none.                 *)
LEMMA UpsertedContacts ==
  ASSUME ProfileTypeOK, NEW f \in Fingerprint, NEW r \in Route
  PROVE  /\ DOMAIN Upserted(f, r) = DOMAIN contacts \cup {f}
         /\ \A g \in DOMAIN Upserted(f, r) : Upserted(f, r)[g] \in Contact
<1>1. \A g \in DOMAIN contacts : contacts[g] \in Contact
  BY DEF ProfileTypeOK
<1>2. [route |-> r, previous |-> IF IsContact(f) THEN contacts[f].previous ELSE {}] \in Contact
  BY <1>1 DEF Contact, IsContact
<1> QED  BY <1>1, <1>2 DEF Upserted

(* Contacts and chats keep their types, and while there is no reset no       *)
(* contact is lost.                                                          *)
LEMMA CommandBook ==
  ASSUME ProfileTypeOK, Command
  PROVE  /\ BookOK'
         /\ ResetIdentity \/ DOMAIN contacts \subseteq DOMAIN contacts'
         /\ ChatsResolve => ChatsResolve'
<1>1. BookOK
  BY DEF ProfileTypeOK, BookOK
<1>2. ASSUME NEW f \in Fingerprint, NEW r \in Route, AddContact(f, r)
      PROVE  /\ BookOK' /\ DOMAIN contacts \subseteq DOMAIN contacts'
             /\ ChatsResolve => ChatsResolve'
  <2>1. contacts' = Upserted(f, r) /\ UNCHANGED <<identity, chats>>
    BY <1>2 DEF AddContact
  <2>2. /\ DOMAIN contacts' = DOMAIN contacts \cup {f}
        /\ \A g \in DOMAIN contacts' : contacts'[g] \in Contact
    BY <2>1, UpsertedContacts
  <2> QED  BY <1>1, <2>1, <2>2 DEF BookOK, ChatsResolve, IsContact
<1>3. ASSUME NEW old \in Fingerprint, NEW new \in Fingerprint, NEW r \in Route,
             UpdateContact(old, new, r)
      PROVE  /\ BookOK' /\ DOMAIN contacts \subseteq DOMAIN contacts'
             /\ ChatsResolve => ChatsResolve'
  <2> DEFINE u == Upserted(new, r)
  <2>1. /\ contacts' = [u EXCEPT ![old].previous = @ \cup {old}]
        /\ old \in DOMAIN contacts /\ UNCHANGED <<identity, chats>>
    BY <1>3 DEF UpdateContact, IsContact
  <2>2. /\ DOMAIN u = DOMAIN contacts \cup {new}
        /\ \A g \in DOMAIN u : u[g] \in Contact
    BY UpsertedContacts
  <2> HIDE DEF u
  <2> DEFINE row == [u[old] EXCEPT !.previous = @ \cup {old}]
  <2>3. row \in Contact
    BY <2>1, <2>2 DEF Contact
  <2>4. contacts' = [u EXCEPT ![old] = row]
    BY <2>1
  <2> HIDE DEF row
  <2>5. /\ DOMAIN contacts' = DOMAIN contacts \cup {new}
        /\ \A g \in DOMAIN contacts' : contacts'[g] \in Contact
    BY <2>2, <2>3, <2>4
  <2> QED  BY <1>1, <2>1, <2>5 DEF BookOK, ChatsResolve, IsContact
<1>4. ASSUME NEW f \in Fingerprint, CreateChat(f)
      PROVE  /\ BookOK' /\ DOMAIN contacts \subseteq DOMAIN contacts'
             /\ ChatsResolve => ChatsResolve'
  <2>1. /\ chats' = Append(chats, f) /\ UNCHANGED <<identity, contacts>>
        /\ IsContact(f) /\ Len(chats) < MaxChats
    BY <1>4 DEF CreateChat, MayCreateChat
  <2>2. chats \in Seq(Fingerprint \cup {"gone"}) /\ Len(chats) \in Nat
    BY <1>1 DEF BookOK
  <2>3. /\ chats' \in Seq(Fingerprint \cup {"gone"}) /\ Len(chats') = Len(chats) + 1
        /\ \A i \in 1..Len(chats) : chats'[i] = chats[i]
        /\ chats'[Len(chats) + 1] = f
    BY <2>1, <2>2, AppendProperties
  <2>4. DOMAIN chats' = DOMAIN chats \cup {Len(chats) + 1} /\ DOMAIN chats = 1..Len(chats)
    BY <2>2, <2>3, LenProperties
  <2>5. Len(chats') <= MaxChats
    BY <2>1, <2>2, <2>3, ProfileBounds
  <2> QED  BY <1>1, <2>1, <2>3, <2>4, <2>5 DEF BookOK, ChatsResolve, IsContact
<1>5. ASSUME NEW c \in DOMAIN chats, RefreshChatDestination(c)
      PROVE  /\ BookOK' /\ DOMAIN contacts \subseteq DOMAIN contacts'
             /\ ChatsResolve => ChatsResolve'
  <2>1. PICK f \in DOMAIN contacts : chats' = [chats EXCEPT ![c] = f]
    BY <1>5 DEF RefreshChatDestination
  <2>2. UNCHANGED <<identity, contacts>>
    BY <1>5 DEF RefreshChatDestination
  <2>3. /\ chats \in Seq(Fingerprint \cup {"gone"}) /\ c \in 1..Len(chats)
        /\ f \in Fingerprint \cup {"gone"}
    BY <1>1 DEF BookOK
  <2>4. /\ [chats EXCEPT ![c] = f] \in Seq(Fingerprint \cup {"gone"})
        /\ Len([chats EXCEPT ![c] = f]) = Len(chats)
        /\ \A j \in 1..Len(chats) :
             [chats EXCEPT ![c] = f][j] = IF j = c THEN f ELSE chats[j]
    BY <2>3, ExceptSeq
  <2>5. DOMAIN chats' = DOMAIN chats /\ DOMAIN chats = 1..Len(chats)
    BY <2>1, <2>3
  <2> QED  BY <1>1, <2>1, <2>2, <2>4, <2>5 DEF BookOK, ChatsResolve, IsContact
<1>6. CASE CreateIdentity
  BY <1>1, <1>6 DEF CreateIdentity, BookOK, ChatsResolve, IsContact
<1>7. CASE ResetIdentity
  <2>1. /\ chats' \in Seq(Fingerprint \cup {"gone"}) /\ Len(chats') = Len(chats)
        /\ \A c \in DOMAIN chats' : chats'[c] = "gone"
        /\ DOMAIN contacts' = {} /\ identity' = FALSE
    BY <1>7, ResetRows DEF ResetIdentity
  <2> QED  BY <1>1, <1>7, <2>1 DEF BookOK, ChatsResolve
<1> QED  BY <1>2, <1>3, <1>4, <1>5, <1>6, <1>7, Zenon
         DEF Command, ProfileCommand, CreateIdentity

-----------------------------------------------------------------------------
(* The rows after each effect *)

StatusBar == [m \in 1..MaxMessages |-> StatusOf(m)]
TryingBar == {m \in 1..MaxMessages : Held(m)}

(* The end of a send changes the status of its message, unless a reset has   *)
(* taken the message away.                                                   *)
LEMMA EndedRow ==
  ASSUME IInv, NEW x \in 1..MaxMessages, Held(x),
         NEW s \in {"queued", "failed", "delivered"}, messages' = StatusUpdated(x, s)
  PROVE  /\ messages' \in Seq(Message) /\ Len(messages') = Len(messages)
         /\ DOMAIN messages' = DOMAIN messages /\ x \in DOMAIN messages
         /\ \A m \in DOMAIN messages : messages'[m].destination = messages[m].destination
         /\ \A m \in 1..MaxMessages :
              StatusOf(m)' = IF m = x /\ StatusOf(x) # "gone" THEN s ELSE StatusOf(m)
<1>1. ProfileTypeOK /\ x \in DOMAIN messages /\ s \in Status
  BY DEF IInv, HeldInv, TypeOK, Status
<1>2. /\ messages' \in Seq(Message) /\ Len(messages') = Len(messages)
      /\ DOMAIN messages' = DOMAIN messages
      /\ \A i \in DOMAIN messages :
           /\ messages'[i].destination = messages[i].destination
           /\ messages'[i].status = IF i = x /\ Live(x) THEN s ELSE messages[i].status
  BY <1>1, StatusUpdatedRows
<1>3. Live(x) <=> StatusOf(x) # "gone"
  BY <1>1 DEF Live, StatusOf
<1> QED  BY <1>1, <1>2, <1>3 DEF StatusOf

(* A sent message is queued, and the others stay as they are.                *)
LEMMA SubmittedRow ==
  ASSUME IInv, Submits
  PROVE  /\ messages' \in Seq(Message) /\ Len(messages') = Len(messages) + 1
         /\ Len(messages) + 1 \in 1..MaxMessages
         /\ DOMAIN messages' = DOMAIN messages \cup {Len(messages) + 1}
         /\ \A m \in DOMAIN messages : messages'[m] = messages[m]
         /\ IsContact(messages'[Len(messages) + 1].destination)
         /\ StatusOf(Len(messages) + 1) = "unsent"
         /\ \A m \in 1..MaxMessages :
              StatusOf(m)' = IF m = Len(messages) + 1 THEN "queued" ELSE StatusOf(m)
<1>1. ProfileTypeOK /\ Len(messages) < MaxMessages
  BY DEF IInv, TypeOK, Submits
<1>2. PICK c \in DOMAIN chats :
        chats[c] # "gone" /\ IsContact(chats[c]) /\ messages' = Appended(c)
  BY DEF Submits
<1> DEFINE k == Len(messages) + 1
<1>3. /\ messages' \in Seq(Message) /\ Len(messages') = k
      /\ DOMAIN messages' = DOMAIN messages \cup {k}
      /\ \A m \in DOMAIN messages : messages'[m] = messages[m]
      /\ messages'[k] = [chat |-> c, destination |-> chats[c], status |-> "queued"]
  BY <1>1, <1>2, AppendedRows
<1>4. k \in 1..MaxMessages /\ k \notin DOMAIN messages
  BY <1>1, RowDomain, ProfileBounds
<1> HIDE DEF k
<1>5. messages'[k].destination = chats[c] /\ messages'[k].status = "queued"
  BY <1>3
<1>6. \A m \in 1..MaxMessages :
        StatusOf(m)' = IF m = k THEN "queued" ELSE StatusOf(m)
  BY <1>3, <1>4, <1>5 DEF StatusOf
<1> QED  BY <1>2, <1>3, <1>4, <1>5, <1>6 DEF StatusOf, k

LEMMA WipedRows ==
  ASSUME IInv, Wipes
  PROVE  /\ messages' \in Seq(Message) /\ Len(messages') = Len(messages)
         /\ DOMAIN messages' = DOMAIN messages
         /\ \A m \in DOMAIN messages : messages'[m].status = "gone"
         /\ \A m \in 1..MaxMessages :
              StatusOf(m)' = IF StatusOf(m) = "unsent" THEN "unsent" ELSE "gone"
<1>1. ProfileTypeOK /\ ResetIdentity
  BY DEF IInv, TypeOK, Wipes
<1>2. /\ messages' \in Seq(Message) /\ Len(messages') = Len(messages)
      /\ DOMAIN messages' = DOMAIN messages
      /\ \A m \in DOMAIN messages : messages'[m].status = "gone"
  BY <1>1, ResetRows
<1>3. \A m \in DOMAIN messages : messages[m].status # "unsent"
  BY <1>1, RowDomain DEF Message, Status
<1> QED  BY <1>2, <1>3 DEF StatusOf

-----------------------------------------------------------------------------
(* The invariant *)

LEMMA InitIInv == Init => IInv /\ RoutesResolve
<1> SUFFICES ASSUME Init PROVE IInv /\ RoutesResolve
  OBVIOUS
<1>1. << >> \in Seq(1..MaxMessages) /\ Len(<< >>) = 0 /\ DOMAIN << >> = {}
  BY EmptySeq
<1>2. ProfileTypeOK
  BY ProfileBounds, EmptySeq DEF Init, ProfileInit, ProfileTypeOK
<1>3. Unborn \in Tasks
  BY <1>1, ProfileBounds DEF Unborn, Tasks, Id, None
<1>4. Unborn.channel = << >> /\ \A m : HeldBy(Unborn, m) => m = None
  BY <1>1 DEF Unborn, HeldBy
<1>5. manager \in [Manager -> Tasks] /\ \A n \in Manager : manager[n] = Unborn
  BY <1>3 DEF Init
<1>6. TypeOK
  <2>1. Idle \in Caller /\ 0 \in 0..MaxManagers
    BY ProfileBounds, DeliveryBounds DEF Idle, Caller, Id, None
  <2>2. \A n \in Manager : Len(manager[n].channel) <= ChannelSize
    BY <1>1, <1>4, <1>5, DeliveryBounds
  <2>3. /\ txTo = 0 /\ spawned = 0 /\ caller = Idle /\ steady = FALSE
    BY DEF Init, None
  <2> QED  BY <1>2, <1>5, <2>1, <2>2, <2>3 DEF TypeOK
<1>7. ASSUME NEW m \in 1..MaxMessages, Held(m) PROVE FALSE
  BY <1>4, <1>5, <1>7, HeldBySome DEF Init, Idle, None
<1>8. messages = << >> /\ chats = << >> /\ caller = Idle
  BY DEF Init, ProfileInit
<1> QED  BY <1>1, <1>6, <1>7, <1>8 DEF IInv, HeldInv, Idle, RoutesResolve

LEMMA StepRows ==
  ASSUME IInv, Effect
  PROVE  /\ messages' \in Seq(Message) /\ Len(messages') <= MaxMessages
         /\ DOMAIN messages \subseteq DOMAIN messages'
         /\ \A m \in 1..MaxMessages : Held(m)' => m \in DOMAIN messages'
<1>1. /\ ProfileTypeOK /\ messages \in Seq(Message) /\ Len(messages) <= MaxMessages
      /\ \A m \in 1..MaxMessages : Held(m) => m \in DOMAIN messages
  BY DEF IInv, TypeOK, ProfileTypeOK, HeldInv
<1>2. CASE Nothing
  BY <1>1, <1>2 DEF Nothing
<1>3. CASE Resumes
  BY <1>1, <1>3 DEF Resumes, PendingOutbound
<1>4. CASE Submits
  BY <1>1, <1>4, SubmittedRow DEF Submits
<1>5. CASE Ends
  <2>1. PICK x \in 1..MaxMessages, ok \in BOOLEAN, failure \in {"queued", "failed"} :
          /\ Held(x)
          /\ messages' = StatusUpdated(x, IF ok THEN "delivered" ELSE failure)
          /\ \A m \in 1..MaxMessages : Held(m)' => Held(m)
    BY <1>5 DEF Ends
  <2>2. (IF ok THEN "delivered" ELSE failure) \in {"queued", "failed", "delivered"}
    OBVIOUS
  <2>3. /\ messages' \in Seq(Message) /\ Len(messages') = Len(messages)
        /\ DOMAIN messages' = DOMAIN messages
    BY <2>1, <2>2, EndedRow
  <2> QED  BY <1>1, <2>1, <2>3
<1>6. CASE Wipes
  BY <1>1, <1>6, WipedRows DEF Wipes
<1> QED  BY <1>2, <1>3, <1>4, <1>5, <1>6 DEF Effect

LEMMA StepIInv ==
  ASSUME IInv, [Next]_vars
  PROVE  IInv'
<1>1. Effect /\ TasksOK'
  BY StepEffect
<1>2. /\ messages' \in Seq(Message) /\ Len(messages') <= MaxMessages
      /\ DOMAIN messages' = 1..Len(messages') /\ Len(messages') \in Nat
      /\ \A m \in 1..MaxMessages : Held(m)' => m \in DOMAIN messages'
  BY <1>1, StepRows, LenProperties
<1>3. BookOK'
  <2>1. ProfileTypeOK
    BY DEF IInv, TypeOK
  <2>2. CASE Command
    BY <2>1, <2>2, CommandBook
  <2>3. CASE UNCHANGED <<identity, contacts, chats>>
    BY <2>1, <2>3 DEF ProfileTypeOK, BookOK
  <2> QED  BY <2>2, <2>3, OnlyCommands
<1>4. TypeOK'
  BY <1>1, <1>2, <1>3 DEF TypeOK, ProfileTypeOK, BookOK, TasksOK
<1>5. caller'.at # "idle" => caller'.message \in DOMAIN messages'
  <2> SUFFICES ASSUME caller'.at # "idle" PROVE caller'.message \in DOMAIN messages'
    OBVIOUS
  <2>1. caller'.message \in 1..MaxMessages
    BY <1>1, ProfileBounds DEF TasksOK, Caller, Id, None
  <2> QED  BY <1>2, <2>1, HeldBySomeNext
<1>6. HeldInv'
  BY <1>1, <1>2, <1>5 DEF HeldInv, TasksOK
<1> QED  BY <1>4, <1>6 DEF IInv

(* Whatever the commands, managers and crashes do, types are kept, the       *)
(* channel's bound among them.                                               *)
THEOREM TypeCorrect == Spec => []TypeOK
<1>1. IInv /\ [Next]_vars => IInv'
  BY StepIInv
<1>2. IInv => TypeOK
  BY DEF IInv
<1> QED  BY <1>1, <1>2, InitIInv, PTL DEF Spec

-----------------------------------------------------------------------------
(* Delivery *)

(* A result that comes after the reset does not bring a message back.        *)
THEOREM WipedForGood == Spec => GoneStaysGone
<1>1. IInv /\ [Next]_vars => IInv'
  BY StepIInv
<1>2. ASSUME IInv, [Next]_vars, NEW m \in DOMAIN messages, StatusOf(m) = "gone"
      PROVE  StatusOf(m)' = "gone"
  <2>1. m \in 1..MaxMessages /\ Effect
    BY <1>2, RowDomain, StepEffect DEF IInv, TypeOK
  <2>2. CASE Nothing \/ Resumes
    BY <1>2, <2>2 DEF Nothing, Resumes, StatusOf
  <2>3. CASE Submits
    <3>1. StatusOf(m)' = IF m = Len(messages) + 1 THEN "queued" ELSE StatusOf(m)
      BY <1>2, <2>1, <2>3, SubmittedRow
    <3>2. StatusOf(Len(messages) + 1) = "unsent"
      BY <1>2, <2>3, SubmittedRow
    <3> QED  BY <1>2, <3>1, <3>2
  <2>4. CASE Ends
    <3>1. PICK x \in 1..MaxMessages, ok \in BOOLEAN, failure \in {"queued", "failed"} :
            /\ Held(x)
            /\ messages' = StatusUpdated(x, IF ok THEN "delivered" ELSE failure)
      BY <2>4 DEF Ends
    <3> DEFINE s == IF ok THEN "delivered" ELSE failure
    <3>2. s \in {"queued", "failed", "delivered"}
      OBVIOUS
    <3> HIDE DEF s
    <3>3. StatusOf(m)' = IF m = x /\ StatusOf(x) # "gone" THEN s ELSE StatusOf(m)
      BY <1>2, <2>1, <3>1, <3>2, EndedRow DEF s
    <3> QED  BY <1>2, <3>3
  <2>5. CASE Wipes
    BY <1>2, <2>1, <2>5, WipedRows
  <2> QED  BY <2>1, <2>2, <2>3, <2>4, <2>5 DEF Effect
<1>3. IInv /\ [Next]_vars =>
        [\A m \in DOMAIN messages : StatusOf(m) = "gone" => StatusOf(m)' = "gone"]_vars
  BY <1>2
<1> QED  BY <1>1, <1>3, InitIInv, PTL DEF Spec, GoneStaysGone

-----------------------------------------------------------------------------
(* Contacts, chats and messages *)

LEMMA StepResolve ==
  ASSUME IInv, RoutesResolve, [Next]_vars
  PROVE  RoutesResolve'
<1>1. ProfileTypeOK
  BY DEF IInv, TypeOK
<1>2. ChatsResolve' /\ (ResetIdentity \/ DOMAIN contacts \subseteq DOMAIN contacts')
  <2>1. ChatsResolve
    BY DEF RoutesResolve, ChatsResolve
  <2>2. CASE Command
    BY <1>1, <2>1, <2>2, CommandBook
  <2>3. CASE UNCHANGED <<identity, contacts, chats>>
    BY <2>1, <2>3 DEF ChatsResolve, IsContact
  <2> QED  BY <2>2, <2>3, OnlyCommands
<1>3. CASE ResetIdentity
  <2>1. \A m \in DOMAIN messages' : messages'[m].status = "gone"
    BY <1>1, <1>3, ResetRows
  <2> QED  BY <1>2, <2>1 DEF RoutesResolve, ChatsResolve, Live
<1>4. CASE DOMAIN contacts \subseteq DOMAIN contacts'
  <2> DEFINE Found(m) == Live(m) => IsContact(messages[m].destination)
  <2> SUFFICES ASSUME NEW m \in DOMAIN messages' PROVE Found(m)'
    BY <1>2 DEF RoutesResolve, ChatsResolve
  <2>1. m \in DOMAIN messages => Found(m)
    BY DEF RoutesResolve
  <2>2. \A f : IsContact(f) => IsContact(f)'
    BY <1>4 DEF IsContact
  <2>3. CASE Nothing \/ Resumes
    BY <2>1, <2>2, <2>3 DEF Nothing, Resumes, Live
  <2>4. CASE Submits
    <3>1. messages'[Len(messages) + 1].destination \in DOMAIN contacts'
      BY <1>4, <2>4, SubmittedRow DEF IsContact
    <3>2. /\ m \in DOMAIN messages \/ m = Len(messages) + 1
          /\ m \in DOMAIN messages => messages'[m] = messages[m]
      BY <2>4, SubmittedRow
    <3> QED  BY <2>1, <2>2, <3>1, <3>2 DEF Live, IsContact
  <2>5. CASE Ends
    <3>1. PICK x \in 1..MaxMessages, ok \in BOOLEAN, failure \in {"queued", "failed"} :
            /\ Held(x)
            /\ messages' = StatusUpdated(x, IF ok THEN "delivered" ELSE failure)
      BY <2>5 DEF Ends
    <3> DEFINE s == IF ok THEN "delivered" ELSE failure
    <3>2. s \in {"queued", "failed", "delivered"}
      OBVIOUS
    <3> HIDE DEF s
    <3>3. /\ m \in DOMAIN messages /\ m \in 1..MaxMessages
          /\ messages'[m].destination = messages[m].destination
          /\ StatusOf(m)' = IF m = x /\ StatusOf(x) # "gone" THEN s ELSE StatusOf(m)
      BY <1>1, <3>1, <3>2, EndedRow, RowDomain DEF s
    <3>4. Live(m)' => Live(m)
      BY <3>2, <3>3 DEF Live, StatusOf
    <3> QED  BY <2>1, <2>2, <3>3, <3>4
  <2>6. CASE Wipes
    BY <2>6, WipedRows DEF Live
  <2> QED  BY <2>3, <2>4, <2>5, <2>6, StepEffect DEF Effect
<1> QED  BY <1>2, <1>3, <1>4

(* Chats and live messages always find their contact.                        *)
THEOREM ContactsAreFound == Spec => []RoutesResolve
<1>1. IInv /\ [Next]_vars => IInv'
  BY StepIInv
<1>2. IInv /\ RoutesResolve /\ [Next]_vars => RoutesResolve'
  BY StepResolve
<1> QED  BY <1>1, <1>2, InitIInv, PTL DEF Spec

-----------------------------------------------------------------------------
(* The shell implements MessageOutbox *)

LEMMA BarPending ==
  ASSUME IInv
  PROVE  /\ PendingOutbound \in SUBSET (1..MaxMessages)
         /\ PendingOutbound \subseteq Outbox!Pending
<1>1. PendingOutbound \in SUBSET (1..MaxMessages)
  BY RowDomain DEF PendingOutbound, IInv, TypeOK
<1> QED  BY <1>1 DEF PendingOutbound, Outbox!Pending, StatusOf

LEMMA BarStep ==
  ASSUME IInv, [Next]_vars
  PROVE  [Outbox!OutboxNext]_(Outbox!outboxVars)
<1>1. Effect
  BY StepEffect
<1>2. ASSUME messages' = messages PROVE StatusBar' = StatusBar
  BY <1>2 DEF StatusBar, StatusOf
<1>3. CASE Nothing
  <2>1. StatusBar' = StatusBar
    BY <1>2, <1>3 DEF Nothing
  <2>2. TryingBar' = TryingBar \ (TryingBar \ TryingBar')
    BY <1>3 DEF Nothing, TryingBar
  <2>3. TryingBar \ TryingBar' \in SUBSET (1..MaxMessages)
    BY DEF TryingBar
  <2>4. Outbox!GiveUp(TryingBar \ TryingBar')
    BY <2>1, <2>2 DEF Outbox!GiveUp, StatusBar, TryingBar
  <2> QED  BY <2>3, <2>4 DEF Outbox!OutboxNext
<1>4. CASE Resumes
  <2>1. StatusBar' = StatusBar
    BY <1>2, <1>4 DEF Resumes
  <2>2. TryingBar' = TryingBar \cup PendingOutbound
    BY <1>4, BarPending DEF Resumes, TryingBar
  <2>3. Outbox!Resume(PendingOutbound)
    BY <2>1, <2>2, BarPending DEF Outbox!Resume, StatusBar, TryingBar
  <2> QED  BY <2>3, BarPending DEF Outbox!OutboxNext
<1>5. CASE Submits
  <2> DEFINE k == Len(messages) + 1
  <2>1. /\ k \in 1..MaxMessages /\ StatusOf(k) = "unsent"
        /\ \A m \in 1..MaxMessages :
             StatusOf(m)' = IF m = k THEN "queued" ELSE StatusOf(m)
    BY <1>5, SubmittedRow
  <2>2. \A m \in 1..MaxMessages : Held(m)' <=> Held(m) \/ m = k
    BY <1>5 DEF Submits
  <2> HIDE DEF k
  <2>3. Outbox!Shown(k, "queued")
    BY <2>1 DEF Outbox!Shown
  <2>4. TryingBar' = TryingBar \cup {k}
    BY <2>1, <2>2 DEF TryingBar
  <2>5. Outbox!Submit(k)
    BY <2>1, <2>2, <2>3, <2>4 DEF Outbox!Submit, TryingBar
  <2> QED  BY <2>1, <2>5 DEF Outbox!OutboxNext
<1>6. CASE Ends
  <2>1. PICK x \in 1..MaxMessages, ok \in BOOLEAN, failure \in {"queued", "failed"} :
          /\ Held(x)
          /\ messages' = StatusUpdated(x, IF ok THEN "delivered" ELSE failure)
          /\ \A m \in 1..MaxMessages :
               (Held(m)' => Held(m)) /\ (Held(m) /\ m # x => Held(m)')
    BY <1>6 DEF Ends
  <2> DEFINE s == IF ok THEN "delivered" ELSE failure
  <2>2. s \in {"queued", "failed", "delivered"}
    OBVIOUS
  <2>3. (ok => s = "delivered") /\ (~ok => s \in {"queued", "failed"})
    OBVIOUS
  <2> HIDE DEF s
  <2>4. \A m \in 1..MaxMessages :
          StatusOf(m)' = IF m = x /\ StatusOf(x) # "gone" THEN s ELSE StatusOf(m)
    BY <2>1, <2>2, EndedRow DEF s
  <2>5. Outbox!Shown(x, s)
    BY <2>4 DEF Outbox!Shown
  <2>6. TryingBar' \in {TryingBar, TryingBar \ {x}}
    BY <2>1 DEF TryingBar
  <2>7. CASE ok
    <3>1. Outbox!Succeed(x)
      BY <2>1, <2>3, <2>5, <2>6, <2>7 DEF Outbox!Succeed, TryingBar
    <3> QED  BY <3>1 DEF Outbox!OutboxNext
  <2>8. CASE ~ok
    <3>1. Outbox!Fail(x)
      BY <2>1, <2>3, <2>5, <2>6, <2>8 DEF Outbox!Fail, TryingBar
    <3> QED  BY <3>1 DEF Outbox!OutboxNext
  <2> QED  BY <2>7, <2>8
<1>7. CASE Wipes
  <2>1. \A m \in 1..MaxMessages :
          StatusOf(m)' = IF StatusOf(m) = "unsent" THEN "unsent" ELSE "gone"
    BY <1>7, WipedRows
  <2>2. TryingBar' = TryingBar
    BY <1>7 DEF Wipes, TryingBar
  <2>3. Outbox!Wipe
    BY <2>1, <2>2 DEF Outbox!Wipe, TryingBar
  <2> QED  BY <2>3 DEF Outbox!OutboxNext
<1> QED  BY <1>1, <1>3, <1>4, <1>5, <1>6, <1>7 DEF Effect

LEMMA BarInit ==
  ASSUME Init
  PROVE  Outbox!OutboxInit
<1>1. IInv /\ messages = << >> /\ caller = Idle
  BY InitIInv DEF Init, ProfileInit
<1>2. \A m \in 1..MaxMessages : m \notin DOMAIN messages
  BY <1>1
<1>3. \A m \in 1..MaxMessages : ~Held(m) /\ StatusOf(m) = "unsent"
  BY <1>1, <1>2 DEF IInv, HeldInv, StatusOf
<1> QED  BY <1>1, <1>3 DEF Outbox!OutboxInit

(* Senders, channels, snapshots and crashes implement the outbox: what is    *)
(* delivered and let go of is not sent again, and what is wiped stays wiped. *)
THEOREM ShellImplementsOutbox == Spec => OutboxSpec
<1>1. IInv /\ [Next]_vars => IInv'
  BY StepIInv
<1>2. IInv /\ [Next]_vars => [Outbox!OutboxNext]_(Outbox!outboxVars)
  BY BarStep
<1>3. Init => IInv
  BY InitIInv
<1>4. Init => Outbox!OutboxInit
  BY BarInit
<1> QED  BY <1>1, <1>2, <1>3, <1>4, PTL DEF Spec, OutboxSpec, Outbox!OutboxSpec
=============================================================================

--------------------------- MODULE ShellDelivery ---------------------------
(***************************************************************************)
(* The delivery of outgoing messages in the desktop shell: send_message,   *)
(* start_client and stop_client of src-tauri/src/commands.rs, the Tor      *)
(* manager of tor_manager.rs with its bounded command channel, main loop   *)
(* and retry loop, and the LAN fall-back of transport.rs, all working on   *)
(* the messages of one ProfileStore.                                       *)
(*                                                                         *)
(* Commands are synchronous and run one after the other on the main        *)
(* thread; the manager's tasks run beside them and meet them only at the   *)
(* store's lock.  A send over the network ends, and its result is stored,  *)
(* in one step: the sender's state between the two is its own.  A send over *)
(* Tor is reported as delivered once the frame is written and the stream    *)
(* shut down: no answer is awaited, and the receiving manager may drop what *)
(* it reads.  Whether the bytes arrive is not part of the model.            *)
(***************************************************************************)
EXTENDS ProfileStore

CONSTANTS MaxManagers,   \* bound: managers spawned
          ChannelSize    \* capacity of the command channel (64 in the code)

Manager == 1..MaxManagers
None    == 0             \* no message, no manager

Id == 0..MaxMessages

ASSUME DeliveryBounds == MaxManagers \in Nat /\ ChannelSize \in Nat

VARIABLES
  txTo,       \* the manager whose sender AppState.tor_tx holds
  spawned,    \* managers spawned so far
  manager,    \* per manager, its tasks
  caller,     \* the send_message call in progress
  steady      \* every send that ends now ends well

tasks == <<txTo, spawned, manager, caller>>
vars  == <<profile, tasks, steady>>

Tasks == [phase     : {"unborn", "booting", "running", "ended"},
          channel   : Seq(1..MaxMessages),     \* commands not yet received
          sending   : Id,                      \* the main loop's handle_send
          looping   : BOOLEAN,                 \* the retry task exists
          todo      : SUBSET (1..MaxMessages), \* rest of the retry snapshot
          resending : Id]                      \* the retry loop's handle_send

Caller == [at : {"idle", "appended", "lan"}, message : Id]

TypeOK ==
  /\ ProfileTypeOK
  /\ txTo \in 0..MaxManagers
  /\ spawned \in 0..MaxManagers
  /\ manager \in [Manager -> Tasks]
  /\ \A n \in Manager : Len(manager[n].channel) <= ChannelSize
  /\ caller \in Caller
  /\ steady \in BOOLEAN

Unborn == [phase |-> "unborn", channel |-> << >>, sending |-> None,
           looping |-> FALSE, todo |-> {}, resending |-> None]
Idle   == [at |-> "idle", message |-> None]

Init ==
  /\ ProfileInit
  /\ txTo = None
  /\ spawned = 0
  /\ manager = [n \in Manager |-> Unborn]
  /\ caller = Idle
  /\ steady = FALSE

-----------------------------------------------------------------------------
(* The outcome of a send *)

Concluded(m, ok, failure) ==
  StatusUpdated(m, IF ok THEN "delivered" ELSE failure)

Conclude(m, failure) ==
  \E ok \in BOOLEAN :
    /\ steady => ok
    /\ messages' = Concluded(m, ok, failure)
    /\ UNCHANGED <<identity, contacts, chats, steady>>

-----------------------------------------------------------------------------
(* Commands, on the main thread *)

MainThreadFree == caller.at = "idle"

Command ==
  /\ MainThreadFree
  /\ ProfileCommand
  /\ UNCHANGED <<tasks, steady>>

SendMessage(c) ==
  /\ MainThreadFree
  /\ chats[c] # "gone"
  /\ IsContact(chats[c])
  /\ Len(messages) < MaxMessages
  /\ messages' = Appended(c)
  /\ caller' = [at |-> "appended", message |-> Len(messages) + 1]
  /\ UNCHANGED <<identity, contacts, chats, txTo, spawned, manager, steady>>

\* Mutant of Accepts: the channel has no bound.
AcceptsAny(n) == n # None /\ manager[n].phase \in {"booting", "running"}

\* try_send succeeds while the receiver exists and the channel has room.
Accepts(n) ==
  /\ n # None
  /\ manager[n].phase \in {"booting", "running"}
  /\ Len(manager[n].channel) < ChannelSize

DispatchToTor ==
  /\ caller.at = "appended"
  /\ HasRoute(messages[caller.message].destination, "onion")
  /\ Accepts(txTo)
  /\ manager' = [manager EXCEPT ![txTo].channel = Append(@, caller.message)]
  /\ caller' = Idle
  /\ UNCHANGED <<profile, txTo, spawned, steady>>

FallBackToLan ==
  /\ caller.at = "appended"
  /\ ~ /\ HasRoute(messages[caller.message].destination, "onion")
       /\ Accepts(txTo)
  /\ caller' = [caller EXCEPT !.at = "lan"]
  /\ UNCHANGED <<profile, txTo, spawned, manager, steady>>

\* attempt_delivery gives up without an identity, before it looks at the route.
LanWithoutIdentity == ~identity /\ UNCHANGED <<profile, steady>>

LanWithoutEndpoint ==
  /\ identity
  /\ ~HasRoute(messages[caller.message].destination, "endpoint")
  /\ messages' = StatusUpdated(caller.message, "queued")
  /\ UNCHANGED <<identity, contacts, chats, steady>>

\* No answer leaves the message queued, a refusal makes it failed.
LanAnswer ==
  /\ identity
  /\ HasRoute(messages[caller.message].destination, "endpoint")
  /\ \E failure \in {"queued", "failed"} : Conclude(caller.message, failure)

LanDelivery ==
  /\ caller.at = "lan"
  /\ LanWithoutIdentity \/ LanWithoutEndpoint \/ LanAnswer
  /\ caller' = Idle
  /\ UNCHANGED <<txTo, spawned, manager>>

StartClient ==
  /\ MainThreadFree
  /\ txTo = None
  /\ spawned < MaxManagers
  /\ spawned' = spawned + 1
  /\ txTo' = spawned + 1
  /\ manager' = [manager EXCEPT ![spawned + 1].phase = "booting"]
  /\ UNCHANGED <<profile, caller, steady>>

\* Only the sender is dropped.
StopClient ==
  /\ MainThreadFree
  /\ txTo' = None
  /\ UNCHANGED <<profile, spawned, manager, caller, steady>>

-----------------------------------------------------------------------------
(* The tasks of manager n *)

\* The receiver goes away with its run(), and what is in the channel with it.
Ended(t) == [t EXCEPT !.phase = "ended", !.channel = << >>]

BootFails(n) ==
  /\ manager[n].phase = "booting"
  /\ manager' = [manager EXCEPT ![n] = Ended(@)]
  /\ UNCHANGED <<profile, txTo, spawned, caller, steady>>

Boots(n) ==
  /\ manager[n].phase = "booting"
  /\ manager' = [manager EXCEPT ![n].phase = "running", ![n].looping = TRUE]
  /\ UNCHANGED <<profile, txTo, spawned, caller, steady>>

AtSelect(n) == manager[n].phase = "running" /\ manager[n].sending = None

ReceiveCommand(n) ==
  /\ AtSelect(n)
  /\ manager[n].channel # << >>
  /\ manager' = [manager EXCEPT ![n].channel = Tail(@),
                                ![n].sending = Head(manager[n].channel)]
  /\ UNCHANGED <<profile, txTo, spawned, caller, steady>>

FinishSend(n) ==
  /\ manager[n].sending # None
  /\ Conclude(manager[n].sending, "queued")
  /\ manager' = [manager EXCEPT ![n].sending = None]
  /\ UNCHANGED <<txTo, spawned, caller>>

\* recv() ends only when the sender is dropped and the channel is empty.
ChannelCloses(n) ==
  /\ AtSelect(n)
  /\ txTo # n
  /\ manager[n].channel = << >>
  /\ manager' = [manager EXCEPT ![n] = Ended(@)]
  /\ UNCHANGED <<profile, txTo, spawned, caller, steady>>

InboundStreamEnds(n) ==
  /\ AtSelect(n)
  /\ manager' = [manager EXCEPT ![n] = Ended(@)]
  /\ UNCHANGED <<profile, txTo, spawned, caller, steady>>

\* The chats are iterated in no fixed order, so the snapshot is a set.
RetryPending(n) ==
  /\ manager[n].looping
  /\ manager[n].todo = {} /\ manager[n].resending = None
  /\ manager' = [manager EXCEPT ![n].todo = PendingOutbound]
  /\ UNCHANGED <<profile, txTo, spawned, caller, steady>>

\* The address is looked up now; a message without one is skipped.
RetryNext(n) ==
  /\ manager[n].resending = None
  /\ \E m \in manager[n].todo :
       manager' = [manager EXCEPT
         ![n].todo = @ \ {m},
         ![n].resending =
            IF HasRoute(messages[m].destination, "onion") THEN m ELSE None]
  /\ UNCHANGED <<profile, txTo, spawned, caller, steady>>

FinishRetry(n) ==
  /\ manager[n].resending # None
  /\ Conclude(manager[n].resending, "queued")
  /\ manager' = [manager EXCEPT ![n].resending = None]
  /\ UNCHANGED <<txTo, spawned, caller>>

-----------------------------------------------------------------------------
(* The process dies, and starts again on the saved profile. *)
Crash ==
  /\ txTo' = None
  /\ manager' = [n \in Manager |->
                   IF n <= spawned THEN Ended(Unborn) ELSE Unborn]
  /\ caller' = Idle
  /\ UNCHANGED <<profile, spawned, steady>>

\* Until then a send may end either way, so one change is enough.
NetworkSettles ==
  /\ steady' = TRUE
  /\ UNCHANGED <<profile, tasks>>

Next ==
  \/ Command
  \/ \E c \in DOMAIN chats : SendMessage(c)
  \/ DispatchToTor
  \/ FallBackToLan
  \/ LanDelivery
  \/ StartClient
  \/ StopClient
  \/ \E n \in Manager : BootFails(n) \/ Boots(n)
  \/ \E n \in Manager : ReceiveCommand(n) \/ FinishSend(n)
  \/ \E n \in Manager : ChannelCloses(n) \/ InboundStreamEnds(n)
  \/ \E n \in Manager : RetryPending(n) \/ RetryNext(n) \/ FinishRetry(n)
  \/ Crash
  \/ NetworkSettles

(* A call that was begun and a task that is running go on, and a send ends.  *)
(* Nobody has to call a command, no manager has to boot.                     *)
Fairness ==
  /\ WF_vars(DispatchToTor \/ FallBackToLan \/ LanDelivery)
  /\ \A n \in Manager : WF_vars(ReceiveCommand(n) \/ FinishSend(n))
  /\ \A n \in Manager : WF_vars(RetryPending(n) \/ RetryNext(n) \/ FinishRetry(n))

Spec == Init /\ [][Next]_vars /\ Fairness

-----------------------------------------------------------------------------
(* Properties *)

StatusOf(m) == IF m \in DOMAIN messages THEN messages[m].status ELSE "unsent"

\* Somebody can still change the status of m: a call, a command, a loop.
Held(m) ==
  \/ caller.message = m
  \/ \E n \in Manager :
       \/ m \in {manager[n].channel[i] : i \in DOMAIN manager[n].channel}
       \/ m \in {manager[n].sending, manager[n].resending} \cup manager[n].todo

(* A late result of a send that was under way when the profile was reset     *)
(* does not bring the message back.                                          *)
GoneStaysGone ==
  [][\A m \in DOMAIN messages :
       StatusOf(m) = "gone" => StatusOf(m)' = "gone"]_vars

(* The shell implements MessageOutbox.  Two senders may hold one message,    *)
(* and a late failure of the one overwrites the success of the other; but    *)
(* whatever main loop, retry loops, fall-back, rotations, resets and crashes *)
(* do between each other, once nobody holds a delivered message nobody takes *)
(* it up again (retry_pending_messages), and nobody brings back a wiped one. *)
Outbox == INSTANCE MessageOutbox WITH
  Outgoing <- 1..MaxMessages,
  status <- [m \in 1..MaxMessages |-> StatusOf(m)],
  trying <- {m \in 1..MaxMessages : Held(m)}

OutboxSpec == Outbox!OutboxSpec

Retryable(m, routes) ==
  /\ steady
  /\ \E n \in Manager : manager[n].looping
  /\ m \in DOMAIN messages
  /\ \E r \in routes : HasRoute(messages[m].destination, r)

Settled(m) == StatusOf(m) \in {"delivered", "gone"}

(* If from some time on sends succeed, some retry task lives and the         *)
(* contact has an onion address, then a message ends up delivered for good,  *)
(* even if its command was dropped with a dying manager, its channel was     *)
(* full, the client was stopped or the process was restarted before.         *)
EventuallyDelivered ==
  \A m \in 1..MaxMessages :
    <>[]Retryable(m, {"onion"}) => <>[]Settled(m)

(* send_message logs every message as queued "for durable delivery": the     *)
(* same holds for a contact that has a LAN endpoint and no onion address.    *)
DurableDelivery ==
  \A m \in 1..MaxMessages :
    <>[]Retryable(m, {"onion", "endpoint"}) => <>[]Settled(m)
=============================================================================

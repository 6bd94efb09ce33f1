# Shadowgram: TLA+ models, checks and proofs

This directory models the message paths of Shadowgram (a metadata-resistant
messenger in Rust: `src/crates/*`, desktop shell in `src/src-tauri`), checks the
models with TLC on small instances and proves what matters most with TLAPS for
every instance. `PROJECT.json` lists the runs, the source lines behind every
definition, the hazards, the findings and the theorems.

## 1. Inventory

| Component (code) | State it keeps | Operations | What is hard | What makes it correct |
|---|---|---|---|---|
| Direct sessions (`messenger/client.rs`, `storage/database.rs`, `crypto/key_exchange.rs`) | `SessionStore`: session per peer (two keys, send counter, replay set), pending initiator keypair per peer, stack of pending responses; rows of `messages` | `initiate_key_exchange`, `respond_key_exchange`, `handle_key_exchange`, `send_message`, `handle_incoming_message`, `persist_message` | handshakes that cross or repeat, stale responses, lost / duplicated / late envelopes, failing inserts, restart with an empty store over old rows | no nonce reuse, keys shared by exactly two ends, at-most-once acceptance, history = what was reported |
| Life cycle (`client.rs`) | started / stopped, open database, active identity, `master.key` | `start`, `stop`, `create_identity`, `load_identity`, `rotate_identity`, `wipe_local_data`, `ensure_storage_key` | two-statement updates, check-then-write of the key file, order of `start` and `create_identity` | one active identity to come back to, a wiped key never serves again, one key per database |
| Mailbox and outbound queue (`network/mailbox.rs`, outbox of `storage/database.rs`) | relay slots per recipient; queue of (envelope, attempts, retry-after, expiry); `pending_outbox` rows | store, retrieve, acknowledge, sweep; enqueue, next_due, record_success / record_failure, sweep, reload | lost answers, late requests, crash between queue and table, expiry boundaries, full slots | an unexpired envelope is never lost by the sender, a slot never holds two copies, back-off is bounded |
| Groups (`messenger/group.rs`) | members, epoch, root secret, pending commits, bounded replay set, outgoing sequence | add / remove member, update keys, process commit, encrypt, decrypt | order of commits, leave and rejoin, replay set at its limit, partly failing remove | one history of epochs, a member who left is out, no replay inside the window |
| Desktop shell (`src-tauri`: `commands.rs`, `tor_manager.rs`, `transport.rs`, `profile.rs`) | profile store with a status per message, bounded command channel, Tor main loop, retry loop | send, start / stop client, main loop, retry pass, upsert contact, reset | several senders of one message, snapshots, tasks that outlive their manager, bounded channel | no late result brings a wiped message back, every message that can be sent ends up delivered, chats and messages find their contact |
| Encrypted cache (`storage/encrypted_cache.rs`) | entries map and clean-up time, each under a lock | get, set, cleanup, remove, clear | order of locks, expiry and eviction together | no self-deadlock, only the oldest entry makes room |
| Ratchet, AEAD, KDF (`crypto`, driven by `messenger/chat.rs`) | root and chain keys, counters, skipped keys | encrypt, decrypt, skip, DH step | counter arithmetic, out-of-order messages, headers nobody authenticates | each message key encrypts once |
| Noise channel (`network/noise.rs`) | handshake state, two nonces, rekey counters | handshake, encrypt, decrypt, rekey | lost, repeated and crossed packets over bare counters | what is read is a prefix of what was sent |
| Cover traffic, mixnet, padding, relay pool (`network`) | the one message made ahead, the mix queue and batch, fragments, relays with their statistics | start, stop, next message; queue, batch; pad, fragment, reassemble; add, record, choose | the generator's single slot, a batch dropped in its delay, missing fragments, averages of results that come late | cover messages rise in sequence and keep coming (they do not: section 7), order is kept but for a batch, sizes tell nothing |
| Tor, onion service, DHT, transports (`network`) | handles of external libraries; known peers, discovery cache, transports | connect, send, publish, look up, frame | damaged frames; a cache that is asked before the network | decoding gives what was sent or an error |
| Identity, pairwise, threshold, QR (`identity`) | key material, transition map, shares | generate, seal, open, rotate, split, combine | a clock set back, field arithmetic, shares of one device twice | due means warned, shares recombine |
| Contacts, chat, sync, PSI, message formats (`messenger`) | in-memory maps beside the contacts table, sync queue | add, remove, intersect, queue, encode | two writes under two locks | memory and table agree, encodings round-trip |
| Stub backend, fuzz target, user interface | none | forwarding | none | - |

How they interact. The shell's Tauri commands call the messenger client and, by
the bounded channel, the Tor manager. The client calls the crypto crate for the
exchange and the AEAD and writes through the storage crate; it hands encoded
envelopes back to its caller, which brings them to the network. The mailbox and
the outbound queue are a library beside this path: in this repository only the
outbox table and its callers connect them. Shared state is the `SessionStore`
behind a lock, the database connection behind another, the profile store behind
a third. Callbacks are the Tor manager's inbound handler and the replies on its
command channel.

The hazards, each with its line, are in `PROJECT.json`.

## 2. Plan

| # | Module | Models | Composes / implements | State |
|---|---|---|---|---|
| 1 | `SecureChannel` | abstract at-most-once channel | - | done |
| 1 | `DirectSession`, `MCDirectSession`, `DirectSession_proofs` | direct sessions end to end | implements `SecureChannel` | checked and proved |
| 2 | `MessageOutbox` | abstract status of an outgoing message | - | done |
| 2 | `ProfileStore`, `ShellDelivery`, `MCShellDelivery`, `ShellDelivery_proofs` | profile commands; message status under main loop, retry loops, fall-back | `ShellDelivery` extends `ProfileStore`, implements `MessageOutbox` | checked and proved |
| 3 | `LetterStore` | abstract fate of a letter: kept until handed out or expired | - | done |
| 3 | `Mailbox`, `MailboxRetries`, `MCMailbox`, `Mailbox_proofs` | queue, table, relay slots, lossy requests; the times of the requests | `Mailbox` implements `LetterStore`, `MailboxRetries` adds histories to it | checked and proved |
| 4 | `Group`, `MCGroup`, `Group_proofs` | members, epochs, commits, replay window | - | checked and proved |
| 5 | `ClientLifecycle`, `MCClientLifecycle`, `ClientLifecycle_proofs` | start / stop, identities, rotation, wipe, key file | - | checked and proved |
| 6 | `EncryptedCache`, `NoiseChannel`, `DoubleRatchet`, `CoverTraffic`, `Mixnet`, `RelayPool`, `PeerDiscovery`, `WireFormats`, `Padding`, `ContactBook`, `IdentityVault`, `SecretSharing` | the library components, one module each | composed for TLC by `MCLibraries` | checked; proved in `Libraries_proofs` and, for `SecretSharing`, `SecretSharing_proofs` |
| 7 | `NaturalLemmas` | least numbers, induction, recursive functions | used by the proofs of 3 to 6 | proved |

The plan is carried out: every property of a passing run is stated by a theorem, but for
the one about liveness.

## 3. Modules and code

### DirectSession

A client is an identity with its process. The variables are the maps of
`SessionStore` (`pendingInitiators`, `pendingResponses`, `sessions`), the state
of the database (`store`) and its `messages` rows (`rows`); the transport is the
set of every envelope that ever left (`initiations`, `replies`, `ciphertexts`).
Reading an envelope does not remove it, so losing, repeating and reordering
envelopes need no actions. Two history variables record what was reported as
received.

| Action | Code |
|---|---|
| `Initiate` | `initiate_key_exchange` |
| `HandleInitiation`, `HandleResponse` | `handle_key_exchange`, by message type |
| `RejectResponse` | a response whose keys do not parse: the pending keypair is gone, no session is made |
| `Respond` | `respond_key_exchange` |
| `Send` | `send_message`, with `persist_message` |
| `Accept`, `RejectUndecryptable`, `RejectUnstorable` | the three ends of `handle_incoming_message` after the replay check |
| `Start`, `Restart` | `start` |

Each handler takes the locks it needs and does not yield between reading and
writing the session, so it is one action. A crash between the row's insertion
and the return of the envelope is `Send` followed by `Restart`, with the
envelope never read. Keys are terms: a secret is the pair of the keypair and the
encapsulation it was made from, a key is a secret with the role that sends under
it. The AEAD accepts a ciphertext under its own key only. Messages to oneself and
envelopes handed to the wrong client are left out. `Restart` requires an open
store with the identity in it: otherwise there is no identity to come back to.

### ProfileStore and ShellDelivery

`ProfileStore` holds the JSON profile. Every change ends in `save()`, so memory
and file agree and one set of variables stands for both (a save that fails is
left out). Tauri runs synchronous commands one after the other, so a command
that only changes the profile is one step; `send_message` is three, because the
manager's tasks run between them: the row is appended, then the command is given
to the channel or the LAN path is taken, then the LAN path ends.

`ShellDelivery` gives each Tor manager a phase, its command channel, the
message its main loop is sending, and the retry task with the rest of its
snapshot and the message it is sending. `stop_client` drops the sender and
nothing else, so managers of different ages coexist. `Conclude` is the end of a
send with the status update in it: the sender's state between the two is its own.

What "delivered" means differs by route. Over the LAN the receiver answered. Over Tor the send
returned Ok, that is, the frame was written and the stream shut down
(`message_transport.rs:121-129`); nothing is acknowledged, and the receiving shell
drops what it reads (`tor_manager.rs:245-255`). The model therefore says nothing of arrival: its
properties are about the status and who may still change it.

`MessageOutbox` is what this amounts to for one message: a status, and whether anybody is
still trying it. A chat, a channel, a manager or a snapshot does not
show in it: `SendMessage` is its `Submit`, `RetryPending` its `Resume`, the end of a send
`Succeed` or `Fail`, a crash or a dying manager `GiveUp`, a reset `Wipe`.

Left out because nothing calls them: `start_listener`, the LAN retry thread and
the listener. An incoming Tor stream changes no message, since
`create_chat("unknown")` fails. Retry counts, diagnostics and incoming rows are
left out too. A retry snapshot is a set, because the chats are iterated in no
fixed order.

### Mailbox

The sender's queue, the outbox rows and the relay's slots, with a clock common to
both. No code of the repository connects the three. The caller in the model is
therefore the most general one the comments allow: it may submit whatever is due,
save whatever is queued, delete a row after success or expiry, and die at any
step. `attempt` is the request it waits for, `stray` are requests it gave up on
and that may still arrive. `ServeRequest` and `ServeStray` are `store`, `Retrieve` empties
the slot as `retrieve` does, `SweepQueue`, `SweepExpiredOutbox` and `SweepRelay`
are the three sweeps. `Only` is Rust's `retain` on a slot. The limit on the size of an envelope is the same when it is
created and when it is stored, so it refuses nothing here. The relay keeps its
slots in memory; its restart is not modelled.

`LetterStore` is what the three amount to for one letter: it is `written`, `kept` once a
row of it was saved, `handed` to its recipient, `adrift` while only a request that nobody
waits for knows of it, or `gone`. Its `Write` is `Enqueue`, its `Keep` the first
`StorePendingOutbox`, its `Die` a `Crash`; `Retrieve`, the sweeps and the deletions are a
`Collect`, a request that arrives is a `Drift`, `Tick` is `Pass`. A retrieved letter counts as
handed: what becomes of it then is the recipient's affair.

`MailboxRetries` takes the steps of `Mailbox` and records with them when the relay was
asked for an envelope (`asked`) and which of these requests the row knew of when it was
last saved (`known`). A restart goes back from the first to the second, as the code does: a row
saved before the first failure is due at once after a crash, however often the envelope was
requested. The property about retries is stated over these histories and the histories only.

### Group

Each member has its own copy of the group, as it would have in its own process. A
commit's signature is a hash over the old root secret, so a commit carries that
secret in the model; the root secret is the list of the epochs hashed into it. The
kind of a commit does not matter, because `process_commit` ignores it. `AddMember`,
`RemoveMember` and the others are the client's calls with their checks.
`RemoveMemberFails` is the path where the entry is marked as left and the tree
then has no leaf to remove. `Bounded` is the clearing of the replay set at its
limit. How a new member gets the group is not in the code; `Welcome` (external)
gives it the copy of a member that has it in its list, with a counter of its own.
Key packages and `pending_commits` are written and never read. They are left out,
and so is wiping the map of groups.

### ClientLifecycle

The storage directory (`master.key`, the identities table) and one process on it,
which may crash at any step and be started again. The client is shared by several
callers; a call is a record that says how far it has come. A call is split
wherever the code lets go of one lock or file before it takes the next:

| Steps | Code |
|---|---|
| `Lookup`, `KeyCreate`, `KeyFill`, `KeyCache` | `ensure_storage_key`, the cached key, the file, or a new key; `fs::write` truncates before it fills |
| `BeginStart`, `StartConnecting`, `StartOpen`, `StartResume`, `StartPublish`, `StartConnect`, `Stop` | `start` (check of running, state, database opened and read, identity, database handle, network), `stop` |
| `CreateStore`, `CreateInstall`, `Load` | `create_identity`, `load_identity` |
| `RotateDeactivate`, `RotateStore`, `RotateInstall` | `rotate_identity`; the read lock on the database spans its two statements |
| `WipeKey`, `WipeClose`, `WipeRemoveDir` or `WipeRemoveFails`, `WipeForget`, `WipeClearKey` | `wipe_local_data`: key file, database handle, directory, identity, cached key |

A wipe stops nobody: between any two of its steps other calls go on, and it may be called any
number of times, by several callers at once. A file that is removed stays usable to whoever has it
open, so a handle (of the database, or of a key file that is being filled) is `linked` or
`removed`; what is written through a removed one reaches no directory.
`deadKeys` are the keys that nobody held from the removal of the directory to the return of a wipe:
those that somebody held meanwhile (`usedMeanwhile`) may be in the directory again, which is finding 4.
Sessions and the rows of contacts and messages, which a rotation and a wipe clear too, device sync and a
configured `db_key` are left out: the first are `DirectSession` and `ContactBook`, the last never touches
the key file.

### The library modules

They share no state, so each is a module with variables of its own and a
next-state relation of its own; `MCLibraries` picks one at the start and runs it
(`part`), so one run checks the union, not the product, of their state spaces.

- `EncryptedCache`: `set` as its two steps (insert with eviction, then the
  clean-up it may trigger), `cleanup`, `remove`, `clear`, threads at the locks, and the clock. What
  is cached is left out; reads and statistics change nothing.
- `NoiseChannel`: handshake and cipher state of both ends, any call in any state,
  the message counter of `ReKeyManager`. Both ends use the same placeholder key, so
  a packet is known by its nonce; the network brings an end the packets of the other, not its own. The timer of `ReKeyManager` is left out.
- `DoubleRatchet`: both ends of the ratchet as `ChatSession` drives it. Keys are
  terms, so equal keys are equal derivations. A header key is bytes, of which X25519 ignores the
  last bit, and a point of small order gives everybody the same secret; `decrypt` compares bytes
  and refuses neither. The network garbles headers too, which the empty associated data allows;
  `misled` are the ends whose first DH step was onto a key the packet did not leave with. Where the code's subtraction goes below
  zero both outcomes, the panic and the wrapped count, are steps.
- `CoverTraffic`: the generator's slot, and the adaptive
  rate, which stays where it starts. Payload, delays and the Poisson generator (a bare
  counter) are left out.
- `Mixnet`: nodes, queue, the shuffled batch, a caller that drops
  `process_batch` at its await. Delays are left out.
- `RelayPool`: relays, results, the moving average (with what floating point may
  take from it), every selection strategy, path building. `send_multi_path` opens
  no connection in this code; it only chooses.
- `PeerDiscovery`: known peers, the pending callbacks, the discovery cache, a clock
  that may be set back.
- `WireFormats`: the byte layouts with their widths and checks, encoded, cut or
  extended, and decoded; the transport selector's list. Cryptography and the
  contents of bodies are left out.
- `Padding`: sizes of padded messages and envelopes, fragments in any order or
  missing, the bandwidth counter. Payloads are lengths, except in fragments.
- `ContactBook`: memory and table of contacts under overlapping callers, failing
  statements and restarts, the set intersections, the sync queue. Of a contact
  only the trust level is kept; `mark_synced` and the queues of `Chat` that
  nothing calls are left out.
- `IdentityVault`: rotation policy and scheduler, the transition map, sealed
  identities and forged public parts. Rotation by `IdentityRotator` is never called by
  the client, whose own rotation is `ClientLifecycle`.
- `SecretSharing`: one byte split and recombined, with the arithmetic of GF(256)
  computed as the code does; the `^` of two bytes is the sum of their bits without carry.

## 4. Runs

| Run | Shows | Bounds |
|---|---|---|
| `direct_session` | types, nonces, pairing of secrets, sent rows, received rows, refinement of `SecureChannel` | 2 clients, 2 texts, 2 keypairs, 2 encapsulations, 1 send per session |
| `reply_is_sendable` | finding 1 | the same |
| `shell_delivery` | no return after a reset, delivery under fairness | 1 contact, 3 kinds of route, 1 chat, 2 messages, 2 managers, channel of 1 |
| `shell_restarted_client` | references resolve when contacts rotate and identities are reset, refinement of `MessageOutbox` | 2 contacts, 1 message, 2 managers |
| `durable_delivery` | finding 2 | a small version of these |
| `mailbox` | nothing saved is lost, slots hold no duplicates, requests are spread by the back-off, refinement of `LetterStore` | 1 recipient, slot of 2, 3 envelopes, 3 requests, clock to 2, expiry before that |
| `group` | convergence, catching up, leaves, message slots, replay window | 2 members, 4 epochs, 3 entries, window of 2, 3 messages, 3 receipts each |
| `members_can_decrypt` | finding 3 | 3 members, 2 epochs |
| `client_lifecycle` | one key reads everything, identities come back, wiped keys stay dead, a running client stores | 2 callers, 2 keys, 2 identities, crashes anywhere, any number of wipes |
| `wipe_leaves_nothing` | finding 4 | as `client_lifecycle` |
| `libraries` | a property for each library module, named in section 1, and `TypeOK` of all | `Libraries.cfg`; see below |
| `cache_no_self_wait` | finding 5 | 2 threads, 2 places, clock to 3 |

Why the bounds are enough. *Direct sessions*: two keypairs and two encapsulations
let handshakes cross, repeat and answer the wrong keypair, and give each pair a
second session over the rows of the first; one message per session and direction
already collides in the table and in the replay set, and two texts tell a reused nonce
from a repeated message. A third client adds only sessions that share nothing
with the first two but the stack of responses; the theorems cover it. *Shell*: a
full channel takes two messages, an old retry task beside a new manager takes
two managers, and the first run has both; rotation takes a second fingerprint, which with two
messages is too many states, hence the second run.
*Mailbox*: three envelopes fill a slot of two, and with three requests one
of them can be a repetition or arrive late; the clock crosses the time to live and the first
back-off, and every envelope expires before it stops (a bound in `Enqueue`). Within these an envelope
is requested again after its first back-off, and after a crash that forgets a request; that the
later back-offs, up to the largest, are kept too is the theorem's (`SpreadSafety`), for they
take a life too long for three envelopes at once. *Group*: with four epochs and three entries a member can be added,
removed, added and removed again, and then fail to be removed; with a window of two and three
receipts the window is cleared. Receipts have a bound because a cleared window lets a
message be decrypted again for ever. *Life cycle*: two callers make every pair of
calls overlap; two keys and two identities are one before and one after a race, a
rotation or a wipe; with all rows created in the same second the newest is any of the active
ones. *Libraries*: a cache of two under three keys evicts, and the clock passes
expiry and the clean-up interval; two handshakes and messages of an end make packets cross a rekey; three encryptions
and two DH steps of an end let both ends be misled, make a skip and use what was kept; four messages in batches of two make two
batches; fragments of two bytes cut a message of five into a full, a full and a
short one; two of three shares leave one share to spare, and the bytes chosen reach every
branch of the reduction; the clocks of identities and peers pass their intervals and may run backwards.

Deadlock is not checked: in every model the bounds, or nobody wanting anything,
may end a behaviour, and a cache whose writer waits for itself (finding 5)
does stop. Symmetry is used in the direct-session, group and life-cycle runs, whose properties are
invariants, action properties and a refinement that treat the permuted values alike, and never with
liveness.

## 5. Fairness

Only `ShellDelivery` has liveness. Weak fairness is assumed of a `send_message`
call that has begun (a synchronous function runs to its end), of each manager's
main loop receiving and finishing sends, and of each retry task (Tokio runs ready
tasks, and a Tor send ends, with an error at worst). No command need be called, no manager need boot,
nothing ends by fairness. `steady` means that from now on
sends end well; it may never become true. `EventuallyDelivered` is about messages that from some time on are
retryable: steady, some retry task alive, the contact with an onion address.

## 6. Proofs

All theorems hold for every value of the constants under the named assumptions of
the modules: bounds, times and sizes are naturals, and positive where the code
divides by them or has no use for zero (window, capacity, batch, fragment, packet,
rekey interval); a sentinel such as `NoSession`, `NoGroup`, `NoKey` or `NoCipher` is none of the values
it stands beside; the creator of a group is a member; a Noise channel and a ratchet have two ends; bodies on the wire are sequences of
bytes shorter than 10^9, so that their lengths fit the 32 bits of the code.

`NaturalLemmas` holds what most of the proofs need of numbers. Induction is
stated of a set (`NatSet`: a set of numbers with zero and every successor is all of them), and
functions defined by recursion get their equations from `RecursionUpTo` and
`Recursion`, which build the function first. Filters on sequences, chains of transitions and fragments put together again are reasoned about in this way.

**DirectSession.** None of the properties is inductive: that a nonce is not
reused depends on where keys come from. The invariant `IInv` is the conjunction of

- `KeyInv`: a keypair was announced in one initiation only; pending keypairs, the
  sessions of initiators and what was sent in them go back to an initiation between
  the same two clients; a keypair in use is no longer pending; encapsulation
  numbers in use were made, and two responder sessions never share one;
- `CounterInv`: a ciphertext under a session's send key lies below its send counter;
- `NonceNeverReused` itself;
- `AcceptedInv` and `SeenInv`: accepted messages were sent to whoever accepted them
  under a key that is used up in the same sense, and those under a session's
  receive key are in its replay set.

Because a handshake consumes its keypair and a response is fresh, a new session
has a key under which nothing was sent or accepted, so its counter and its replay
set may start empty. A rejected response only forgets a keypair, as a restart does (`ForgetStep`). `NonceSafety`, `SecretSafety`, `SentSafety`
and `HistorySafety` follow. `ChannelRefinement` maps `Send` to `Transmit`,
`Accept` to `Deliver` and every other action to a stutter.

**Group.** `RootInv` says the root secret of a copy is a function of its epoch and
`TrailInv` that for each epoch somebody reached a commit was sent whose secret
is that of the epoch before; with them `SecretsConverge` and `CanCatchUp` hold although commits
cross. `SlotInv` says that whoever sent a message is past its slot. Then a new
message has a new slot, and the messages number as many as were sent. `AcceptInv`
says that until a member has decrypted as many messages as the window holds, the
window names all of them. `AgreeInv` ties leaves to first entries. `FirstEntry` is
the least index, whose existence comes from the well-foundedness of the naturals.
`WindowWasAccepted`, the other half of `WindowSound`, is inductive by itself.

**ShellDelivery.** What a sender holds, in a channel, a snapshot or a hand, must have
a row, or a late result would make one up; `HeldInv` says so, and with `TypeOK` it
is the invariant `IInv`. `StepEffect` reduces the eighteen actions to what they can do to
messages: `Nothing` (somebody lets go at most), `Resumes` (a new snapshot of what is
pending), `Submits` (a new row, held), `Ends` (one attempt ends, with one result, and only
its message may be let go of) and `Wipes` (a reset). These are the actions of `MessageOutbox` (`Ends` its `Succeed` and `Fail`), so
`ShellImplementsOutbox` follows, and `WipedForGood` and
`ContactsAreFound` take one case for each. Contacts and chats are touched by commands
only (`OnlyCommands`), and no command but the reset loses a contact (`CommandBook`).

**Mailbox.** `RefInv` says that ids that travel or were saved are those of envelopes and
that a dead sender holds nothing. The sixteen actions are reduced to what they do
to slots (`SlotsMove`), to envelopes and clock (`EnvelopesMove`) and to each part of the sender; `OnlyKeeps`
says what a `retain` keeps and that it keeps injectivity, which gives `SlotsSound`.
`SavedIsNotLost` is not inductive, for an answer may still be on its way: `HeldInv` adds
that an envelope that is not delivered yet has its row and, while the process
runs, is queued, and that "ok" is said of delivered envelopes only. `SpreadInv` says that the attempts of a queued entry are as
many as the requests in `asked`, the one under way aside, and that its retry time lies one
back-off after the last of them at least; of a row it says the same with `known`, because a restart brings
the one back with the other.
For `MailboxImplementsLetters` the mapping needs `FateInv` besides: only envelopes are handed
out, a row is there because it was saved, and a slot holds its own recipient's envelopes. Each
action is then reduced to what it does to one letter (`Collects`, `Dies`, `Drifts`). The two
delicate ones are a request that is given up and one that arrives: of a letter that was saved and
that nothing holds any more, `HeldInv` says that it has expired, so it lapses; one that was not saved drifts.

**ClientLifecycle.** The invariant `IInv` is `TypeOK` with `CallInv` (what a call holds at
each of its steps), `RunInv`, `ActiveInv`, `OneKeyInv` and `DeadInv`. While one
key exists at most, `OneKeyInv` says that only the call that still has to fill the
file may hold another key than the file's. `DeadInv` has two halves: a dead key was generated, so
it is not generated again, and nobody has it (`Gone`); and while a wipe is between the removal
and the clearing, a key that is not in `usedMeanwhile` is nowhere but in the cache
(`Unused`), which the clearing empties. Most steps only bring a key from one place to another
(`Shifts`, `PassesKeys`) and are proved at once. The argument holds for any number of callers and of wipes, also
for wipes that overlap. `IdentityComesBack` needs a newest active identity, which a finite set of numbers has.

**The library modules.** Each has a specification and an invariant of its own, which
`Libraries_proofs` and `SecretSharing_proofs` prove inductive.

- Noise: `EndInv` and `PacketInv` say that under its first cipher the nonces of an end count what
  it sent and read, so a packet is known by its nonce; `ReadInv` says that both histories are 1, 2, 3...
- Cover traffic: `CoverInv` puts the message made ahead behind everything sent.
- Mixnet: `MixInv` says which numbers are in the queue, in the batch and before it.
- Peer discovery: `OwnInv` and `FoundInv`; an answer found is a beginning of a list that only grows.
- Padding: `LastInv` says that the last result is one the pad functions make, at least the minimum size and at most one packet beyond the target; the rest of `SizesHold` is
  arithmetic, and for fragments the length and order of a flattened sequence of pieces, where all but the last are full.
- Wire formats: `WireInv` says that what is read is decoded from bytes that agree with those encoded as far as
  both go and are as long unless they were damaged. One lemma for each layout says what decoding makes of such bytes; `CodecReadsBack` gathers them.
- Cache: `CacheTypes` and `CacheFits`, from which the action property `EvictsOldestOnly` follows for every step.
- Contacts: `AddingInv` says that a call between its two writes knows what is in memory unless another overlaps it.
- Identities: `TransitionInv` says that each transition leads to the next identity and only a
  clearing removes it; `EndsAt` says where a chain of them ends.
- Ratchet: `RatchetInv` ties each key used to the root it came from. Keys of one chain differ in their
  counters and chains of one end in the length of their roots. The roots of the two ends may be the same, but only
  from the first secret on, and the first secrets are the same only if neither end made its first step
  onto the key the other had sent, which `misled` records. For the types,
  `RatchetRest` adds that a key is kept only where there is room, and that only an initiator that never turned has no chain to receive on.
- Type invariants: `MixTypeCorrect` counts the places of a message (queue, batch, returned, dropped);
  `RelayInv` says that no relay failed more often than results were recorded, which keeps success rates in their bounds; the others follow from the invariants above
  or from the guards.

**Shares.** `ShareSafety` is the interpolation theorem of Lagrange over GF(256), for every threshold and every
number of shares that a byte can count. It starts at the bits: `GfAdd` is addition of bit vectors, `Doubled` is
linear, so `GfMul` is bilinear; it is then determined by its values on powers of two, from which it is commutative and
associative. Squaring is linear too, and squaring eight times is the identity, which gives every byte but zero an
inverse (`HasInverse`) and leaves no zero divisors. The weights of `reconstruct_byte` add up to one (`OnesAlways`, by
induction on the number of points) and cancel the powers of the points below that number (`PowersAlways`);
by `Interpolates` they therefore give the lowest coefficient of a polynomial with as many coefficients as points. The invariant `ShareInv`
adds to `SharesHold` that the shares, once there are any, are the values of one polynomial
with the secret at zero (`Split`). Conversely, `PolynomialThrough` raises a polynomial through the first points to one through
the next as well, so there is one through any values at any points. Divided by the point, what separates the shares
from another secret is such values, and so `FewerFitAll`: devices fewer than the threshold could hold the same shares of any other
secret, provided the other coefficients may be any bytes (threshold.rs:208). TLC checks this for one of two devices, the theorem for every threshold.

**The composition.** `MCLibraries` runs one part and leaves the variables of the others alone. `PartSteps` says that
each of its steps is a step or a stutter of every part, `PartSpecs` that its behaviours are behaviours of every part.
`LibrariesTypeCorrect` and `LibrariesSafety` then bring the theorems of the parts together: they state all
that the run `libraries` checks.

**Only model-checked**: `EventuallyDelivered`, which depends on fairness and so on `ENABLED`, which the
prover does not reach; and the disagreements of section 7, which are runs of TLC by nature. No module uses
a RECURSIVE operator.

## 7. Findings

Where the code and what the repository says of it part. Details and quotations are in `PROJECT.json`.

1. `ReplyIsSendable`: both directions of a conversation number their rows from 1
   in one table with a UNIQUE constraint, so after the first received message
   the first own message cannot be stored, and is never sent (`client.rs:536`, `934`).
2. `DurableDelivery`: a message to a contact with a LAN endpoint only is
   queued and never tried again (`transport.rs:209`).
3. `MembersCanDecrypt`: the replay window of a group does not name the sender, so
   the first messages of two members in an epoch exclude each other (`group.rs:645`).
4. `WipeLeavesNothing`: a start that finds the cached key while a wipe is between the directory and that key
   makes a new database, and the wipe returns with it on disk (`client.rs:450`).
5. `NoSelfWait`: the first `set` after the clean-up interval waits for the lock
   it holds (`encrypted_cache.rs:134`).

What the models also have, without a run of its own:

- An identity that rotation has marked inactive can be loaded again, by a query that does not look at the
  mark (`client.rs:274`), although the comment at `client.rs:363` says that it cannot (`ClientLifecycle.Load`).
- `next_message` of the cover generator makes no successor of the message it takes, so a generator that is only
  started falls silent after one (`cover_traffic.rs:144`), although the file promises messages at random
  intervals (`CoverTraffic.NextMessage`). `CoverSpentOnce` says nothing of how many there are.
- `decode_frame` asks for "an exact frame" (`message_transport.rs:51`) and ignores what follows one
  (`WireFormats.DecodeFrame`). `WireReadsBack` leaves that case out; the network envelope is exact.
- A message of a replaced session marks its sequence before it fails to decrypt; the genuine
  message is then refused as a replay (`client.rs:916`, an outcome of `DirectSession`).
- `update_contact` records the old fingerprint on the old contact, so refreshing a
  chat sets it to the fingerprint it has already (`commands.rs:116`).
- An envelope that is in a full slot is refused when it is submitted again (`mailbox.rs:135`).
- `rotate_identity` clears the sessions before it installs the new identity, and an exchange that completes
  between the two leaves a session of the old one (`client.rs:397`, read from the code).
- A row saved before the first failure of its envelope is due at once after a crash, so the relay is asked again without
  a back-off (`MailboxRetries`, where a crash forgets these requests).
- "Delivered" over Tor means that a frame was written, and no more (`ShellDelivery`).
- Two ends of a ratchet come to encrypt under the same message keys when each made its first DH step onto a key
  that is not the one sent (the ignored last bit flipped, or a point of small order at both): `dh_ratchet`
  refuses no point and both ends label their chains alike (`double_ratchet.rs:219-275`). `MessageKeysFresh` says that
  it takes this.
- The ratchet's `encrypt` keeps no tag and `decrypt` supplies one of zeros, so no packet of a
  `ChatSession` opens; the keys move all the same (`DoubleRatchet`).
- `lookup_peer` answers with ourselves for a fingerprint that is no peer id (`dht.rs:133`).
- The adaptive rate of cover traffic never moves: it starts at 1, and `adjust_rate` moves only
  a rate below 1 or above 4 (`cover_traffic.rs`).

## 8. Not modelled

- Tor and the onion service (`tor.rs`, `tor_service.rs`): wrappers around Arti, which is
  not in the repository. The other models see them as a network that loses, delays and repeats.
- AES-GCM and ChaCha20-Poly1305, HKDF, X25519, ML-KEM and Ed25519: external libraries; keys are terms. Of X25519 the ratchet models
  the ignored bit and the points of small order; otherwise they are taken as perfect.
- Pairwise identities (a derivation without protocol state), rendering of QR codes and the expiry of invitations.
- `mark_synced`, the message batches of `message.rs` and the queues of `Chat`: only tests call them.
- The retry thread and listener of the LAN transport in the shell: nothing starts them.
- The Poisson cover generator (a counter), random delays and payloads.
- Saves of the profile that fail, and a restart of the relay.
- The stub backend crate, the fuzz target and the React user interface: presentation and
  test scaffolding.

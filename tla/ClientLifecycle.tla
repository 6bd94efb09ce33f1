--------------------------- MODULE ClientLifecycle ---------------------------
(***************************************************************************)
(* The life of one messenger client on one storage directory: the key file *)
(* master.key, the identities table, and the memory of a process that is   *)
(* started, stopped, killed and started again (client.rs, database.rs).    *)
(*                                                                         *)
(* The client is shared by several callers.  A call is a record that says  *)
(* how far it has come, because it reads and writes the key file, the      *)
(* table and the memory under different locks.  Keys and identities are    *)
(* numbered in the order in which they are generated.                      *)
(*                                                                         *)
(* A handle stays usable when its file is removed: what is written through *)
(* it then reaches no directory.                                           *)
(***************************************************************************)
EXTENDS Naturals, FiniteSets

CONSTANTS
    Callers,        \* threads that share the client
    MaxKeys,        \* bound: storage keys ever generated
    MaxIdentities,  \* bound: identities ever generated
    MaxClock,       \* bound: seconds that pass
    NoKey,          \* no key cached, or no key file
    NoIdentity      \* no identity loaded

ASSUME BoundsAssumption ==
    MaxKeys \in Nat /\ MaxIdentities \in Nat /\ MaxClock \in Nat
ASSUME SentinelAssumption == NoKey \notin Nat /\ NoIdentity \notin Nat

VARIABLES
    \* the storage directory
    keyFile,        \* content of master.key
    rows,           \* the identities table
    \* the process
    running, state, identity, storageKey, database,
    calls,          \* what each caller is doing
    \* the world, and history
    keyCount, identityCount, now,
    wiped,          \* a wipe was begun
    gap,            \* a rotation ended between its two statements
    usedMeanwhile,  \* keys that calls have held since the wipe under way removed the directory
    deadKeys        \* keys that nobody held from a wipe's removal to its return

diskVars == <<keyFile, rows>>
memoryVars == <<running, state, identity, storageKey, database>>
historyVars == <<wiped, gap, usedMeanwhile, deadKeys>>
worldVars == <<keyCount, identityCount, now, historyVars>>
vars == <<diskVars, memoryVars, calls, worldVars>>

ClientState == {"created", "connecting", "connected", "disconnected"}
Operation == {"start", "create", "load", "rotate", "wipe"}

\* A key file is created before it is filled, and overwritten before it is removed.
EmptyFile == MaxKeys + 1
ZeroKey == 0
Key == 0 .. MaxKeys
Identity == 1 .. MaxIdentities

NoRow == [stored |-> FALSE]
Row == [stored: {TRUE}, active: BOOLEAN, created: 0 .. MaxClock, key: Key]
Stored(f) == rows[f].stored
Active == {f \in Identity : Stored(f) /\ rows[f].active}

\* load_latest_identity: created_at counts seconds, so several rows may tie.
Latest == {f \in Active : \A g \in Active : rows[g].created <= rows[f].created}

\* An open file: the one in the directory, or one that was removed from it.
Handle == {"none", "linked", "removed"}
Unlinked(h) == IF h = "linked" THEN "removed" ELSE h

Idle == [op |-> "none", at |-> "idle", key |-> NoKey, fresh |-> NoIdentity, file |-> "none"]
Step == {"idle", "begin", "create", "fill", "cache", "run",
         "store", "install", "resume", "publish", "connect",
         "close", "remove", "forget", "clear"}
Call == [op: Operation \cup {"none"}, at: Step, key: Key \cup {NoKey},
         fresh: Identity \cup {NoIdentity}, file: Handle]

At(c, op, at) == calls[c].op = op /\ calls[c].at = at
\* A call goes on to a step: with what it has, with a key, with an identity, with a file.
Goto(c, at) == calls' = [calls EXCEPT ![c].at = at, ![c].file = "none"]
GotoWith(c, op, at, key) ==
    calls' = [calls EXCEPT ![c] = [Idle EXCEPT !.op = op, !.at = at, !.key = key]]
Install(c, at, fresh) == calls' = [calls EXCEPT ![c].at = at, ![c].fresh = fresh]
Open(c, at, fresh) ==
    calls' = [calls EXCEPT ![c].at = at, ![c].fresh = fresh, ![c].file = "linked"]
Return(c) == calls' = [calls EXCEPT ![c] = Idle]

\* rotate_identity keeps the database read-locked across its two statements;
\* whoever replaces or closes it must wait.
DatabaseHeld == \E c \in Callers : calls[c].at = "store"

\* A wipe has removed the directory and not yet cleared the cached key.
Removed == \E c \in Callers : calls[c].at \in {"forget", "clear"}
HeldKeys == {calls[c].key : c \in Callers}
Used(key) == usedMeanwhile' = IF Removed THEN usedMeanwhile \cup {key} ELSE {}

Init ==
    /\ keyFile = NoKey
    /\ rows = [f \in Identity |-> NoRow]
    /\ running = FALSE /\ state = "created"
    /\ identity = NoIdentity /\ storageKey = NoKey
    /\ database = "none"
    /\ calls = [c \in Callers |-> Idle]
    /\ keyCount = 0 /\ identityCount = 0 /\ now = 0
    /\ wiped = FALSE /\ gap = FALSE /\ usedMeanwhile = {} /\ deadKeys = {}

-----------------------------------------------------------------------------
(* Calls.  Every one but wipe begins with ensure_storage_key: the key is the *)
(* cached one, else the one in the file, else one to be generated.           *)

\* Mutant: a file of any length is taken for a key.
LookupAnyLength(c, op) ==
    IF storageKey # NoKey THEN GotoWith(c, op, "run", storageKey) /\ Used(storageKey)
    ELSE IF keyFile # NoKey THEN GotoWith(c, op, "cache", keyFile) /\ Used(keyFile)
    ELSE GotoWith(c, op, "create", NoKey) /\ UNCHANGED usedMeanwhile

Lookup(c, op) ==
    \/ /\ storageKey # NoKey
       /\ GotoWith(c, op, "run", storageKey) /\ Used(storageKey)
    \/ /\ storageKey = NoKey /\ keyFile \in Key
       /\ GotoWith(c, op, "cache", keyFile) /\ Used(keyFile)
    \/ /\ storageKey = NoKey /\ keyFile = EmptyFile     \* "Invalid master key length"
       /\ Return(c) /\ UNCHANGED usedMeanwhile
    \/ /\ storageKey = NoKey /\ keyFile = NoKey
       /\ GotoWith(c, op, "create", NoKey) /\ UNCHANGED usedMeanwhile

Begin(c, op) ==
    /\ calls[c] = Idle
    /\ Lookup(c, op)
    /\ UNCHANGED <<diskVars, memoryVars, keyCount, identityCount, now, wiped, gap, deadKeys>>

BeginCreate(c) == Begin(c, "create")
BeginLoad(c) == Begin(c, "load")
BeginRotate(c) == Begin(c, "rotate")

\* The state is set after the check of running, not with it.
BeginStart(c) ==
    /\ calls[c] = Idle /\ ~running
    /\ GotoWith(c, "start", "begin", NoKey)
    /\ UNCHANGED <<diskVars, memoryVars, worldVars>>

StartConnecting(c) ==
    /\ At(c, "start", "begin")
    /\ state' = "connecting"
    /\ Lookup(c, "start")
    /\ UNCHANGED <<diskVars, running, identity, storageKey, database,
                   keyCount, identityCount, now, wiped, gap, deadKeys>>

\* fs::write truncates the file, whoever wrote it, and then fills it.
KeyCreate(c) ==
    /\ calls[c].at = "create" /\ keyCount < MaxKeys
    /\ keyCount' = keyCount + 1
    /\ keyFile' = EmptyFile
    /\ calls' = [calls EXCEPT ![c].at = "fill", ![c].key = keyCount + 1, ![c].file = "linked"]
    /\ Used(keyCount + 1)
    /\ UNCHANGED <<rows, memoryVars, identityCount, now, wiped, gap, deadKeys>>

\* Mutant: the result of the write is ignored.
KeyFillIgnored(c) ==
    /\ calls[c].at = "fill"
    /\ keyFile' \in {calls[c].key, keyFile}
    /\ Goto(c, "cache")
    /\ UNCHANGED <<rows, memoryVars, worldVars>>

KeyFill(c) ==
    /\ calls[c].at = "fill"
    /\ \/ calls[c].file = "linked" /\ keyFile' = calls[c].key /\ Goto(c, "cache")
       \/ calls[c].file = "removed" /\ UNCHANGED keyFile /\ Goto(c, "cache")
       \/ UNCHANGED keyFile /\ Return(c)
    /\ UNCHANGED <<rows, memoryVars, worldVars>>

KeyCache(c) ==
    /\ calls[c].at = "cache"
    /\ storageKey' = calls[c].key
    /\ Goto(c, "run")
    /\ UNCHANGED <<diskVars, running, state, identity, database, worldVars>>

-----------------------------------------------------------------------------
(* start, stop *)

\* Database::open refuses the zero key.
CanOpen(key) == key # ZeroKey

\* Identity::deserialize_encrypted: the row must have been encrypted under this key.
Decrypts(f, key) == rows[f].key = key

\* The database is opened and the newest active identity read from it, or start
\* fails because of either.
StartOpen(c) ==
    /\ At(c, "start", "run")
    /\ LET key == calls[c].key IN
       \/ CanOpen(key) /\ Latest = {} /\ Open(c, "publish", NoIdentity)
       \/ CanOpen(key) /\ \E f \in Latest : Decrypts(f, key) /\ Open(c, "resume", f)
       \/ ~CanOpen(key) /\ Return(c)
       \/ (\E f \in Latest : ~Decrypts(f, key)) /\ Return(c)
    /\ UNCHANGED <<diskVars, memoryVars, worldVars>>

StartResume(c) ==
    /\ At(c, "start", "resume")
    /\ identity' = calls[c].fresh
    /\ calls' = [calls EXCEPT ![c].at = "publish"]
    /\ UNCHANGED <<diskVars, running, state, storageKey, database, worldVars>>

\* Mutant: the database is kept only if there was an identity in it.
PublishNeedsIdentity(c) ==
    /\ At(c, "start", "publish") /\ ~DatabaseHeld
    /\ database' = IF calls[c].fresh = NoIdentity THEN "none" ELSE calls[c].file
    /\ Goto(c, "connect")
    /\ UNCHANGED <<diskVars, running, state, identity, storageKey, worldVars>>

StartPublish(c) ==
    /\ At(c, "start", "publish") /\ ~DatabaseHeld
    /\ database' = calls[c].file
    /\ Goto(c, "connect")
    /\ UNCHANGED <<diskVars, running, state, identity, storageKey, worldVars>>

\* Tor may fail to bootstrap: the database then stays open, the state "connecting".
StartConnect(c) ==
    /\ At(c, "start", "connect")
    /\ \/ state' = "connected" /\ running' = TRUE
       \/ UNCHANGED <<state, running>>
    /\ Return(c)
    /\ UNCHANGED <<diskVars, identity, storageKey, database, worldVars>>

Stop(c) ==
    /\ calls[c] = Idle /\ running
    /\ state' = "disconnected" /\ running' = FALSE
    /\ UNCHANGED <<diskVars, identity, storageKey, database,
                   calls, worldVars>>

-----------------------------------------------------------------------------
(* create_identity, load_identity *)

\* Mutant: the others are deactivated after the new one is stored, and it with them.
StoreThenDeactivate(c, f) ==
    /\ UNCHANGED now
    /\ rows' = [rows EXCEPT ![f] = [stored |-> TRUE, active |-> FALSE,
                                    created |-> now, key |-> calls[c].key]]

\* The clock has reached another second since the last row, or it has not.
StoreIdentity(c, f) ==
    \E second \in {now, now + 1} \cap 0 .. MaxClock :
        /\ now' = second
        /\ rows' = [rows EXCEPT ![f] = [stored |-> TRUE, active |-> TRUE,
                                        created |-> second, key |-> calls[c].key]]

\* Without a database, or with one that was removed, nothing reaches the table.
CreateStore(c) ==
    /\ At(c, "create", "run") /\ identityCount < MaxIdentities
    /\ LET fresh == identityCount + 1 IN
       \/ database = "linked" /\ StoreIdentity(c, fresh) /\ Install(c, "install", fresh)
       \/ database # "linked" /\ UNCHANGED <<rows, now>> /\ Install(c, "install", fresh)
       \/ database # "none" /\ UNCHANGED <<rows, now>> /\ Return(c)
    /\ identityCount' = identityCount + 1
    /\ UNCHANGED <<keyFile, memoryVars, keyCount, historyVars>>

CreateInstall(c) ==
    /\ At(c, "create", "install")
    /\ identity' = calls[c].fresh
    /\ Return(c)
    /\ UNCHANGED <<diskVars, running, state, storageKey, database, worldVars>>

\* Any row will do, active or not.  A database that was removed may still hold
\* whichever identity was made so far.
Load(c, f) ==
    /\ At(c, "load", "run")
    /\ \/ database = "linked" /\ Stored(f) /\ Decrypts(f, calls[c].key) /\ identity' = f
       \/ database = "removed" /\ f <= identityCount /\ identity' = f
       \/ ~(database = "linked" /\ Stored(f) /\ Decrypts(f, calls[c].key)) /\ UNCHANGED identity
    /\ Return(c)
    /\ UNCHANGED <<diskVars, running, state, storageKey, database, worldVars>>

-----------------------------------------------------------------------------
(* rotate_identity: deactivate all, store the new one, purge the sessions (not *)
(* modelled here), install *)

Deactivated ==
    [f \in Identity |-> IF Stored(f) THEN [rows[f] EXCEPT !.active = FALSE] ELSE rows[f]]

RotateDeactivate(c) ==
    /\ At(c, "rotate", "run") /\ identityCount < MaxIdentities
    /\ LET fresh == identityCount + 1 IN
       \/ database = "linked" /\ rows' = Deactivated /\ UNCHANGED now /\ Install(c, "store", fresh)
       \/ database = "removed" /\ UNCHANGED <<rows, now>> /\ Install(c, "store", fresh)
       \/ database = "none" /\ UNCHANGED <<rows, now>> /\ Install(c, "install", fresh)
       \/ database # "none" /\ UNCHANGED <<rows, now>> /\ Return(c)
    /\ identityCount' = identityCount + 1
    /\ UNCHANGED <<keyFile, memoryVars, keyCount, historyVars>>

RotateStore(c) ==
    /\ At(c, "rotate", "store")
    /\ \/ database = "linked" /\ StoreIdentity(c, calls[c].fresh) /\ Goto(c, "install") /\ UNCHANGED gap
       \/ database # "linked" /\ UNCHANGED <<rows, now, gap>> /\ Goto(c, "install")
       \/ UNCHANGED <<rows, now>> /\ Return(c) /\ gap' = TRUE
    /\ UNCHANGED <<keyFile, memoryVars, keyCount, identityCount, wiped, usedMeanwhile, deadKeys>>

RotateInstall(c) ==
    /\ At(c, "rotate", "install")
    /\ identity' = calls[c].fresh
    /\ storageKey' = NoKey
    /\ Return(c)
    /\ UNCHANGED <<diskVars, running, state, database, worldVars>>

-----------------------------------------------------------------------------
(* wipe_local_data: the key file, the database handle, the directory, the     *)
(* identity and the cached key, one after the other under locks of their own *)

\* The calls of the others when the key file, or the database, leaves the directory.
WithoutKeyFile(call) == IF call.at = "fill" THEN [call EXCEPT !.file = Unlinked(@)] ELSE call
WithoutDatabase(call) ==
    IF call.at \in {"resume", "publish"} THEN [call EXCEPT !.file = Unlinked(@)] ELSE call

\* Overwriting and removing the key file are each best effort.
WipeKey(c) ==
    /\ calls[c] = Idle
    /\ wiped' = TRUE
    /\ \/ /\ keyFile' \in {keyFile} \cup (IF keyFile = NoKey THEN {} ELSE {ZeroKey, EmptyFile})
          /\ calls' = [calls EXCEPT ![c].op = "wipe", ![c].at = "close"]
       \/ /\ keyFile # NoKey /\ keyFile' = NoKey
          /\ calls' = [[d \in Callers |-> WithoutKeyFile(calls[d])]
                           EXCEPT ![c].op = "wipe", ![c].at = "close"]
    /\ UNCHANGED <<rows, running, state, identity, storageKey, database,
                   keyCount, identityCount, now, gap, usedMeanwhile, deadKeys>>

WipeClose(c) ==
    /\ At(c, "wipe", "close") /\ ~DatabaseHeld
    /\ database' = "none"
    /\ Goto(c, "remove")
    /\ UNCHANGED <<diskVars, running, state, identity, storageKey, worldVars>>

NoRows == [f \in Identity |-> NoRow]

\* No lock is held: others may have files open, the database that a start has
\* meanwhile published included.
WipeRemoveDir(c) ==
    /\ At(c, "wipe", "remove")
    /\ keyFile' = NoKey /\ rows' = NoRows /\ database' = Unlinked(database)
    /\ calls' = [[d \in Callers |-> WithoutKeyFile(WithoutDatabase(calls[d]))]
                     EXCEPT ![c].at = "forget"]
    /\ usedMeanwhile' = usedMeanwhile \cup (HeldKeys \ {NoKey})
    /\ UNCHANGED <<running, state, identity, storageKey,
                   keyCount, identityCount, now, wiped, gap, deadKeys>>

\* remove_dir_all fails half-way, and the call returns before it clears anything.
WipeRemoveFails(c) ==
    /\ At(c, "wipe", "remove")
    /\ \E keyGone, rowsGone \in BOOLEAN :
        /\ keyFile' = IF keyGone THEN NoKey ELSE keyFile
        /\ rows' = IF rowsGone THEN NoRows ELSE rows
        /\ database' = IF rowsGone THEN Unlinked(database) ELSE database
        /\ calls' = [[d \in Callers |->
                         LET call == IF keyGone THEN WithoutKeyFile(calls[d]) ELSE calls[d]
                         IN  IF rowsGone THEN WithoutDatabase(call) ELSE call]
                      EXCEPT ![c] = Idle]
    /\ UNCHANGED <<running, state, identity, storageKey, worldVars>>

WipeForget(c) ==
    /\ At(c, "wipe", "forget")
    /\ identity' = NoIdentity
    /\ Goto(c, "clear")
    /\ UNCHANGED <<diskVars, running, state, storageKey, database, worldVars>>

\* What a wipe that returns leaves nobody to bring back.
Bury(c) ==
    /\ deadKeys' = deadKeys \cup ((1 .. keyCount) \ usedMeanwhile)
    /\ usedMeanwhile' = IF \E d \in Callers \ {c} : calls[d].at \in {"forget", "clear"}
                        THEN usedMeanwhile ELSE {}

\* Mutant: the cached key outlives the wipe.
WipeKeepsCachedKey(c) ==
    /\ At(c, "wipe", "clear")
    /\ Bury(c)
    /\ Return(c)
    /\ UNCHANGED <<diskVars, memoryVars, keyCount, identityCount, now, wiped, gap>>

WipeClearKey(c) ==
    /\ At(c, "wipe", "clear")
    /\ storageKey' = NoKey
    /\ Bury(c)
    /\ Return(c)
    /\ UNCHANGED <<diskVars, running, state, identity, database,
                   keyCount, identityCount, now, wiped, gap>>

-----------------------------------------------------------------------------
(* What goes on meanwhile *)

\* The process dies at any point and a new client is made on the same directory.
Crash ==
    /\ running' = FALSE /\ state' = "created"
    /\ identity' = NoIdentity /\ storageKey' = NoKey
    /\ database' = "none"
    /\ gap' = (gap \/ \E c \in Callers : calls[c].at = "store")
    /\ calls' = [c \in Callers |-> Idle]
    /\ usedMeanwhile' = {}
    /\ UNCHANGED <<diskVars, keyCount, identityCount, now, wiped, deadKeys>>

Next ==
    \/ \E c \in Callers :
        \/ BeginStart(c) \/ BeginCreate(c) \/ BeginLoad(c) \/ BeginRotate(c)
        \/ StartConnecting(c)
        \/ KeyCreate(c) \/ KeyFill(c) \/ KeyCache(c)
        \/ StartOpen(c) \/ StartResume(c) \/ StartPublish(c) \/ StartConnect(c) \/ Stop(c)
        \/ CreateStore(c) \/ CreateInstall(c)
        \/ \E f \in Identity : Load(c, f)
        \/ RotateDeactivate(c) \/ RotateStore(c) \/ RotateInstall(c)
        \/ WipeKey(c) \/ WipeClose(c) \/ WipeRemoveDir(c) \/ WipeRemoveFails(c)
        \/ WipeForget(c) \/ WipeClearKey(c)
    \/ Crash

Spec == Init /\ [][Next]_vars

-----------------------------------------------------------------------------
(* Properties *)

\* Every variable has its type; a caller's step belongs to its operation.
TypeOK ==
    /\ keyFile \in Key \cup {EmptyFile, NoKey}
    /\ rows \in [Identity -> Row \cup {NoRow}]
    /\ running \in BOOLEAN /\ state \in ClientState
    /\ identity \in Identity \cup {NoIdentity}
    /\ storageKey \in Key \cup {NoKey}
    /\ database \in Handle
    /\ calls \in [Callers -> Call]
    /\ keyCount \in 0 .. MaxKeys /\ identityCount \in 0 .. MaxIdentities
    /\ now \in 0 .. MaxClock
    /\ wiped \in BOOLEAN /\ gap \in BOOLEAN
    /\ usedMeanwhile \subseteq Key /\ deadKeys \subseteq Key

\* Unless two callers generated a key at once, or a wipe was begun, everything
\* that was ever stored can be decrypted with the key on disk: whatever crashes,
\* fails or runs side by side, the cached key is the one in the file
\* (ensure_storage_key).
OneKeyReadsAll ==
    keyCount <= 1 /\ ~wiped =>
        /\ storageKey \in {NoKey, keyFile}
        /\ \A f \in Identity : Stored(f) => rows[f].key = keyFile

\* Once an identity is stored, start has one to resume, at every point where the
\* process may die, unless a rotation ended between its two statements
\* (rotate_identity, load_latest_identity).
IdentityComesBack ==
    /\ \E f \in Identity : Stored(f)
    /\ ~gap /\ ~\E c \in Callers : calls[c].at = "store"
    => Latest # {}

\* A key that no other call held at any time from a wipe's removal of the
\* directory to its return is gone: nothing on disk is encrypted under it and it
\* never comes back to memory, however many wipes, starts and failures follow
\* (wipe_local_data).
WipedKeysStayDead ==
    /\ keyFile \notin deadKeys /\ storageKey \notin deadKeys
    /\ \A f \in Identity : Stored(f) => rows[f].key \notin deadKeys
    /\ \A c \in Callers : calls[c].key \notin deadKeys

\* persist_message silently keeps nothing without a database; a running client
\* that was not wiped has one (start, stop).
RunningClientStores == running /\ ~wiped => database = "linked"

\* What wipe_local_data's comment says: it wipes all local data.  When it returns
\* there is no identity in the table.
WipeLeavesNothing ==
    [][\A c \in Callers : WipeClearKey(c) => \A f \in Identity : ~Stored(f)']_vars
=============================================================================

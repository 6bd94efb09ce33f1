----------------------- MODULE ClientLifecycle_proofs -----------------------
(* Proofs about ClientLifecycle, for any callers and bounds. *)
EXTENDS ClientLifecycle, NaturalLemmas

-----------------------------------------------------------------------------
(* Calls *)

(* At these steps a call has its key.                                        *)
Keyed == {"fill", "cache", "run", "store", "install", "resume", "publish", "connect"}

(* At these it has a file open.                                              *)
Holding == {"fill", "resume", "publish"}

CallInv ==
  \A c \in Callers :
    /\ calls[c].at \in Keyed => calls[c].key \in Key
    /\ calls[c].at \in {"store", "resume"} => calls[c].fresh \in Identity
    /\ calls[c].op = "wipe" => wiped

(* A step of one caller: its call gets these fields, and the others may lose *)
(* their files.                                                              *)
Shifts(c, op, at, key, fresh) ==
  /\ calls' \in [Callers -> Call]
  /\ calls'[c].op = op /\ calls'[c].at = at
  /\ calls'[c].key = key /\ calls'[c].fresh = fresh
  /\ \A d \in Callers \ {c} :
       /\ calls'[d].op = calls[d].op /\ calls'[d].at = calls[d].at
       /\ calls'[d].key = calls[d].key /\ calls'[d].fresh = calls[d].fresh

(* Or the other calls do not change.                                         *)
Moves(c, op, at, key, fresh) ==
  /\ Shifts(c, op, at, key, fresh)
  /\ \A d \in Callers \ {c} : calls'[d] = calls[d]

LEMMA CallFields ==
  ASSUME TypeOK, NEW c \in Callers
  PROVE  /\ calls[c] \in Call
         /\ calls[c].op \in Operation \cup {"none"} /\ calls[c].at \in Step
         /\ calls[c].key \in Key \cup {NoKey}
         /\ calls[c].fresh \in Identity \cup {NoIdentity}
         /\ calls[c].file \in Handle
BY DEF TypeOK, Call

LEMMA IdleCall ==
  /\ Idle \in Call /\ Idle.op = "none" /\ Idle.at = "idle"
  /\ Idle.key = NoKey /\ Idle.fresh = NoIdentity /\ Idle.file = "none"
BY DEF Idle, Call, Step, Handle

(* A call of the client gets one new value.                                  *)
LEMMA OneMoves ==
  ASSUME TypeOK, NEW c \in Callers, NEW next \in Call, calls' = [calls EXCEPT ![c] = next]
  PROVE  Moves(c, next.op, next.at, next.key, next.fresh) /\ calls'[c] = next
<1>1. calls \in [Callers -> Call]
  BY DEF TypeOK
<1>2. calls' \in [Callers -> Call] /\ calls'[c] = next
      /\ \A d \in Callers \ {c} : calls'[d] = calls[d]
  BY <1>1
<1> QED
  BY <1>2 DEF Moves, Shifts

LEMMA ReturnMoves ==
  ASSUME TypeOK, NEW c \in Callers, Return(c)
  PROVE  Moves(c, "none", "idle", NoKey, NoIdentity)
<1> QED
  BY IdleCall, OneMoves DEF Return

LEMMA GotoMoves ==
  ASSUME TypeOK, NEW c \in Callers, NEW at \in Step, Goto(c, at)
  PROVE  Moves(c, calls[c].op, at, calls[c].key, calls[c].fresh)
<1> DEFINE next == [calls[c] EXCEPT !.at = at, !.file = "none"]
<1>1. /\ next \in Call /\ next.op = calls[c].op /\ next.at = at
      /\ next.key = calls[c].key /\ next.fresh = calls[c].fresh
  BY CallFields DEF Call, Handle
<1>2. calls' = [calls EXCEPT ![c] = next]
  BY CallFields DEF Goto, TypeOK
<1> HIDE DEF next
<1> QED
  BY <1>1, <1>2, OneMoves

LEMMA GotoWithMoves ==
  ASSUME TypeOK, NEW c \in Callers, NEW op \in Operation \cup {"none"},
         NEW at \in Step, NEW key \in Key \cup {NoKey}, GotoWith(c, op, at, key)
  PROVE  Moves(c, op, at, key, NoIdentity)
<1> DEFINE next == [Idle EXCEPT !.op = op, !.at = at, !.key = key]
<1>1. /\ next \in Call /\ next.op = op /\ next.at = at
      /\ next.key = key /\ next.fresh = NoIdentity
  BY DEF Call, Idle, Handle
<1>2. calls' = [calls EXCEPT ![c] = next]
  BY DEF GotoWith
<1> HIDE DEF next
<1> QED
  BY <1>1, <1>2, OneMoves

LEMMA InstallMoves ==
  ASSUME TypeOK, NEW c \in Callers, NEW at \in Step, NEW fresh \in Identity,
         Install(c, at, fresh)
  PROVE  Moves(c, calls[c].op, at, calls[c].key, fresh)
<1> DEFINE next == [calls[c] EXCEPT !.at = at, !.fresh = fresh]
<1>1. /\ next \in Call /\ next.op = calls[c].op /\ next.at = at
      /\ next.key = calls[c].key /\ next.fresh = fresh
  BY CallFields DEF Call
<1>2. calls' = [calls EXCEPT ![c] = next]
  BY CallFields DEF Install, TypeOK
<1> HIDE DEF next
<1> QED
  BY <1>1, <1>2, OneMoves

LEMMA OpenMoves ==
  ASSUME TypeOK, NEW c \in Callers, NEW at \in Step,
         NEW fresh \in Identity \cup {NoIdentity}, Open(c, at, fresh)
  PROVE  Moves(c, calls[c].op, at, calls[c].key, fresh) /\ calls'[c].file = "linked"
<1> DEFINE next == [calls[c] EXCEPT !.at = at, !.fresh = fresh, !.file = "linked"]
<1>1. /\ next \in Call /\ next.op = calls[c].op /\ next.at = at
      /\ next.key = calls[c].key /\ next.fresh = fresh /\ next.file = "linked"
  BY CallFields DEF Call, Handle
<1>2. calls' = [calls EXCEPT ![c] = next]
  BY CallFields DEF Open, TypeOK
<1> HIDE DEF next
<1> QED
  BY <1>1, <1>2, OneMoves

(* The four ways in which a call goes on to a storage key.                   *)
LEMMA LookupMoves ==
  ASSUME TypeOK, NEW c \in Callers, NEW op \in Operation, Lookup(c, op)
  PROVE  \/ storageKey \in Key /\ Moves(c, op, "run", storageKey, NoIdentity) /\ Used(storageKey)
         \/ keyFile \in Key /\ Moves(c, op, "cache", keyFile, NoIdentity) /\ Used(keyFile)
         \/ Moves(c, "none", "idle", NoKey, NoIdentity) /\ UNCHANGED usedMeanwhile
         \/ Moves(c, op, "create", NoKey, NoIdentity) /\ UNCHANGED usedMeanwhile
<1>1. {"run", "cache", "create"} \subseteq Step
  BY DEF Step
<1>2. CASE storageKey # NoKey /\ GotoWith(c, op, "run", storageKey) /\ Used(storageKey)
  <2>1. storageKey \in Key
    BY <1>2 DEF TypeOK
  <2> QED  BY <1>1, <1>2, <2>1, GotoWithMoves
<1>3. CASE keyFile \in Key /\ GotoWith(c, op, "cache", keyFile) /\ Used(keyFile)
  BY <1>1, <1>3, GotoWithMoves
<1>4. CASE Return(c) /\ UNCHANGED usedMeanwhile
  BY <1>4, ReturnMoves
<1>5. CASE GotoWith(c, op, "create", NoKey) /\ UNCHANGED usedMeanwhile
  BY <1>1, <1>5, GotoWithMoves
<1> QED
  BY <1>2, <1>3, <1>4, <1>5 DEF Lookup

-----------------------------------------------------------------------------
(* The invariants that the properties need, and what most steps do to them *)

(* Unless a wipe was begun, a start that opened the database still has it,   *)
(* and no file that is open was removed.                                     *)
RunInv ==
  ~wiped => /\ running => database = "linked"
            /\ \A c \in Callers :
                 /\ calls[c].at = "connect" => database = "linked"
                 /\ calls[c].at \in Holding => calls[c].file = "linked"

(* The identities that can come back.  A rotation through a database that    *)
(* was removed leaves no gap in the one on disk.                             *)
ActiveInv ==
  /\ \E f \in Identity : Stored(f)
  /\ ~gap /\ (database = "linked" => ~DatabaseHeld)
  => Active # {}

(* With one key generated, everybody who is past writing it to the file, and *)
(* everything they wrote, has the key of the file.                           *)
OneKeyInv ==
  keyCount <= 1 /\ ~wiped =>
    /\ keyFile \in (IF keyCount = 0 THEN {NoKey} ELSE {EmptyFile, 1})
    /\ \A c \in Callers :
         /\ calls[c].key \in (IF keyCount = 0 THEN {NoKey} ELSE {NoKey, 1})
         /\ calls[c].at # "fill" => calls[c].key \in {NoKey, keyFile}
    /\ storageKey \in {NoKey, keyFile}
    /\ \A f \in Identity : Stored(f) => rows[f].key = keyFile

(* The keys that no call has held since the wipe under way removed the disk. *)
Unused == IF Removed THEN (1..keyCount) \ usedMeanwhile ELSE {}

(* No place but the cache has one of these keys.                             *)
Gone(K) ==
  /\ keyFile \notin K
  /\ \A f \in Identity : Stored(f) => rows[f].key \notin K
  /\ \A c \in Callers : calls[c].key \notin K

(* The dead keys are nowhere; those that the wipe under way will bury are in *)
(* the cache at most.  All were generated: none of them is generated again.  *)
DeadInv ==
  /\ deadKeys \subseteq 1..keyCount /\ storageKey \notin deadKeys
  /\ Gone(deadKeys) /\ Gone(Unused)

(* The key of a call that no longer has to write it.                         *)
HeldKey(c) == {k \in Key : calls[c].at # "fill" /\ k = calls[c].key}

(* A step of c that brings a key to no place but from another, and from the  *)
(* cache only if it counts as used.                                          *)
PassesKeys(c) ==
  /\ UNCHANGED <<keyFile, keyCount, wiped, deadKeys>>
  /\ Unused' \subseteq Unused
  /\ storageKey' \in {NoKey, storageKey} \cup HeldKey(c)
  /\ \A f \in Identity : Stored(f)' =>
       \/ Stored(f) /\ rows'[f].key = rows[f].key
       \/ rows'[f].key \in HeldKey(c)
  /\ \/ calls'[c].key \in {NoKey} \cup HeldKey(c)
     \/ calls'[c].key \in (Key \cap {storageKey, keyFile}) \ Unused'
  /\ calls'[c].at # "fill"
  /\ \A d \in Callers \ {c} : calls'[d] = calls[d]

LEMMA StoredRowKey ==
  ASSUME TypeOK, NEW f \in Identity, Stored(f)
  PROVE  rows[f] \in Row /\ rows[f].key \in Key /\ rows[f].created \in 0..MaxClock
<1>1. rows[f] \in Row \cup {NoRow} /\ rows[f].stored
  BY DEF TypeOK, Stored
<1>2. rows[f] \in Row
  BY <1>1 DEF NoRow
<1> QED
  BY <1>2 DEF Row

LEMMA KeyNumbers ==
  /\ Key \subseteq Nat /\ NoKey \notin Key /\ ZeroKey \in Key
  /\ EmptyFile \notin Key /\ EmptyFile # NoKey
<1>1. Key \subseteq Nat /\ ZeroKey \in Key /\ EmptyFile \notin Key /\ EmptyFile \in Nat
  BY BoundsAssumption DEF Key, EmptyFile, ZeroKey
<1> QED
  BY <1>1, SentinelAssumption

LEMMA DeadKeyNumbers ==
  ASSUME TypeOK, DeadInv
  PROVE  NoKey \notin deadKeys /\ ZeroKey \notin deadKeys /\ EmptyFile \notin deadKeys
<1>1. deadKeys \subseteq Key
  BY DEF TypeOK
<1>2. 0 \notin 1..keyCount
  BY BoundsAssumption DEF TypeOK
<1> QED
  BY <1>1, <1>2, KeyNumbers DEF DeadInv, ZeroKey

LEMMA UnusedNumbers ==
  ASSUME TypeOK
  PROVE  Unused \subseteq Key /\ NoKey \notin Unused /\ ZeroKey \notin Unused /\ EmptyFile \notin Unused
<1>1. Unused \subseteq 1..keyCount /\ keyCount \in 0..MaxKeys
  BY DEF Unused, TypeOK
<1>2. (1..keyCount) \subseteq Key \ {0}
  BY <1>1, BoundsAssumption DEF Key
<1> QED
  BY <1>1, <1>2, KeyNumbers DEF ZeroKey

LEMMA PassedOneKey ==
  ASSUME TypeOK, OneKeyInv, NEW c \in Callers, PassesKeys(c)
  PROVE  OneKeyInv'
<1> SUFFICES ASSUME keyCount <= 1, ~wiped PROVE OneKeyInv'
  BY DEF PassesKeys, OneKeyInv
<1>1. HeldKey(c) \subseteq {keyFile} \ {NoKey}
  BY SentinelAssumption DEF OneKeyInv, HeldKey, Key
<1>2. storageKey' \in {NoKey, keyFile'}
  BY <1>1 DEF PassesKeys, OneKeyInv
<1>3. \A f \in Identity : Stored(f)' => rows'[f].key = keyFile'
  BY <1>1 DEF PassesKeys, OneKeyInv
<1>4. calls'[c].key \in {NoKey, keyFile'}
  BY <1>1 DEF PassesKeys, OneKeyInv
<1>5. keyCount = 0 => keyFile' = NoKey
  BY DEF PassesKeys, OneKeyInv
<1>6. keyCount # 0 => calls'[c].key \in {NoKey, 1}
  <2>1. EmptyFile \notin Key
    BY BoundsAssumption DEF EmptyFile, Key
  <2> QED  BY <1>1, <2>1 DEF PassesKeys, OneKeyInv, HeldKey
<1> QED
  BY <1>2, <1>3, <1>4, <1>5, <1>6 DEF PassesKeys, OneKeyInv

LEMMA PassedDeadKeys ==
  ASSUME TypeOK, DeadInv, NEW c \in Callers, PassesKeys(c)
  PROVE  DeadInv'
<1>1. /\ NoKey \notin deadKeys \cup Unused
      /\ HeldKey(c) \cap (deadKeys \cup Unused) = {}
  BY DeadKeyNumbers, UnusedNumbers DEF DeadInv, Gone, HeldKey
<1>2. storageKey' \notin deadKeys /\ calls'[c].key \notin deadKeys
  BY <1>1 DEF PassesKeys, DeadInv, Gone
<1>3. calls'[c].key \notin Unused'
  BY <1>1 DEF PassesKeys, DeadInv, Gone
<1>4. \A f \in Identity : Stored(f)' => rows'[f].key \notin deadKeys \cup Unused
  BY <1>1 DEF PassesKeys, DeadInv, Gone
<1>5. keyFile' \notin deadKeys \cup Unused
      /\ \A d \in Callers \ {c} : calls'[d].key \notin deadKeys \cup Unused
  BY DEF PassesKeys, DeadInv, Gone
<1>6. Gone(deadKeys)' /\ Gone(Unused)'
  BY <1>2, <1>3, <1>4, <1>5 DEF PassesKeys, Gone
<1> QED
  BY <1>2, <1>6 DEF PassesKeys, DeadInv

LEMMA ShiftedCalls ==
  ASSUME TypeOK, CallInv, wiped => wiped', NEW c \in Callers,
         NEW op, NEW at, NEW key, NEW fresh, Shifts(c, op, at, key, fresh),
         at \in Keyed => key \in Key, at \in {"store", "resume"} => fresh \in Identity,
         op = "wipe" => wiped'
  PROVE  CallInv' /\ calls' \in [Callers -> Call]
BY DEF CallInv, Shifts

LEMMA MovedCalls ==
  ASSUME TypeOK, CallInv, wiped => wiped', NEW c \in Callers,
         NEW op, NEW at, NEW key, NEW fresh, Moves(c, op, at, key, fresh),
         at \in Keyed => key \in Key, at \in {"store", "resume"} => fresh \in Identity,
         op = "wipe" => wiped'
  PROVE  CallInv' /\ calls' \in [Callers -> Call]
BY ShiftedCalls DEF Moves

LEMMA MovedRun ==
  ASSUME RunInv, UNCHANGED <<wiped, running>>, NEW c \in Callers,
         NEW op, NEW at, NEW key, NEW fresh, Moves(c, op, at, key, fresh),
         ~wiped => /\ database' \in {database, "linked"}
                   /\ at = "connect" => database' = "linked"
                   /\ at \in Holding => calls'[c].file = "linked"
  PROVE  RunInv'
BY DEF RunInv, Moves, Shifts

(* Who does not enter or leave the last two steps of a wipe.                 *)
LEMMA MovedRemoved ==
  ASSUME NEW c \in Callers,
         NEW op, NEW at, NEW key, NEW fresh, Shifts(c, op, at, key, fresh),
         at \in {"forget", "clear"} <=> calls[c].at \in {"forget", "clear"}
  PROVE  Removed' = Removed
BY DEF Removed, Shifts

LEMMA ShiftedActive ==
  ASSUME ActiveInv, UNCHANGED <<rows, gap>>, NEW c \in Callers,
         NEW op, NEW at, NEW key, NEW fresh, Shifts(c, op, at, key, fresh),
         ~DatabaseHeld \/ (UNCHANGED database /\ calls[c].at # "store")
  PROVE  ActiveInv'
<1> SUFFICES ASSUME \E f \in Identity : Stored(f)', ~gap',
                    (database = "linked" => ~DatabaseHeld)'
             PROVE  (Active # {})'
  BY DEF ActiveInv
<1>1. database = "linked" => ~DatabaseHeld
  BY DEF Shifts, DatabaseHeld
<1>2. \E f \in Identity : Stored(f)
  BY DEF Stored
<1>3. Active # {}
  BY <1>1, <1>2 DEF ActiveInv
<1> QED
  BY <1>3 DEF Active, Stored

LEMMA MovedActive ==
  ASSUME ActiveInv, UNCHANGED <<rows, gap>>, NEW c \in Callers,
         NEW op, NEW at, NEW key, NEW fresh, Moves(c, op, at, key, fresh),
         ~DatabaseHeld \/ (UNCHANGED database /\ calls[c].at # "store")
  PROVE  ActiveInv'
BY ShiftedActive DEF Moves

-----------------------------------------------------------------------------
(* Looking up the key *)

(* What the steps to come preserve besides the keys.                         *)
Sound == TypeOK /\ CallInv /\ RunInv /\ ActiveInv

LEMMA LookupStep ==
  ASSUME Sound, NEW c \in Callers, NEW op \in Operation \ {"wipe"}, Lookup(c, op),
         calls[c].at \in {"idle", "begin"},
         state' \in ClientState,
         UNCHANGED <<diskVars, running, identity, storageKey, database,
                     keyCount, identityCount, now, wiped, gap, deadKeys>>
  PROVE  Sound' /\ PassesKeys(c)
<1>1. PICK at \in {"run", "cache", "idle", "create"}, key \in Key \cup {NoKey},
           op2 \in {op, "none"} :
        /\ Moves(c, op2, at, key, NoIdentity)
        /\ \/ key = NoKey /\ UNCHANGED usedMeanwhile
           \/ key \in Key \cap {storageKey, keyFile} /\ Used(key)
        /\ at \in {"run", "cache"} => key \in Key
  BY LookupMoves DEF Sound
<1>2. CallInv' /\ calls' \in [Callers -> Call]
  BY <1>1, MovedCalls DEF Sound, Keyed
<1>3. RunInv'
  BY <1>1, MovedRun DEF Sound, Holding
<1>4. ActiveInv'
  BY <1>1, MovedActive DEF Sound, diskVars
<1>5. Removed' = Removed
  BY <1>1, MovedRemoved DEF Moves
<1>6. usedMeanwhile' \subseteq Key
  BY <1>1 DEF Sound, TypeOK, Used
<1>7. TypeOK'
  BY <1>2, <1>6 DEF Sound, TypeOK, diskVars
<1>8. Unused' \subseteq Unused /\ (key # NoKey => key \notin Unused')
  BY <1>1, <1>5 DEF Unused, Used
<1>9. PassesKeys(c)
  BY <1>1, <1>8 DEF Moves, Shifts, PassesKeys, Stored, diskVars
<1> QED
  BY <1>2, <1>3, <1>4, <1>7, <1>9 DEF Sound

LEMMA BeginStep ==
  ASSUME Sound, NEW c \in Callers, BeginCreate(c) \/ BeginLoad(c) \/ BeginRotate(c)
  PROVE  Sound' /\ PassesKeys(c)
<1>1. PICK op \in {"create", "load", "rotate"} : Begin(c, op)
  BY DEF BeginCreate, BeginLoad, BeginRotate
<1>2. op \in Operation \ {"wipe"}
  BY DEF Operation
<1>3. calls[c] = Idle /\ calls[c].at = "idle" /\ Lookup(c, op)
      /\ UNCHANGED <<diskVars, memoryVars, keyCount, identityCount, now, wiped, gap, deadKeys>>
  BY <1>1, IdleCall DEF Begin
<1>4. state' \in ClientState
  BY <1>3 DEF memoryVars, Sound, TypeOK
<1> QED
  BY <1>2, <1>3, <1>4, LookupStep DEF memoryVars

LEMMA StartConnectingStep ==
  ASSUME Sound, NEW c \in Callers, StartConnecting(c)
  PROVE  Sound' /\ PassesKeys(c)
<1>1. "start" \in Operation \ {"wipe"} /\ state' \in ClientState
      /\ calls[c].at = "begin" /\ calls[c].op = "start" /\ Lookup(c, "start")
      /\ UNCHANGED <<diskVars, running, identity, storageKey, database,
                     keyCount, identityCount, now, wiped, gap, deadKeys>>
  BY DEF StartConnecting, At, Operation, ClientState
<1> QED
  BY <1>1, LookupStep

(* A step that leaves the disk alone and passes on what the call has.        *)
LEMMA MemoryStep ==
  ASSUME Sound, NEW c \in Callers, calls[c].at # "store",
         NEW at \in Step \ {"fill", "store", "forget"}, NEW op, NEW key, NEW fresh,
         Moves(c, op, at, key, fresh),
         op = "wipe" => wiped, key \in {NoKey} \cup HeldKey(c),
         at \in Keyed => key \in Key, at = "resume" => fresh \in Identity,
         at = "clear" <=> calls[c].at \in {"forget", "clear"},
         UNCHANGED <<diskVars, worldVars, running>>, state' \in ClientState,
         identity' \in Identity \cup {NoIdentity},
         storageKey' \in {storageKey, NoKey} \cup HeldKey(c),
         database' \in Handle, ~DatabaseHeld \/ UNCHANGED database,
         ~wiped => /\ database' \in {database, "linked"}
                   /\ at = "connect" => database' = "linked"
                   /\ at \in {"resume", "publish"} => calls'[c].file = "linked"
  PROVE  Sound' /\ PassesKeys(c)
<1>1. CallInv' /\ calls' \in [Callers -> Call]
  BY MovedCalls DEF Sound, worldVars, historyVars
<1>2. RunInv'
  BY MovedRun DEF Sound, worldVars, historyVars, Holding
<1>3. ActiveInv'
  BY MovedActive DEF Sound, diskVars, worldVars, historyVars
<1>4. HeldKey(c) \subseteq Key
  BY DEF HeldKey
<1>5. TypeOK'
  BY <1>1, <1>4 DEF Sound, TypeOK, diskVars, worldVars, historyVars
<1>6. Removed' = Removed
  BY MovedRemoved DEF Moves
<1>7. Unused' = Unused
  BY <1>6 DEF Unused, worldVars, historyVars
<1>8. PassesKeys(c)
  BY <1>7 DEF Moves, Shifts, PassesKeys, Stored, diskVars, worldVars, historyVars
<1> QED
  BY <1>1, <1>2, <1>3, <1>5, <1>8 DEF Sound

(* Returning is such a step, and so is going on with the key.                *)
LEMMA ReturnStep ==
  ASSUME Sound, NEW c \in Callers, Return(c), calls[c].at \notin {"store", "forget", "clear"},
         UNCHANGED <<diskVars, worldVars, running, database>>, state' \in ClientState,
         identity' \in Identity \cup {NoIdentity}, storageKey' \in {storageKey, NoKey}
  PROVE  Sound' /\ PassesKeys(c)
<1>1. Moves(c, "none", "idle", NoKey, NoIdentity)
  BY ReturnMoves DEF Sound
<1>2. "idle" \in Step \ {"fill", "store", "forget"} /\ "idle" \notin Keyed /\ database' \in Handle
  BY DEF Step, Keyed, Sound, TypeOK
<1> QED
  BY <1>1, <1>2, MemoryStep

LEMMA GotoStep ==
  ASSUME Sound, NEW c \in Callers, NEW at \in {"run", "connect", "remove", "clear"}, Goto(c, at),
         at \in {"run", "connect"} => calls[c].at \in {"cache", "publish"},
         at = "remove" => calls[c].op = "wipe" /\ calls[c].at = "close",
         at = "clear" => calls[c].op = "wipe" /\ calls[c].at = "forget",
         UNCHANGED <<diskVars, worldVars, running, state>>,
         identity' \in {identity, NoIdentity},
         storageKey' \in {storageKey} \cup HeldKey(c),
         database' \in Handle, ~DatabaseHeld \/ UNCHANGED database,
         ~wiped => /\ database' \in {database, "linked"}
                   /\ at = "connect" => database' = "linked"
  PROVE  Sound' /\ PassesKeys(c)
<1>1. at \in Step \ {"fill", "store", "forget"}
  BY DEF Step
<1>2. Moves(c, calls[c].op, at, calls[c].key, calls[c].fresh)
  BY <1>1, GotoMoves DEF Sound
<1>3. calls[c].op = "wipe" => wiped
  BY DEF Sound, CallInv
<1>4. CASE at \in {"run", "connect"}
  <2>1. calls[c].key \in Key /\ calls[c].key \in HeldKey(c)
    BY <1>4 DEF Sound, CallInv, Keyed, HeldKey
  <2>2. state' \in ClientState /\ identity' \in Identity \cup {NoIdentity}
    BY DEF Sound, TypeOK
  <2> QED  BY <1>1, <1>2, <1>3, <1>4, <2>1, <2>2, MemoryStep
<1>5. CASE at \in {"remove", "clear"}
  <2>1. calls[c].key \in {NoKey} \cup HeldKey(c) /\ at \notin Keyed
    BY <1>5, CallFields DEF Sound, Keyed, HeldKey
  <2>2. state' \in ClientState /\ identity' \in Identity \cup {NoIdentity}
    BY DEF Sound, TypeOK
  <2> QED  BY <1>1, <1>2, <1>3, <1>5, <2>1, <2>2, MemoryStep
<1> QED
  BY <1>4, <1>5

LEMMA BeginStartStep ==
  ASSUME Sound, NEW c \in Callers, BeginStart(c)
  PROVE  Sound' /\ PassesKeys(c)
<1>1. GotoWith(c, "start", "begin", NoKey) /\ calls[c] = Idle
      /\ UNCHANGED <<diskVars, memoryVars, worldVars>>
  BY DEF BeginStart
<1>2. Moves(c, "start", "begin", NoKey, NoIdentity)
  BY <1>1, GotoWithMoves DEF Sound, Operation, Step
<1>3. "begin" \in Step \ {"fill", "store", "forget"} /\ "begin" \notin Keyed
      /\ state' \in ClientState /\ identity' \in Identity \cup {NoIdentity}
      /\ database' \in Handle
  BY <1>1 DEF Step, Keyed, Sound, TypeOK, memoryVars
<1> QED
  BY <1>1, <1>2, <1>3, IdleCall, MemoryStep DEF memoryVars

LEMMA KeyCacheStep ==
  ASSUME Sound, NEW c \in Callers, KeyCache(c)
  PROVE  Sound' /\ PassesKeys(c)
<1>1. /\ calls[c].at = "cache" /\ storageKey' = calls[c].key /\ Goto(c, "run")
      /\ UNCHANGED <<diskVars, running, state, identity, database, worldVars>>
  BY DEF KeyCache
<1>2. calls[c].key \in HeldKey(c) /\ database' \in Handle
  BY <1>1 DEF Sound, CallInv, Keyed, HeldKey, TypeOK
<1> QED
  BY <1>1, <1>2, GotoStep

-----------------------------------------------------------------------------
(* Starting, installing, loading *)

LEMMA StartOpenStep ==
  ASSUME Sound, NEW c \in Callers, StartOpen(c)
  PROVE  Sound' /\ PassesKeys(c)
<1>1. /\ calls[c].at = "run" /\ calls[c].op = "start"
      /\ UNCHANGED <<diskVars, memoryVars, worldVars>>
      /\ \/ Return(c) \/ Open(c, "publish", NoIdentity)
         \/ \E f \in Latest : Open(c, "resume", f)
  BY DEF StartOpen, At
<1>2. state' \in ClientState /\ identity' \in Identity \cup {NoIdentity} /\ database' \in Handle
  BY <1>1 DEF Sound, TypeOK, memoryVars
<1>3. calls[c].key \in Key /\ calls[c].key \in HeldKey(c)
  BY <1>1 DEF Sound, CallInv, Keyed, HeldKey
<1>4. {"publish", "resume"} \subseteq Step \ {"fill", "store", "forget"}
  BY DEF Step
<1>5. CASE Return(c)
  BY <1>1, <1>2, <1>5, ReturnStep DEF memoryVars
<1>6. CASE Open(c, "publish", NoIdentity)
  <2>1. Moves(c, "start", "publish", calls[c].key, NoIdentity) /\ calls'[c].file = "linked"
    BY <1>1, <1>4, <1>6, OpenMoves DEF Sound
  <2> QED  BY <1>1, <1>2, <1>3, <1>4, <2>1, MemoryStep DEF memoryVars
<1>7. ASSUME NEW f \in Latest, Open(c, "resume", f) PROVE Sound' /\ PassesKeys(c)
  <2>1. f \in Identity
    BY DEF Latest, Active
  <2>2. Moves(c, "start", "resume", calls[c].key, f) /\ calls'[c].file = "linked"
    BY <1>1, <1>4, <1>7, <2>1, OpenMoves DEF Sound
  <2> QED  BY <1>1, <1>2, <1>3, <1>4, <2>1, <2>2, MemoryStep DEF memoryVars
<1> QED
  BY <1>1, <1>5, <1>6, <1>7

LEMMA StartResumeStep ==
  ASSUME Sound, NEW c \in Callers, StartResume(c)
  PROVE  Sound' /\ PassesKeys(c)
<1> DEFINE next == [calls[c] EXCEPT !.at = "publish"]
<1>1. /\ calls[c].at = "resume" /\ calls[c].op = "start" /\ identity' = calls[c].fresh
      /\ calls' = [calls EXCEPT ![c].at = "publish"]
      /\ UNCHANGED <<diskVars, running, state, storageKey, database, worldVars>>
  BY DEF StartResume, At
<1>2. /\ next \in Call /\ next.op = "start" /\ next.at = "publish" /\ next.key = calls[c].key
      /\ next.fresh = calls[c].fresh /\ next.file = calls[c].file
  BY <1>1, CallFields DEF Sound, Call, Step
<1>3. calls' = [calls EXCEPT ![c] = next]
  BY <1>1, CallFields DEF Sound, TypeOK
<1> HIDE DEF next
<1>4. Moves(c, "start", "publish", calls[c].key, calls[c].fresh) /\ calls'[c].file = calls[c].file
  BY <1>2, <1>3, OneMoves DEF Sound
<1>5. /\ calls[c].key \in Key /\ calls[c].key \in HeldKey(c) /\ calls[c].fresh \in Identity
      /\ ~wiped => calls[c].file = "linked"
  BY <1>1 DEF Sound, CallInv, RunInv, Keyed, Holding, HeldKey
<1>6. state' \in ClientState /\ database' \in Handle
      /\ "publish" \in Step \ {"fill", "store", "forget"}
  BY <1>1 DEF Sound, TypeOK, Step
<1> QED
  BY <1>1, <1>4, <1>5, <1>6, MemoryStep

LEMMA StartPublishStep ==
  ASSUME Sound, NEW c \in Callers, StartPublish(c)
  PROVE  Sound' /\ PassesKeys(c)
<1>1. /\ calls[c].at = "publish" /\ ~DatabaseHeld /\ database' = calls[c].file /\ Goto(c, "connect")
      /\ UNCHANGED <<diskVars, running, state, identity, storageKey, worldVars>>
  BY DEF StartPublish, At
<1>2. database' \in Handle /\ (~wiped => database' = "linked")
  BY <1>1, CallFields DEF Sound, RunInv, Holding
<1> QED
  BY <1>1, <1>2, GotoStep

LEMMA InstallingStep ==
  ASSUME Sound, NEW c \in Callers,
         CreateInstall(c) \/ (\E f \in Identity : Load(c, f)) \/ RotateInstall(c)
  PROVE  Sound' /\ PassesKeys(c)
<1>1. /\ UNCHANGED <<diskVars, running, state, database, worldVars>>
      /\ calls[c].at \in {"run", "install"}
      /\ storageKey' \in {storageKey, NoKey}
      /\ identity' \in {identity, calls[c].fresh} \cup Identity
      /\ Return(c)
  BY DEF CreateInstall, Load, RotateInstall, At
<1>2. identity' \in Identity \cup {NoIdentity} /\ state' \in ClientState
  BY <1>1, CallFields DEF Sound, TypeOK
<1> QED
  BY <1>1, <1>2, ReturnStep

(* A wipe that closes the database, or forgets the identity.                 *)
LEMMA WipingStep ==
  ASSUME Sound, NEW c \in Callers, WipeClose(c) \/ WipeForget(c)
  PROVE  Sound' /\ PassesKeys(c)
<1>1. calls[c].op = "wipe" /\ wiped
  BY DEF WipeClose, WipeForget, At, Sound, CallInv
<1>2. CASE WipeClose(c)
  BY <1>1, <1>2, GotoStep DEF WipeClose, At, Handle
<1>3. CASE WipeForget(c)
  <2>1. database' \in Handle
    BY <1>3 DEF WipeForget, Sound, TypeOK
  <2> QED  BY <1>1, <1>3, <2>1, GotoStep DEF WipeForget, At
<1> QED
  BY <1>2, <1>3

LEMMA StartConnectStep ==
  ASSUME Sound, NEW c \in Callers, StartConnect(c)
  PROVE  Sound' /\ PassesKeys(c)
<1>1. /\ calls[c].at = "connect" /\ Return(c)
      /\ UNCHANGED <<diskVars, identity, storageKey, database, worldVars>>
      /\ state' \in {state, "connected"} /\ running' \in {running, TRUE}
  BY DEF StartConnect, At
<1>2. Moves(c, "none", "idle", NoKey, NoIdentity)
  BY <1>1, ReturnMoves DEF Sound
<1>3. CallInv' /\ calls' \in [Callers -> Call]
  BY <1>1, <1>2, MovedCalls DEF Sound, Keyed, worldVars, historyVars
<1>4. RunInv'
  BY <1>1, <1>2 DEF Sound, RunInv, Moves, Shifts, Holding, worldVars, historyVars
<1>5. ActiveInv'
  BY <1>1, <1>2, MovedActive DEF Sound, diskVars, worldVars, historyVars
<1>6. TypeOK'
  BY <1>1, <1>3 DEF Sound, TypeOK, ClientState, diskVars, worldVars, historyVars
<1>7. Unused' = Unused
  BY <1>1, <1>2, MovedRemoved DEF Unused, Moves, worldVars, historyVars
<1>8. PassesKeys(c)
  BY <1>1, <1>2, <1>7 DEF Moves, Shifts, PassesKeys, Stored, diskVars, worldVars, historyVars
<1> QED
  BY <1>3, <1>4, <1>5, <1>6, <1>8 DEF Sound

(* Steps that leave keys, rows and calls where they are.                     *)
LEMMA StopStep ==
  ASSUME Sound, (\E c \in Callers : Stop(c)) \/ UNCHANGED vars
  PROVE  /\ Sound'
         /\ UNCHANGED <<keyFile, rows, storageKey, calls, keyCount, wiped, usedMeanwhile, deadKeys>>
<1>1. /\ UNCHANGED <<keyFile, rows, storageKey, calls, database, identity, keyCount,
                     identityCount, now, wiped, gap, usedMeanwhile, deadKeys>>
      /\ state' \in {state, "disconnected"} /\ running' \in {running, FALSE}
  BY DEF Stop, vars, diskVars, memoryVars, worldVars, historyVars
<1>2. TypeOK'
  BY <1>1 DEF Sound, TypeOK, ClientState
<1>3. CallInv'
  BY <1>1 DEF Sound, CallInv
<1>4. RunInv'
  <2>1. running' => running
    BY DEF Stop, vars, memoryVars
  <2> QED  BY <1>1, <2>1 DEF Sound, RunInv
<1>5. ActiveInv'
  <2>1. Active' = Active /\ \A f \in Identity : Stored(f)' <=> Stored(f)
    BY <1>1 DEF Active, Stored
  <2> QED  BY <1>1, <2>1 DEF Sound, ActiveInv, DatabaseHeld
<1> QED
  BY <1>1, <1>2, <1>3, <1>4, <1>5 DEF Sound

-----------------------------------------------------------------------------
(* Storing identities *)

(* A row that is stored is active, and under the key of the call.            *)
LEMMA StoredRow ==
  ASSUME Sound, NEW c \in Callers, NEW f \in Identity, calls[c].key \in Key,
         StoreIdentity(c, f)
  PROVE  /\ rows' \in [Identity -> Row \cup {NoRow}] /\ now' \in 0..MaxClock
         /\ f \in Active'
         /\ \A g \in Identity : Stored(g)' =>
              (Stored(g) /\ rows'[g].key = rows[g].key) \/ rows'[g].key = calls[c].key
<1>1. PICK second \in {now, now + 1} \cap 0..MaxClock :
        /\ now' = second
        /\ rows' = [rows EXCEPT ![f] = [stored |-> TRUE, active |-> TRUE,
                                        created |-> second, key |-> calls[c].key]]
  BY DEF StoreIdentity
<1> DEFINE row == [stored |-> TRUE, active |-> TRUE,
                   created |-> second, key |-> calls[c].key]
<1>2. row \in Row /\ row.stored /\ row.active /\ row.key = calls[c].key
  BY <1>1 DEF Row
<1>3. rows' = [rows EXCEPT ![f] = row]
  BY <1>1
<1> HIDE DEF row
<1>4. rows' \in [Identity -> Row \cup {NoRow}] /\ rows'[f] = row
      /\ \A g \in Identity \ {f} : rows'[g] = rows[g]
  BY <1>2, <1>3 DEF Sound, TypeOK
<1> QED
  BY <1>1, <1>2, <1>4 DEF Active, Stored

(* The identities with all marks removed.                                    *)
LEMMA DeactivatedRows ==
  ASSUME Sound
  PROVE  /\ Deactivated \in [Identity -> Row \cup {NoRow}]
         /\ \A g \in Identity : Deactivated[g].stored =>
              Stored(g) /\ Deactivated[g].key = rows[g].key
<1>1. ASSUME NEW g \in Identity, Stored(g)
      PROVE  /\ [rows[g] EXCEPT !.active = FALSE] \in Row
             /\ [rows[g] EXCEPT !.active = FALSE].key = rows[g].key
  <2>1. rows[g] \in Row
    BY <1>1, StoredRowKey DEF Sound
  <2> QED  BY <2>1 DEF Row
<1>2. \A g \in Identity : ~Stored(g) => rows[g] \in Row \cup {NoRow} /\ ~rows[g].stored
  BY DEF Sound, TypeOK, Stored
<1> QED
  BY <1>1, <1>2 DEF Deactivated

(* Returning, with or without a row written, or going on.                    *)
LEMMA CreateStoreStep ==
  ASSUME Sound, NEW c \in Callers, CreateStore(c)
  PROVE  Sound' /\ PassesKeys(c)
<1> DEFINE fresh == identityCount + 1
<1>1. /\ calls[c].at = "run" /\ calls[c].op = "create" /\ identityCount' = fresh
      /\ UNCHANGED <<keyFile, memoryVars, keyCount, historyVars>>
      /\ \/ (StoreIdentity(c, fresh) \/ UNCHANGED <<rows, now>>) /\ Install(c, "install", fresh)
         \/ UNCHANGED <<rows, now>> /\ Return(c)
  BY DEF CreateStore, At
<1>2. fresh \in Identity /\ fresh \in 0..MaxIdentities
  BY BoundsAssumption DEF CreateStore, Sound, TypeOK, Identity
<1> HIDE DEF fresh
<1>3. calls[c].key \in Key /\ HeldKey(c) = {calls[c].key}
  BY <1>1 DEF Sound, CallInv, Keyed, HeldKey
<1>4. PICK op, at, key, fresh2 :
        /\ at \in {"install", "idle"}
        /\ Moves(c, op, at, key, fresh2) /\ op # "wipe"
        /\ key \in {NoKey, calls[c].key} /\ (at = "install" => key \in Key)
  <2>1. CASE Install(c, "install", fresh)
    <3>1. Moves(c, "create", "install", calls[c].key, fresh)
      BY <1>1, <1>2, <2>1, InstallMoves DEF Sound, Step
    <3> QED  BY <1>3, <3>1
  <2>2. CASE Return(c)
    <3>1. Moves(c, "none", "idle", NoKey, NoIdentity)
      BY <2>2, ReturnMoves DEF Sound
    <3> QED  BY <3>1
  <2> QED  BY <1>1, <2>1, <2>2
<1>5. CallInv' /\ calls' \in [Callers -> Call]
  BY <1>1, <1>4, MovedCalls DEF Sound, Keyed, historyVars
<1>6. RunInv'
  BY <1>1, <1>4, MovedRun DEF Sound, memoryVars, historyVars, Holding
<1>7. /\ rows' \in [Identity -> Row \cup {NoRow}] /\ now' \in 0..MaxClock
      /\ \A g \in Identity : Stored(g)' =>
           (Stored(g) /\ rows'[g].key = rows[g].key) \/ rows'[g].key = calls[c].key
      /\ UNCHANGED rows \/ Active' # {}
  <2>1. CASE StoreIdentity(c, fresh)
    BY <1>2, <1>3, <2>1, StoredRow
  <2>2. CASE UNCHANGED <<rows, now>>
    BY <2>2 DEF Stored, Sound, TypeOK
  <2> QED  BY <1>1, <2>1, <2>2
<1>8. ActiveInv'
  <2>1. CASE UNCHANGED rows
    BY <1>1, <1>4, <2>1, MovedActive DEF Sound, memoryVars, historyVars
  <2>2. CASE Active' # {}
    BY <2>2 DEF ActiveInv
  <2> QED  BY <1>7, <2>1, <2>2
<1>9. TypeOK'
  BY <1>1, <1>2, <1>5, <1>7 DEF Sound, TypeOK, memoryVars, historyVars
<1>10. Unused' = Unused
  BY <1>1, <1>4, MovedRemoved DEF Unused, Moves, historyVars
<1>11. PassesKeys(c)
  BY <1>1, <1>3, <1>4, <1>7, <1>10 DEF Moves, Shifts, PassesKeys, memoryVars, historyVars
<1> QED
  BY <1>5, <1>6, <1>8, <1>9, <1>11 DEF Sound

LEMMA RotateDeactivateStep ==
  ASSUME Sound, NEW c \in Callers, RotateDeactivate(c)
  PROVE  Sound' /\ PassesKeys(c)
<1> DEFINE fresh == identityCount + 1
<1>1. /\ calls[c].at = "run" /\ calls[c].op = "rotate" /\ identityCount' = fresh
      /\ UNCHANGED <<keyFile, memoryVars, keyCount, historyVars, now>>
      /\ \/ /\ (database = "linked" /\ rows' = Deactivated) \/ UNCHANGED rows
            /\ Install(c, "store", fresh)
         \/ UNCHANGED rows /\ (Install(c, "install", fresh) \/ Return(c))
  BY DEF RotateDeactivate, At
<1>2. fresh \in Identity /\ fresh \in 0..MaxIdentities
  BY BoundsAssumption DEF RotateDeactivate, Sound, TypeOK, Identity
<1> HIDE DEF fresh
<1>3. calls[c].key \in Key /\ HeldKey(c) = {calls[c].key}
  BY <1>1 DEF Sound, CallInv, Keyed, HeldKey
<1>4. PICK op, at, key, fresh2 :
        /\ at \in {"store", "install", "idle"}
        /\ Moves(c, op, at, key, fresh2) /\ op # "wipe"
        /\ key \in {NoKey, calls[c].key} /\ (at # "idle" => key \in Key /\ fresh2 \in Identity)
        /\ UNCHANGED rows \/ (rows' = Deactivated /\ at = "store" /\ database = "linked")
  <2>1. CASE /\ (database = "linked" /\ rows' = Deactivated) \/ UNCHANGED rows
             /\ Install(c, "store", fresh)
    <3>1. Moves(c, "rotate", "store", calls[c].key, fresh)
      BY <1>1, <1>2, <2>1, InstallMoves DEF Sound, Step
    <3> QED  BY <1>2, <1>3, <2>1, <3>1
  <2>2. CASE UNCHANGED rows /\ Install(c, "install", fresh)
    <3>1. Moves(c, "rotate", "install", calls[c].key, fresh)
      BY <1>1, <1>2, <2>2, InstallMoves DEF Sound, Step
    <3> QED  BY <1>2, <1>3, <2>2, <3>1
  <2>3. CASE UNCHANGED rows /\ Return(c)
    <3>1. Moves(c, "none", "idle", NoKey, NoIdentity)
      BY <2>3, ReturnMoves DEF Sound
    <3> QED  BY <2>3, <3>1
  <2> QED  BY <1>1, <2>1, <2>2, <2>3
<1>5. CallInv' /\ calls' \in [Callers -> Call]
  BY <1>1, <1>4, MovedCalls DEF Sound, Keyed, historyVars
<1>6. RunInv'
  BY <1>1, <1>4, MovedRun DEF Sound, memoryVars, historyVars, Holding
<1>7. /\ rows' \in [Identity -> Row \cup {NoRow}]
      /\ \A g \in Identity : Stored(g)' => Stored(g) /\ rows'[g].key = rows[g].key
  BY <1>4, DeactivatedRows DEF Stored, Sound, TypeOK
<1>8. ActiveInv'
  <2>1. CASE UNCHANGED rows
    BY <1>1, <1>4, <2>1, MovedActive DEF Sound, memoryVars, historyVars
  <2>2. CASE at = "store" /\ database = "linked"
    BY <1>1, <1>4, <2>2 DEF ActiveInv, DatabaseHeld, Moves, Shifts, memoryVars
  <2> QED  BY <1>4, <2>1, <2>2
<1>9. TypeOK'
  BY <1>1, <1>2, <1>5, <1>7 DEF Sound, TypeOK, memoryVars, historyVars
<1>10. Unused' = Unused
  BY <1>1, <1>4, MovedRemoved DEF Unused, Moves, historyVars
<1>11. PassesKeys(c)
  BY <1>1, <1>3, <1>4, <1>7, <1>10 DEF Moves, Shifts, PassesKeys, memoryVars, historyVars
<1> QED
  BY <1>5, <1>6, <1>8, <1>9, <1>11 DEF Sound

LEMMA RotateStoreStep ==
  ASSUME Sound, NEW c \in Callers, RotateStore(c)
  PROVE  Sound' /\ PassesKeys(c)
<1> DEFINE f == calls[c].fresh
<1>1. /\ calls[c].at = "store" /\ calls[c].op = "rotate"
      /\ UNCHANGED <<keyFile, memoryVars, keyCount, identityCount, wiped, usedMeanwhile, deadKeys>>
      /\ \/ StoreIdentity(c, f) /\ Goto(c, "install") /\ UNCHANGED gap
         \/ database # "linked" /\ UNCHANGED <<rows, now, gap>> /\ Goto(c, "install")
         \/ UNCHANGED <<rows, now>> /\ Return(c) /\ gap' = TRUE
  BY DEF RotateStore, At
<1>2. f \in Identity /\ calls[c].key \in Key /\ HeldKey(c) = {calls[c].key}
  BY <1>1 DEF Sound, CallInv, Keyed, HeldKey
<1>3. PICK op, at, key, fresh :
        /\ at \in {"install", "idle"}
        /\ Moves(c, op, at, key, fresh) /\ op # "wipe"
        /\ key \in {NoKey, calls[c].key} /\ (at # "idle" => key \in Key)
  <2>1. CASE Goto(c, "install")
    <3>1. Moves(c, "rotate", "install", calls[c].key, calls[c].fresh)
      BY <1>1, <2>1, GotoMoves DEF Sound, Step
    <3> QED  BY <1>2, <3>1
  <2>2. CASE Return(c)
    <3>1. Moves(c, "none", "idle", NoKey, NoIdentity)
      BY <2>2, ReturnMoves DEF Sound
    <3> QED  BY <3>1
  <2> QED  BY <1>1, <2>1, <2>2
<1>4. CallInv' /\ calls' \in [Callers -> Call]
  BY <1>1, <1>3, MovedCalls DEF Sound, Keyed
<1>5. RunInv'
  BY <1>1, <1>3, MovedRun DEF Sound, memoryVars, Holding
<1>6. /\ rows' \in [Identity -> Row \cup {NoRow}] /\ now' \in 0..MaxClock
      /\ \A g \in Identity : Stored(g)' =>
           (Stored(g) /\ rows'[g].key = rows[g].key) \/ rows'[g].key = calls[c].key
      /\ gap' \in BOOLEAN
      /\ \/ gap' = TRUE \/ Active' # {}
         \/ database # "linked" /\ UNCHANGED <<rows, gap>>
  <2>1. CASE StoreIdentity(c, f) /\ UNCHANGED gap
    <3>1. gap' \in BOOLEAN
      BY <2>1 DEF Sound, TypeOK
    <3> HIDE DEF f
    <3> QED  BY <1>2, <2>1, <3>1, StoredRow
  <2>2. CASE UNCHANGED <<rows, now>> /\ gap' = TRUE
    BY <2>2 DEF Stored, Sound, TypeOK
  <2>3. CASE database # "linked" /\ UNCHANGED <<rows, now, gap>>
    BY <2>3 DEF Stored, Sound, TypeOK
  <2> QED  BY <1>1, <2>1, <2>2, <2>3
<1>7. ActiveInv'
  <2>1. CASE gap' = TRUE \/ Active' # {}
    BY <2>1 DEF ActiveInv
  <2>2. CASE database # "linked" /\ UNCHANGED <<rows, gap>>
    BY <2>2 DEF Sound, ActiveInv, Active, Stored
  <2> QED  BY <1>6, <2>1, <2>2
<1>8. TypeOK'
  BY <1>1, <1>4, <1>6 DEF Sound, TypeOK, memoryVars
<1>9. Unused' = Unused
  BY <1>1, <1>3, MovedRemoved DEF Unused, Moves
<1>10. PassesKeys(c)
  BY <1>1, <1>2, <1>3, <1>6, <1>9 DEF Moves, Shifts, PassesKeys, memoryVars
<1> QED
  BY <1>4, <1>5, <1>7, <1>8, <1>10 DEF Sound

-----------------------------------------------------------------------------
(* The steps that make, write or lose a key *)

LEMMA KeyCreateStep ==
  ASSUME Sound, OneKeyInv, DeadInv, NEW c \in Callers, KeyCreate(c)
  PROVE  Sound' /\ OneKeyInv' /\ DeadInv'
<1> DEFINE new == keyCount + 1
<1> DEFINE next == [calls[c] EXCEPT !.at = "fill", !.key = new, !.file = "linked"]
<1>1. /\ calls[c].at = "create" /\ keyCount < MaxKeys /\ keyCount' = new /\ keyFile' = EmptyFile
      /\ calls' = [calls EXCEPT ![c].at = "fill", ![c].key = new, ![c].file = "linked"]
      /\ Used(new)
      /\ UNCHANGED <<rows, memoryVars, identityCount, now, wiped, gap, deadKeys>>
  BY DEF KeyCreate
<1>2. new \in Key /\ new \in 0..MaxKeys /\ keyCount \in Nat /\ EmptyFile \notin Key
  BY <1>1, BoundsAssumption DEF Sound, TypeOK, Key, EmptyFile
<1>3. /\ next \in Call /\ next.op = calls[c].op /\ next.at = "fill"
      /\ next.key = new /\ next.fresh = calls[c].fresh /\ next.file = "linked"
  BY <1>2, CallFields DEF Sound, Call, Step, Handle
<1>4. calls' = [calls EXCEPT ![c] = next]
  BY <1>1, CallFields DEF Sound, TypeOK
<1> HIDE DEF next
<1>5. Moves(c, calls[c].op, "fill", new, calls[c].fresh) /\ calls'[c].file = "linked"
  BY <1>3, <1>4, OneMoves DEF Sound
<1>6. calls[c].op = "wipe" => wiped
  BY DEF Sound, CallInv
<1>7. CallInv' /\ calls' \in [Callers -> Call]
  BY <1>1, <1>2, <1>5, <1>6, MovedCalls DEF Sound
<1>8. RunInv'
  BY <1>1, <1>5, MovedRun DEF Sound, memoryVars
<1>9. ActiveInv'
  BY <1>1, <1>5, MovedActive DEF Sound, memoryVars
<1>10. TypeOK'
  <2>1. usedMeanwhile' \subseteq Key
    BY <1>1, <1>2 DEF Used, Sound, TypeOK
  <2> QED  BY <1>1, <1>2, <1>7, <2>1 DEF Sound, TypeOK, memoryVars
<1>11. DeadInv'
  <2>1. new \notin 1..keyCount /\ (1..keyCount) \subseteq 1..new
        /\ \A k \in 1..new : k = new \/ k \in 1..keyCount
    BY <1>2
  <2>2. Unused' \subseteq Unused /\ new \notin Unused'
    <3>1. Removed' = Removed
      BY <1>1, <1>5, MovedRemoved DEF Moves
    <3> HIDE DEF new
    <3> QED  BY <1>1, <2>1, <3>1 DEF Unused, Used
  <2>3. new \notin deadKeys /\ EmptyFile \notin deadKeys \cup Unused /\ deadKeys \subseteq 1..new
    BY <2>1, DeadKeyNumbers, UnusedNumbers DEF DeadInv, Sound
  <2> HIDE DEF new
  <2>4. \A d \in Callers : calls'[d].key \notin deadKeys /\ calls'[d].key \notin Unused'
    BY <1>5, <2>2, <2>3 DEF DeadInv, Gone, Moves, Shifts
  <2>5. \A f \in Identity : Stored(f)' => rows'[f].key \notin deadKeys \cup Unused
    BY <1>1 DEF DeadInv, Gone, Stored
  <2>6. Gone(deadKeys)' /\ Gone(Unused)'
    BY <1>1, <2>2, <2>3, <2>4, <2>5 DEF Gone
  <2> QED  BY <1>1, <2>3, <2>6 DEF DeadInv, memoryVars
<1>12. OneKeyInv'
  <2>0. wiped' = wiped /\ (keyCount' <= 1 => keyCount = 0)
    BY <1>1, <1>2
  <2> SUFFICES ASSUME keyCount = 0, ~wiped PROVE OneKeyInv'
    BY <2>0 DEF OneKeyInv
  <2>1. /\ keyFile = NoKey /\ storageKey = NoKey
        /\ \A d \in Callers : calls[d].key = NoKey
        /\ \A f \in Identity : ~Stored(f)
    <3>1. ASSUME NEW f \in Identity, Stored(f) PROVE rows[f].key # NoKey
      BY <3>1, StoredRowKey, KeyNumbers DEF Sound
    <3> QED  BY <3>1 DEF OneKeyInv
  <2> QED
    BY <1>1, <1>5, <2>1 DEF OneKeyInv, Moves, Shifts, Stored, memoryVars
<1> QED
  BY <1>7, <1>8, <1>9, <1>10, <1>11, <1>12 DEF Sound

LEMMA KeyFillStep ==
  ASSUME Sound, OneKeyInv, DeadInv, NEW c \in Callers, KeyFill(c)
  PROVE  Sound' /\ OneKeyInv' /\ DeadInv'
<1>1. /\ calls[c].at = "fill" /\ UNCHANGED <<rows, memoryVars, worldVars>>
      /\ \/ keyFile' = calls[c].key /\ Goto(c, "cache")
         \/ calls[c].file = "removed" /\ UNCHANGED keyFile /\ Goto(c, "cache")
         \/ UNCHANGED keyFile /\ Return(c)
  BY DEF KeyFill
<1>2. /\ calls[c].key \in Key /\ (calls[c].op = "wipe" => wiped)
      /\ ~wiped => calls[c].file # "removed"
  BY <1>1 DEF Sound, CallInv, RunInv, Keyed, Holding
<1>3. PICK op, at, key, fresh :
        /\ Moves(c, op, at, key, fresh)
        /\ at \in {"cache", "idle"} /\ op \in {calls[c].op, "none"}
        /\ \/ key = calls[c].key /\ keyFile' = key
           \/ key = calls[c].key /\ keyFile' = keyFile /\ wiped
           \/ key = NoKey /\ at = "idle" /\ keyFile' = keyFile
  <2>1. CASE Goto(c, "cache")
    <3>1. Moves(c, calls[c].op, "cache", calls[c].key, calls[c].fresh)
      BY <2>1, GotoMoves DEF Sound, Step
    <3>2. CASE keyFile' = calls[c].key
      BY <3>1, <3>2
    <3>3. CASE calls[c].file = "removed" /\ UNCHANGED keyFile
      BY <1>2, <3>1, <3>3
    <3>4. CASE UNCHANGED keyFile /\ Return(c)
      <4>1. Moves(c, "none", "idle", NoKey, NoIdentity)
        BY <3>4, ReturnMoves DEF Sound
      <4> QED  BY <3>4, <4>1
    <3> QED  BY <1>1, <3>2, <3>3, <3>4
  <2>2. CASE UNCHANGED keyFile /\ Return(c)
    <3>1. Moves(c, "none", "idle", NoKey, NoIdentity)
      BY <2>2, ReturnMoves DEF Sound
    <3> QED  BY <2>2, <3>1
  <2> QED  BY <1>1, <2>1, <2>2
<1>4. CallInv' /\ calls' \in [Callers -> Call]
  BY <1>1, <1>2, <1>3, MovedCalls DEF Sound, Keyed, worldVars, historyVars
<1>5. RunInv'
  BY <1>1, <1>3, MovedRun DEF Sound, memoryVars, worldVars, historyVars, Holding
<1>6. ActiveInv'
  BY <1>1, <1>3, MovedActive DEF Sound, memoryVars, worldVars, historyVars
<1>7. TypeOK'
  BY <1>1, <1>2, <1>3, <1>4 DEF Sound, TypeOK, memoryVars, worldVars, historyVars
<1>8. DeadInv'
  <2>1. NoKey \notin deadKeys \cup Unused /\ calls[c].key \notin deadKeys \cup Unused
    BY DeadKeyNumbers, UnusedNumbers DEF Sound, DeadInv, Gone
  <2>2. Unused' = Unused
    BY <1>1, <1>3, MovedRemoved DEF Unused, Moves, worldVars, historyVars
  <2>3. Gone(deadKeys)' /\ Gone(Unused)'
    BY <1>1, <1>3, <2>1, <2>2
       DEF DeadInv, Gone, Moves, Shifts, Stored, worldVars, historyVars
  <2> QED
    BY <1>1, <2>3 DEF DeadInv, memoryVars, worldVars, historyVars
<1>9. OneKeyInv'
  <2> SUFFICES ASSUME keyCount <= 1, ~wiped PROVE OneKeyInv'
    BY <1>1 DEF OneKeyInv, worldVars, historyVars
  <2>1. keyCount # 0 /\ calls[c].key = 1 /\ keyFile \in {EmptyFile, 1}
    BY <1>2, SentinelAssumption, BoundsAssumption DEF OneKeyInv, Key
  <2>2. EmptyFile \notin Key
    BY BoundsAssumption DEF EmptyFile, Key
  <2>3. storageKey \in {NoKey, 1} /\ (storageKey = 1 => keyFile = 1)
    <3>1. storageKey \in Key \cup {NoKey}
      BY DEF Sound, TypeOK
    <3>2. storageKey \in {NoKey, keyFile}
      BY DEF OneKeyInv
    <3> QED  BY <1>2, <2>1, <2>2, <3>1, <3>2, KeyNumbers
  <2>4. ASSUME NEW f \in Identity, Stored(f) PROVE rows[f].key = 1 /\ keyFile = 1
    <3>1. rows[f].key \in Key
      BY <2>4, StoredRowKey DEF Sound
    <3> QED  BY <2>1, <2>2, <2>4, <3>1 DEF OneKeyInv
  <2>5. keyFile' \in {EmptyFile, 1} /\ (keyFile = 1 => keyFile' = 1)
    BY <1>3, <2>1
  <2>6. \A d \in Callers : /\ calls'[d].key \in {NoKey, 1}
                           /\ calls'[d].at # "fill" => calls'[d].key \in {NoKey, keyFile'}
    <3>1. ASSUME NEW d \in Callers \ {c}
          PROVE  /\ calls'[d].key \in {NoKey, 1}
                 /\ calls'[d].at # "fill" => calls'[d].key \in {NoKey, keyFile'}
      BY <1>3, <2>1, <2>2, <2>5, CallFields DEF OneKeyInv, Moves, Sound
    <3>2. calls'[c].key \in {NoKey, 1} /\ calls'[c].key \in {NoKey, keyFile'}
      BY <1>3, <2>1 DEF Moves, Shifts
    <3> QED  BY <3>1, <3>2
  <2> QED
    BY <1>1, <2>1, <2>3, <2>4, <2>5, <2>6
       DEF OneKeyInv, Stored, memoryVars, worldVars, historyVars
<1> QED
  BY <1>4, <1>5, <1>6, <1>7, <1>8, <1>9 DEF Sound

(* A call that loses its file keeps the rest.                                *)
LEMMA LostFiles ==
  ASSUME NEW call \in Call
  PROVE  /\ WithoutKeyFile(call) \in Call /\ WithoutDatabase(call) \in Call
         /\ \A lost \in {WithoutKeyFile(call), WithoutDatabase(call)} :
              /\ lost.op = call.op /\ lost.at = call.at
              /\ lost.key = call.key /\ lost.fresh = call.fresh
<1>1. [call EXCEPT !.file = Unlinked(@)] \in Call
  BY DEF Call, Handle, Unlinked
<1> QED
  BY <1>1 DEF WithoutKeyFile, WithoutDatabase, Call

(* A caller's step in which the others may lose their files.                 *)
LEMMA LosingShifts ==
  ASSUME TypeOK, NEW c \in Callers, NEW next \in Call,
         NEW lost \in [Callers -> Call], calls' = [lost EXCEPT ![c] = next],
         \A d \in Callers : /\ lost[d].op = calls[d].op /\ lost[d].at = calls[d].at
                            /\ lost[d].key = calls[d].key /\ lost[d].fresh = calls[d].fresh
  PROVE  Shifts(c, next.op, next.at, next.key, next.fresh)
<1>1. /\ calls' \in [Callers -> Call] /\ calls'[c] = next
      /\ \A d \in Callers \ {c} : calls'[d] = lost[d]
  OBVIOUS
<1> QED
  BY <1>1 DEF Shifts

LEMMA WipeKeyStep ==
  ASSUME Sound, OneKeyInv, DeadInv, NEW c \in Callers, WipeKey(c)
  PROVE  Sound' /\ OneKeyInv' /\ DeadInv'
<1> DEFINE next == [calls[c] EXCEPT !.op = "wipe", !.at = "close"]
           lost == [d \in Callers |-> WithoutKeyFile(calls[d])]
<1>1. /\ calls[c] = Idle /\ wiped' = TRUE
      /\ keyFile' \in {NoKey, ZeroKey, EmptyFile, keyFile}
      /\ \/ calls' = [calls EXCEPT ![c].op = "wipe", ![c].at = "close"]
         \/ calls' = [lost EXCEPT ![c].op = "wipe", ![c].at = "close"]
      /\ UNCHANGED <<rows, running, state, identity, storageKey, database, keyCount,
                     identityCount, now, gap, usedMeanwhile, deadKeys>>
  BY DEF WipeKey
<1>2. /\ next \in Call /\ next.op = "wipe" /\ next.at = "close"
      /\ next.key = NoKey /\ next.fresh = NoIdentity
  BY <1>1, IdleCall DEF Call, Step, Operation
<1>3. calls \in [Callers -> Call] /\ \A d \in Callers : calls[d] \in Call
  BY DEF Sound, TypeOK
<1>4. /\ lost \in [Callers -> Call]
      /\ \A d \in Callers : /\ lost[d].op = calls[d].op /\ lost[d].at = calls[d].at
                             /\ lost[d].key = calls[d].key /\ lost[d].fresh = calls[d].fresh
  BY <1>3, LostFiles
<1>5. lost[c] = calls[c]
  BY <1>1, IdleCall DEF WithoutKeyFile
<1>6. calls' = [calls EXCEPT ![c] = next] \/ calls' = [lost EXCEPT ![c] = next]
  <2>1. CASE calls' = [calls EXCEPT ![c].op = "wipe", ![c].at = "close"]
    BY <1>3, <2>1
  <2>2. CASE calls' = [lost EXCEPT ![c].op = "wipe", ![c].at = "close"]
    <3> HIDE DEF lost
    <3> QED  BY <1>4, <1>5, <2>2
  <2> QED  BY <1>1, <2>1, <2>2
<1> HIDE DEF next, lost
<1>7. Shifts(c, "wipe", "close", NoKey, NoIdentity)
  BY <1>2, <1>3, <1>4, <1>6, LosingShifts DEF Sound
<1>8. CallInv' /\ calls' \in [Callers -> Call]
  BY <1>1, <1>7, ShiftedCalls DEF Sound, Keyed
<1>9. RunInv' /\ OneKeyInv'
  BY <1>1 DEF RunInv, OneKeyInv
<1>10. ActiveInv'
  BY <1>1, <1>7, IdleCall, ShiftedActive DEF Sound
<1>11. /\ ZeroKey \in Key /\ Unused' = Unused
       /\ {NoKey, ZeroKey, EmptyFile} \cap (deadKeys \cup Unused) = {}
  <2>1. Removed' = Removed
    BY <1>1, <1>7, IdleCall, MovedRemoved
  <2> QED  BY <1>1, <2>1, DeadKeyNumbers, UnusedNumbers, KeyNumbers DEF Sound, Unused
<1>12. TypeOK'
  BY <1>1, <1>8, <1>11 DEF Sound, TypeOK
<1>13. Gone(deadKeys)' /\ Gone(Unused)'
  BY <1>1, <1>7, <1>11 DEF DeadInv, Gone, Shifts, Stored
<1>14. DeadInv'
  BY <1>1, <1>13 DEF DeadInv
<1> QED
  BY <1>8, <1>9, <1>10, <1>12, <1>14 DEF Sound

LEMMA WipeRemoveDirStep ==
  ASSUME Sound, OneKeyInv, DeadInv, NEW c \in Callers, WipeRemoveDir(c)
  PROVE  Sound' /\ OneKeyInv' /\ DeadInv'
<1> DEFINE lost == [d \in Callers |-> WithoutKeyFile(WithoutDatabase(calls[d]))]
           next == [lost[c] EXCEPT !.at = "forget"]
<1>1. /\ calls[c].op = "wipe" /\ calls[c].at = "remove"
      /\ keyFile' = NoKey /\ rows' = NoRows /\ database' = Unlinked(database)
      /\ calls' = [lost EXCEPT ![c].at = "forget"]
      /\ usedMeanwhile' = usedMeanwhile \cup (HeldKeys \ {NoKey})
      /\ UNCHANGED <<running, state, identity, storageKey,
                     keyCount, identityCount, now, wiped, gap, deadKeys>>
  BY DEF WipeRemoveDir, At
<1>2. /\ lost \in [Callers -> Call]
      /\ \A d \in Callers : /\ lost[d].op = calls[d].op /\ lost[d].at = calls[d].at
                             /\ lost[d].key = calls[d].key /\ lost[d].fresh = calls[d].fresh
  <2>1. ASSUME NEW d \in Callers
        PROVE  /\ WithoutKeyFile(WithoutDatabase(calls[d])) \in Call
               /\ WithoutKeyFile(WithoutDatabase(calls[d])).op = calls[d].op
               /\ WithoutKeyFile(WithoutDatabase(calls[d])).at = calls[d].at
               /\ WithoutKeyFile(WithoutDatabase(calls[d])).key = calls[d].key
               /\ WithoutKeyFile(WithoutDatabase(calls[d])).fresh = calls[d].fresh
    <3>1. calls[d] \in Call
      BY DEF Sound, TypeOK
    <3> QED  BY <3>1, LostFiles
  <2> QED  BY <2>1
<1> HIDE DEF lost
<1>3. /\ next \in Call /\ next.op = "wipe" /\ next.at = "forget"
      /\ next.key = calls[c].key /\ next.fresh = calls[c].fresh
  <2>1. lost[c] \in Call
    BY <1>2
  <2>2. "forget" \in Step
    BY DEF Step
  <2> QED  BY <1>1, <1>2, <2>1, <2>2 DEF Call
<1>4. calls' = [lost EXCEPT ![c] = next]
  BY <1>1, <1>2
<1> HIDE DEF next
<1>5. Shifts(c, "wipe", "forget", calls[c].key, calls[c].fresh)
  BY <1>2, <1>3, <1>4, LosingShifts DEF Sound
<1>6. wiped /\ wiped'
  BY <1>1 DEF Sound, CallInv
<1>7. CallInv' /\ calls' \in [Callers -> Call]
  BY <1>1, <1>5, <1>6, ShiftedCalls DEF Sound, Keyed
<1>8. RunInv' /\ OneKeyInv'
  BY <1>6 DEF RunInv, OneKeyInv
<1>9. \A f \in Identity : ~Stored(f)'
  BY <1>1 DEF Stored, NoRows, NoRow
<1>10. ActiveInv'
  BY <1>9 DEF ActiveInv
<1>11. HeldKeys \ {NoKey} \subseteq Key
  BY CallFields DEF HeldKeys, Sound
<1>12. TypeOK'
  <2>1. rows' \in [Identity -> Row \cup {NoRow}] /\ database' \in Handle
    BY <1>1 DEF NoRows, Unlinked, Handle, Sound, TypeOK
  <2> QED  BY <1>1, <1>7, <1>11, <2>1 DEF Sound, TypeOK
<1>13. /\ Unused' = (1..keyCount) \ usedMeanwhile'
       /\ Unused' \subseteq 1..keyCount
  BY <1>1, <1>5 DEF Unused, Removed, Shifts
<1>14. NoKey \notin deadKeys /\ NoKey \notin Unused'
  <2>1. NoKey \notin 1..keyCount
    BY SentinelAssumption, BoundsAssumption DEF Sound, TypeOK
  <2> QED  BY <1>13, <2>1, DeadKeyNumbers DEF Sound
<1>15. \A d \in Callers : calls'[d].key \notin Unused' /\ calls'[d].key \notin deadKeys
  <2>1. \A d \in Callers : calls'[d].key = calls[d].key
    BY <1>5 DEF Shifts
  <2>2. \A d \in Callers : calls[d].key = NoKey \/ calls[d].key \in usedMeanwhile'
    BY <1>1 DEF HeldKeys
  <2> QED  BY <1>13, <1>14, <2>1, <2>2 DEF DeadInv, Gone
<1>16. Gone(deadKeys)' /\ Gone(Unused)'
  BY <1>1, <1>9, <1>14, <1>15 DEF Gone
<1>17. DeadInv'
  BY <1>1, <1>16 DEF DeadInv
<1> QED
  BY <1>7, <1>8, <1>10, <1>12, <1>17 DEF Sound

LEMMA WipeRemoveFailsStep ==
  ASSUME Sound, OneKeyInv, DeadInv, NEW c \in Callers, WipeRemoveFails(c)
  PROVE  Sound' /\ OneKeyInv' /\ DeadInv'
<1>0. PICK keyGone \in BOOLEAN, rowsGone \in BOOLEAN :
        /\ keyFile' = IF keyGone THEN NoKey ELSE keyFile
        /\ rows' = IF rowsGone THEN NoRows ELSE rows
        /\ database' = IF rowsGone THEN Unlinked(database) ELSE database
        /\ calls' = [[d \in Callers |->
                         LET call == IF keyGone THEN WithoutKeyFile(calls[d]) ELSE calls[d]
                         IN  IF rowsGone THEN WithoutDatabase(call) ELSE call]
                      EXCEPT ![c] = Idle]
  BY DEF WipeRemoveFails
<1> DEFINE KeyLost(call) == IF keyGone THEN WithoutKeyFile(call) ELSE call
           AllLost(call) == IF rowsGone THEN WithoutDatabase(KeyLost(call)) ELSE KeyLost(call)
           lost == [d \in Callers |-> AllLost(calls[d])]
<1>1. /\ calls[c].op = "wipe" /\ calls[c].at = "remove"
      /\ keyFile' \in {NoKey, keyFile}
      /\ \/ rows' = NoRows /\ database' = Unlinked(database)
         \/ UNCHANGED <<rows, database>>
      /\ calls' = [lost EXCEPT ![c] = Idle]
      /\ UNCHANGED <<running, state, identity, storageKey, worldVars>>
  BY <1>0 DEF WipeRemoveFails, At
<1>2. /\ lost \in [Callers -> Call]
      /\ \A d \in Callers : /\ lost[d].op = calls[d].op /\ lost[d].at = calls[d].at
                             /\ lost[d].key = calls[d].key /\ lost[d].fresh = calls[d].fresh
  <2>1. ASSUME NEW call \in Call
        PROVE  /\ KeyLost(call) \in Call
               /\ KeyLost(call).op = call.op /\ KeyLost(call).at = call.at
               /\ KeyLost(call).key = call.key /\ KeyLost(call).fresh = call.fresh
    BY LostFiles
  <2>2. ASSUME NEW call \in Call
        PROVE  /\ AllLost(call) \in Call
               /\ AllLost(call).op = call.op /\ AllLost(call).at = call.at
               /\ AllLost(call).key = call.key /\ AllLost(call).fresh = call.fresh
    <3> HIDE DEF KeyLost
    <3> QED  BY <2>1, LostFiles
  <2>3. \A d \in Callers : calls[d] \in Call
    BY DEF Sound, TypeOK
  <2> HIDE DEF AllLost
  <2> QED  BY <2>2, <2>3
<1> HIDE DEF lost
<1>3. Shifts(c, "none", "idle", NoKey, NoIdentity)
  BY <1>1, <1>2, IdleCall, LosingShifts DEF Sound
<1>4. wiped /\ wiped'
  BY <1>1 DEF Sound, CallInv, worldVars, historyVars
<1>5. CallInv' /\ calls' \in [Callers -> Call]
  BY <1>3, <1>4, ShiftedCalls DEF Sound, Keyed
<1>6. RunInv' /\ OneKeyInv'
  BY <1>4 DEF RunInv, OneKeyInv
<1>7. ActiveInv'
  <2>1. CASE UNCHANGED <<rows, database>>
    BY <1>1, <1>3, <2>1, ShiftedActive DEF Sound, worldVars, historyVars
  <2>2. CASE rows' = NoRows
    BY <2>2 DEF ActiveInv, Stored, NoRow, NoRows
  <2> QED  BY <1>1, <2>1, <2>2
<1>8. TypeOK'
  <2>1. rows' \in [Identity -> Row \cup {NoRow}] /\ database' \in Handle
    BY <1>1 DEF NoRows, Unlinked, Handle, Sound, TypeOK
  <2> QED  BY <1>1, <1>5, <2>1 DEF Sound, TypeOK, worldVars, historyVars
<1>9. /\ Unused' = Unused /\ NoKey \notin deadKeys \cup Unused
  <2>1. Removed' = Removed
    BY <1>1, <1>3, MovedRemoved
  <2> QED  BY <1>1, <2>1, DeadKeyNumbers, UnusedNumbers DEF Sound, Unused, worldVars, historyVars
<1>10. \A f \in Identity : Stored(f)' => Stored(f) /\ rows'[f] = rows[f]
  BY <1>1 DEF Stored, NoRow, NoRows
<1>11. Gone(deadKeys)' /\ Gone(Unused)'
  BY <1>1, <1>3, <1>9, <1>10 DEF DeadInv, Gone, Shifts, worldVars, historyVars
<1>12. DeadInv'
  BY <1>1, <1>11 DEF DeadInv, worldVars, historyVars
<1> QED
  BY <1>5, <1>6, <1>7, <1>8, <1>12 DEF Sound

LEMMA WipeClearKeyStep ==
  ASSUME Sound, OneKeyInv, DeadInv, NEW c \in Callers, WipeClearKey(c)
  PROVE  Sound' /\ OneKeyInv' /\ DeadInv'
<1> DEFINE buried == (1..keyCount) \ usedMeanwhile
<1>1. /\ calls[c].op = "wipe" /\ calls[c].at = "clear" /\ storageKey' = NoKey /\ Return(c)
      /\ deadKeys' = deadKeys \cup buried
      /\ usedMeanwhile' = IF \E d \in Callers \ {c} : calls[d].at \in {"forget", "clear"}
                          THEN usedMeanwhile ELSE {}
      /\ UNCHANGED <<diskVars, running, state, identity, database,
                     keyCount, identityCount, now, wiped, gap>>
  BY DEF WipeClearKey, Bury, At
<1>2. Moves(c, "none", "idle", NoKey, NoIdentity)
  BY <1>1, ReturnMoves DEF Sound
<1>3. wiped /\ wiped'
  BY <1>1 DEF Sound, CallInv
<1>4. CallInv' /\ calls' \in [Callers -> Call]
  BY <1>2, <1>3, MovedCalls DEF Sound, Keyed
<1>5. RunInv' /\ OneKeyInv'
  BY <1>3 DEF RunInv, OneKeyInv
<1>6. ActiveInv'
  BY <1>1, <1>2, MovedActive DEF Sound, diskVars
<1>7. Unused = buried
  BY <1>1 DEF Unused, Removed
<1>8. buried \subseteq Key /\ buried \subseteq 1..keyCount /\ NoKey \notin deadKeys \cup buried
  BY <1>7, UnusedNumbers, DeadKeyNumbers DEF Sound
<1> HIDE DEF buried
<1>9. TypeOK'
  BY <1>1, <1>4, <1>8 DEF Sound, TypeOK, diskVars
<1>10. Unused' \subseteq Unused
  BY <1>1, <1>2 DEF Unused, Removed, Moves, Shifts
<1>11. Gone(deadKeys)' /\ Gone(Unused)'
  BY <1>1, <1>2, <1>7, <1>8, <1>10 DEF DeadInv, Gone, Moves, Shifts, Stored, diskVars
<1>12. DeadInv'
  BY <1>1, <1>8, <1>11 DEF DeadInv
<1> QED
  BY <1>4, <1>5, <1>6, <1>9, <1>12 DEF Sound

LEMMA CrashStep ==
  ASSUME Sound, OneKeyInv, DeadInv, Crash
  PROVE  Sound' /\ OneKeyInv' /\ DeadInv'
<1>1. /\ running' = FALSE /\ state' = "created" /\ identity' = NoIdentity /\ storageKey' = NoKey
      /\ database' = "none" /\ gap' = (gap \/ DatabaseHeld)
      /\ calls' = [c \in Callers |-> Idle] /\ usedMeanwhile' = {}
      /\ UNCHANGED <<keyFile, rows, keyCount, identityCount, now, wiped, deadKeys>>
  BY DEF Crash, DatabaseHeld, diskVars
<1>2. /\ calls' \in [Callers -> Call]
      /\ \A c \in Callers : /\ calls'[c].op = "none" /\ calls'[c].at = "idle"
                            /\ calls'[c].key = NoKey
  BY <1>1, IdleCall
<1>3. gap' \in BOOLEAN
  BY <1>1
<1>4. TypeOK'
  BY <1>1, <1>2, <1>3 DEF Sound, TypeOK, ClientState, Handle
<1>5. CallInv' /\ RunInv'
  BY <1>1, <1>2 DEF CallInv, RunInv, Keyed, Holding
<1>6. ActiveInv'
  <2> SUFFICES ASSUME \E f \in Identity : Stored(f)', ~gap' PROVE (Active # {})'
    BY DEF ActiveInv
  <2>1. ~gap /\ ~DatabaseHeld
    BY <1>1
  <2>2. Active # {}
    BY <1>1, <2>1 DEF Sound, ActiveInv, Stored
  <2> QED  BY <1>1, <2>2 DEF Active, Stored
<1>7. NoKey \notin deadKeys
  BY DeadKeyNumbers DEF Sound
<1>8. OneKeyInv'
  BY <1>1, <1>2 DEF OneKeyInv, Stored
<1>9. Unused' = {}
  BY <1>2 DEF Unused, Removed
<1>10. DeadInv'
  BY <1>1, <1>2, <1>7, <1>9 DEF DeadInv, Gone, Stored
<1> QED
  BY <1>4, <1>5, <1>6, <1>8, <1>10 DEF Sound

-----------------------------------------------------------------------------
(* The invariant and the theorems *)

IInv == Sound /\ OneKeyInv /\ DeadInv

THEOREM IInvInductive == Spec => []IInv
<1>1. Init => IInv
  <2> SUFFICES ASSUME Init PROVE IInv
    OBVIOUS
  <2>1. /\ calls \in [Callers -> Call]
        /\ \A c \in Callers : /\ calls[c].op = "none" /\ calls[c].at = "idle"
                              /\ calls[c].key = NoKey
    BY IdleCall DEF Init
  <2>2. TypeOK
    <3>1. rows \in [Identity -> Row \cup {NoRow}]
      BY DEF Init
    <3>2. keyCount \in 0..MaxKeys /\ identityCount \in 0..MaxIdentities /\ now \in 0..MaxClock
      BY BoundsAssumption DEF Init
    <3> QED  BY <2>1, <3>1, <3>2 DEF Init, TypeOK, ClientState, Handle
  <2>3. \A f \in Identity : ~Stored(f)
    BY DEF Init, Stored, NoRow
  <2>4. CallInv /\ RunInv /\ ActiveInv
    BY <2>1, <2>3 DEF Init, CallInv, RunInv, ActiveInv, Keyed, Holding
  <2>5. OneKeyInv /\ DeadInv
    BY <2>1, <2>3 DEF Init, OneKeyInv, DeadInv, Gone, Unused, Removed
  <2> QED  BY <2>2, <2>4, <2>5 DEF IInv, Sound
<1>2. IInv /\ [Next]_vars => IInv'
  <2> SUFFICES ASSUME Sound, OneKeyInv, DeadInv, [Next]_vars
               PROVE  Sound' /\ OneKeyInv' /\ DeadInv'
    BY DEF IInv
  <2>1. ASSUME NEW c \in Callers, Sound' /\ PassesKeys(c)
        PROVE  Sound' /\ OneKeyInv' /\ DeadInv'
    BY <2>1, PassedOneKey, PassedDeadKeys DEF Sound
  <2>2. ASSUME NEW c \in Callers,
               \/ BeginStart(c) \/ BeginCreate(c) \/ BeginLoad(c) \/ BeginRotate(c)
               \/ StartConnecting(c) \/ KeyCache(c)
               \/ StartOpen(c) \/ StartResume(c) \/ StartPublish(c) \/ StartConnect(c)
               \/ CreateStore(c) \/ CreateInstall(c)
               \/ \E f \in Identity : Load(c, f)
               \/ RotateDeactivate(c) \/ RotateStore(c) \/ RotateInstall(c)
               \/ WipeClose(c) \/ WipeForget(c)
        PROVE  Sound' /\ OneKeyInv' /\ DeadInv'
    <3>1. Sound' /\ PassesKeys(c)
      BY <2>2, BeginStartStep, BeginStep, StartConnectingStep, KeyCacheStep, StartOpenStep,
         StartResumeStep, StartPublishStep, WipingStep, StartConnectStep, CreateStoreStep, InstallingStep, RotateDeactivateStep,
         RotateStoreStep, Zenon
    <3> QED  BY <2>1, <3>1
  <2>3. ASSUME NEW c \in Callers,
               \/ KeyCreate(c) \/ KeyFill(c) \/ WipeKey(c)
               \/ WipeRemoveDir(c) \/ WipeRemoveFails(c) \/ WipeClearKey(c)
        PROVE  Sound' /\ OneKeyInv' /\ DeadInv'
    BY <2>3, KeyCreateStep, KeyFillStep, WipeKeyStep, WipeRemoveDirStep, WipeRemoveFailsStep,
       WipeClearKeyStep
  <2>4. CASE Crash
    BY <2>4, CrashStep
  <2>5. ASSUME (\E c \in Callers : Stop(c)) \/ UNCHANGED vars
        PROVE  Sound' /\ OneKeyInv' /\ DeadInv'
    BY <2>5, StopStep DEF OneKeyInv, DeadInv, Gone, Unused, Removed, Stored
  <2> QED
    BY <2>2, <2>3, <2>4, <2>5, Zenon DEF Next
<1> QED
  BY <1>1, <1>2, PTL DEF Spec

(* Every variable keeps its type, and a caller's step belongs to its call.   *)
THEOREM TypeCorrect == Spec => []TypeOK
<1>1. IInv => TypeOK
  BY DEF IInv, Sound
<1> QED
  BY <1>1, IInvInductive, PTL

(* Without a race for the first key and without a wipe, the cached key is    *)
(* the one in the file and decrypts every row (ensure_storage_key), wherever *)
(* the process dies.                                                         *)
THEOREM KeySafety == Spec => []OneKeyReadsAll
<1>1. IInv => OneKeyReadsAll
  BY DEF IInv, OneKeyInv, OneKeyReadsAll
<1> QED
  BY <1>1, IInvInductive, PTL

(* A key that no other call held from a wipe's removal of the directory to   *)
(* its return encrypts nothing and is in no memory, ever after               *)
(* (wipe_local_data).                                                        *)
THEOREM WipeSafety == Spec => []WipedKeysStayDead
<1>1. IInv => WipedKeysStayDead
  BY DEF IInv, DeadInv, Gone, WipedKeysStayDead
<1> QED
  BY <1>1, IInvInductive, PTL

(* A running client that was not wiped has its database (start, stop).       *)
THEOREM RunningSafety == Spec => []RunningClientStores
<1>1. IInv => RunningClientStores
  BY DEF IInv, Sound, RunInv, RunningClientStores
<1> QED
  BY <1>1, IInvInductive, PTL

(* The newest of the active identities: several may be.                      *)
LEMMA LatestOfActive ==
  ASSUME TypeOK, Active # {}
  PROVE  Latest # {}
<1> DEFINE T == {rows[f].created : f \in Active}
<1>1. ASSUME NEW f \in Active PROVE rows[f].created \in 0..MaxClock
  BY StoredRowKey DEF Active
<1>2. T \in SUBSET Nat /\ T # {} /\ \A x \in T : x <= MaxClock
  BY <1>1, BoundsAssumption
<1>3. PICK x \in T : \A y \in T : y <= x
  <2> HIDE DEF T
  <2> QED  BY <1>2, GreatestNumber, BoundsAssumption
<1>4. PICK f \in Active : rows[f].created = x
  BY <1>3
<1>5. f \in Latest
  BY <1>3, <1>4 DEF Latest
<1> QED
  BY <1>5

(* Once an identity is stored, start has one to resume, unless a rotation    *)
(* ended between its two statements (rotate_identity, load_latest_identity). *)
THEOREM ComesBackSafety == Spec => []IdentityComesBack
<1>1. IInv => IdentityComesBack
  BY LatestOfActive DEF IInv, Sound, ActiveInv, IdentityComesBack, DatabaseHeld
<1> QED
  BY <1>1, IInvInductive, PTL
=============================================================================

---------------------------- MODULE IdentityVault ----------------------------
(* Identities of crates/identity: when they are due for rotation (rotation.rs  *)
(* and RotationPolicy), the map from old fingerprints to new ones of           *)
(* IdentityRotator, and the encrypted form they are stored in (identity.rs).   *)
(* Identity i is the i-th that was generated; its keys, its fingerprint and    *)
(* its self-signature are all known by i.  A public identity that is read from *)
(* elsewhere may have parts of several.                                        *)
EXTENDS Naturals, Sequences

CONSTANTS
  RotationInterval,   \* rotation_interval
  WarningThreshold,   \* warning_threshold
  VaultKeys,          \* storage keys
  MaxVaultTime,       \* bound: the wall clock is in 0..MaxVaultTime
  MaxIdentities       \* bound: identities generated

ASSUME VaultAssumption ==
  /\ RotationInterval \in Nat /\ WarningThreshold \in Nat
  /\ MaxVaultTime \in Nat /\ MaxIdentities \in Nat \ {0}

VARIABLES
  vaultNow,        \* SystemTime::now(), which may be set back
  idCreated,       \* created_at of the identities generated, the last one in use
  transitions,     \* transition_map
  idCleared,       \* history: fingerprints whose transition was cleared
  pendingRotation, \* pending_rotation is Some
  idBlobs,         \* what serialize_encrypted() gave
  vaultLast        \* the last check_rotation() or deserialize_encrypted(), with its result

vaultVars == <<vaultNow, idCreated, transitions, idCleared, pendingRotation, idBlobs, vaultLast>>

InUse == Len(idCreated)
Public == [keys : 1..InUse, fingerprint : 1..InUse, signature : 1..InUse]
PublicOf(i) == [keys |-> i, fingerprint |-> i, signature |-> i]

VaultTypeOK ==
  /\ vaultNow \in 0..MaxVaultTime
  /\ InUse \in 1..MaxIdentities /\ \A i \in 1..InUse : idCreated[i] \in 0..MaxVaultTime
  /\ DOMAIN transitions \subseteq 1..InUse
  /\ pendingRotation \in BOOLEAN
  /\ idBlobs \subseteq [key : VaultKeys, bound : 1..InUse, secret : 1..InUse]


VaultInit ==
  /\ vaultNow = 0
  /\ idCreated = <<0>>
  /\ transitions = [i \in {} |-> 0] /\ idCleared = {}
  /\ pendingRotation = FALSE
  /\ idBlobs = {} /\ vaultLast = [call |-> "none"]

VaultClock ==
  /\ vaultNow' \in 0..MaxVaultTime
  /\ UNCHANGED <<idCreated, transitions, idCleared, pendingRotation, idBlobs, vaultLast>>

\* Mutant of ShouldRotate: the warning threshold counts as due.
ShouldRotateEarly(created) ==
  IF vaultNow < created THEN {"due", "panic"}
  ELSE IF vaultNow - created + WarningThreshold > RotationInterval THEN {"due"} ELSE {"not due"}

\* should_rotate(), with rotated_at None as it always is.  Before the identity
\* was created the difference goes below zero: a panic with overflow checks, and
\* without them a difference above every interval.
ShouldRotate(created) ==
  IF vaultNow < created THEN {"due", "panic"}
  ELSE IF vaultNow - created > RotationInterval THEN {"due"} ELSE {"not due"}

\* time_until_rotation() and should_warn()
TimeUntilRotation(created) ==
  IF vaultNow >= created + RotationInterval THEN 0 ELSE created + RotationInterval - vaultNow
ShouldWarn(created) == TimeUntilRotation(created) <= WarningThreshold

\* check_rotation(), and the questions a caller asks with it.
CheckRotation ==
  /\ LET created == idCreated[InUse] IN
     \E said \in ShouldRotate(created) :
       /\ vaultLast' = [call |-> "check", at |-> vaultNow, created |-> created, said |-> said,
                        left |-> TimeUntilRotation(created), warned |-> ShouldWarn(created)]
       /\ pendingRotation' = (pendingRotation \/ said = "due")
  /\ UNCHANGED <<vaultNow, idCreated, transitions, idCleared, idBlobs>>

\* rotation_completed()
RotationCompleted ==
  /\ pendingRotation' = FALSE
  /\ UNCHANGED <<vaultNow, idCreated, transitions, idCleared, idBlobs, vaultLast>>

\* IdentityRotator::rotate_identity() of the identity in use.
RotatorRotate ==
  /\ InUse < MaxIdentities
  /\ idCreated' = Append(idCreated, vaultNow)
  /\ transitions' = [i \in DOMAIN transitions \cup {InUse} |->
                       IF i = InUse THEN InUse + 1 ELSE transitions[i]]
  /\ UNCHANGED <<vaultNow, idCleared, pendingRotation, idBlobs, vaultLast>>

\* clear_transition()
ClearTransition ==
  /\ \E i \in DOMAIN transitions :
       /\ transitions' = [j \in DOMAIN transitions \ {i} |-> transitions[j]]
       /\ idCleared' = idCleared \cup {i}
  /\ UNCHANGED <<vaultNow, idCreated, pendingRotation, idBlobs, vaultLast>>

\* serialize_encrypted(): the fingerprint is the associated data.
Serialize ==
  /\ \E i \in 1..InUse, key \in VaultKeys :
       idBlobs' = idBlobs \cup {[key |-> key, bound |-> i, secret |-> i]}
  /\ UNCHANGED <<vaultNow, idCreated, transitions, idCleared, pendingRotation, vaultLast>>

\* deserialize_encrypted(): the blob must open under key and fingerprint, and
\* the public identity made of its keys must be the one given.
Deserialized(public, blob, key) ==
  IF blob.key # key \/ blob.bound # public.fingerprint THEN "decryption failed"
  ELSE IF PublicOf(blob.secret) # public THEN "invalid format"
  ELSE "opened"

Deserialize ==
  /\ \E public \in Public, blob \in idBlobs, key \in VaultKeys :
       vaultLast' = [call |-> "open", public |-> public, blob |-> blob, key |-> key,
                    result |-> Deserialized(public, blob, key)]
  /\ UNCHANGED <<vaultNow, idCreated, transitions, idCleared, pendingRotation, idBlobs>>

\* verify_self_signature(): the fingerprint is not among what is signed.
SelfSigned(public) == public.signature = public.keys

VaultNext ==
  \/ VaultClock \/ CheckRotation \/ RotationCompleted
  \/ RotatorRotate \/ ClearTransition \/ Serialize \/ Deserialize

VaultSpec == VaultInit /\ [][VaultNext]_vaultVars

-----------------------------------------------------------------------------
\* An identity that is due has no time left and has been warned of, and one
\* that has time left is not due, as long as the clock has not been set back to
\* before it was created.  On the exact second the time is up it is not yet due.
DueIsWarned ==
  vaultLast.call = "check" /\ vaultLast.at >= vaultLast.created =>
    /\ vaultLast.said = "due" => vaultLast.left = 0 /\ vaultLast.warned
    /\ vaultLast.said = "not due" =>
         vaultLast.left > 0 \/ vaultLast.at = vaultLast.created + RotationInterval

\* Whoever follows the map from an old fingerprint ends at the identity in use,
\* unless a transition on the way was cleared.
Follow[i \in Nat] == IF i \in DOMAIN transitions THEN Follow[transitions[i]] ELSE i
TransitionsLead ==
  \A i \in 1..InUse : Follow[i] = InUse \/ \E j \in i..InUse : j \in idCleared

\* What is opened has the keys, the fingerprint and the self-signature of one
\* identity, the one that was stored, under the key it was stored with.
OpenedIsSealed ==
  vaultLast.call = "open" /\ vaultLast.result = "opened" =>
    /\ SelfSigned(vaultLast.public)
    /\ vaultLast.public = PublicOf(vaultLast.blob.secret) /\ vaultLast.key = vaultLast.blob.key

IdentityHolds == DueIsWarned /\ TransitionsLead /\ OpenedIsSealed
=============================================================================

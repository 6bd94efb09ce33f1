---------------------------- MODULE ProfileStore ----------------------------
(***************************************************************************)
(* The profile of the desktop shell, src-tauri/src/profile.rs, and the     *)
(* commands of src-tauri/src/commands.rs that only change it: contacts,    *)
(* chats, outgoing messages with their delivery status, and the identity.  *)
(*                                                                         *)
(* Every change ends in save(), so the file and the memory agree and one   *)
(* set of variables stands for both.  Chats and messages are named by the  *)
(* order of their creation; a reset leaves "gone" in the place of each, as *)
(* their names are clock readings and never come back.  Incoming rows,     *)
(* diagnostics and retry counts are left out.                              *)
(***************************************************************************)
EXTENDS Naturals, Sequences, FiniteSets

CONSTANTS Fingerprint,   \* fingerprints other than the profile's own
          Route,         \* what the invites in use offer, see RouteAssumption
          MaxChats,      \* bound: chats created
          MaxMessages    \* bound: messages sent

\* No code path writes an invite with both an onion address and a LAN endpoint,
\* and a bare fingerprint has neither.
ASSUME RouteAssumption == Route \subseteq {"none", "endpoint", "onion"}

Status == {"queued", "failed", "delivered", "gone"}

Contact == [route : Route, previous : SUBSET Fingerprint]
Message == [chat : 1..MaxChats, destination : Fingerprint, status : Status]

ASSUME ProfileBounds == MaxChats \in Nat /\ MaxMessages \in Nat

VARIABLES
  identity,    \* whether the profile has an identity
  contacts,    \* fingerprint -> contact, for the fingerprints in the list
  chats,       \* chat -> the fingerprint it is with, or "gone"
  messages     \* message -> its row

profile == <<identity, contacts, chats, messages>>

ProfileTypeOK ==
  /\ identity \in BOOLEAN
  /\ DOMAIN contacts \subseteq Fingerprint
  /\ \A f \in DOMAIN contacts : contacts[f] \in Contact
  /\ chats \in Seq(Fingerprint \cup {"gone"}) /\ Len(chats) <= MaxChats
  /\ messages \in Seq(Message) /\ Len(messages) <= MaxMessages

ProfileInit ==
  /\ identity \in BOOLEAN
  /\ contacts = << >>
  /\ chats = << >>
  /\ messages = << >>

-----------------------------------------------------------------------------
(* Contacts *)

IsContact(f) == f \in DOMAIN contacts
HasRoute(f, route) == IsContact(f) /\ contacts[f].route = route

\* upsert_contact: an invite replaces the contact's route, old or new.
Upserted(f, route) ==
  [g \in DOMAIN contacts \cup {f} |->
     IF g # f THEN contacts[g]
     ELSE [route    |-> route,
           previous |-> IF IsContact(f) THEN contacts[f].previous ELSE {}]]

AddContact(f, route) ==
  /\ contacts' = Upserted(f, route)
  /\ UNCHANGED <<identity, chats, messages>>

\* With the same fingerprint update_contact is add_contact.  Otherwise the old
\* fingerprint is pushed on the contact found by the old contact's id, which is
\* the old contact.
UpdateContact(old, new, route) ==
  /\ IsContact(old)
  /\ new # old
  /\ contacts' = [Upserted(new, route) EXCEPT ![old].previous = @ \cup {old}]
  /\ UNCHANGED <<identity, chats, messages>>

(* Chats *)

\* An existing chat with the contact is returned instead.
MayCreateChat(f) == IsContact(f) /\ \A c \in DOMAIN chats : chats[c] # f

CreateChat(f) ==
  /\ MayCreateChat(f)
  /\ Len(chats) < MaxChats
  /\ chats' = Append(chats, f)
  /\ UNCHANGED <<identity, contacts, messages>>

\* The contact that lists the chat's fingerprint among its previous ones.
RefreshChatDestination(c) ==
  /\ chats[c] # "gone"
  /\ \E f \in DOMAIN contacts :
       /\ chats[c] \in contacts[f].previous
       /\ chats' = [chats EXCEPT ![c] = f]
  /\ UNCHANGED <<identity, contacts, messages>>

(* Messages *)

Live(m) == m \in DOMAIN messages /\ messages[m].status # "gone"

\* Mutant of PendingOutbound: the status is not looked at.
AllOutbound == {m \in DOMAIN messages : Live(m)}

\* Mutant of PendingOutbound: what failed is left alone.
QueuedOutbound == {m \in DOMAIN messages : messages[m].status = "queued"}

PendingOutbound == {m \in DOMAIN messages : messages[m].status \in {"queued", "failed"}}

Appended(c) ==
  Append(messages, [chat |-> c, destination |-> chats[c], status |-> "queued"])

\* Mutant of StatusUpdated: a message that is not found is inserted again.
StatusForced(m, status) == [messages EXCEPT ![m].status = status]

\* update_message_status: nothing happens when the message is not there.
StatusUpdated(m, status) ==
  IF Live(m) THEN [messages EXCEPT ![m].status = status] ELSE messages

(* The identity *)

CreateIdentity ==
  /\ identity' = TRUE
  /\ UNCHANGED <<contacts, chats, messages>>

\* Mutant of ResetIdentity: the chats survive the contacts they are with.
ResetIdentityOnly ==
  /\ identity' = FALSE
  /\ contacts' = << >>
  /\ messages' = [m \in DOMAIN messages |-> [messages[m] EXCEPT !.status = "gone"]]
  /\ UNCHANGED chats

ResetIdentity ==
  /\ identity' = FALSE
  /\ contacts' = << >>
  /\ chats' = [c \in DOMAIN chats |-> "gone"]
  /\ messages' = [m \in DOMAIN messages |-> [messages[m] EXCEPT !.status = "gone"]]

ProfileCommand ==
  \/ \E f \in Fingerprint, r \in Route : AddContact(f, r)
  \/ \E old, new \in Fingerprint, r \in Route : UpdateContact(old, new, r)
  \/ \E f \in Fingerprint : CreateChat(f)
  \/ \E c \in DOMAIN chats : RefreshChatDestination(c)
  \/ CreateIdentity
  \/ ResetIdentity

-----------------------------------------------------------------------------
(* Properties *)

(* Contacts, chats and messages are changed by different commands and never  *)
(* lose track of each other: each chat in the list is with a contact in the  *)
(* list, so send_message never answers "Contact not found for chat", and the *)
(* retry loops find a contact for every message they hold.                   *)
RoutesResolve ==
  /\ \A c \in DOMAIN chats : chats[c] # "gone" => IsContact(chats[c])
  /\ \A m \in DOMAIN messages : Live(m) => IsContact(messages[m].destination)
=============================================================================

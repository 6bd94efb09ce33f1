----------------------------- MODULE ContactBook -----------------------------
(* Contacts of the client: MemoryContactStore (crates/messenger/src/contacts   *)
(* .rs), the contacts table beside it (crates/storage/src/database.rs), the    *)
(* calls of ShadowgramClient (client.rs:776-823) that write both, private set  *)
(* intersection (psi.rs) and the queue of DeviceSync (sync.rs).  add_contact() *)
(* writes the memory, then the row, and holds no lock in between.  The stored  *)
(* part of a contact that can change is its trust level.                       *)
EXTENDS Naturals, Sequences, FiniteSets, SequencesExt

CONSTANTS
  ContactCallers,  \* threads that call add_contact()
  People,          \* fingerprints
  TrustLevels,     \* TrustLevel as stored
  Devices,         \* device ids
  MaxListed,       \* bound: remote hashes of one set intersection
  MaxQueued        \* bound: registered devices, and queued operations

ASSUME ContactAssumption ==
  TrustLevels \subseteq 0..2 /\ Devices \cap People = {} /\ MaxListed \in Nat /\ MaxQueued \in Nat

VARIABLES
  bookMemory,      \* contacts: from fingerprints to trust levels
  bookRows,        \* the contacts table, the same
  bookOpen,        \* database is Some
  adding,          \* add_contact() between its two writes: caller to contact
  bookApart,       \* history: contacts whose row may differ, by what was last done
  psiLast,         \* remote list and the results of the last set intersections
  syncDevices,     \* devices
  syncOps          \* pending_ops: IdentityUpdate operations

bookVars == <<bookMemory, bookRows, bookOpen, adding, bookApart, psiLast, syncDevices, syncOps>>

BookNothing == [p \in {} |-> 0]
NoPsi == [remote |-> <<>>, common |-> {}, discovered |-> {}, matches |-> {}]
Set(book, p, trust) == [q \in DOMAIN book \cup {p} |-> IF q = p THEN trust ELSE book[q]]
IsBook(book) == DOMAIN book \subseteq People /\ \A p \in DOMAIN book : book[p] \in TrustLevels

BookTypeOK ==
  /\ IsBook(bookMemory) /\ IsBook(bookRows)
  /\ bookOpen \in BOOLEAN
  /\ DOMAIN adding \subseteq ContactCallers
  /\ bookApart \subseteq People
  /\ Len(syncDevices) <= MaxQueued /\ syncOps \in 0..MaxQueued

BookInit ==
  /\ bookMemory = BookNothing /\ bookRows = BookNothing /\ bookOpen = FALSE
  /\ adding = BookNothing /\ bookApart = {}
  /\ psiLast = NoPsi
  /\ syncDevices = <<>> /\ syncOps = 0

\* The results of a set intersection are kept until the next write.
SyncIdle == psiLast' = NoPsi /\ UNCHANGED <<syncDevices, syncOps>>

\* add_contact(), first write: a contact already there is replaced.  Calls for
\* the same contact that are between their writes at one time are marked.
AddToMemory(t) ==
  /\ t \notin DOMAIN adding
  /\ \E p \in People, trust \in TrustLevels :
       LET others == {u \in DOMAIN adding : adding[u].person = p} IN
       /\ bookMemory' = Set(bookMemory, p, trust)
       /\ adding' = [u \in DOMAIN adding \cup {t} |->
                       IF u = t THEN [person |-> p, trust |-> trust, overlaps |-> others # {}]
                       ELSE [adding[u] EXCEPT !.overlaps = @ \/ u \in others]]
  /\ UNCHANGED <<bookRows, bookOpen, bookApart>> /\ SyncIdle

Returns(t) == adding' = [u \in DOMAIN adding \ {t} |-> adding[u]]

\* Mutant of StoreContact: INSERT OR IGNORE.
StoreContactOnce(c) == IF c.person \in DOMAIN bookRows THEN bookRows
                                                       ELSE Set(bookRows, c.person, c.trust)

\* store_contact(): INSERT OR REPLACE.
StoreContact(c) == Set(bookRows, c.person, c.trust)

\* add_contact(), second write: the row, if the database is open and the
\* statement works.
AddRow(t) ==
  /\ t \in DOMAIN adding
  /\ Returns(t)
  /\ \/ /\ bookOpen
        /\ bookRows' = StoreContact(adding[t])
        /\ bookApart' = IF adding[t].overlaps THEN bookApart \cup {adding[t].person}
                                              ELSE bookApart \ {adding[t].person}
     \/ bookRows' = bookRows /\ bookApart' = bookApart \cup {adding[t].person}
  /\ UNCHANGED <<bookMemory, bookOpen>> /\ SyncIdle

\* remove_contact(): from the memory alone.
RemoveContact ==
  /\ \E p \in DOMAIN bookMemory : bookMemory' = [q \in DOMAIN bookMemory \ {p} |-> bookMemory[q]]
  /\ UNCHANGED <<bookRows, bookOpen, adding, bookApart>> /\ SyncIdle

\* start() and stop(), of which only the database matters here; neither reads a row back.
OpenOrClose ==
  /\ bookOpen' = ~bookOpen
  /\ UNCHANGED <<bookMemory, bookRows, adding, bookApart>> /\ SyncIdle

\* The process ends and a new client begins, with nothing but the rows.
BookRestart ==
  /\ bookMemory' = BookNothing /\ adding' = BookNothing /\ bookOpen' = FALSE
  /\ bookApart' = {}
  /\ syncDevices' = <<>> /\ syncOps' = 0
  /\ psiLast' = NoPsi /\ UNCHANGED bookRows

\* discover_common() and find_common_contacts(): what of us they have too.
DiscoverCommon(remote) ==
  IF remote = <<>> THEN {} ELSE {p \in DOMAIN bookMemory : \E i \in 1..Len(remote) : p = remote[i]}
FindCommonContacts(remote) == {p \in DOMAIN bookMemory : p \in Range(remote)}

\* find_matches(): the places of the remote list that are ours.
FindMatches(remote) == {i \in 1..Len(remote) : remote[i] \in DOMAIN bookMemory}

RunPsi ==
  /\ \E remote \in UNION {[1..n -> People] : n \in 0..MaxListed} :
       psiLast' = [remote |-> remote, common |-> FindCommonContacts(remote),
                   discovered |-> DiscoverCommon(remote), matches |-> FindMatches(remote)]
  /\ UNCHANGED <<bookMemory, bookRows, bookOpen, adding, bookApart, syncDevices, syncOps>>

\* register_device(): a device registered twice is there twice.
RegisterDevice ==
  /\ Len(syncDevices) < MaxQueued
  /\ \E d \in Devices : syncDevices' = Append(syncDevices, d)
  /\ UNCHANGED <<bookMemory, bookRows, bookOpen, adding, bookApart, psiLast, syncOps>>

\* queue_operation() in create_identity(), and take_pending_ops(), which empties
\* the queue before any operation has been applied; completing one does nothing.
QueueOperation ==
  /\ syncOps < MaxQueued
  /\ syncOps' = syncOps + 1
  /\ UNCHANGED <<bookMemory, bookRows, bookOpen, adding, bookApart, psiLast, syncDevices>>
TakePendingOps ==
  /\ syncOps' = 0
  /\ UNCHANGED <<bookMemory, bookRows, bookOpen, adding, bookApart, psiLast, syncDevices>>

BookNext ==
  \/ \E t \in ContactCallers : AddToMemory(t) \/ AddRow(t)
  \/ RemoveContact \/ OpenOrClose \/ BookRestart
  \/ RunPsi \/ RegisterDevice \/ QueueOperation \/ TakePendingOps

BookSpec == BookInit /\ [][BookNext]_bookVars

-----------------------------------------------------------------------------
\* Once no call is writing it, a contact in memory is in its row as it is there,
\* unless its last calls of add_contact() (client.rs:776) overlapped or did not
\* write the row.  Nothing is said of a row: it outlives removal and restart.
RowsFollow ==
  \A p \in DOMAIN bookMemory \ bookApart :
    (\A t \in DOMAIN adding : adding[t].person # p) =>
      p \in DOMAIN bookRows /\ bookRows[p] = bookMemory[p]

\* The three set intersections of psi.rs and contacts.rs agree, also when the
\* remote list names a contact twice.
PsiAgree ==
  /\ psiLast.discovered = psiLast.common
  /\ {psiLast.remote[i] : i \in psiLast.matches} = psiLast.common

ContactBookAgrees == RowsFollow /\ PsiAgree
=============================================================================

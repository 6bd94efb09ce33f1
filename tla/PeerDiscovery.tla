---------------------------- MODULE PeerDiscovery ----------------------------
(* DhtNode and PeerDiscovery of crates/network/src/dht.rs: a node's known      *)
(* peers and pending lookups, and the cache PeerDiscovery keeps before a node  *)
(* of its own.  That node is private: its peers come from announce() alone.    *)
(* Fingerprints that parse as a peer id are peers; the others are BadPrints.   *)
EXTENDS Naturals, Sequences

CONSTANTS
  DhtPeers,        \* peers beside the two nodes
  BadPrints,       \* fingerprints PeerId::from_bytes() refuses
  Addresses,       \* network addresses
  MaxAges,         \* what prune_cache() is called with, in ticks
  MaxDhtTime,      \* bound: the wall clock is in 0..MaxDhtTime
  MaxAddresses     \* bound: addresses pushed for one peer

ASSUME DhtAssumption ==
  MaxAges \subseteq Nat /\ MaxDhtTime \in Nat /\ MaxAddresses \in Nat

\* The two nodes, which are also their own peer ids.
DhtNodes == {"node", "discovery"}
AllPeers == DhtPeers \cup DhtNodes
Prints == AllPeers \cup BadPrints

VARIABLES
  knownPeers,      \* known_peers of each node: from peers to addresses, repeats included
  pendingLookups,  \* pending_lookups of "node"
  discovered,      \* discovered_peers
  dhtNow,          \* SystemTime::now(), which may be set back
  byHand           \* history: fingerprints add_discovered_peer() gave last

dhtVars == <<knownPeers, pendingLookups, discovered, dhtNow, byHand>>

DhtTypeOK ==
  /\ \A n \in DhtNodes : DOMAIN knownPeers[n] \subseteq AllPeers
  /\ DOMAIN knownPeers["discovery"] \subseteq {"discovery"}
  /\ pendingLookups \subseteq Prints
  /\ \A f \in DOMAIN discovered : discovered[f].seen \in 0..MaxDhtTime
  /\ byHand \subseteq DOMAIN discovered

DhtInit ==
  /\ knownPeers = [n \in DhtNodes |-> [p \in {} |-> <<>>]]
  /\ pendingLookups = {} /\ byHand = {}
  /\ discovered = [f \in {} |-> 0]
  /\ dhtNow = 0

\* add_peer(): the address is pushed without a look at those already there.
Pushed(known, p, a) ==
  [q \in DOMAIN known \cup {p} |->
     IF q # p THEN known[q] ELSE IF p \in DOMAIN known THEN Append(known[p], a) ELSE <<a>>]

AddPeer(n, p) ==
  /\ p \in DOMAIN knownPeers[n] => Len(knownPeers[n][p]) < MaxAddresses
  /\ \E a \in Addresses : knownPeers' = [knownPeers EXCEPT ![n] = Pushed(@, p, a)]
  /\ UNCHANGED <<pendingLookups, discovered, dhtNow, byHand>>

\* publish_self() and announce(), address by address.
PublishSelf == \E n \in DhtNodes : AddPeer(n, n)

\* remove_peer()
RemovePeer ==
  /\ \E p \in DOMAIN knownPeers["node"] :
       knownPeers' = [knownPeers EXCEPT !["node"] = [q \in DOMAIN @ \ {p} |-> @[q]]]
  /\ UNCHANGED <<pendingLookups, discovered, dhtNow, byHand>>

\* The peer lookup_peer() looks for: the node itself when f does not parse.
LookedFor(n, f) == IF f \in AllPeers THEN f ELSE n

\* Mutant of LookupPeer: an unknown peer is found, with no address.
LookupPeerEmpty(n, f) ==
  {[peer |-> p, seen |-> dhtNow,
    addresses |-> IF p \in DOMAIN knownPeers[n] THEN knownPeers[n][p] ELSE <<>>] :
     p \in {LookedFor(n, f)}}

\* What lookup_peer() finds: no answer or one.
LookupPeer(n, f) ==
  {[peer |-> p, addresses |-> knownPeers[n][p], seen |-> dhtNow] :
     p \in {LookedFor(n, f)} \cap DOMAIN knownPeers[n]}

\* start_lookup(): a callback waiting for the same fingerprint is replaced, and
\* process_event() answers nobody.
StartLookup ==
  /\ \E f \in Prints : pendingLookups' = pendingLookups \cup {f}
  /\ UNCHANGED <<knownPeers, discovered, dhtNow, byHand>>

Cached(f, info) == [g \in DOMAIN discovered \cup {f} |-> IF g = f THEN info ELSE discovered[g]]

\* find_peer() with nothing cached; a cached answer is given whatever its age.
FindPeer ==
  /\ \E f \in Prints \ DOMAIN discovered : \E info \in LookupPeer("discovery", f) :
       discovered' = Cached(f, info)
  /\ UNCHANGED <<knownPeers, pendingLookups, dhtNow, byHand>>

\* add_discovered_peer()
AddDiscoveredPeer ==
  /\ \E f \in Prints, p \in AllPeers \ {"discovery"}, a \in Addresses :
       /\ discovered' = Cached(f, [peer |-> p, addresses |-> <<a>>, seen |-> dhtNow])
       /\ byHand' = byHand \cup {f}
  /\ UNCHANGED <<knownPeers, pendingLookups, dhtNow>>

\* prune_cache(): what seems to have been seen in the future goes too.
PruneCache ==
  /\ \E age \in MaxAges :
       LET fresh == {f \in DOMAIN discovered :
                       discovered[f].seen <= dhtNow /\ dhtNow - discovered[f].seen < age}
       IN /\ discovered' = [f \in fresh |-> discovered[f]]
          /\ byHand' = byHand \cap fresh
  /\ UNCHANGED <<knownPeers, pendingLookups, dhtNow>>

DhtClock ==
  /\ dhtNow' \in 0..MaxDhtTime
  /\ UNCHANGED <<knownPeers, pendingLookups, discovered, byHand>>

DhtNext ==
  \/ \E p \in AllPeers \ {"node"} : AddPeer("node", p)
  \/ PublishSelf \/ RemovePeer \/ StartLookup
  \/ FindPeer \/ AddDiscoveredPeer \/ PruneCache \/ DhtClock

DhtSpec == DhtInit /\ [][DhtNext]_dhtVars

-----------------------------------------------------------------------------
\* What find_peer() has found by itself is ourselves, under a fingerprint that
\* parses as nothing or as our own peer id, with addresses that were announced
\* first: lookup_peer() (dht.rs:133) falls back to our peer id, and a cached
\* answer stays behind what announce() adds later.
FindsOnlyOurselves ==
  \A f \in DOMAIN discovered \ byHand :
    LET found == discovered[f].addresses
    IN /\ f \in BadPrints \cup {"discovery"} /\ discovered[f].peer = "discovery"
       /\ found # <<>>
       /\ "discovery" \in DOMAIN knownPeers["discovery"]
       /\ found = SubSeq(knownPeers["discovery"]["discovery"], 1, Len(found))
=============================================================================

------------------------------ MODULE RelayPool ------------------------------
(* RelayPool, MultiPathRouting and PathStrategy of                             *)
(* crates/network/src/relay.rs: the relays with their statistics, the recent   *)
(* path results, and the choice of relays.  A success rate is the number of    *)
(* times it was multiplied by 0.95; scores are kept in millionths.             *)
EXTENDS Integers, Sequences, FiniteSets

CONSTANTS
  Relays,          \* relay identifiers
  RelayLoads,      \* loads a relay is added with, in percent
  Latencies,       \* latencies that are reported, in ms
  NoLatency,       \* latency_ms: None
  HistoryMax,      \* path results kept (1000)
  MinPaths,        \* min_paths
  MaxPaths,        \* max_paths
  MaxResults       \* bound: results recorded

ASSUME RelayAssumption ==
  /\ RelayLoads \subseteq 0..100 /\ Latencies \subseteq Nat /\ NoLatency \notin Nat
  /\ HistoryMax \in Nat /\ MinPaths \in Nat /\ MaxPaths \in Nat /\ MaxResults \in Nat

VARIABLES
  relays,          \* relays: a function from the identifiers held to their data
  pathHistory,     \* path_history
  relayResults,    \* history: all results ever recorded
  relayChosen      \* the relays of the last choice, with how many were asked for

relayVars == <<relays, pathHistory, relayResults, relayChosen>>

RelayNode == [latency : Nat, failures : 0..MaxResults, load : RelayLoads, active : BOOLEAN]
LastOf(s, n) == IF Len(s) > n THEN SubSeq(s, Len(s) - n + 1, Len(s)) ELSE s

RelayTypeOK ==
  /\ DOMAIN relays \subseteq Relays
  /\ \A r \in DOMAIN relays : relays[r] \in RelayNode
  /\ pathHistory = LastOf(relayResults, HistoryMax)
  /\ relayChosen.ids \subseteq Relays /\ Cardinality(relayChosen.ids) <= relayChosen.asked

ActiveRelays == {r \in DOMAIN relays : relays[r].active}

\* 0.95 to the n, in millionths, as far as MaxResults goes.
SuccessRate[n \in Nat] == IF n = 0 THEN 1000000 ELSE (SuccessRate[n - 1] * 95) \div 100

\* score(), in millionths: half success rate, then load, then latency.
Score(r) ==
  LET late == IF relays[r].latency > 1000 THEN 1000 ELSE relays[r].latency
  IN SuccessRate[relays[r].failures] \div 2 + (100 - relays[r].load) * 3000 + (1000 - late) * 200

RelayInit ==
  /\ relays = [r \in {} |-> 0]
  /\ pathHistory = <<>> /\ relayResults = <<>>
  /\ relayChosen = [ids |-> {}, asked |-> 0]

\* add_relay(): a relay added again starts with a clean record.
AddRelay ==
  /\ \E id \in Relays, load \in RelayLoads, active \in BOOLEAN :
       relays' = [r \in DOMAIN relays \cup {id} |->
                    IF r = id THEN [latency |-> 0, failures |-> 0, load |-> load, active |-> active]
                              ELSE relays[r]]
  /\ UNCHANGED <<pathHistory, relayResults, relayChosen>>

\* remove_relay()
RemoveRelay ==
  /\ \E id \in DOMAIN relays : relays' = [r \in DOMAIN relays \ {id} |-> relays[r]]
  /\ UNCHANGED <<pathHistory, relayResults, relayChosen>>

\* The moving average of old and new, truncated; an exact value may have come
\* out a little low in floating point.
Averages(old, new) ==
  LET tenths == 9 * old + new
  IN {tenths \div 10} \cup IF tenths % 10 = 0 /\ tenths > 0 THEN {(tenths \div 10) - 1} ELSE {}

\* Mutant of Recent: one result more is kept.
RecentAndOne(s) == LastOf(s, HistoryMax + 1)

\* The results kept of s.
Recent(s) == LastOf(s, HistoryMax)

\* record_path_result(): the result may be of a relay that was removed, or
\* removed and added again, since the path was used.
RecordPathResult ==
  /\ Len(relayResults) < MaxResults
  /\ \E id \in Relays, success \in BOOLEAN, latency \in Latencies \cup {NoLatency} :
       /\ relayResults' = Append(relayResults, [relay |-> id, success |-> success])
       /\ pathHistory' = Recent(Append(pathHistory, [relay |-> id, success |-> success]))
       /\ IF id \notin DOMAIN relays THEN UNCHANGED relays
          ELSE \E average \in IF latency = NoLatency THEN {relays[id].latency}
                              ELSE Averages(relays[id].latency, latency) :
                 relays' = [relays EXCEPT ![id].latency = average,
                                          ![id].failures = IF success THEN @ ELSE @ + 1]
  /\ UNCHANGED relayChosen

\* What PathStrategy::select may give for n relays: n that come first in the
\* order of key, with ties in the map's order.
Chosen(n, key) ==
  {ids \in SUBSET ActiveRelays :
     /\ Cardinality(ids) = IF n < Cardinality(ActiveRelays) THEN n ELSE Cardinality(ActiveRelays)
     /\ \A r \in ids, o \in ActiveRelays \ ids : key[r] <= key[o]}

\* The strategies order by score, load or latency, or by nothing.
Preferences ==
  {[r \in ActiveRelays |-> -Score(r)], [r \in ActiveRelays |-> relays[r].load],
   [r \in ActiveRelays |-> relays[r].latency], [r \in ActiveRelays |-> 0]}

SelectRelays ==
  /\ \E n \in 0..Cardinality(Relays), key \in Preferences : \E ids \in Chosen(n, key) :
       relayChosen' = [ids |-> ids, asked |-> n]
  /\ UNCHANGED <<relays, pathHistory, relayResults>>

\* build_paths(), of send_multi_path() and send_first_wins(): the first active
\* relays in the map's order, whatever their score.
BuildPaths ==
  /\ Cardinality(ActiveRelays) >= MinPaths
  /\ \E ids \in Chosen(MaxPaths, [r \in ActiveRelays |-> 0]) : relayChosen' = [ids |-> ids, asked |-> MaxPaths]
  /\ UNCHANGED <<relays, pathHistory, relayResults>>

RelayNext == AddRelay \/ RemoveRelay \/ RecordPathResult \/ SelectRelays \/ BuildPaths

RelaySpec == RelayInit /\ [][RelayNext]_relayVars
=============================================================================

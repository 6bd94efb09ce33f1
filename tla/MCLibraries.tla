----------------------------- MODULE MCLibraries -----------------------------
(* The library components that share no state with each other or with the      *)
(* clients, checked in one run: which of them moves is chosen at the start.    *)
EXTENDS EncryptedCache, NoiseChannel, DoubleRatchet, CoverTraffic, Mixnet, RelayPool,
        PeerDiscovery, WireFormats, Padding, ContactBook, IdentityVault, SecretSharing

VARIABLE part

vars == <<part, cacheVars, noiseVars, ratVars, coverVars, mixVars, relayVars, dhtVars,
          wireVars, padVars, bookVars, vaultVars, shareVars>>

Parts == {"cache", "noise", "ratchet", "cover", "mixnet", "relay", "dht", "wire", "pad",
          "book", "vault", "share"}

Init ==
  /\ part \in Parts
  /\ CacheInit /\ NoiseInit /\ RatchetInit /\ CoverInit /\ MixInit /\ RelayInit /\ DhtInit
  /\ WireInit /\ PadInit /\ BookInit /\ VaultInit /\ ShareInit
  /\ part = "cover" \/ coverEnabled

CacheMoves ==
  /\ part = "cache" /\ CacheNext
  /\ UNCHANGED <<part, noiseVars, ratVars, coverVars, mixVars, relayVars, dhtVars, wireVars,
                 padVars, bookVars, vaultVars, shareVars>>
NoiseMoves ==
  /\ part = "noise" /\ NoiseNext
  /\ UNCHANGED <<part, cacheVars, ratVars, coverVars, mixVars, relayVars, dhtVars, wireVars,
                 padVars, bookVars, vaultVars, shareVars>>
RatchetMoves ==
  /\ part = "ratchet" /\ RatchetNext
  /\ UNCHANGED <<part, cacheVars, noiseVars, coverVars, mixVars, relayVars, dhtVars, wireVars,
                 padVars, bookVars, vaultVars, shareVars>>
CoverMoves ==
  /\ part = "cover" /\ CoverNext
  /\ UNCHANGED <<part, cacheVars, noiseVars, ratVars, mixVars, relayVars, dhtVars, wireVars,
                 padVars, bookVars, vaultVars, shareVars>>
MixMoves ==
  /\ part = "mixnet" /\ MixNext
  /\ UNCHANGED <<part, cacheVars, noiseVars, ratVars, coverVars, relayVars, dhtVars, wireVars,
                 padVars, bookVars, vaultVars, shareVars>>
RelayMoves ==
  /\ part = "relay" /\ RelayNext
  /\ UNCHANGED <<part, cacheVars, noiseVars, ratVars, coverVars, mixVars, dhtVars, wireVars,
                 padVars, bookVars, vaultVars, shareVars>>
DhtMoves ==
  /\ part = "dht" /\ DhtNext
  /\ UNCHANGED <<part, cacheVars, noiseVars, ratVars, coverVars, mixVars, relayVars, wireVars,
                 padVars, bookVars, vaultVars, shareVars>>
WireMoves ==
  /\ part = "wire" /\ WireNext
  /\ UNCHANGED <<part, cacheVars, noiseVars, ratVars, coverVars, mixVars, relayVars, dhtVars,
                 padVars, bookVars, vaultVars, shareVars>>
PadMoves ==
  /\ part = "pad" /\ PadNext
  /\ UNCHANGED <<part, cacheVars, noiseVars, ratVars, coverVars, mixVars, relayVars, dhtVars,
                 wireVars, bookVars, vaultVars, shareVars>>
BookMoves ==
  /\ part = "book" /\ BookNext
  /\ UNCHANGED <<part, cacheVars, noiseVars, ratVars, coverVars, mixVars, relayVars, dhtVars,
                 wireVars, padVars, vaultVars, shareVars>>
VaultMoves ==
  /\ part = "vault" /\ VaultNext
  /\ UNCHANGED <<part, cacheVars, noiseVars, ratVars, coverVars, mixVars, relayVars, dhtVars,
                 wireVars, padVars, bookVars, shareVars>>
ShareMoves ==
  /\ part = "share" /\ ShareNext
  /\ UNCHANGED <<part, cacheVars, noiseVars, ratVars, coverVars, mixVars, relayVars, dhtVars,
                 wireVars, padVars, bookVars, vaultVars>>

Next ==
  \/ CacheMoves \/ NoiseMoves \/ RatchetMoves \/ CoverMoves \/ MixMoves \/ RelayMoves
  \/ DhtMoves \/ WireMoves \/ PadMoves \/ BookMoves \/ VaultMoves \/ ShareMoves

Spec == Init /\ [][Next]_vars

\* Every part keeps its variables within what its code can hold, bounds of its
\* queues, caches and counters included.
TypeOK ==
  /\ part \in Parts
  /\ CacheTypeOK /\ NoiseTypeOK /\ RatchetTypeOK /\ CoverTypeOK /\ MixTypeOK /\ RelayTypeOK
  /\ DhtTypeOK /\ WireTypeOK /\ PadTypeOK /\ BookTypeOK /\ VaultTypeOK /\ ShareTypeOK

MCWireBodies == {<<>>, <<7>>, <<1, 2, 3, 4>>}
MCPadConfigs == {[min |-> 2, granularity |-> 2, max |-> 5, range |-> 1],
                 [min |-> 3, granularity |-> 0, max |-> 4, range |-> 0]}
=============================================================================

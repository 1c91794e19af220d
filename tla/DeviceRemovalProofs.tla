------------------------- MODULE DeviceRemovalProofs -------------------------
(***************************************************************************)
(* What DeviceConfigs and DeviceRemoval keep for every set of devices and  *)
(* phones, every number of entries and every depth of the queues.  The     *)
(* cache is treated as a table in its own right first: what a look-up in   *)
(* it finds before and after it is written, cleared or loaded.             *)
(***************************************************************************)
EXTENDS DeviceRemoval, FiniteSetTheorems, TLAPS

\* Get, for any table; no device has two entries.
Lookup(t, m) == IF EntryOf(t, m) = {} THEN Absent ELSE t[CHOOSE e \in EntryOf(t, m) : TRUE].config

IsTable(t) ==
  /\ t \in [Entry -> [mac : Mac, config : Config] \cup {EmptyEntry}]
  /\ \A e, f \in Entry : t[e].mac = t[f].mac /\ t[e].mac # NoMac => e = f

\* An entry in use is a device's configuration, and the others are empty.
LEMMA EntryFields ==
  ASSUME NEW t, IsTable(t), NEW e \in Entry
  PROVE  /\ t[e].mac \in Mac => t[e].config \in Config /\ t[e].mac # NoMac
         /\ t[e].mac \notin Mac => t[e] = EmptyEntry /\ t[e].mac = NoMac
BY DeviceConfigsAssumption DEF IsTable, EmptyEntry

LEMMA LookupHit ==
  ASSUME NEW t, IsTable(t), NEW e \in Entry, t[e].mac \in Mac
  PROVE  Lookup(t, t[e].mac) = t[e].config
<1>1. t[e].mac # NoMac
  BY DeviceConfigsAssumption
<1>2. EntryOf(t, t[e].mac) = {e}
  BY <1>1 DEF EntryOf, IsTable
<1> QED BY <1>2 DEF Lookup

LEMMA LookupMiss ==
  ASSUME NEW t, NEW m, \A e \in Entry : t[e].mac # m
  PROVE  Lookup(t, m) = Absent
BY DEF Lookup, EntryOf

\* What is found is a configuration, or there is none and no entry.
LEMMA LookupType ==
  ASSUME NEW t, IsTable(t), NEW m \in Mac
  PROVE  /\ Lookup(t, m) \in Setting
         /\ Lookup(t, m) # Absent <=> \E e \in Entry : t[e].mac = m
<1>1. CASE \E e \in Entry : t[e].mac = m
  <2> PICK e \in Entry : t[e].mac = m
    BY <1>1
  <2>1. Lookup(t, m) = t[e].config /\ t[e].config \in Config
    BY LookupHit, EntryFields
  <2> QED BY <2>1, <1>1, DeviceConfigsAssumption DEF Setting
<1>2. CASE ~ \E e \in Entry : t[e].mac = m
  BY <1>2, LookupMiss DEF Setting
<1> QED BY <1>1, <1>2

\* Two tables that agree on the entries of a device give the same for it.
LEMMA LookupSame ==
  ASSUME NEW t, IsTable(t), NEW u, IsTable(u), NEW m \in Mac,
         \A e \in Entry : t[e].mac = m \/ u[e].mac = m => u[e] = t[e]
  PROVE  Lookup(u, m) = Lookup(t, m)
<1>1. CASE \E e \in Entry : t[e].mac = m
  <2> PICK e \in Entry : t[e].mac = m
    BY <1>1
  <2>1. u[e] = t[e]
    OBVIOUS
  <2>2. Lookup(t, m) = t[e].config
    BY LookupHit
  <2>3. Lookup(u, m) = u[e].config
    BY <2>1, LookupHit
  <2> QED BY <2>1, <2>2, <2>3
<1>2. CASE ~ \E e \in Entry : t[e].mac = m
  <2>1. \A e \in Entry : u[e].mac # m
    BY <1>2
  <2> QED BY <1>2, <2>1, LookupMiss
<1> QED BY <1>1, <1>2

\* A table has no more configurations than entries.
LEMMA FewConfigs ==
  ASSUME NEW t, IsTable(t), NEW S \in SUBSET Mac,
         \A m \in S : Lookup(t, m) # Absent
  PROVE  IsFiniteSet(S) /\ Cardinality(S) <= MaxEntries
<1> DEFINE at == [m \in S |-> CHOOSE e \in Entry : t[e].mac = m]
<1>1. \A m \in S : at[m] \in Entry /\ t[at[m]].mac = m
  BY LookupType
<1>2. at \in Injection(S, Entry)
  <2>1. at \in [S -> Entry]
    BY <1>1
  <2>2. \A m, n \in DOMAIN at : at[m] = at[n] => m = n
    BY <1>1
  <2> QED BY <2>1, <2>2, Zenon DEF Injection, IsInjective
<1> HIDE DEF at
<1>3. IsFiniteSet(Entry) /\ Cardinality(Entry) = MaxEntries
  BY FS_Interval, DeviceConfigsAssumption DEF Entry
<1> QED BY <1>2, <1>3, FS_Injection

-------------------------------------------------------------------------------
\* The three ways to a new table.

\* Written in the slots where r may go: what holds a configuration of r's device is
\* one of them, and any other is empty.
LEMMA WrittenTable ==
  ASSUME NEW t, IsTable(t), NEW r \in [mac : Mac, config : Config],
         NEW slots \in SUBSET Entry, slots # {},
         \A e, f \in slots : e = f,
         \A e \in slots : t[e].mac \in {NoMac, r.mac},
         \A e \in Entry : t[e].mac = r.mac => e \in slots
  PROVE  LET u == [e \in Entry |-> IF e \in slots THEN r ELSE t[e]]
         IN  /\ IsTable(u) /\ Lookup(u, r.mac) = r.config
             /\ \A m \in Mac \ {r.mac} : Lookup(u, m) = Lookup(t, m)
<1> DEFINE u == [e \in Entry |-> IF e \in slots THEN r ELSE t[e]]
<1>1. \A e \in Entry : u[e] = IF e \in slots THEN r ELSE t[e]
  OBVIOUS
<1>2. u \in [Entry -> [mac : Mac, config : Config] \cup {EmptyEntry}]
  BY DEF IsTable
<1> HIDE DEF u
<1>3. r.mac \in Mac /\ r.mac # NoMac
  BY DeviceConfigsAssumption
<1>4. ASSUME NEW e \in Entry, NEW f \in Entry, u[e].mac = u[f].mac, u[e].mac # NoMac
      PROVE  e = f
  <2>1. CASE e \in slots /\ f \in slots
    BY <2>1
  <2>2. CASE e \in slots /\ f \notin slots
    BY <2>2, <1>1, <1>4
  <2>3. CASE e \notin slots /\ f \in slots
    BY <2>3, <1>1, <1>4
  <2>4. CASE e \notin slots /\ f \notin slots
    BY <2>4, <1>1, <1>4 DEF IsTable
  <2> QED BY <2>1, <2>2, <2>3, <2>4
<1>5. IsTable(u)
  BY <1>2, <1>4 DEF IsTable
<1>6. Lookup(u, r.mac) = r.config
  <2> PICK e \in slots : TRUE
    OBVIOUS
  <2>1. u[e] = r
    BY <1>1
  <2> QED BY <2>1, <1>5, <1>3, LookupHit
<1>7. ASSUME NEW m \in Mac \ {r.mac}
      PROVE  Lookup(u, m) = Lookup(t, m)
  <2>1. m # NoMac
    BY DeviceConfigsAssumption
  <2>2. \A e \in Entry : t[e].mac = m \/ u[e].mac = m => u[e] = t[e]
    BY <2>1, <1>1
  <2> QED BY <2>2, <1>5, LookupSame
<1> QED BY <1>5, <1>6, <1>7 DEF u

\* Cleared of a device.
LEMMA ClearedTable ==
  ASSUME NEW t, IsTable(t), NEW n \in Mac
  PROVE  LET u == [e \in Entry |-> IF e \in EntryOf(t, n) THEN EmptyEntry ELSE t[e]]
         IN  /\ IsTable(u) /\ Lookup(u, n) = Absent
             /\ \A m \in Mac \ {n} : Lookup(u, m) = Lookup(t, m)
<1> DEFINE u == [e \in Entry |-> IF e \in EntryOf(t, n) THEN EmptyEntry ELSE t[e]]
<1>1. \A e \in Entry : u[e] = IF t[e].mac = n THEN EmptyEntry ELSE t[e]
  BY DEF EntryOf
<1>2. u \in [Entry -> [mac : Mac, config : Config] \cup {EmptyEntry}]
  BY DEF IsTable
<1> HIDE DEF u
<1>3. EmptyEntry.mac = NoMac /\ n # NoMac
  BY DeviceConfigsAssumption DEF EmptyEntry
<1>4. IsTable(u)
  BY <1>1, <1>2, <1>3 DEF IsTable
<1>5. Lookup(u, n) = Absent
  BY <1>1, <1>3, LookupMiss
<1>6. ASSUME NEW m \in Mac \ {n}
      PROVE  Lookup(u, m) = Lookup(t, m)
  <2>1. m # NoMac
    BY DeviceConfigsAssumption
  <2>2. \A e \in Entry : t[e].mac = m \/ u[e].mac = m => u[e] = t[e]
    BY <2>1, <1>1, <1>3
  <2> QED BY <2>2, <1>4, LookupSame
<1> QED BY <1>4, <1>5, <1>6 DEF u

\* Loaded at the start: a well-formed table whatever could be read, and all there is
\* when everything can be and there is room for it.
LEMMA LoadedTable ==
  ASSUME NEW blobs \in SUBSET ValidBlobs, NEW t \in Loadings(blobs)
  PROVE  /\ IsTable(t)
         /\ Cardinality(blobs) <= MaxEntries =>
              \A m \in Mac : Lookup(t, m) = IF m \in blobs THEN nvs[m] ELSE Absent
<1> DEFINE count == IF Cardinality(blobs) < MaxEntries THEN Cardinality(blobs) ELSE MaxEntries
<1>1. blobs \subseteq Mac /\ (\A m \in blobs : nvs[m] \in Config)
  BY DEF ValidBlobs
<1>2. IsFiniteSet(blobs) /\ Cardinality(blobs) \in Nat
  BY <1>1, FS_Subset, FS_CardinalityType, DeviceConfigsAssumption
<1>3. count \in Nat
  BY <1>2, DeviceConfigsAssumption
<1>4. PICK order \in Injection(1 .. count, blobs) :
        t = [e \in Entry |-> IF e <= count THEN [mac |-> order[e], config |-> nvs[order[e]]]
                                           ELSE EmptyEntry]
  BY DEF Loadings
<1> HIDE DEF count
<1>5. /\ order \in [1 .. count -> blobs]
      /\ \A i, j \in 1 .. count : order[i] = order[j] => i = j
  BY DEF Injection, IsInjective
<1>6. ASSUME NEW e \in Entry, e <= count
      PROVE  /\ e \in 1 .. count /\ order[e] \in blobs
             /\ t[e] \in [mac : Mac, config : Config]
             /\ t[e].mac = order[e] /\ t[e].config = nvs[order[e]]
  <2>1. e \in 1 .. count
    BY <1>3, <1>6 DEF Entry
  <2>2. order[e] \in blobs
    BY <2>1, <1>5
  <2>3. t[e] = [mac |-> order[e], config |-> nvs[order[e]]]
    BY <1>4, <1>6
  <2>4. order[e] \in Mac /\ nvs[order[e]] \in Config
    BY <2>2, <1>1
  <2> QED BY <2>1, <2>2, <2>3, <2>4
<1>7. \A e \in Entry : ~(e <= count) => t[e] = EmptyEntry
  BY <1>4
<1>8. IsTable(t)
  <2>1. ASSUME NEW e \in Entry
        PROVE  t[e] \in [mac : Mac, config : Config] \cup {EmptyEntry}
    BY <1>1, <1>6, <1>7
  <2>2. t \in [Entry -> [mac : Mac, config : Config] \cup {EmptyEntry}]
    BY <2>1, <1>4
  <2>3. ASSUME NEW e \in Entry, NEW f \in Entry, t[e].mac = t[f].mac, t[e].mac # NoMac
        PROVE  e = f
    <3>1. EmptyEntry.mac = NoMac
      BY DEF EmptyEntry
    <3>2. e <= count /\ f <= count
      BY <3>1, <2>3, <1>7
    <3>3. order[e] = order[f]
      BY <3>2, <2>3, <1>6
    <3> QED BY <3>2, <3>3, <1>5, <1>6
  <2> QED BY <2>2, <2>3 DEF IsTable
<1>9. ASSUME Cardinality(blobs) <= MaxEntries, NEW m \in Mac
      PROVE  Lookup(t, m) = IF m \in blobs THEN nvs[m] ELSE Absent
  <2>1. count = Cardinality(blobs)
    BY <1>2, <1>9, DeviceConfigsAssumption DEF count
  <2>2. CASE m \in blobs
    <3>1. Cardinality(1 .. count) = Cardinality(blobs)
      BY <2>1, <1>3, FS_Interval
    <3>2. order \in Surjection(1 .. count, blobs)
      BY <3>1, <1>2, FS_Injection
    <3>3. PICK e \in 1 .. count : order[e] = m
      BY <2>2, <3>2 DEF Surjection
    <3>4. e \in Entry /\ e <= count
      BY <3>3, <2>1, <1>2, <1>9, DeviceConfigsAssumption DEF Entry
    <3>5. t[e].mac = m /\ t[e].config = nvs[m]
      BY <3>3, <3>4, <1>6
    <3> QED BY <3>4, <3>5, <2>2, <1>8, LookupHit
  <2>3. CASE m \notin blobs
    <3>1. \A e \in Entry : t[e].mac # m
      BY <2>3, <1>6, <1>7, DeviceConfigsAssumption DEF EmptyEntry
    <3> QED BY <2>3, <3>1, LookupMiss
  <2> QED BY <2>2, <2>3
<1> QED BY <1>8, <1>9

-------------------------------------------------------------------------------
(***************************************************************************)
(* The invariant of the configurations.  PromisesAreKept alone says        *)
(* nothing of what a restart will find, so that the NVS comes in: as long  *)
(* as it has never failed it holds what the cache holds, but for the one   *)
(* device whose request is between the two, and no more than the cache has *)
(* room for.                                                               *)
(***************************************************************************)

\* What a request has promised, and what has become of it by the second half.
RequestInHand ==
  /\ pc = "idle" => request = EmptyEntry
  /\ pc # "idle" => /\ request \in [mac : Mac, config : Setting]
                    /\ request.config \in promised[request.mac]
  /\ pc = "store" => Get(request.mac) = request.config

StoredConfig(m) == IF nvs[m] \in Config THEN nvs[m] ELSE Absent

CacheIsStored ==
  ~faulty => /\ Cardinality(ValidBlobs) <= MaxEntries
             /\ \A m \in Mac : StoredConfig(m) \in promised[m]
             /\ \A m \in Mac : Get(m) = StoredConfig(m) \/ (pc = "store" /\ request.mac = m)

ConfigInv ==
  /\ TypeOK /\ IsTable(entries)
  /\ RequestInHand /\ CacheIsStored /\ PromisesAreKept


LEMMA GetIsLookup ==
  /\ \A m : Get(m) = Lookup(entries, m)
  /\ \A m : Get(m)' = Lookup(entries', m)
BY DEF Get, Lookup

\* What does not touch the configurations.
LEMMA ConfigsUnchanged ==
  ASSUME ConfigInv, UNCHANGED vars
  PROVE  ConfigInv'
<1> USE DEF vars
<1>1. \A m : Get(m)' = Get(m)
  BY GetIsLookup
<1>2. TypeOK' /\ IsTable(entries)'
  BY DEF ConfigInv, TypeOK
<1>3. RequestInHand'
  BY <1>1 DEF ConfigInv, RequestInHand
<1>4. CacheIsStored'
  BY <1>1 DEF ConfigInv, CacheIsStored, StoredConfig, ValidBlobs
<1>5. PromisesAreKept'
  BY <1>1 DEF ConfigInv, PromisesAreKept
<1> QED BY <1>2, <1>3, <1>4, <1>5 DEF ConfigInv

LEMMA RequestKeeps ==
  ASSUME ConfigInv, NEW m \in Mac, NEW setting \in Setting, Request(m, setting)
  PROVE  ConfigInv'
<1> USE DEF Request
<1>1. \A n : Get(n)' = Get(n)
  BY GetIsLookup
<1>2. \A n \in Mac : promised'[n] = IF n = m THEN promised[n] \cup {setting} ELSE promised[n]
  BY DEF ConfigInv, TypeOK
<1>3. TypeOK'
  <2>1. promised' \in [Mac -> SUBSET Setting]
    BY DEF ConfigInv, TypeOK
  <2> QED BY <2>1 DEF ConfigInv, TypeOK
<1>4. RequestInHand'
  BY <1>2 DEF RequestInHand
<1>5. CacheIsStored'
  BY <1>1, <1>2 DEF ConfigInv, CacheIsStored, StoredConfig, ValidBlobs
<1>6. PromisesAreKept'
  BY <1>1, <1>2 DEF ConfigInv, PromisesAreKept
<1> QED BY <1>3, <1>4, <1>5, <1>6 DEF ConfigInv

\* What a reader sees changes in the first half of a request only, and for its device.
GetStep ==
  \A m \in Mac : Get(m)' # Get(m) => pc = "cache" /\ m = request.mac /\ Get(m)' = request.config

\* The first half of a request under the mutex: where u is the table it makes, the
\* device reads what was asked for and every other device what it had.
LEMMA CachedKeeps ==
  ASSUME ConfigInv, pc = "cache", pc' = "store",
         UNCHANGED <<nvs, request, promised, faulty>>,
         IsTable(entries'), Lookup(entries', request.mac) = request.config,
         \A m \in Mac \ {request.mac} : Lookup(entries', m) = Lookup(entries, m)
  PROVE  ConfigInv' /\ GetStep
<1>1. /\ request \in [mac : Mac, config : Setting]
      /\ request.config \in promised[request.mac]
  BY DEF ConfigInv, RequestInHand
<1>2. /\ Get(request.mac)' = request.config
      /\ \A m \in Mac \ {request.mac} : Get(m)' = Get(m)
  BY GetIsLookup
<1>3. TypeOK'
  BY DEF ConfigInv, TypeOK, IsTable
<1>4. RequestInHand'
  BY <1>1, <1>2 DEF RequestInHand
<1>5. CacheIsStored'
  BY <1>2 DEF ConfigInv, CacheIsStored, StoredConfig, ValidBlobs
<1>6. PromisesAreKept'
  BY <1>1, <1>2 DEF ConfigInv, PromisesAreKept
<1> QED BY <1>2, <1>3, <1>4, <1>5, <1>6 DEF ConfigInv, GetStep

\* A request that ends with the cache and the NVS as they are.
LEMMA DoneKeeps ==
  ASSUME ConfigInv, Done, UNCHANGED <<entries, nvs, promised>>,
         (faulty' = faulty /\ pc # "store") \/ faulty' = TRUE
  PROVE  ConfigInv'
<1> USE DEF Done
<1>1. \A n : Get(n)' = Get(n)
  BY GetIsLookup
<1>2. TypeOK' /\ IsTable(entries)'
  BY DEF ConfigInv, TypeOK
<1>3. RequestInHand'
  BY DEF RequestInHand
<1>4. CacheIsStored'
  BY <1>1 DEF ConfigInv, CacheIsStored, StoredConfig, ValidBlobs
<1>5. PromisesAreKept'
  BY <1>1 DEF ConfigInv, PromisesAreKept
<1> QED BY <1>2, <1>3, <1>4, <1>5 DEF ConfigInv

LEMMA SetCachedKeeps ==
  ASSUME ConfigInv, SetCached
  PROVE  ConfigInv' /\ GetStep
<1> DEFINE slots == IF EntryOf(entries, request.mac) # {} THEN EntryOf(entries, request.mac)
                                                         ELSE FirstFree
<1>1. CASE slots = {}
  <2>1. Done /\ UNCHANGED <<entries, nvs, promised, faulty>> /\ pc # "store"
    BY <1>1 DEF SetCached
  <2> QED BY <2>1, DoneKeeps, GetIsLookup DEF GetStep
<1>2. CASE slots # {}
  <2>1. /\ pc = "cache" /\ pc' = "store" /\ request.config # Absent
        /\ entries' = [e \in Entry |-> IF e \in slots THEN request ELSE entries[e]]
        /\ UNCHANGED <<nvs, request, promised, faulty>>
    BY <1>2 DEF SetCached
  <2>2. request \in [mac : Mac, config : Config] /\ request.mac # NoMac
    <3>1. request \in [mac : Mac, config : Setting]
      BY <2>1 DEF ConfigInv, RequestInHand
    <3>2. request.mac \in Mac /\ request.config \in Config
      BY <3>1, <2>1 DEF Setting
    <3> QED BY <3>1, <3>2, DeviceConfigsAssumption
  <2>3. IsTable(entries)
    BY DEF ConfigInv
  <2>4. slots \in SUBSET Entry
    BY DEF EntryOf, FirstFree
  <2>5. \A e, f \in slots : e = f
    <3>1. CASE EntryOf(entries, request.mac) # {}
      BY <3>1, <2>2, <2>3 DEF EntryOf, IsTable
    <3>2. CASE EntryOf(entries, request.mac) = {}
      <4>1. ASSUME NEW e \in FirstFree, NEW f \in FirstFree
            PROVE  ~(e < f)
        BY <4>1 DEF FirstFree, Entry
      <4> QED BY <4>1, <3>2 DEF FirstFree, Entry
    <3> QED BY <3>1, <3>2
  <2>6. \A e \in slots : entries[e].mac \in {NoMac, request.mac}
    BY DEF EntryOf, FirstFree, EmptyEntry
  <2>7. \A e \in Entry : entries[e].mac = request.mac => e \in slots
    BY DEF EntryOf
  <2> HIDE DEF slots
  <2>8. /\ IsTable(entries') /\ Lookup(entries', request.mac) = request.config
        /\ \A m \in Mac \ {request.mac} : Lookup(entries', m) = Lookup(entries, m)
    BY <1>2, <2>1, <2>2, <2>3, <2>4, <2>5, <2>6, <2>7, WrittenTable
  <2> QED BY <2>1, <2>8, CachedKeeps
<1> QED BY <1>1, <1>2

LEMMA DeleteCachedKeeps ==
  ASSUME ConfigInv, DeleteCached
  PROVE  ConfigInv' /\ GetStep
<1>1. /\ pc = "cache" /\ pc' = "store" /\ request.config = Absent
      /\ entries' = [e \in Entry |->
           IF e \in EntryOf(entries, request.mac) THEN EmptyEntry ELSE entries[e]]
      /\ UNCHANGED <<nvs, request, promised, faulty>>
  BY DEF DeleteCached
<1>2. IsTable(entries) /\ request.mac \in Mac
  BY <1>1 DEF ConfigInv, RequestInHand
<1>3. /\ IsTable(entries') /\ Lookup(entries', request.mac) = request.config
      /\ \A m \in Mac \ {request.mac} : Lookup(entries', m) = Lookup(entries, m)
  BY <1>1, <1>2, ClearedTable
<1> QED BY <1>1, <1>3, CachedKeeps

\* The second half: what is stored now is what the cache holds, and fits in it.
LEMMA StoredKeeps ==
  ASSUME ConfigInv, Stored
  PROVE  ConfigInv'
<1>1. /\ pc = "store" /\ pc' = "idle" /\ request' = EmptyEntry
      /\ nvs' = [nvs EXCEPT ![request.mac] = request.config]
      /\ promised' = [promised EXCEPT ![request.mac] = {request.config}]
      /\ UNCHANGED <<entries, faulty>>
  BY DEF Stored, Done
<1>2. /\ request.mac \in Mac /\ request.config \in Setting
      /\ Get(request.mac) = request.config
  BY <1>1 DEF ConfigInv, RequestInHand
<1>3. \A m : Get(m)' = Get(m)
  BY <1>1, GetIsLookup
<1>4. /\ nvs' \in [Mac -> Setting \cup {Outdated}]
      /\ \A m \in Mac : nvs'[m] = IF m = request.mac THEN request.config ELSE nvs[m]
  BY <1>1, <1>2 DEF ConfigInv, TypeOK
<1>5. /\ promised' \in [Mac -> SUBSET Setting]
      /\ \A m \in Mac : promised'[m] = IF m = request.mac THEN {request.config} ELSE promised[m]
  BY <1>1, <1>2 DEF ConfigInv, TypeOK
<1>6. TypeOK' /\ IsTable(entries)'
  BY <1>1, <1>4, <1>5 DEF ConfigInv, TypeOK
<1>7. RequestInHand'
  BY <1>1 DEF RequestInHand
<1>8. ASSUME ~faulty'
      PROVE  /\ \A m \in Mac : Get(m)' = StoredConfig(m)'
             /\ Cardinality(ValidBlobs') <= MaxEntries
  <2>1. ASSUME NEW m \in Mac
        PROVE  Get(m)' = StoredConfig(m)'
    <3>1. CASE m = request.mac
      BY <3>1, <1>2, <1>3, <1>4 DEF StoredConfig, Setting
    <3>2. CASE m # request.mac
      BY <3>2, <1>1, <1>3, <1>4, <1>8 DEF ConfigInv, CacheIsStored, StoredConfig
    <3> QED BY <3>1, <3>2
  <2>2. ValidBlobs' \in SUBSET Mac
    BY DEF ValidBlobs
  <2>3. \A m \in ValidBlobs' : Lookup(entries, m) # Absent
    BY <2>1, <1>1, GetIsLookup, DeviceConfigsAssumption DEF ValidBlobs, StoredConfig
  <2>4. IsTable(entries)
    BY DEF ConfigInv
  <2> QED BY <2>1, <2>2, <2>3, <2>4, FewConfigs
<1>9. CacheIsStored'
  <2>1. ASSUME ~faulty', NEW m \in Mac
        PROVE  StoredConfig(m)' \in promised'[m]
    <3>1. CASE m = request.mac
      BY <3>1, <2>1, <1>2, <1>3, <1>5, <1>8
    <3>2. CASE m # request.mac
      BY <3>2, <2>1, <1>1, <1>4, <1>5 DEF ConfigInv, CacheIsStored, StoredConfig
    <3> QED BY <3>1, <3>2
  <2> QED BY <1>8, <2>1 DEF CacheIsStored
<1>10. PromisesAreKept'
  BY <1>2, <1>3, <1>5 DEF ConfigInv, PromisesAreKept
<1> QED BY <1>6, <1>7, <1>9, <1>10 DEF ConfigInv

LEMMA HandleKeeps ==
  ASSUME ConfigInv, Handle
  PROVE  ConfigInv' /\ GetStep
<1>1. CASE SetCached
  BY <1>1, SetCachedKeeps
<1>2. CASE DeleteCached
  BY <1>2, DeleteCachedKeeps
<1>3. CASE Stored
  BY <1>3, StoredKeeps, GetIsLookup DEF Stored, GetStep
<1>4. CASE StoreFails
  BY <1>4, DoneKeeps, GetIsLookup DEF StoreFails, GetStep
<1> QED BY <1>1, <1>2, <1>3, <1>4 DEF Handle

\* A restart loads the whole NVS unless it fails, and erases nothing it has loaded.
LEMMA RestartKeeps ==
  ASSUME ConfigInv, Restart
  PROVE  ConfigInv'
<1>1. PICK readable \in SUBSET ValidBlobs :
        /\ entries' \in Loadings(readable)
        /\ nvs' \in Purged(readable)
        /\ faulty' = (faulty \/ readable # ValidBlobs)
  BY DEF Restart
<1>2. /\ pc' = "idle" /\ request' = EmptyEntry
      /\ promised' = [m \in Mac |-> IF Get(m)' \in promised[m] \/ faulty'
                                    THEN {Get(m)'} ELSE promised[m]]
  BY DEF Restart, Done
<1>3. IsTable(entries')
  BY <1>1, LoadedTable
<1>4. /\ nvs' \in [Mac -> Setting \cup {Outdated}]
      /\ \A m \in Mac : nvs'[m] = nvs[m] \/ (nvs'[m] = Absent /\ m \notin readable)
  BY <1>1 DEF Purged
<1>5. TypeOK'
  <2>1. \A m \in Mac : Get(m)' \in Setting
    BY <1>3, GetIsLookup, LookupType
  <2>2. promised' \in [Mac -> SUBSET Setting]
    BY <2>1, <1>2 DEF ConfigInv, TypeOK
  <2>3. faulty' \in BOOLEAN
    BY <1>1 DEF ConfigInv, TypeOK
  <2> QED BY <2>2, <2>3, <1>2, <1>3, <1>4 DEF TypeOK, IsTable
<1>6. RequestInHand'
  BY <1>2 DEF RequestInHand
<1>7. ASSUME ~faulty'
      PROVE  /\ \A m \in Mac : Get(m)' = StoredConfig(m) /\ StoredConfig(m)' = StoredConfig(m)
             /\ ValidBlobs' = ValidBlobs /\ Cardinality(ValidBlobs) <= MaxEntries
  <2>1. ~faulty /\ readable = ValidBlobs
    BY <1>1, <1>7 DEF ConfigInv, TypeOK
  <2>2. Cardinality(ValidBlobs) <= MaxEntries
    BY <2>1 DEF ConfigInv, CacheIsStored
  <2>3. \A m \in Mac : Get(m)' = IF m \in ValidBlobs THEN nvs[m] ELSE Absent
    BY <2>1, <2>2, <1>1, LoadedTable, GetIsLookup
  <2>4. \A m \in Mac : nvs'[m] \in Config <=> nvs[m] \in Config
    BY <2>1, <1>4, DeviceConfigsAssumption DEF ValidBlobs
  <2>5. \A m \in Mac : nvs[m] \in Config => nvs'[m] = nvs[m]
    BY <2>1, <1>4 DEF ValidBlobs
  <2> QED BY <2>2, <2>3, <2>4, <2>5 DEF ValidBlobs, StoredConfig
<1>8. CacheIsStored'
  <2>1. ASSUME ~faulty', NEW m \in Mac
        PROVE  StoredConfig(m)' \in promised'[m]
    <3>1. ~faulty
      BY <2>1, <1>1 DEF ConfigInv, TypeOK
    <3>2. StoredConfig(m) \in promised[m]
      BY <3>1 DEF ConfigInv, CacheIsStored
    <3>3. Get(m)' = StoredConfig(m) /\ StoredConfig(m)' = StoredConfig(m)
      BY <2>1, <1>7
    <3>4. promised'[m] = {Get(m)'}
      BY <3>2, <3>3, <1>2
    <3> QED BY <3>3, <3>4
  <2> QED BY <1>7, <2>1 DEF CacheIsStored
<1>9. PromisesAreKept'
  <2>1. ASSUME NEW m \in Mac
        PROVE  Get(m)' \in promised'[m]
    <3>1. CASE faulty' \/ Get(m)' \in promised[m]
      BY <3>1, <1>2
    <3>2. CASE ~faulty' /\ Get(m)' \notin promised[m]
      <4>1. ~faulty
        BY <3>2, <1>1 DEF ConfigInv, TypeOK
      <4>2. Get(m)' = StoredConfig(m)
        BY <3>2, <1>7
      <4> QED BY <4>1, <4>2, <3>2 DEF ConfigInv, CacheIsStored, PromisesAreKept
    <3> QED BY <3>1, <3>2
  <2> QED BY <2>1 DEF PromisesAreKept
<1> QED BY <1>3, <1>5, <1>6, <1>8, <1>9 DEF ConfigInv

LEMMA ConfigInit ==
  ASSUME Init
  PROVE  ConfigInv
<1>1. /\ nvs \in [Mac -> Setting \cup {Outdated}]
      /\ Cardinality(ValidBlobs) <= MaxEntries
      /\ entries \in Loadings(ValidBlobs) /\ faulty = FALSE
      /\ request = EmptyEntry /\ pc = "idle"
      /\ promised = [m \in Mac |-> {Get(m)}]
  BY DEF Init, ValidBlobs
<1>2. IsTable(entries)
  BY <1>1, LoadedTable
<1>3. \A m \in Mac : Get(m) = StoredConfig(m)
  BY <1>1, LoadedTable, GetIsLookup DEF ValidBlobs, StoredConfig
<1>4. \A m \in Mac : Get(m) \in Setting
  BY <1>2, GetIsLookup, LookupType
<1>5. TypeOK
  BY <1>1, <1>2, <1>4 DEF TypeOK, IsTable
<1>6. RequestInHand
  BY <1>1 DEF RequestInHand
<1>7. CacheIsStored /\ PromisesAreKept
  BY <1>1, <1>3 DEF CacheIsStored, PromisesAreKept
<1> QED BY <1>2, <1>5, <1>6, <1>7 DEF ConfigInv

-------------------------------------------------------------------------------
(***************************************************************************)
(* The removal of a device.  Its parts leave the configurations alone, or  *)
(* are the steps above.                                                    *)
(***************************************************************************)

LEMMA ConfigsKept ==
  ASSUME ConfigInv, [RemovalNext]_allVars
  PROVE  ConfigInv'
<1>1. CASE UNCHANGED vars
  BY <1>1, ConfigsUnchanged
<1>2. ASSUME NEW m \in Mac, DeleteRequest(m)
      PROVE  ConfigInv'
  BY <1>2, RequestKeeps DEF DeleteRequest, Setting
<1>3. ASSUME NEW m \in Mac, NEW config \in Config, ConfigRequest(m, config)
      PROVE  ConfigInv'
  BY <1>3, RequestKeeps DEF ConfigRequest, Setting
<1>4. CASE HandleConfig
  BY <1>4, HandleKeeps DEF HandleConfig
<1>5. CASE Reboot
  BY <1>5, RestartKeeps DEF Reboot
<1>6. CASE UNCHANGED allVars
  BY <1>6, <1>1 DEF allVars
<1>7. CASE SlotRemoval
  BY <1>7, <1>1 DEF SlotRemoval
<1>8. ASSUME NEW m \in Phone, Pair(m) \/ BleSighting(m) \/ StartProbe(m) \/ Expire(m)
      PROVE  ConfigInv'
  BY <1>8, <1>1 DEF Pair, BleSighting, StartProbe, Expire
<1>9. CASE RemoveBond \/ ProbeEnds
  BY <1>9, <1>1 DEF RemoveBond, ProbeEnds
<1>10. CASE SmTask \/ ClockStarts
  BY <1>10, <1>1 DEF SmTask, HandleFeed, HandleRemove, ClockStarts
<1> QED BY <1>2, <1>3, <1>4, <1>5, <1>6, <1>7, <1>8, <1>9, <1>10 DEF RemovalNext, Httpd

\* A queue takes one more message or drops it, and gives the first away.
LEMMA SentType ==
  ASSUME NEW S, NEW q \in Seq(S), NEW depth \in Nat, Len(q) <= depth, NEW x \in S
  PROVE  Sent(q, depth, x) \in Seq(S) /\ Len(Sent(q, depth, x)) <= depth
BY DEF Sent

LEMMA TailType ==
  ASSUME NEW S, NEW q \in Seq(S), NEW depth \in Nat, Len(q) <= depth, q # << >>
  PROVE  Tail(q) \in Seq(S) /\ Len(Tail(q)) <= depth /\ Head(q) \in S
OBVIOUS

\* The part of RemovalTypeOK that is not about the configurations.
RemovalTypes ==
  /\ deleting \in Mac \cup {NoMac}
  /\ bonded \subseteq Phone /\ peers \subseteq Phone /\ unheard \subseteq Phone
  /\ commands \in Seq(Mac) /\ Len(commands) <= CmdQueueDepth
  /\ probed \in Phone \cup {NoMac}
  /\ queue \in Seq(Message) /\ Len(queue) <= QueueDepth
  /\ slot \in [Phone -> Setting \cup {NoSlot}]
  /\ young \in BOOLEAN /\ stuck \subseteq Mac

LEMMA FeedType ==
  ASSUME RemovalTypes, NEW m \in Phone, SendFeed(m)
  PROVE  queue' \in Seq(Message) /\ Len(queue') <= QueueDepth
<1>1. [type |-> "Feed", mac |-> m] \in Message
  BY DeviceRemovalAssumption DEF Message
<1>2. QueueDepth \in Nat
  BY DeviceRemovalAssumption
<1> QED BY <1>1, <1>2, SentType DEF SendFeed, RemovalTypes

LEMMA RemovalTypesKept ==
  ASSUME ConfigInv, RemovalTypes, [RemovalNext]_allVars
  PROVE  RemovalTypes'
<1> USE DEF RemovalTypes
<1>1. CASE UNCHANGED removalVars
  BY <1>1 DEF removalVars, slotVars
<1>2. ASSUME NEW m \in Mac, DeleteRequest(m)
      PROVE  RemovalTypes'
  <2>1. CmdQueueDepth \in Nat
    BY DeviceRemovalAssumption
  <2>2. commands' \in Seq(Mac) /\ Len(commands') <= CmdQueueDepth
    BY <1>2, <2>1, SentType DEF DeleteRequest
  <2> QED BY <1>2, <2>2 DEF DeleteRequest, slotVars
<1>3. CASE SlotRemoval
  <2>1. [type |-> "RemoveDevice", mac |-> deleting] \in Message
    BY <1>3 DEF SlotRemoval, Message
  <2>2. QueueDepth \in Nat
    BY DeviceRemovalAssumption
  <2>3. queue' \in Seq(Message) /\ Len(queue') <= QueueDepth
    BY <1>3, <2>1, <2>2, SentType DEF SlotRemoval
  <2> QED BY <1>3, <2>3 DEF SlotRemoval, slotVars
<1>4. ASSUME NEW m \in Phone, Pair(m)
      PROVE  RemovalTypes'
  BY <1>4 DEF Pair, Bonding, slotVars
<1>5. ASSUME NEW m \in Phone, BleSighting(m)
      PROVE  RemovalTypes'
  BY <1>5, FeedType DEF BleSighting, slotVars
<1>6. ASSUME NEW m \in Phone, StartProbe(m)
      PROVE  RemovalTypes'
  BY <1>6 DEF StartProbe, slotVars
<1>7. ASSUME NEW m \in Phone, Expire(m)
      PROVE  RemovalTypes'
  <2>1. slot' \in [Phone -> Setting \cup {NoSlot}]
    BY <1>7 DEF Expire
  <2> QED BY <1>7, <2>1 DEF Expire
<1>8. CASE RemoveBond
  <2>1. CmdQueueDepth \in Nat
    BY DeviceRemovalAssumption
  <2>2. commands' \in Seq(Mac) /\ Len(commands') <= CmdQueueDepth
    BY <1>8, <2>1, TailType DEF RemoveBond
  <2> QED BY <1>8, <2>2 DEF RemoveBond, Bonding, slotVars
<1>9. CASE ProbeEnds
  <2>1. queue' \in Seq(Message) /\ Len(queue') <= QueueDepth
    BY <1>9, FeedType DEF ProbeEnds
  <2> QED BY <1>9, <2>1 DEF ProbeEnds, slotVars
<1>10. QueueDepth \in Nat
  BY DeviceRemovalAssumption
<1>11. CASE HandleFeed
  <2>1. queue' \in Seq(Message) /\ Len(queue') <= QueueDepth /\ Head(queue) \in Message
    BY <1>11, <1>10, TailType DEF HandleFeed
  <2>2. Get(Head(queue).mac) \in Setting
    BY <2>1, GetIsLookup, LookupType DEF ConfigInv, Message
  <2>3. slot' \in [Phone -> Setting \cup {NoSlot}]
    BY <1>11, <2>2 DEF HandleFeed
  <2>4. Head(queue).mac \in Mac
    BY <2>1 DEF Message
  <2>5. stuck' \subseteq Mac
    BY <1>11, <2>4 DEF HandleFeed
  <2> QED BY <1>11, <2>1, <2>3, <2>5 DEF HandleFeed
<1>12. CASE HandleRemove
  <2>1. queue' \in Seq(Message) /\ Len(queue') <= QueueDepth
    BY <1>12, <1>10, TailType DEF HandleRemove
  <2>2. slot' \in [Phone -> Setting \cup {NoSlot}]
    BY <1>12 DEF HandleRemove
  <2> QED BY <1>12, <2>1, <2>2 DEF HandleRemove
<1>13. CASE Reboot
  <2>1. /\ deleting' = NoMac /\ commands' = << >> /\ queue' = << >>
        /\ probed' = NoMac /\ unheard' = {} /\ bonded' = bonded /\ peers' = bonded
        /\ slot' = Preload' /\ young' = TRUE /\ stuck' = {}
    BY <1>13 DEF Reboot, Bonding
  <2>2. \A m \in Mac : Get(m)' \in Setting
    BY <1>13, RestartKeeps, GetIsLookup, LookupType DEF Reboot, ConfigInv
  <2>3. slot' = [m \in Phone |-> IF Get(m)' = Absent THEN NoSlot ELSE Get(m)']
    BY <2>1 DEF Preload
  <2>4. slot' \in [Phone -> Setting \cup {NoSlot}]
    BY <2>2, <2>3, DeviceRemovalAssumption
  <2>5. CmdQueueDepth \in Nat
    BY DeviceRemovalAssumption
  <2> QED BY <1>10, <2>1, <2>4, <2>5
<1>14. CASE UNCHANGED allVars \/ HandleConfig
           \/ \E m \in Mac, config \in Config : ConfigRequest(m, config)
  BY <1>14, <1>1 DEF allVars, HandleConfig, ConfigRequest
<1>15. CASE ClockStarts
  BY <1>15 DEF ClockStarts
<1> QED BY <1>2, <1>3, <1>4, <1>5, <1>6, <1>7, <1>8, <1>9, <1>11, <1>12, <1>13, <1>14, <1>15
        DEF RemovalNext, Httpd, SmTask

-------------------------------------------------------------------------------
(***************************************************************************)
(* A deleted configuration is unused.  The configuration disappears only   *)
(* in a deletion that is still in hand, and from there the removal of the  *)
(* slot is owed, queued or lost, whatever sightings come in between: those *)
(* give the slot the configuration as it is by then.                       *)
(***************************************************************************)

\* What httpd deletes is the configuration of the device it removes.
DeletionInHand == pc = "cache" /\ request.config = Absent => deleting = request.mac

RemovalInv == RemovalTypes /\ ConfigInv /\ DeletionInHand /\ DeletedConfigIsUnused

Removal(m)  == [type |-> "RemoveDevice", mac |-> m]
Told(q, m)  == \E i \in DOMAIN q : q[i] = Removal(m)
Owed(m)     == deleting = m \/ Told(queue, m) \/ m \in unheard
Follows(m)  == Get(m) = Absent => slot[m] \in {NoSlot, Absent} \/ Owed(m)

LEMMA UnusedIsFollows == DeletedConfigIsUnused <=> \A m \in Phone : Follows(m)
BY DEF DeletedConfigIsUnused, Follows, Owed, Told, Removal

\* A removal in the queue stays there until it is handled.
LEMMA ToldSent ==
  ASSUME NEW q \in Seq(Message), NEW depth \in Nat, NEW x \in Message, NEW m
  PROVE  /\ Told(q, m) => Told(Sent(q, depth, x), m)
         /\ Len(q) < depth /\ x = Removal(m) => Told(Sent(q, depth, x), m)
<1>1. CASE Len(q) < depth
  <2>1. /\ Sent(q, depth, x) = Append(q, x)
        /\ DOMAIN Append(q, x) = 1 .. (Len(q) + 1) /\ DOMAIN q = 1 .. Len(q)
        /\ Append(q, x)[Len(q) + 1] = x
        /\ \A i \in 1 .. Len(q) : Append(q, x)[i] = q[i]
    BY <1>1 DEF Sent
  <2>2. 1 .. Len(q) \subseteq 1 .. (Len(q) + 1) /\ Len(q) + 1 \in 1 .. (Len(q) + 1)
    OBVIOUS
  <2> QED BY <2>1, <2>2, Zenon DEF Told
<1>2. CASE ~(Len(q) < depth)
  BY <1>2 DEF Sent
<1> QED BY <1>1, <1>2

LEMMA ToldTail ==
  ASSUME NEW q \in Seq(Message), q # << >>, NEW m, Told(q, m), Head(q) # Removal(m)
  PROVE  Told(Tail(q), m)
<1>1. PICK i \in DOMAIN q : q[i] = Removal(m)
  BY DEF Told
<1>2. i # 1 /\ i \in 1 .. Len(q)
  BY <1>1
<1>3. i - 1 \in DOMAIN Tail(q) /\ Tail(q)[i - 1] = q[i]
  BY <1>2
<1> QED BY <1>1, <1>3 DEF Told

\* Most steps only make it easier.
LEMMA FollowsWhenMore ==
  ASSUME NEW m, Follows(m), Get(m)' = Get(m), slot'[m] = slot[m], Owed(m) => Owed(m)'
  PROVE  Follows(m)'
BY DEF Follows

LEMMA DeletionInHandKept ==
  ASSUME ConfigInv, DeletionInHand, [RemovalNext]_allVars
  PROVE  DeletionInHand'
<1> USE DEF DeletionInHand
<1>1. CASE UNCHANGED <<vars, deleting>>
  BY <1>1 DEF vars
<1>2. ASSUME NEW m \in Mac, DeleteRequest(m)
      PROVE  DeletionInHand'
  BY <1>2 DEF DeleteRequest, Request
<1>3. ASSUME NEW m \in Mac, NEW config \in Config, ConfigRequest(m, config)
      PROVE  DeletionInHand'
  BY <1>3, DeviceConfigsAssumption DEF ConfigRequest, Request
<1>4. CASE HandleConfig
  BY <1>4 DEF HandleConfig, Handle, SetCached, DeleteCached, Stored, StoreFails, Done
<1>5. CASE SlotRemoval
  BY <1>5 DEF SlotRemoval, vars
<1>6. CASE Reboot
  BY <1>6 DEF Reboot, Restart, Done
<1>7. ASSUME NEW m \in Phone, Pair(m) \/ BleSighting(m) \/ StartProbe(m) \/ Expire(m)
      PROVE  DeletionInHand'
  BY <1>7, <1>1 DEF Pair, BleSighting, StartProbe, Expire
<1>8. CASE RemoveBond \/ ProbeEnds \/ SmTask \/ ClockStarts \/ UNCHANGED allVars
  BY <1>8, <1>1 DEF RemoveBond, ProbeEnds, SmTask, HandleFeed, HandleRemove, ClockStarts,
                    allVars, removalVars
<1> QED BY <1>2, <1>3, <1>4, <1>5, <1>6, <1>7, <1>8 DEF RemovalNext, Httpd

LEMMA UnusedKept ==
  ASSUME ConfigInv, RemovalTypes, DeletionInHand, DeletedConfigIsUnused,
         [RemovalNext]_allVars
  PROVE  DeletedConfigIsUnused'
<1>1. \A m \in Phone : Follows(m)
  BY UnusedIsFollows
<1>2. /\ queue \in Seq(Message) /\ slot \in [Phone -> Setting \cup {NoSlot}]
      /\ Phone \subseteq Mac /\ QueueDepth \in Nat
  BY DeviceRemovalAssumption DEF RemovalTypes
<1>3. ASSUME NEW m \in Phone, [RemovalNext]_allVars
      PROVE  Follows(m)'
  <2>1. Follows(m) /\ m \in Mac
    BY <1>1, <1>2
  <2>2. ASSUME UNCHANGED vars
        PROVE  Get(m)' = Get(m)
    BY <2>2, GetIsLookup DEF vars
  <2>3. CASE UNCHANGED <<vars, deleting, queue, slot, unheard>>
    BY <2>3, <2>1, <2>2, FollowsWhenMore DEF Owed
  <2>4. ASSUME NEW n \in Phone, SendFeed(n), UNCHANGED <<vars, deleting, slot, unheard>>
        PROVE  Follows(m)'
    <3>1. [type |-> "Feed", mac |-> n] \in Message
      BY <1>2 DEF Message
    <3>2. Told(queue, m) => Told(queue', m)
      BY <3>1, <2>4, <1>2, ToldSent DEF SendFeed
    <3> QED BY <3>2, <2>1, <2>2, <2>4, FollowsWhenMore DEF Owed
  <2>5. ASSUME NEW n \in Mac, DeleteRequest(n)
        PROVE  Follows(m)'
    <3>1. Get(m)' = Get(m)
      BY <2>5, GetIsLookup DEF DeleteRequest, Request
    <3>2. Owed(m) => Owed(m)'
      BY <2>1, <2>5, DeviceConfigsAssumption DEF DeleteRequest, Owed
    <3> QED BY <3>1, <3>2, <2>1, <2>5, FollowsWhenMore DEF DeleteRequest, slotVars
  <2>6. ASSUME NEW n \in Mac, NEW config \in Config, ConfigRequest(n, config)
        PROVE  Follows(m)'
    <3>1. Get(m)' = Get(m)
      BY <2>6, GetIsLookup DEF ConfigRequest, Request
    <3> QED BY <3>1, <2>1, <2>6, FollowsWhenMore DEF ConfigRequest, removalVars, slotVars, Owed
  <2>7. CASE HandleConfig
    <3>1. UNCHANGED removalVars
      BY <2>7 DEF HandleConfig
    <3>2. GetStep
      BY <2>7, HandleKeeps DEF HandleConfig
    <3>3. CASE Get(m)' = Get(m)
      BY <3>1, <3>3, <2>1, FollowsWhenMore DEF removalVars, slotVars, Owed
    <3>4. CASE Get(m)' # Get(m)
      <4>1. pc = "cache" /\ m = request.mac /\ Get(m)' = request.config
        BY <3>2, <3>4, <2>1 DEF GetStep
      <4>2. Get(m)' = Absent => deleting' = m
        BY <4>1, <3>1 DEF DeletionInHand, removalVars
      <4> QED BY <4>2 DEF Follows, Owed
    <3> QED BY <3>3, <3>4
  <2>8. CASE SlotRemoval
    <3>1. /\ deleting # NoMac /\ deleting' = NoMac /\ UNCHANGED <<vars, slot>>
          /\ queue' = Sent(queue, QueueDepth, Removal(deleting))
          /\ unheard' = IF Len(queue) < QueueDepth THEN unheard
                                                   ELSE unheard \cup (Phone \cap {deleting})
      BY <2>8 DEF SlotRemoval, Removal, slotVars
    <3>2. Removal(deleting) \in Message
      BY <3>1 DEF RemovalTypes, Removal, Message
    <3>3. /\ Told(queue, m) => Told(queue', m)
          /\ Len(queue) < QueueDepth /\ deleting = m => Told(queue', m)
      BY <3>1, <3>2, <1>2, ToldSent
    <3>4. Owed(m) => Owed(m)'
      BY <3>1, <3>3 DEF Owed
    <3> QED BY <3>1, <3>4, <2>1, <2>2, FollowsWhenMore
  <2>9. CASE HandleFeed
    <3>1. /\ queue # << >> /\ Head(queue).type = "Feed" /\ queue' = Tail(queue)
          /\ slot' = [slot EXCEPT ![Head(queue).mac] = Get(Head(queue).mac)]
          /\ unheard' = unheard \ {Head(queue).mac} /\ UNCHANGED <<vars, deleting>>
      BY <2>9 DEF HandleFeed
    <3>2. Head(queue) # Removal(m)
      BY <3>1 DEF Removal
    <3>3. Told(queue, m) => Told(queue', m)
      BY <3>1, <3>2, <1>2, ToldTail
    <3>4. CASE Head(queue).mac = m
      <4>1. slot'[m] = Get(m)'
        BY <3>1, <3>4, <1>2, <2>2
      <4> QED BY <4>1 DEF Follows
    <3>5. CASE Head(queue).mac # m
      <4>1. slot'[m] = slot[m]
        BY <3>1, <3>5, <1>2
      <4>2. Owed(m) => Owed(m)'
        BY <3>1, <3>3, <3>5 DEF Owed
      <4> QED BY <4>1, <4>2, <3>1, <2>1, <2>2, FollowsWhenMore
    <3> QED BY <3>4, <3>5
  <2>10. CASE HandleRemove
    <3>1. /\ queue # << >> /\ queue' = Tail(queue)
          /\ slot' = [p \in Phone |-> IF p = Head(queue).mac THEN NoSlot ELSE slot[p]]
          /\ unheard' = unheard \ {Head(queue).mac} /\ UNCHANGED <<vars, deleting>>
      BY <2>10 DEF HandleRemove
    <3>2. CASE Head(queue).mac = m
      <4>1. slot'[m] = NoSlot
        BY <3>1, <3>2
      <4> QED BY <4>1 DEF Follows
    <3>3. CASE Head(queue).mac # m
      <4>1. Head(queue) # Removal(m)
        BY <3>3 DEF Removal
      <4>2. Told(queue, m) => Told(queue', m)
        BY <4>1, <3>1, <1>2, ToldTail
      <4>3. Owed(m) => Owed(m)'
        BY <4>2, <3>1, <3>3 DEF Owed
      <4> QED BY <4>3, <3>1, <3>3, <2>1, <2>2, FollowsWhenMore
    <3> QED BY <3>2, <3>3
  <2>11. ASSUME NEW n \in Phone, Expire(n)
         PROVE  Follows(m)'
    <3>1. CASE n = m
      BY <3>1, <2>11, <1>2 DEF Expire, Follows
    <3>2. CASE n # m
      BY <3>2, <2>11, <2>1, <2>2, <1>2, FollowsWhenMore DEF Expire, Owed
    <3> QED BY <3>1, <3>2
  <2>12. CASE Reboot
    <3>1. slot' = [p \in Phone |-> IF Get(p)' = Absent THEN NoSlot ELSE Get(p)']
      BY <2>12 DEF Reboot, Preload
    <3> QED BY <3>1 DEF Follows
  <2>13. ASSUME NEW n \in Phone, Pair(n) \/ BleSighting(n) \/ StartProbe(n)
         PROVE  Follows(m)'
    BY <2>13, <2>3, <2>4 DEF Pair, BleSighting, StartProbe, slotVars
  <2>14. CASE RemoveBond \/ ClockStarts \/ UNCHANGED allVars
    BY <2>14, <2>3 DEF RemoveBond, ClockStarts, allVars, removalVars, slotVars
  <2>15. CASE ProbeEnds
    BY <2>15, <2>3, <2>4, DeviceConfigsAssumption DEF ProbeEnds, RemovalTypes, slotVars
  <2> QED BY <1>3, <2>5, <2>6, <2>7, <2>8, <2>9, <2>10, <2>11, <2>12, <2>13, <2>14, <2>15
          DEF RemovalNext, Httpd, SmTask
<1> QED BY <1>3 DEF DeletedConfigIsUnused, Follows, Owed, Told, Removal

-------------------------------------------------------------------------------
LEMMA RemovalInvariant == RemovalSpec => []RemovalInv
<1>1. RemovalInit => RemovalInv
  <2> SUFFICES ASSUME RemovalInit
               PROVE  RemovalInv
    OBVIOUS
  <2> USE DEF RemovalInit
  <2>1. ConfigInv
    BY ConfigInit
  <2>2. slot = [m \in Phone |-> IF Get(m) = Absent THEN NoSlot ELSE Get(m)]
    BY DEF Preload
  <2>3. \A m \in Mac : Get(m) \in Setting
    BY <2>1, GetIsLookup, LookupType DEF ConfigInv
  <2>4. RemovalTypes
    <3>1. slot \in [Phone -> Setting \cup {NoSlot}]
      BY <2>2, <2>3, DeviceRemovalAssumption
    <3> QED BY <3>1, DeviceRemovalAssumption DEF RemovalTypes
  <2>5. DeletionInHand
    BY DEF Init, DeletionInHand
  <2>6. DeletedConfigIsUnused
    BY <2>2 DEF DeletedConfigIsUnused
  <2> QED BY <2>1, <2>4, <2>5, <2>6 DEF RemovalInv
<1>2. RemovalInv /\ [RemovalNext]_allVars => RemovalInv'
  BY ConfigsKept, RemovalTypesKept, DeletionInHandKept, UnusedKept DEF RemovalInv
<1> QED BY <1>1, <1>2, PTL DEF RemovalSpec

\* The slots, bonds, queues and configurations keep their types, whatever their
\* number; the queues never grow beyond their depth.
THEOREM RemovalTypeCorrect == RemovalSpec => []RemovalTypeOK
<1>1. RemovalInv => RemovalTypeOK
  BY DEF RemovalInv, ConfigInv, RemovalTypes, RemovalTypeOK
<1> QED BY <1>1, RemovalInvariant, PTL

\* What is read from the cache at any moment, and what a restart at any moment gives
\* back as long as the NVS works, is the last setting stored or one requested since
\* (device_config_set, device_config_delete, load_all_from_nvs).
THEOREM SettingsAreKept == RemovalSpec => []PromisesAreKept
<1>1. RemovalInv => PromisesAreKept
  BY DEF RemovalInv, ConfigInv
<1> QED BY <1>1, RemovalInvariant, PTL

\* No slot goes on with a configuration that was deleted, whatever sightings were
\* under way, unless its removal found the queue full (devices_delete_handler).
THEOREM DeletionsTakeEffect == RemovalSpec => []DeletedConfigIsUnused
<1>1. RemovalInv => DeletedConfigIsUnused
  BY DEF RemovalInv
<1> QED BY <1>1, RemovalInvariant, PTL
===============================================================================

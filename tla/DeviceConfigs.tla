----------------------------- MODULE DeviceConfigs -----------------------------
(***************************************************************************)
(* The device configuration service (main/device/device_config.cpp): a     *)
(* cache of slots behind a mutex, written through to one NVS blob for each *)
(* device.  The only writer is the httpd thread, in the handlers of        *)
(* /api/devices/config and /api/devices/delete; it changes the cache under *)
(* the mutex and the NVS after giving it back.  Power may fail at any time *)
(* and the next boot loads what the NVS holds.                             *)
(*                                                                         *)
(* promised and faulty are history variables: what a restart may give back *)
(* for each device, given the requests so far and what became of them, and *)
(* whether the NVS has ever failed.                                        *)
(***************************************************************************)
EXTENDS Integers, FiniteSets, Functions

CONSTANTS
  Mac, NoMac,
  Config,          \* the DeviceConfig values that validate_device_config accepts
  Absent,          \* no configuration: the device has the default one
  Outdated,        \* a blob of another firmware: wrong version, size or values
  MaxEntries       \* kMaxEntries (15)

ASSUME DeviceConfigsAssumption ==
  /\ NoMac \notin Mac /\ {Absent, Outdated} \cap Config = {} /\ Absent # Outdated
  /\ MaxEntries \in Nat \ {0} /\ IsFiniteSet(Mac)      \* 48 bits

VARIABLES
  entries,     \* s_entries
  nvs,         \* the namespace "dev"
  request,     \* what httpd is asked to set, Absent for a deletion; EmptyEntry when idle
  pc,          \* what httpd does next for it
  promised, faulty

vars == <<entries, nvs, request, pc, promised, faulty>>

Entry      == 1 .. MaxEntries
Setting    == Config \cup {Absent}
EmptyEntry == [mac |-> NoMac, config |-> Absent]      \* used == false

TypeOK ==
  /\ entries \in [Entry -> [mac : Mac, config : Config] \cup {EmptyEntry}]
  /\ nvs \in [Mac -> Setting \cup {Outdated}]
  /\ request \in [mac : Mac, config : Setting] \cup {EmptyEntry}
  /\ pc \in {"idle", "cache", "store"}
  /\ promised \in [Mac -> SUBSET Setting] /\ faulty \in BOOLEAN

\* device_config_get: the first entry of m, and the default where there is none.
EntryOf(table, m) == {e \in Entry : table[e].mac = m}
Get(m) == IF EntryOf(entries, m) = {} THEN Absent
          ELSE entries[CHOOSE e \in EntryOf(entries, m) : TRUE].config

FirstFree == {e \in Entry : entries[e] = EmptyEntry
                            /\ \A f \in 1 .. (e - 1) : entries[f] # EmptyEntry}

Done == pc' = "idle" /\ request' = EmptyEntry

\* A request arrives and is valid; httpd handles one at a time.
Request(m, setting) ==
  /\ pc = "idle" /\ pc' = "cache"
  /\ request' = [mac |-> m, config |-> setting]
  /\ promised' = [promised EXCEPT ![m] = @ \cup {setting}]
  /\ UNCHANGED <<entries, nvs, faulty>>

\* Mutant: what found no slot is stored nevertheless.
SetCached_StoresAnyway ==
  /\ pc = "cache" /\ request.config # Absent /\ pc' = "store"
  /\ LET own   == EntryOf(entries, request.mac)
         slots == IF own # {} THEN own ELSE FirstFree
     IN  entries' = [e \in Entry |-> IF e \in slots THEN request ELSE entries[e]]
  /\ UNCHANGED <<nvs, request, promised, faulty>>

\* device_config_set under the mutex: a full cache ends the request here.
SetCached ==
  /\ pc = "cache" /\ request.config # Absent
  /\ LET own   == EntryOf(entries, request.mac)
         slots == IF own # {} THEN own ELSE FirstFree
     IN  IF slots = {} THEN Done /\ UNCHANGED entries
         ELSE /\ pc' = "store" /\ UNCHANGED request
              /\ entries' = [e \in Entry |-> IF e \in slots THEN request ELSE entries[e]]
  /\ UNCHANGED <<nvs, promised, faulty>>

\* Mutant: the configuration is cleared and the slot stays in use.
DeleteCached_KeepsSlot ==
  /\ pc = "cache" /\ request.config = Absent
  /\ pc' = "store"
  /\ entries' = [e \in Entry |->
       IF e \in EntryOf(entries, request.mac) THEN [entries[e] EXCEPT !.config = Absent]
                                              ELSE entries[e]]
  /\ UNCHANGED <<nvs, request, promised, faulty>>

\* device_config_delete under the mutex.
DeleteCached ==
  /\ pc = "cache" /\ request.config = Absent
  /\ pc' = "store"
  /\ entries' = [e \in Entry |->
       IF e \in EntryOf(entries, request.mac) THEN EmptyEntry ELSE entries[e]]
  /\ UNCHANGED <<nvs, request, promised, faulty>>

\* save_entry_to_nvs and delete_entry_from_nvs: a failure is only logged.
Stored ==
  /\ pc = "store" /\ Done
  /\ nvs' = [nvs EXCEPT ![request.mac] = request.config]
  /\ promised' = [promised EXCEPT ![request.mac] = {request.config}]
  /\ UNCHANGED <<entries, faulty>>

StoreFails ==
  /\ pc = "store" /\ Done /\ faulty' = TRUE
  /\ UNCHANGED <<entries, nvs, promised>>

-------------------------------------------------------------------------------
\* The caches load_all_from_nvs can make of the blobs it can read, which it meets
\* in no order of its own: the first MaxEntries valid ones, from slot 1 on.
ValidBlobs == {m \in Mac : nvs[m] \in Config}

Loadings(blobs) ==
  LET count == IF Cardinality(blobs) < MaxEntries THEN Cardinality(blobs) ELSE MaxEntries
  IN  {[e \in Entry |-> IF e <= count THEN [mac |-> order[e], config |-> nvs[order[e]]]
                                      ELSE EmptyEntry] :
         order \in Injection(1 .. count, blobs)}

\* What the load may leave in the NVS: it erases the blobs it has no use for, those
\* whose size it could not read included, no more than it can list, and not all of
\* them when an erasure fails or power does.
Purged(blobs) ==
  {kept \in [Mac -> Setting \cup {Outdated}] :
     LET erased == {m \in Mac : kept[m] # nvs[m]}
     IN  /\ \A m \in erased : kept[m] = Absent /\ m \notin blobs
         /\ Cardinality(erased) <= MaxEntries}

\* Power fails, the program panics or the administrator reboots; then the boot.
Restart ==
  /\ \E readable \in SUBSET ValidBlobs :
       /\ entries' \in Loadings(readable)
       /\ nvs' \in Purged(readable)
       /\ faulty' = (faulty \/ readable # ValidBlobs)
  /\ Done
  /\ promised' = [m \in Mac |-> IF Get(m)' \in promised[m] \/ faulty'
                                THEN {Get(m)'} ELSE promised[m]]

\* The first boot, of a firmware that may have replaced another.
Init ==
  /\ nvs \in {stored \in [Mac -> Setting \cup {Outdated}] :
                Cardinality({m \in Mac : stored[m] \in Config}) <= MaxEntries}
  /\ entries \in Loadings(ValidBlobs) /\ faulty = FALSE
  /\ request = EmptyEntry /\ pc = "idle"
  /\ promised = [m \in Mac |-> {Get(m)}]

Handle == SetCached \/ DeleteCached \/ Stored \/ StoreFails

-------------------------------------------------------------------------------
\* What a reader sees at any moment, between the two halves of a request too, is a
\* value that a restart may give back: the last one stored, or one that was
\* requested since and has not been stored.  And as long as the NVS works, a
\* restart at any moment gives back such a value: every configuration that was
\* stored, and every deletion; only a request that was cut short, or rejected for a
\* full cache, may be lost (device_config_set, device_config_get, load_all_from_nvs).
PromisesAreKept == \A m \in Mac : Get(m) \in promised[m]
===============================================================================

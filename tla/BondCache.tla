------------------------------- MODULE BondCache -------------------------------
(***************************************************************************)
(* Who a sighting is of: the bond caches of the Bluetooth manager          *)
(* (main/bt/manager.cpp), which copy Bluedroid's bond lists, and the       *)
(* identification of advertisements by them.  Phones advertise under       *)
(* private addresses that change; a table entry remembers the latest one   *)
(* of its phone, and a ring the addresses that were nobody's.              *)
(*                                                                         *)
(* Two tasks use the caches: presence_task, which runs the commands of the *)
(* web server and refreshes the caches after them, and Bluedroid's task,   *)
(* which runs the callbacks.  Both are pinned to core 0 and Bluedroid has  *)
(* the higher priority: a callback runs to its end between two steps of    *)
(* presence_task, unless it has to wait for the AES unit, which other      *)
(* tasks use as well.                                                      *)
(***************************************************************************)
EXTENDS Integers, Sequences, FiniteSets, SequencesExt

CONSTANTS
  Ble, Classic,     \* phones that are bonded over BLE, and over Classic
  Addr, OwnerOf,    \* the addresses BLE phones advertise under, and whose each is
  NoMac, NoAddr,
  MaxBonds,         \* kMaxBleBondedDevices and kMaxClassicBondedDevices (15)
  NegCacheSize,     \* kNegCacheSize (32)
  CmdQueueDepth,    \* length of s_bt_cmd_queue (4)
  MaxRemoving,      \* removals Bluedroid may have put off at a time (bounds TLC)
  Unreadable        \* the lists that Bluedroid or the heap may refuse a refresh

Mac   == Ble \cup Classic
List  == {"ble", "classic"}

ASSUME BondCacheAssumption ==
  /\ Ble \cap Classic = {} /\ NoMac \notin Mac /\ NoAddr \notin Addr
  /\ OwnerOf \in [Addr -> Ble]
  /\ MaxBonds \in Nat \ {0} /\ NegCacheSize \in Nat \ {0} /\ CmdQueueDepth \in Nat \ {0}
  /\ MaxRemoving \in Nat
  /\ Unreadable \subseteq List

VARIABLES
  ble_bonds, classic_bonds,   \* Bluedroid's two bond lists, in their order
  removing,       \* bonds Bluedroid has been asked to remove and has still
  late,           \* a pairing was under way when the window closed, and is so still
  peers,          \* s_ble_peers
  classic_peers,  \* s_classic_peers
  neg_cache,      \* s_neg_cache, from the oldest entry to the newest
  sighting,       \* the scan result update_ble_presence is working on
  pairing_mode,   \* s_pairing_mode
  cmd_queue,      \* s_bt_cmd_queue
  pc, dev_list,   \* what presence_task does next, and its copy of a bond list
  behind,         \* history: the lists that changed after presence_task had last copied
                  \* them for a refresh, or that the latest refresh could not read
  straddled       \* history: the address that had been matched, and was not yet fed, when
                  \* the BLE cache was last rewritten

bonds     == <<ble_bonds, classic_bonds>>
bluedroid == <<bonds, removing, late>>
task      == <<pairing_mode, cmd_queue, pc, dev_list>>
history   == <<behind, straddled>>
vars      == <<bluedroid, peers, classic_peers, neg_cache, sighting, task, history>>

Index     == 1 .. MaxBonds
EmptyPeer == [identity |-> NoMac, last_adv |-> NoAddr]      \* valid == false
NoSighting == [addr |-> NoAddr, index |-> 0, identity |-> NoMac]
Command   == [type : {"StartPairing", "StopPairing"}] \cup [type : {"RemoveBond"}, mac : Mac]

TypeOK ==
  /\ ble_bonds \in Seq(Ble) /\ IsInjective(ble_bonds) /\ Len(ble_bonds) <= MaxBonds
  /\ classic_bonds \in Seq(Classic) /\ IsInjective(classic_bonds)
  /\ Len(classic_bonds) <= MaxBonds
  /\ removing \subseteq Mac
  /\ late \in BOOLEAN
  /\ peers \in [Index -> [identity : Ble, last_adv : Addr \cup {NoAddr}] \cup {EmptyPeer}]
  /\ classic_peers \in Seq(Classic) /\ Len(classic_peers) <= MaxBonds
  /\ neg_cache \in Seq(Addr) /\ Len(neg_cache) <= NegCacheSize
  /\ sighting \in [addr : Addr, index : 0 .. MaxBonds, identity : Ble \cup {NoMac}]
                    \cup {NoSighting}
  /\ pairing_mode \in BOOLEAN
  /\ cmd_queue \in Seq(Command) /\ Len(cmd_queue) <= CmdQueueDepth
  /\ pc \in {"command", "readBle", "writeBle", "readClassic", "writeClassic"}
  /\ behind \subseteq List /\ straddled \in Addr \cup {NoAddr}
  /\ dev_list \in Seq(IF pc = "writeClassic" THEN Classic ELSE Ble) /\ Len(dev_list) <= MaxBonds

-------------------------------------------------------------------------------
Without(list, m) ==
  IF m \in ToSet(list) THEN RemoveAt(list, CHOOSE i \in DOMAIN list : list[i] = m) ELSE list

With(list, m) == IF m \in ToSet(list) THEN list ELSE Append(list, m)

\* The BLE cache a refresh makes of a bond list: no address is remembered yet.
BlePeers(list) ==
  [i \in Index |-> IF i <= Len(list) THEN [identity |-> list[i], last_adv |-> NoAddr]
                                     ELSE EmptyPeer]

Bonded(m) == m \in ToSet(ble_bonds) \cup ToSet(classic_bonds)

\* Bluedroid keeps as many bonds as the tables have entries.
Room(m) == Len(IF m \in Ble THEN ble_bonds ELSE classic_bonds) < MaxBonds

ListOf(m) == IF m \in Ble THEN "ble" ELSE "classic"

\* The bond of m, if it has one, is taken out of Bluedroid's lists.
BondGoes(m) ==
  /\ ble_bonds' = Without(ble_bonds, m) /\ classic_bonds' = Without(classic_bonds, m)
  /\ removing' = removing \ {m}

First(S) == IF S = {} THEN 0 ELSE CHOOSE i \in S : \A j \in S : i <= j
Known(x) == First({i \in Index : peers[i].last_adv = x})

\* presence_task has the core: no callback is under way, or one that waits for the AES
\* unit, which a known address does not take.
HasTheCore == sighting = NoSighting \/ Known(sighting.addr) = 0

\* Mutant: a removal refreshes the Classic cache only.
X_AfterCommand(type) == IF type = "StartPairing" THEN "command"
                        ELSE IF type = "RemoveBond" THEN "readClassic" ELSE "readBle"

AfterCommand(type) == IF type = "StartPairing" THEN "command" ELSE "readBle"

\* The address of a sighting that has its match when the table is rewritten.
Straddling == IF sighting.index = 0 THEN NoAddr ELSE sighting.addr

\* One command an iteration.  StopPairing and RemoveBond go on to a refresh.  Bluedroid
\* removes a bond while the request is made, or later.  A BLE bond is looked up in its list
\* and may stay where that cannot be read.  A pairing that is under way when the window
\* closes goes on, or fails.
TakeCommand ==
  /\ pc = "command" /\ HasTheCore /\ cmd_queue # << >>
  /\ LET cmd   == Head(cmd_queue)
         asked == IF cmd.type = "RemoveBond" THEN cmd.mac ELSE NoMac
     IN  /\ pc' = AfterCommand(cmd.type)
         /\ pairing_mode' = IF cmd.type = "RemoveBond" THEN pairing_mode
                                                       ELSE cmd.type = "StartPairing"
         /\ \/ BondGoes(asked)
            \/ Bonded(asked) /\ Cardinality(removing) < MaxRemoving
                /\ removing' = removing \cup {asked} /\ UNCHANGED bonds
            \/ asked \in Ble /\ "ble" \in Unreadable /\ UNCHANGED <<bonds, removing>>
         /\ late' \in IF pairing_mode' THEN {FALSE} ELSE {late, pairing_mode}
  /\ cmd_queue' = Tail(cmd_queue)
  /\ UNCHANGED <<peers, classic_peers, neg_cache, sighting, dev_list, history>>

\* refresh_ble_bond_cache and refresh_classic_bond_cache as presence_task runs them:
\* the list is copied first and put into the cache under the lock.
ReadBonds(here, next, which, list) ==
  /\ pc = here /\ HasTheCore /\ pc' = next
  /\ dev_list' = list /\ behind' = behind \ {which}
  /\ UNCHANGED <<bluedroid, peers, classic_peers, neg_cache, sighting,
                 pairing_mode, cmd_queue, straddled>>

\* No memory for the list, or Bluedroid does not give it: the cache stays as it is.
ReadFails(which) ==
  /\ pc = IF which = "ble" THEN "readBle" ELSE "readClassic"
  /\ HasTheCore /\ pc' = IF which = "ble" THEN "readClassic" ELSE "command"
  /\ behind' = behind \cup {which}
  /\ UNCHANGED <<bluedroid, peers, classic_peers, neg_cache, sighting,
                 pairing_mode, cmd_queue, dev_list, straddled>>

\* Mutant: a refresh renews the identities and keeps the rest of each entry.
X_WriteBlePeers ==
  /\ pc = "writeBle" /\ HasTheCore /\ pc' = "readClassic"
  /\ peers' = [i \in Index |-> IF BlePeers(dev_list)[i] = EmptyPeer THEN EmptyPeer
                 ELSE [BlePeers(dev_list)[i] EXCEPT !.last_adv = peers[i].last_adv]]
  /\ dev_list' = << >> /\ straddled' = Straddling
  /\ UNCHANGED <<bluedroid, classic_peers, neg_cache, sighting,
                 pairing_mode, cmd_queue, behind>>

WriteBlePeers ==
  /\ pc = "writeBle" /\ HasTheCore /\ pc' = "readClassic"
  /\ peers' = BlePeers(dev_list) /\ dev_list' = << >>
  /\ straddled' = Straddling
  /\ UNCHANGED <<bluedroid, classic_peers, neg_cache, sighting,
                 pairing_mode, cmd_queue, behind>>

WriteClassicPeers ==
  /\ pc = "writeClassic" /\ HasTheCore /\ pc' = "command"
  /\ classic_peers' = dev_list /\ dev_list' = << >>
  /\ UNCHANGED <<bluedroid, peers, neg_cache, sighting,
                 pairing_mode, cmd_queue, history>>

PresenceTask ==
  \/ TakeCommand
  \/ ReadBonds("readBle", "writeBle", "ble", ble_bonds) \/ WriteBlePeers
  \/ ReadBonds("readClassic", "writeClassic", "classic", classic_bonds) \/ WriteClassicPeers
  \/ \E which \in Unreadable : ReadFails(which)

-------------------------------------------------------------------------------
\* The callbacks.

\* The peer x is found to be of: the first that was last seen under x, or else the
\* first whose identity or key resolves x (match_peer_by_addr_slow).
Resolved(x) == First({i \in Index : peers[i].identity = OwnerOf[x]})
X_Match(x)  == Known(x)       \* Mutant: the slow path is forgotten.
Match(x)    == IF Known(x) # 0 THEN Known(x) ELSE Resolved(x)

\* update_ble_presence up to the end of the resolution, on a copy of the peers.
ScanResult(x) ==
  /\ sighting = NoSighting
  /\ x \notin ToSet(neg_cache)
  /\ sighting' = [addr |-> x, index |-> Match(x),
                  identity |-> IF Match(x) = 0 THEN NoMac ELSE peers[Match(x)].identity]
  /\ UNCHANGED <<bluedroid, peers, classic_peers, neg_cache, task, history>>

\* Mutant: the ring does not wrap.
X_Remembered(x) == Append(neg_cache, x)

Remembered(x) == IF Len(neg_cache) < NegCacheSize THEN Append(neg_cache, x)
                                                  ELSE Append(Tail(neg_cache), x)

\* The rest of it: an address that is nobody's is remembered as such.
Unknown ==
  /\ sighting # NoSighting /\ sighting.index = 0
  /\ neg_cache' = Remembered(sighting.addr)
  /\ sighting' = NoSighting
  /\ UNCHANGED <<bluedroid, peers, classic_peers, task, history>>

\* A peer's address is written to the table by index, and its identity is sent to
\* the SM task.
BleFeed(m) ==
  /\ sighting # NoSighting /\ sighting.index # 0 /\ sighting.identity = m
  /\ peers' = IF peers[sighting.index] = EmptyPeer THEN peers
              ELSE [peers EXCEPT ![sighting.index].last_adv = sighting.addr]
  /\ sighting' = NoSighting
  /\ UNCHANGED <<bluedroid, classic_peers, neg_cache, task, history>>

\* The same refreshes within a callback, where nothing of presence_task comes in between:
\* a copy presence_task has made before is older, and it is still to be written.
Refreshed(which) ==
  behind' = IF pc = (IF which = "ble" THEN "writeBle" ELSE "writeClassic")
            THEN behind \cup {which} ELSE behind \ {which}

RefreshBle ==
  \/ peers' = BlePeers(ble_bonds') /\ Refreshed("ble") /\ straddled' = Straddling
  \/ "ble" \in Unreadable /\ behind' = behind \cup {"ble"} /\ UNCHANGED <<peers, straddled>>

RefreshClassic ==
  \/ classic_peers' = classic_bonds' /\ Refreshed("classic") /\ UNCHANGED straddled
  \/ "classic" \in Unreadable /\ behind' = behind \cup {"classic"}
       /\ UNCHANGED <<classic_peers, straddled>>

\* AUTH_CMPL: Bluedroid has stored the bond of a phone that connected while the window
\* was open.  The callback of BLE refreshes the cache if the window is open still, the
\* one of Classic always.
AuthComplete(m) ==
  /\ sighting = NoSighting
  /\ pairing_mode \/ late
  /\ Bonded(m) \/ Room(m)
  /\ ble_bonds' = IF m \in Ble THEN With(ble_bonds, m) ELSE ble_bonds
  /\ classic_bonds' = IF m \in Classic THEN With(classic_bonds, m) ELSE classic_bonds
  /\ late' = FALSE
  /\ \/ m \in Ble /\ ~pairing_mode /\ behind' = behind \cup {"ble"}
          /\ UNCHANGED <<peers, classic_peers, straddled>>
     \/ m \in Ble /\ pairing_mode /\ RefreshBle /\ UNCHANGED classic_peers
     \/ m \in Classic /\ RefreshClassic /\ UNCHANGED peers
  /\ UNCHANGED <<removing, neg_cache, sighting, task>>

-------------------------------------------------------------------------------
\* Bluedroid, the phones and the administrator.

RemoveDone(m) ==
  /\ m \in removing
  /\ BondGoes(m) /\ behind' = behind \cup {ListOf(m)}
  /\ UNCHANGED <<late, peers, classic_peers, neg_cache, sighting, task, straddled>>

\* pairing_toggle_handler and devices_delete_handler; a full queue drops the command.
Post(cmd) ==
  /\ cmd_queue' = IF Len(cmd_queue) < CmdQueueDepth THEN Append(cmd_queue, cmd) ELSE cmd_queue
  /\ UNCHANGED <<bluedroid, peers, classic_peers, neg_cache, sighting,
                 pairing_mode, pc, dev_list, history>>

PairingToggle == Post([type |-> IF pairing_mode THEN "StopPairing" ELSE "StartPairing"])
RemoveBond(m) == Post([type |-> "RemoveBond", mac |-> m])

\* bt_manager_start fills both caches, if it can, before presence_task is created.
Init ==
  /\ ble_bonds \in {s \in SeqOf(Ble, MaxBonds) : IsInjective(s)}
  /\ classic_bonds \in {s \in SeqOf(Classic, MaxBonds) : IsInjective(s)}
  /\ removing = {} /\ late = FALSE
  /\ behind \in SUBSET Unreadable /\ straddled = NoAddr
  /\ peers = BlePeers(IF "ble" \in behind THEN << >> ELSE ble_bonds)
  /\ classic_peers = IF "classic" \in behind THEN << >> ELSE classic_bonds
  /\ neg_cache = << >> /\ sighting = NoSighting
  /\ pairing_mode = FALSE /\ cmd_queue = << >>
  /\ pc = "command" /\ dev_list = << >>

Callback ==
  \/ Unknown \/ \E x \in Addr : ScanResult(x)
  \/ \E m \in Ble : BleFeed(m)
  \/ \E m \in Mac : AuthComplete(m)

Next ==
  \/ PresenceTask \/ Callback
  \/ \E m \in Mac : RemoveDone(m) \/ RemoveBond(m)
  \/ PairingToggle

Spec == Init /\ [][Next]_vars

Addresses(m) == {x \in Addr : OwnerOf[x] = m}

\* Bluedroid leaves presence_task time to run and finishes its callbacks; phones go on
\* advertising under one or another of their addresses.
FairSpec ==
  /\ Spec
  /\ SF_vars(PresenceTask) /\ WF_vars(Unknown \/ \E m \in Ble : BleFeed(m))
  /\ \A m \in Ble : SF_vars(\E x \in Addresses(m) : ScanResult(x))

-------------------------------------------------------------------------------
\* A sighting is credited to the phone it is of, whatever is paired and removed meanwhile:
\* the address remembered for a peer is one of its own, and so is that of the sighting in
\* hand.  The one address this does not hold for is the one that was in hand when the
\* table was last rewritten: it is written into whatever entry has the index of the old
\* match (update_ble_presence, refresh_ble_bond_cache).
SightingsAreTheirs ==
  /\ \A i \in Index : peers[i].last_adv \notin {NoAddr, straddled} =>
       OwnerOf[peers[i].last_adv] = peers[i].identity
  /\ sighting.index # 0 /\ sighting.addr # straddled => OwnerOf[sighting.addr] = sighting.identity

\* With the window closed and no command in hand the caches are Bluedroid's bond lists, in
\* their order, as they were when presence_task or a callback last could read them; they
\* are behind only if a list changed later and no callback refreshed the cache after it
\* (presence_task, ESP_GAP_BLE_AUTH_CMPL_EVT, ESP_BT_GAP_AUTH_CMPL_EVT).
CacheIsCurrent ==
  pc = "command" /\ ~pairing_mode =>
    /\ "ble" \in behind \/ \A i \in Index : peers[i].identity = BlePeers(ble_bonds)[i].identity
    /\ "classic" \in behind \/ classic_peers = classic_bonds

\* What the comment on the callback of BLE takes for granted: with the window closed and no
\* command in hand, whoever has a BLE bond is in the cache, since outside the window only
\* bonds that are known already are encrypted again.
BondedAreCached ==
  pc = "command" /\ ~pairing_mode =>
    \A m \in ToSet(ble_bonds) : \E i \in Index : peers[i].identity = m

\* A phone that is bonded and at home is detected again and again, the negative cache
\* notwithstanding, as long as it uses more addresses than the cache holds
\* (neg_cache_contains), and unless one of them was in hand when the table was last
\* rewritten and may be another's there.
BondedAreDetected ==
  \A m \in Ble : Cardinality(Addresses(m)) > NegCacheSize =>
    (<>[](/\ Bonded(m) /\ ~pairing_mode
           /\ "ble" \notin behind /\ straddled \notin Addresses(m))
       => []<><<BleFeed(m)>>_vars)
===============================================================================

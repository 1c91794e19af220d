---------------------------- MODULE BondCacheProofs ----------------------------
(***************************************************************************)
(* What BondCache keeps for every number of phones, addresses and entries, *)
(* whatever is paired and removed, however late Bluedroid completes it, and *)
(* with a callback that waits for the AES unit at any point it may.         *)
(***************************************************************************)
EXTENDS BondCache, WellFoundedInduction, SequenceTheorems, TLAPS

PeersType ==
  /\ DOMAIN peers = Index
  /\ \A i \in Index : peers[i] = [identity |-> peers[i].identity, last_adv |-> peers[i].last_adv]

\* The sighting in hand points at the entry it was matched with, unless the table was
\* rewritten since.
SightingInHand ==
  /\ sighting.index \in Index \cup {0}
  /\ sighting.index # 0 /\ sighting.addr # straddled =>
       peers[sighting.index].identity = sighting.identity

\* A refreshed cache is well-formed and remembers no address.
LEMMA RefreshedPeers ==
  ASSUME NEW list
  PROVE  /\ DOMAIN BlePeers(list) = Index
         /\ \A i \in Index :
              /\ BlePeers(list)[i].last_adv = NoAddr
              /\ BlePeers(list)[i] = [identity |-> BlePeers(list)[i].identity,
                                      last_adv |-> BlePeers(list)[i].last_adv]
BY DEF BlePeers, EmptyPeer

\* First(S) is a member of a non-empty set of indices.
LEMMA FirstIsMember ==
  ASSUME NEW S \in SUBSET Index, S # {}
  PROVE  First(S) \in S
<1>1. \E i \in S : \A j \in S : i <= j
  <2> DEFINE Less == {p \in Nat \X Nat : p[1] < p[2]}
  <2>1. Less = OpToRel(<, Nat)
    BY Zenon DEF OpToRel
  <2>2. IsWellFoundedOn(Less, Nat)
    BY <2>1, NatLessThanWellFounded, Zenon
  <2>3. S \subseteq Nat
    BY BondCacheAssumption DEF Index
  <2>. HIDE DEF Less
  <2>4. PICK i \in S : \A j \in S : ~(<<j, i>> \in Less)
    BY <2>2, <2>3, WFMin
  <2>5. ASSUME NEW j \in S
        PROVE  i <= j
    <3>1. i \in Nat /\ j \in Nat
      BY <2>3
    <3>2. j < i => <<j, i>> \in Less
      BY <3>1 DEF Less
    <3>. QED
      BY <2>4, <3>1, <3>2
  <2>. QED
    BY <2>5
<1>. QED
  BY <1>1 DEF First

\* An address is matched with no entry, or with one; and but for the address that was in
\* hand at the last refresh, with one of the phone it belongs to.
LEMMA MatchIsOwner ==
  ASSUME PeersType, SightingsAreTheirs, NEW x \in Addr, Match(x) # 0
  PROVE  /\ Match(x) \in Index
         /\ x # straddled => peers[Match(x)].identity = OwnerOf[x]
<1>1. x # NoAddr
  BY BondCacheAssumption
<1>2. CASE Known(x) # 0
  <2>1. Known(x) \in {i \in Index : peers[i].last_adv = x}
    BY <1>2, FirstIsMember DEF Known, First
  <2>. QED
    BY <1>1, <1>2, <2>1 DEF Match, SightingsAreTheirs
<1>3. CASE Known(x) = 0
  <2>1. Resolved(x) # 0
    BY <1>3 DEF Match
  <2>2. Resolved(x) \in {i \in Index : peers[i].identity = OwnerOf[x]}
    BY <2>1, FirstIsMember DEF Resolved, First
  <2>. QED
    BY <1>3, <2>2 DEF Match
<1>. QED
  BY <1>2, <1>3

-------------------------------------------------------------------------------
\* The write-back by index is what the invariant is for: the entry at the index must
\* still be the one that was matched, or the address is the straddled one.
SightingInv == PeersType /\ SightingsAreTheirs /\ SightingInHand

LEMMA SightingInvariant == Spec => []SightingInv
<1>1. Init => SightingInv
  <2>. SUFFICES ASSUME Init PROVE SightingInv
    OBVIOUS
  <2>1. /\ peers = BlePeers(IF "ble" \in behind THEN << >> ELSE ble_bonds)
        /\ sighting.index = 0
    BY DEF Init, NoSighting
  <2>. QED
    BY <2>1, RefreshedPeers DEF SightingInv, PeersType, SightingsAreTheirs, SightingInHand
<1>2. SightingInv /\ [Next]_vars => SightingInv'
  <2>. SUFFICES ASSUME SightingInv, [Next]_vars PROVE SightingInv'
    OBVIOUS
  <2>. USE DEF SightingInv
  <2>1. CASE UNCHANGED <<peers, sighting, straddled>>
    BY <2>1 DEF PeersType, SightingsAreTheirs, SightingInHand
  <2>2. ASSUME sighting' = sighting, straddled' = Straddling, NEW list, peers' = BlePeers(list)
        PROVE  SightingInv'
    <3>1. sighting'.index # 0 => sighting'.addr = straddled'
      BY <2>2 DEF Straddling
    <3>2. sighting'.index \in Index \cup {0}
      BY <2>2 DEF SightingInHand
    <3>3. PeersType' /\ \A i \in Index : peers'[i].last_adv = NoAddr
      BY <2>2, RefreshedPeers DEF PeersType
    <3>. QED
      BY <3>1, <3>2, <3>3 DEF SightingsAreTheirs, SightingInHand
  <2>3. CASE WriteBlePeers
    BY <2>2, <2>3 DEF WriteBlePeers
  <2>4. ASSUME NEW m \in Mac, AuthComplete(m)
        PROVE  SightingInv'
    <3>1. /\ sighting' = sighting
          /\ \/ peers' = BlePeers(ble_bonds') /\ straddled' = Straddling
             \/ peers' = peers /\ straddled' = straddled
      BY <2>4 DEF AuthComplete, RefreshBle, RefreshClassic
    <3>. QED
      BY <2>1, <2>2, <3>1
  <2>5. ASSUME NEW x \in Addr, ScanResult(x)
        PROVE  SightingInv'
    <3>1. /\ peers' = peers /\ straddled' = straddled
          /\ sighting'.addr = x /\ sighting'.index = Match(x)
          /\ Match(x) # 0 => sighting'.identity = peers[Match(x)].identity
      BY <2>5 DEF ScanResult, history
    <3>2. Match(x) # 0 => /\ Match(x) \in Index
                          /\ x # straddled => peers[Match(x)].identity = OwnerOf[x]
      BY MatchIsOwner
    <3>. QED
      BY <3>1, <3>2 DEF PeersType, SightingsAreTheirs, SightingInHand
  <2>6. CASE Unknown
    BY <2>6 DEF Unknown, history, NoSighting, PeersType, SightingsAreTheirs, SightingInHand
  <2>7. ASSUME NEW m \in Mac, BleFeed(m)
        PROVE  SightingInv'
    <3>. DEFINE i == sighting.index
    <3>1. sighting'.index = 0 /\ straddled' = straddled
      BY <2>7 DEF BleFeed, history, NoSighting
    <3>2. CASE peers' = peers
      BY <3>1, <3>2 DEF PeersType, SightingsAreTheirs, SightingInHand
    <3>3. CASE peers' = [peers EXCEPT ![i].last_adv = sighting.addr]
      <4>1. i \in Index
        BY <2>7 DEF BleFeed, SightingInHand
      <4>2. sighting.addr # straddled =>
              peers[i].identity = sighting.identity /\ OwnerOf[sighting.addr] = sighting.identity
        BY <2>7 DEF BleFeed, SightingsAreTheirs, SightingInHand
      <4>3. peers'[i] = [identity |-> peers[i].identity, last_adv |-> sighting.addr]
        BY <3>3, <4>1 DEF PeersType
      <4>4. \A j \in Index : j # i => peers'[j] = peers[j]
        BY <3>3 DEF PeersType
      <4>5. PeersType'
        BY <3>3, <4>3, <4>4 DEF PeersType
      <4>. QED
        BY <3>1, <4>1, <4>2, <4>3, <4>4, <4>5 DEF SightingsAreTheirs, SightingInHand
    <3>. QED
      BY <2>7, <3>2, <3>3 DEF BleFeed
  <2>8. CASE \/ ReadBonds("readBle", "writeBle", "ble", ble_bonds)
             \/ ReadBonds("readClassic", "writeClassic", "classic", classic_bonds)
             \/ WriteClassicPeers \/ \E which \in Unreadable : ReadFails(which)
             \/ TakeCommand \/ PairingToggle
    BY <2>1, <2>8 DEF ReadBonds, WriteClassicPeers, ReadFails, TakeCommand, PairingToggle,
       Post, history
  <2>9. ASSUME NEW m \in Mac, RemoveDone(m) \/ RemoveBond(m)
        PROVE  SightingInv'
    BY <2>1, <2>9 DEF RemoveDone, RemoveBond, Post, history
  <2>10. CASE UNCHANGED vars
    BY <2>1, <2>10 DEF vars, history
  <2>. QED
    BY <2>3, <2>4, <2>5, <2>6, <2>7, <2>8, <2>9, <2>10 DEF Next, PresenceTask, Callback, Mac
<1>. QED
  BY <1>1, <1>2, PTL DEF Spec

\* Every sighting is credited to the phone it is of, in every state and whatever the
\* administrator does meanwhile, but for the one address that was in hand when the table
\* was last rewritten (update_ble_presence, refresh_ble_bond_cache).
THEOREM SightingsStayTheirs == Spec => []SightingsAreTheirs
<1>1. SightingInv => SightingsAreTheirs
  BY DEF SightingInv
<1>. QED
  BY <1>1, SightingInvariant, PTL

-------------------------------------------------------------------------------
\* A bond leaves a list, which stays one without repetitions.
LEMMA BondLeaves ==
  ASSUME NEW S, NEW list \in Seq(S), IsInjective(list), NEW m
  PROVE  /\ Without(list, m) \in Seq(S) /\ Len(Without(list, m)) <= Len(list)
         /\ IsInjective(Without(list, m))
<1>1. CASE m \notin ToSet(list)
  BY <1>1 DEF Without
<1>2. CASE m \in ToSet(list)
  <2>. DEFINE i == CHOOSE j \in DOMAIN list : list[j] = m
              before == SubSeq(list, 1, i - 1)
              after  == SubSeq(list, i + 1, Len(list))
  <2>1. i \in DOMAIN list
    BY <1>2 DEF ToSet
  <2>2. Without(list, m) = before \o after
    BY <1>2 DEF Without, RemoveAt
  <2>. HIDE DEF i
  <2>3. Len(list) \in Nat /\ i \in 1 .. Len(list) /\ \A j \in 1 .. Len(list) : list[j] \in S
    BY <2>1
  <2>4. /\ before \in Seq(S) /\ Len(before) = i - 1
        /\ \A j \in 1 .. (i - 1) : before[j] = list[j]
    BY <2>3, SubSeqProperties
  <2>5. /\ after \in Seq(S) /\ Len(after) = Len(list) - i
        /\ \A j \in 1 .. (Len(list) - i) : after[j] = list[i + j]
    BY <2>3, SubSeqProperties
  <2>. HIDE DEF before, after
  <2>6. /\ before \o after \in Seq(S) /\ Len(before \o after) = Len(list) - 1
        /\ \A j \in 1 .. (Len(list) - 1) :
             (before \o after)[j] = IF j <= i - 1 THEN before[j] ELSE after[j - (i - 1)]
    <3>1. /\ before \o after \in Seq(S) /\ Len(before \o after) = Len(before) + Len(after)
          /\ \A j \in 1 .. Len(before) + Len(after) :
               (before \o after)[j] = IF j <= Len(before) THEN before[j]
                                                        ELSE after[j - Len(before)]
      BY <2>4, <2>5, ConcatProperties
    <3>2. Len(before) = i - 1 /\ Len(before) + Len(after) = Len(list) - 1
      BY <2>3, <2>4, <2>5
    <3>. QED
      BY <3>1, <3>2
  <2>7. \A j \in 1 .. (Len(list) - 1) : (before \o after)[j] = list[IF j < i THEN j ELSE j + 1]
    <3>. SUFFICES ASSUME NEW j \in 1 .. (Len(list) - 1)
                  PROVE  (before \o after)[j] = list[IF j < i THEN j ELSE j + 1]
      OBVIOUS
    <3>1. i \in Int /\ Len(list) \in Int
      BY <2>3
    <3>2. CASE j < i
      <4>1. j <= i - 1 /\ j \in 1 .. (i - 1)
        BY <3>1, <3>2
      <4>. QED
        BY <2>4, <2>6, <3>2, <4>1
    <3>3. CASE ~(j < i)
      <4>1. ~(j <= i - 1) /\ j - (i - 1) \in 1 .. (Len(list) - i) /\ i + (j - (i - 1)) = j + 1
        BY <3>1, <3>3
      <4>2. after[j - (i - 1)] = list[j + 1]
        BY <2>5, <4>1
      <4>. QED
        BY <2>6, <3>3, <4>1, <4>2
    <3>. QED
      BY <3>2, <3>3
  <2>8. IsInjective(before \o after)
    <3>. DEFINE rest == before \o after
                old(j) == IF j < i THEN j ELSE j + 1
    <3>1. DOMAIN rest = 1 .. (Len(list) - 1) /\ DOMAIN list = 1 .. Len(list)
      BY <2>3, <2>6
    <3>2. \A j \in DOMAIN rest : rest[j] = list[old(j)]
      BY <2>7, <3>1
    <3>3. \A j, k \in 1 .. (Len(list) - 1) :
            old(j) \in 1 .. Len(list) /\ (old(j) = old(k) => j = k)
      <4>1. i \in Int /\ Len(list) \in Int
        BY <2>3
      <4>. QED
        BY <4>1
    <3>. HIDE DEF rest, old
    <3>4. IsInjective(rest)
      BY <3>1, <3>2, <3>3 DEF IsInjective
    <3>. QED
      BY <3>4 DEF rest
  <2>. QED
    BY <2>2, <2>3, <2>6, <2>8
<1>. QED
  BY <1>1, <1>2

\* A new bond comes last in its list.
LEMMA BondComes ==
  ASSUME NEW S, NEW list \in Seq(S), IsInjective(list), NEW m \in S
  PROVE  /\ With(list, m) \in Seq(S) /\ IsInjective(With(list, m))
         /\ Len(With(list, m)) <= Len(list) + 1
         /\ m \in ToSet(list) => With(list, m) = list
<1>1. CASE m \in ToSet(list)
  BY <1>1 DEF With
<1>2. CASE m \notin ToSet(list)
  BY <1>2 DEF With, ToSet, IsInjective
<1>. QED
  BY <1>1, <1>2

\* What Bluedroid, the phones and the commands leave behind.
BondTypes ==
  /\ ble_bonds \in Seq(Ble) /\ IsInjective(ble_bonds) /\ Len(ble_bonds) <= MaxBonds
  /\ classic_bonds \in Seq(Classic) /\ IsInjective(classic_bonds)
  /\ Len(classic_bonds) <= MaxBonds

\* A bond that goes leaves the other list as it is.
LEMMA BondGoesKeepsTypes ==
  ASSUME BondTypes, NEW m, BondGoes(m)
  PROVE  BondTypes'
<1>. USE DEF BondTypes
<1>1. ble_bonds' = Without(ble_bonds, m) /\ classic_bonds' = Without(classic_bonds, m)
  BY DEF BondGoes
<1>2. ble_bonds' \in Seq(Ble) /\ IsInjective(ble_bonds') /\ Len(ble_bonds') <= Len(ble_bonds)
  BY <1>1, BondLeaves
<1>3. /\ classic_bonds' \in Seq(Classic) /\ IsInjective(classic_bonds')
      /\ Len(classic_bonds') <= Len(classic_bonds)
  BY <1>1, BondLeaves
<1>4. /\ MaxBonds \in Nat /\ Len(ble_bonds) \in Nat /\ Len(ble_bonds') \in Nat
      /\ Len(classic_bonds) \in Nat /\ Len(classic_bonds') \in Nat
  BY <1>2, <1>3, BondCacheAssumption
<1>. QED
  BY <1>2, <1>3, <1>4

LEMMA BondTypesKept ==
  ASSUME BondTypes, [Next]_vars
  PROVE  BondTypes'
<1>. USE DEF BondTypes
<1>1. CASE UNCHANGED bonds
  BY <1>1 DEF bonds
<1>2. ASSUME NEW m \in Mac, RemoveDone(m)
      PROVE  BondTypes'
  BY <1>2, BondGoesKeepsTypes DEF RemoveDone
<1>3. ASSUME NEW m \in Mac, AuthComplete(m)
      PROVE  BondTypes'
  <2>1. /\ ble_bonds' = IF m \in Ble THEN With(ble_bonds, m) ELSE ble_bonds
        /\ classic_bonds' = IF m \in Classic THEN With(classic_bonds, m) ELSE classic_bonds
        /\ Bonded(m) \/ Room(m)
    BY <1>3 DEF AuthComplete
  <2>2. m \in ToSet(ble_bonds) => m \in Ble
    BY DEF ToSet
  <2>3. m \in ToSet(classic_bonds) => m \in Classic
    BY DEF ToSet
  <2>4. MaxBonds \in Nat /\ Len(ble_bonds) \in Nat /\ Len(classic_bonds) \in Nat
    BY BondCacheAssumption
  <2>5. CASE m \in Ble
    <3>1. m \notin Classic /\ classic_bonds' = classic_bonds /\ ble_bonds' = With(ble_bonds, m)
      BY <2>1, <2>5, BondCacheAssumption
    <3>2. m \in ToSet(ble_bonds) \/ Len(ble_bonds) < MaxBonds
      BY <2>1, <2>3, <2>5, <3>1 DEF Bonded, Room
    <3>3. /\ ble_bonds' \in Seq(Ble) /\ IsInjective(ble_bonds')
          /\ Len(ble_bonds') <= Len(ble_bonds) + 1
          /\ m \in ToSet(ble_bonds) => ble_bonds' = ble_bonds
      BY <2>5, <3>1, BondComes
    <3>4. Len(ble_bonds') <= MaxBonds
      <4>1. Len(ble_bonds') \in Nat
        BY <3>3
      <4>. QED
        BY <2>4, <3>2, <3>3, <4>1
    <3>. QED
      BY <3>1, <3>3, <3>4
  <2>6. CASE m \in Classic
    <3>1. m \notin Ble /\ ble_bonds' = ble_bonds /\ classic_bonds' = With(classic_bonds, m)
      BY <2>1, <2>6, BondCacheAssumption
    <3>2. m \in ToSet(classic_bonds) \/ Len(classic_bonds) < MaxBonds
      BY <2>1, <2>2, <2>6, <3>1 DEF Bonded, Room
    <3>3. /\ classic_bonds' \in Seq(Classic) /\ IsInjective(classic_bonds')
          /\ Len(classic_bonds') <= Len(classic_bonds) + 1
          /\ m \in ToSet(classic_bonds) => classic_bonds' = classic_bonds
      BY <2>6, <3>1, BondComes
    <3>4. Len(classic_bonds') <= MaxBonds
      <4>1. Len(classic_bonds') \in Nat
        BY <3>3
      <4>. QED
        BY <2>4, <3>2, <3>3, <4>1
    <3>. QED
      BY <3>1, <3>3, <3>4
  <2>. QED
    BY <2>5, <2>6 DEF Mac
<1>4. CASE TakeCommand
  <2>1. (\E m : BondGoes(m)) \/ UNCHANGED bonds
    BY <1>4 DEF TakeCommand
  <2>. HIDE DEF BondTypes
  <2>. QED
    BY <1>1, <2>1, BondGoesKeepsTypes
<1>5. CASE \/ ReadBonds("readBle", "writeBle", "ble", ble_bonds)
           \/ ReadBonds("readClassic", "writeClassic", "classic", classic_bonds)
           \/ WriteBlePeers \/ WriteClassicPeers \/ \E which \in Unreadable : ReadFails(which)
           \/ PairingToggle \/ Unknown
  BY <1>1, <1>5 DEF ReadBonds, ReadFails, WriteBlePeers, WriteClassicPeers, PairingToggle,
     Post, Unknown, bluedroid
<1>6. ASSUME NEW m \in Mac, BleFeed(m) \/ RemoveBond(m)
      PROVE  BondTypes'
  BY <1>1, <1>6 DEF BleFeed, RemoveBond, Post, bluedroid
<1>7. ASSUME NEW x \in Addr, ScanResult(x)
      PROVE  BondTypes'
  BY <1>1, <1>7 DEF ScanResult, bluedroid
<1>8. CASE UNCHANGED vars
  BY <1>1, <1>8 DEF vars, bluedroid
<1>. HIDE DEF BondTypes
<1>. QED
  BY <1>2, <1>3, <1>4, <1>5, <1>6, <1>7, <1>8 DEF Next, PresenceTask, Callback, Mac

CommandTypes ==
  /\ removing \subseteq Mac /\ late \in BOOLEAN
  /\ pairing_mode \in BOOLEAN
  /\ cmd_queue \in Seq(Command) /\ Len(cmd_queue) <= CmdQueueDepth
  /\ pc \in {"command", "readBle", "writeBle", "readClassic", "writeClassic"}
  /\ dev_list \in Seq(IF pc = "writeClassic" THEN Classic ELSE Ble) /\ Len(dev_list) <= MaxBonds
  /\ behind \subseteq List

\* A command fits the queue, or is dropped.
LEMMA PostKeepsQueue ==
  ASSUME NEW cmd \in Command, Post(cmd), cmd_queue \in Seq(Command),
         Len(cmd_queue) <= CmdQueueDepth
  PROVE  cmd_queue' \in Seq(Command) /\ Len(cmd_queue') <= CmdQueueDepth
<1>1. Len(cmd_queue) \in Nat /\ CmdQueueDepth \in Nat
  BY BondCacheAssumption
<1>2. cmd_queue' = IF Len(cmd_queue) < CmdQueueDepth THEN Append(cmd_queue, cmd) ELSE cmd_queue
  BY DEF Post
<1>. QED
  BY <1>1, <1>2

LEMMA CommandTypesKept ==
  ASSUME CommandTypes, BondTypes, [Next]_vars
  PROVE  CommandTypes'
<1>. USE DEF CommandTypes
<1>1. CASE TakeCommand
  <2>. DEFINE cmd == Head(cmd_queue)
  <2>1. /\ cmd \in Command /\ cmd_queue' \in Seq(Command) /\ Len(cmd_queue') = Len(cmd_queue) - 1
        /\ Len(cmd_queue) \in Nat
    BY <1>1 DEF TakeCommand
  <2>2. cmd.type = "RemoveBond" => cmd.mac \in Mac
    BY <2>1 DEF Command
  <2>. HIDE DEF cmd
  <2>3. /\ pc = "command" /\ pc' \in {"command", "readBle"} /\ dev_list' = dev_list
        /\ pairing_mode' \in BOOLEAN
        /\ late' \in {FALSE, late, pairing_mode} /\ behind' = behind
    BY <1>1 DEF TakeCommand, AfterCommand, history, cmd
  <2>4. removing' \subseteq Mac
    <3>. DEFINE asked == IF cmd.type = "RemoveBond" THEN cmd.mac ELSE NoMac
    <3>1. \/ removing' = removing \/ removing' = removing \ {asked}
          \/ Bonded(asked) /\ removing' = removing \cup {asked}
      BY <1>1 DEF TakeCommand, BondGoes, cmd
    <3>2. Bonded(asked) => asked \in Mac
      BY DEF Bonded, BondTypes, ToSet, Mac
    <3>. QED
      BY <3>1, <3>2
  <2>5. Len(cmd_queue') <= CmdQueueDepth
    BY <2>1, BondCacheAssumption
  <2>. QED
    BY <2>1, <2>3, <2>4, <2>5
<1>2. CASE ReadBonds("readBle", "writeBle", "ble", ble_bonds)
  <2>1. pc' = "writeBle" /\ dev_list' = ble_bonds /\ behind' = behind \ {"ble"}
        /\ UNCHANGED <<removing, late, pairing_mode, cmd_queue>>
    BY <1>2 DEF ReadBonds, bluedroid
  <2>. QED
    BY <2>1 DEF BondTypes
<1>3. CASE ReadBonds("readClassic", "writeClassic", "classic", classic_bonds)
  <2>1. pc' = "writeClassic" /\ dev_list' = classic_bonds /\ behind' = behind \ {"classic"}
        /\ UNCHANGED <<removing, late, pairing_mode, cmd_queue>>
    BY <1>3 DEF ReadBonds, bluedroid
  <2>. QED
    BY <2>1 DEF BondTypes
<1>4. CASE WriteBlePeers \/ WriteClassicPeers
  <2>1. pc' \in {"readClassic", "command"} /\ dev_list' = << >>
        /\ UNCHANGED <<removing, late, pairing_mode, cmd_queue, behind>>
    BY <1>4 DEF WriteBlePeers, WriteClassicPeers, bluedroid, history
  <2>. QED
    BY <2>1, BondCacheAssumption
<1>5. ASSUME NEW cmd \in Command, Post(cmd)
      PROVE  CommandTypes'
  <2>1. UNCHANGED <<removing, late, pairing_mode, pc, dev_list, behind>>
    BY <1>5 DEF Post, bluedroid, history
  <2>. QED
    BY <1>5, <2>1, PostKeepsQueue
<1>6. CASE PairingToggle
  <2>1. [type |-> IF pairing_mode THEN "StopPairing" ELSE "StartPairing"] \in Command
    BY DEF Command
  <2>. QED
    BY <1>5, <1>6, <2>1 DEF PairingToggle
<1>7. ASSUME NEW m \in Mac, RemoveBond(m)
      PROVE  CommandTypes'
  <2>1. [type |-> "RemoveBond", mac |-> m] \in Command
    BY DEF Command
  <2>. QED
    BY <1>5, <1>7, <2>1 DEF RemoveBond
<1>8. ASSUME NEW m \in Mac, AuthComplete(m) \/ RemoveDone(m)
      PROVE  CommandTypes'
  <2>1. UNCHANGED task /\ removing' \subseteq removing /\ late' \in {late, FALSE}
    BY <1>8 DEF AuthComplete, RemoveDone, BondGoes
  <2>2. behind' \subseteq List
    BY <1>8 DEF AuthComplete, RemoveDone, RefreshBle, RefreshClassic, Refreshed, ListOf, List
  <2>. QED
    BY <2>1, <2>2 DEF task
<1>9. CASE Unknown \/ UNCHANGED vars
  BY <1>9 DEF Unknown, bluedroid, task, history, vars
<1>10. ASSUME NEW m \in Mac, BleFeed(m)
       PROVE  CommandTypes'
  BY <1>10 DEF BleFeed, bluedroid, task, history
<1>11. ASSUME NEW x \in Addr, ScanResult(x)
       PROVE  CommandTypes'
  BY <1>11 DEF ScanResult, bluedroid, task, history
<1>12. ASSUME NEW which \in Unreadable, ReadFails(which)
       PROVE  CommandTypes'
  <2>1. /\ which \in List /\ pc \in {"readBle", "readClassic"}
        /\ pc' \in {"readClassic", "command"} /\ dev_list' = dev_list
        /\ behind' = behind \cup {which}
        /\ UNCHANGED <<removing, late, pairing_mode, cmd_queue>>
    BY <1>12, BondCacheAssumption DEF ReadFails, bluedroid
  <2>2. dev_list \in Seq(Ble)
    BY <2>1
  <2>. QED
    BY <2>1, <2>2
<1>. HIDE DEF CommandTypes
<1>. QED
  BY <1>1, <1>2, <1>3, <1>4, <1>6, <1>7, <1>8, <1>9, <1>10, <1>11, <1>12
     DEF Next, PresenceTask, Callback, Mac

PeerEntry == [identity : Ble, last_adv : Addr \cup {NoAddr}] \cup {EmptyPeer}

PeerTypes ==
  /\ peers \in [Index -> PeerEntry]
  /\ classic_peers \in Seq(Classic) /\ Len(classic_peers) <= MaxBonds

LEMMA RefreshedType ==
  ASSUME NEW list \in Seq(Ble)
  PROVE  BlePeers(list) \in [Index -> PeerEntry]
<1>1. ASSUME NEW i \in Index
      PROVE  (IF i <= Len(list) THEN [identity |-> list[i], last_adv |-> NoAddr] ELSE EmptyPeer)
               \in PeerEntry
  <2>1. i <= Len(list) => list[i] \in Ble
    BY BondCacheAssumption DEF Index
  <2>. QED
    BY <2>1 DEF PeerEntry
<1>. QED
  BY <1>1 DEF BlePeers

AirTypes ==
  /\ neg_cache \in Seq(Addr) /\ Len(neg_cache) <= NegCacheSize
  /\ sighting \in [addr : Addr, index : 0 .. MaxBonds, identity : Ble \cup {NoMac}]
                    \cup {NoSighting}
  /\ straddled \in Addr \cup {NoAddr}

LEMMA PeerTypesKept ==
  ASSUME PeerTypes, AirTypes, CommandTypes, BondTypes, BondTypes', [Next]_vars
  PROVE  PeerTypes'
<1>. USE DEF PeerTypes
<1>1. CASE UNCHANGED <<peers, classic_peers>>
  BY <1>1
<1>2. CASE WriteBlePeers
  <2>1. pc = "writeBle" /\ peers' = BlePeers(dev_list) /\ classic_peers' = classic_peers
    BY <1>2 DEF WriteBlePeers
  <2>2. dev_list \in Seq(Ble)
    BY <2>1 DEF CommandTypes
  <2>. QED
    BY <2>1, <2>2, RefreshedType
<1>3. CASE WriteClassicPeers
  <2>1. pc = "writeClassic" /\ classic_peers' = dev_list /\ peers' = peers
    BY <1>3 DEF WriteClassicPeers
  <2>. QED
    BY <2>1 DEF CommandTypes
<1>4. ASSUME NEW m \in Mac, AuthComplete(m)
      PROVE  PeerTypes'
  <2>1. /\ peers' = BlePeers(ble_bonds') \/ peers' = peers
        /\ classic_peers' = classic_bonds' \/ classic_peers' = classic_peers
    BY <1>4 DEF AuthComplete, RefreshBle, RefreshClassic
  <2>. QED
    BY <2>1, RefreshedType DEF BondTypes
<1>5. ASSUME NEW m \in Mac, BleFeed(m)
      PROVE  PeerTypes'
  <2>. DEFINE i == sighting.index
  <2>1. /\ i \in Index /\ sighting.addr \in Addr /\ classic_peers' = classic_peers
        /\ peers' = IF peers[i] = EmptyPeer THEN peers
                     ELSE [peers EXCEPT ![i].last_adv = sighting.addr]
    BY <1>5, BondCacheAssumption DEF BleFeed, AirTypes, Index
  <2>2. CASE peers[i] = EmptyPeer
    BY <2>1, <2>2
  <2>3. CASE peers[i] # EmptyPeer
    <3>1. peers[i] \in [identity : Ble, last_adv : Addr \cup {NoAddr}]
      BY <2>1, <2>3 DEF PeerEntry
    <3>2. [peers[i] EXCEPT !.last_adv = sighting.addr] \in PeerEntry
      BY <2>1, <3>1 DEF PeerEntry
    <3>3. peers' = [peers EXCEPT ![i] = [peers[i] EXCEPT !.last_adv = sighting.addr]]
      BY <2>1, <2>3
    <3>. QED
      BY <2>1, <3>2, <3>3
  <2>. QED
    BY <2>2, <2>3
<1>6. CASE TakeCommand \/ PairingToggle \/ Unknown \/ UNCHANGED vars
  BY <1>1, <1>6 DEF TakeCommand, PairingToggle, Post, Unknown, vars
<1>7. CASE \/ ReadBonds("readBle", "writeBle", "ble", ble_bonds)
           \/ ReadBonds("readClassic", "writeClassic", "classic", classic_bonds)
           \/ \E which \in Unreadable : ReadFails(which)
  BY <1>1, <1>7 DEF ReadBonds, ReadFails
<1>8. ASSUME NEW m \in Mac, RemoveDone(m) \/ RemoveBond(m)
      PROVE  PeerTypes'
  BY <1>1, <1>8 DEF RemoveDone, RemoveBond, Post
<1>9. ASSUME NEW x \in Addr, ScanResult(x)
      PROVE  PeerTypes'
  BY <1>1, <1>9 DEF ScanResult
<1>. HIDE DEF PeerTypes
<1>. QED
  BY <1>2, <1>3, <1>4, <1>5, <1>6, <1>7, <1>8, <1>9 DEF Next, PresenceTask, Callback, Mac

\* An address is matched with an entry of the table, or with none.
LEMMA MatchInTable ==
  ASSUME NEW x
  PROVE  Match(x) \in Index \cup {0}
<1>1. Known(x) \in Index \cup {0}
  BY FirstIsMember DEF Known, First
<1>2. Resolved(x) \in Index \cup {0}
  BY FirstIsMember DEF Resolved, First
<1>. QED
  BY <1>1, <1>2 DEF Match

LEMMA AirTypesKept ==
  ASSUME AirTypes, PeerTypes, [Next]_vars
  PROVE  AirTypes'
<1>. USE DEF AirTypes
<1>1. CASE UNCHANGED <<neg_cache, sighting, straddled>>
  BY <1>1
<1>2. CASE WriteBlePeers
  <2>1. straddled' = Straddling /\ UNCHANGED <<neg_cache, sighting>>
    BY <1>2 DEF WriteBlePeers
  <2>2. Straddling \in Addr \cup {NoAddr}
    BY DEF Straddling, NoSighting
  <2>. QED
    BY <2>1, <2>2
<1>3. CASE Unknown
  <2>1. /\ sighting # NoSighting /\ sighting' = NoSighting /\ UNCHANGED straddled
        /\ neg_cache' = Remembered(sighting.addr)
    BY <1>3 DEF Unknown, history
  <2>2. sighting.addr \in Addr
    BY <2>1
  <2>3. neg_cache' \in Seq(Addr) /\ Len(neg_cache') <= NegCacheSize
    <3>1. NegCacheSize \in Nat \ {0} /\ Len(neg_cache) \in Nat
      BY BondCacheAssumption
    <3>2. CASE Len(neg_cache) < NegCacheSize
      <4>1. neg_cache' = Append(neg_cache, sighting.addr)
        BY <2>1, <3>2 DEF Remembered
      <4>. QED
        BY <2>2, <3>1, <3>2, <4>1
    <3>3. CASE ~(Len(neg_cache) < NegCacheSize)
      <4>1. neg_cache' = Append(Tail(neg_cache), sighting.addr)
        BY <2>1, <3>3 DEF Remembered
      <4>2. Len(neg_cache) = NegCacheSize /\ neg_cache # << >>
        BY <3>1, <3>3
      <4>3. Tail(neg_cache) \in Seq(Addr) /\ Len(Tail(neg_cache)) = NegCacheSize - 1
        BY <4>2
      <4>4. neg_cache' \in Seq(Addr) /\ Len(neg_cache') = NegCacheSize
        BY <2>2, <3>1, <4>1, <4>3
      <4>. QED
        BY <3>1, <4>4
    <3>. QED
      BY <3>2, <3>3
  <2>. QED
    BY <2>1, <2>3
<1>4. ASSUME NEW m \in Mac, BleFeed(m)
      PROVE  AirTypes'
  BY <1>4 DEF BleFeed, history
<1>5. ASSUME NEW m \in Mac, AuthComplete(m)
      PROVE  AirTypes'
  <2>1. sighting = NoSighting /\ UNCHANGED <<neg_cache, sighting>>
    BY <1>5 DEF AuthComplete
  <2>2. straddled' \in {straddled, Straddling}
    BY <1>5 DEF AuthComplete, RefreshBle, RefreshClassic
  <2>3. Straddling = NoAddr
    BY <2>1 DEF Straddling, NoSighting
  <2>. QED
    BY <2>1, <2>2, <2>3
<1>6. ASSUME NEW x \in Addr, ScanResult(x)
      PROVE  AirTypes'
  <2>1. /\ sighting' = [addr |-> x, index |-> Match(x),
                        identity |-> IF Match(x) = 0 THEN NoMac ELSE peers[Match(x)].identity]
        /\ UNCHANGED <<neg_cache, straddled>>
    BY <1>6 DEF ScanResult, history
  <2>2. Match(x) \in Index \cup {0}
    BY MatchInTable
  <2>3. Match(x) \in 0 .. MaxBonds
    BY <2>2, BondCacheAssumption DEF Index
  <2>4. ASSUME Match(x) # 0 PROVE peers[Match(x)].identity \in Ble \cup {NoMac}
    <3>1. peers[Match(x)] \in PeerEntry
      BY <2>2, <2>4 DEF PeerTypes
    <3>. QED
      BY <3>1 DEF PeerEntry, EmptyPeer
  <2>5. sighting' \in [addr : Addr, index : 0 .. MaxBonds, identity : Ble \cup {NoMac}]
    BY <2>1, <2>3, <2>4
  <2>. QED
    BY <2>1, <2>5
<1>7. CASE \/ ReadBonds("readBle", "writeBle", "ble", ble_bonds)
           \/ ReadBonds("readClassic", "writeClassic", "classic", classic_bonds)
           \/ TakeCommand \/ WriteClassicPeers
           \/ \E which \in Unreadable : ReadFails(which)
  BY <1>1, <1>7 DEF ReadBonds, ReadFails, TakeCommand, WriteClassicPeers, history
<1>8. CASE PairingToggle \/ UNCHANGED vars
  BY <1>1, <1>8 DEF PairingToggle, Post, vars, history
<1>9. ASSUME NEW m \in Mac, RemoveDone(m) \/ RemoveBond(m)
       PROVE  AirTypes'
  BY <1>1, <1>9 DEF RemoveDone, RemoveBond, Post, history
<1>. HIDE DEF AirTypes
<1>. QED
  BY <1>2, <1>3, <1>4, <1>5, <1>6, <1>7, <1>8, <1>9 DEF Next, PresenceTask, Callback, Mac

\* The bond lists have no repetitions and
\* fit their tables, the copy presence_task holds is of the list it is about to write, the
\* negative cache and the command queue stay within their depth, and the sighting in hand
\* points into the table.
THEOREM BondCacheTypeCorrect == Spec => []TypeOK
<1>. DEFINE Types == BondTypes /\ CommandTypes /\ PeerTypes /\ AirTypes
<1>1. Init => Types
  <2>. SUFFICES ASSUME Init PROVE Types
    OBVIOUS
  <2>1. MaxBonds \in Nat \ {0} /\ NegCacheSize \in Nat \ {0} /\ CmdQueueDepth \in Nat \ {0}
    BY BondCacheAssumption
  <2>2. BondTypes
    <3>1. ASSUME NEW S, NEW s \in SeqOf(S, MaxBonds)
          PROVE  s \in Seq(S) /\ Len(s) <= MaxBonds
      BY <2>1, <3>1 DEF SeqOf
    <3>. QED
      BY <3>1 DEF Init, BondTypes
  <2>3. CommandTypes
    <3>1. /\ removing = {} /\ late = FALSE /\ pairing_mode = FALSE /\ cmd_queue = << >>
          /\ pc = "command" /\ dev_list = << >>
      BY DEF Init
    <3>2. cmd_queue \in Seq(Command) /\ Len(cmd_queue) <= CmdQueueDepth
      BY <2>1, <3>1
    <3>3. dev_list \in Seq(Ble) /\ Len(dev_list) <= MaxBonds
      BY <2>1, <3>1
    <3>4. behind \subseteq List
      BY BondCacheAssumption DEF Init
    <3>. QED
      BY <3>1, <3>2, <3>3, <3>4 DEF CommandTypes
  <2>4. PeerTypes
    <3>1. /\ peers = BlePeers(<< >>) \/ peers = BlePeers(ble_bonds)
          /\ classic_peers = << >> \/ classic_peers = classic_bonds
      BY DEF Init
    <3>2. << >> \in Seq(Ble) /\ << >> \in Seq(Classic) /\ Len(<< >>) <= MaxBonds
      BY <2>1
    <3>3. ble_bonds \in Seq(Ble) /\ classic_bonds \in Seq(Classic) /\ Len(classic_bonds) <= MaxBonds
      BY <2>2 DEF BondTypes
    <3>. QED
      BY <3>1, <3>2, <3>3, RefreshedType DEF PeerTypes
  <2>5. AirTypes
    BY <2>1 DEF Init, AirTypes
  <2>. QED
    BY <2>2, <2>3, <2>4, <2>5
<1>2. Types /\ [Next]_vars => Types'
  BY BondTypesKept, CommandTypesKept, PeerTypesKept, AirTypesKept
<1>3. Types => TypeOK
  BY DEF TypeOK, BondTypes, CommandTypes, PeerTypes, PeerEntry, AirTypes
<1>. QED
  BY <1>1, <1>2, <1>3, PTL DEF Spec

-------------------------------------------------------------------------------
\* CacheIsCurrent cut at the steps of a refresh.  The order is what it rests on: the
\* window is closed, or the bond removed, before the lists are copied.
BleCurrent     == \A i \in Index : peers[i].identity = BlePeers(ble_bonds)[i].identity
ClassicCurrent == classic_peers = classic_bonds

RefreshInv ==
  ~pairing_mode =>
    /\ pc = "writeBle" => "ble" \in behind \/ dev_list = ble_bonds
    /\ pc = "writeClassic" => "classic" \in behind \/ dev_list = classic_bonds
    /\ pc \in {"readClassic", "writeClassic", "command"} => "ble" \in behind \/ BleCurrent
    /\ pc = "command" => "classic" \in behind \/ ClassicCurrent

\* A bond that Bluedroid removes late changes the one list that is behind then.
LEMMA OtherListKept ==
  ASSUME TypeOK, NEW m \in Mac, RemoveDone(m)
  PROVE  /\ "ble" \in behind' \/ ble_bonds' = ble_bonds
         /\ "classic" \in behind' \/ classic_bonds' = classic_bonds
<1>1. /\ ble_bonds' = Without(ble_bonds, m) /\ classic_bonds' = Without(classic_bonds, m)
      /\ behind' = behind \cup {ListOf(m)}
  BY DEF RemoveDone, BondGoes
<1>2. CASE m \in Ble
  <2>1. m \notin Classic
    BY <1>2, BondCacheAssumption
  <2>2. m \notin ToSet(classic_bonds)
    BY <2>1 DEF TypeOK, ToSet
  <2>. QED
    BY <1>1, <1>2, <2>2 DEF ListOf, Without
<1>3. CASE m \notin Ble
  <2>1. m \notin ToSet(ble_bonds)
    BY <1>3 DEF TypeOK, ToSet
  <2>. QED
    BY <1>1, <1>3, <2>1 DEF ListOf, Without
<1>. QED
  BY <1>2, <1>3

\* With the window closed and no command in hand the caches are Bluedroid's bond lists, or
\* the lists have changed since presence_task or a callback last could read them
\* (presence_task, refresh_ble_bond_cache, refresh_classic_bond_cache).
THEOREM CachesStayCurrent == Spec => []CacheIsCurrent
<1>. USE DEF BleCurrent, ClassicCurrent
<1>1. Init => RefreshInv
  BY RefreshedPeers DEF Init, RefreshInv
<1>2. SightingInv /\ TypeOK /\ RefreshInv /\ [Next]_vars => RefreshInv'
  <2>. SUFFICES ASSUME SightingInv, TypeOK, RefreshInv, [Next]_vars PROVE RefreshInv'
    OBVIOUS
  <2>. USE DEF RefreshInv
  <2>1. CASE UNCHANGED <<bonds, peers, classic_peers, task, behind>>
    BY <2>1 DEF bonds, task
  <2>2. CASE TakeCommand
    BY <2>2 DEF TakeCommand, AfterCommand
  <2>3. CASE \/ ReadBonds("readBle", "writeBle", "ble", ble_bonds)
             \/ ReadBonds("readClassic", "writeClassic", "classic", classic_bonds)
    BY <2>3 DEF ReadBonds, bluedroid, bonds
  <2>4. CASE WriteBlePeers \/ WriteClassicPeers
    BY <2>4 DEF WriteBlePeers, WriteClassicPeers, bluedroid, bonds, history
  <2>5. ASSUME NEW m \in Mac, AuthComplete(m)
        PROVE  RefreshInv'
    <3>1. UNCHANGED task
      BY <2>5 DEF AuthComplete
    <3>2. CASE pairing_mode
      BY <3>1, <3>2 DEF task
    <3>3. CASE ~pairing_mode /\ m \in Ble
      <4>1. /\ behind' = behind \cup {"ble"} /\ classic_bonds' = classic_bonds
            /\ UNCHANGED <<peers, classic_peers>>
        BY <2>5, <3>3, BondCacheAssumption DEF AuthComplete
      <4>. QED
        BY <3>1, <4>1 DEF task
    <3>4. CASE ~pairing_mode /\ m \notin Ble
      <4>1. ble_bonds' = ble_bonds /\ peers' = peers /\ RefreshClassic
        BY <2>5, <3>4 DEF AuthComplete
      <4>2. "ble" \in behind => "ble" \in behind'
        BY <4>1 DEF RefreshClassic, Refreshed
      <4>3. \/ "classic" \in behind'
            \/ classic_peers' = classic_bonds' /\ pc # "writeClassic"
        BY <4>1 DEF RefreshClassic, Refreshed
      <4>. QED
        BY <3>1, <4>1, <4>2, <4>3 DEF task
    <3>. QED
      BY <3>2, <3>3, <3>4
  <2>6. ASSUME NEW m \in Mac, BleFeed(m)
        PROVE  RefreshInv'
    <3>1. \A i \in Index : peers'[i].identity = peers[i].identity
      BY <2>6 DEF BleFeed, SightingInv, PeersType, SightingInHand
    <3>. QED
      BY <2>6, <3>1 DEF BleFeed, bluedroid, bonds, task, history, BlePeers
  <2>7. ASSUME NEW m \in Mac, RemoveDone(m)
        PROVE  RefreshInv'
    <3>1. UNCHANGED <<peers, classic_peers, task>> /\ behind \subseteq behind'
      BY <2>7 DEF RemoveDone
    <3>. QED
      BY <2>7, <3>1, OtherListKept DEF task
  <2>8. CASE Unknown
    BY <2>1, <2>8 DEF Unknown, bluedroid, history
  <2>9. ASSUME NEW x \in Addr, ScanResult(x)
        PROVE  RefreshInv'
    BY <2>1, <2>9 DEF ScanResult, bluedroid, history
  <2>10. ASSUME NEW cmd, Post(cmd)
         PROVE  RefreshInv'
    BY <2>10 DEF Post, bluedroid, bonds, history
  <2>11. CASE UNCHANGED vars
    BY <2>1, <2>11 DEF vars, bluedroid, history
  <2>12. ASSUME NEW which \in Unreadable, ReadFails(which)
         PROVE  RefreshInv'
    BY <2>12, BondCacheAssumption DEF ReadFails, bluedroid, bonds, List
  <2>. QED
    BY <2>2, <2>3, <2>4, <2>5, <2>6, <2>7, <2>8, <2>9, <2>10, <2>11, <2>12
       DEF Next, PresenceTask, Callback, PairingToggle, RemoveBond, Mac
<1>3. RefreshInv => CacheIsCurrent
  BY DEF RefreshInv, CacheIsCurrent
<1>. QED
  BY <1>1, <1>2, <1>3, SightingInvariant, BondCacheTypeCorrect, PTL DEF Spec
===============================================================================

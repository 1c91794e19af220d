----------------------------- MODULE DeviceRemoval -----------------------------
(***************************************************************************)
(* The life of a device from its pairing to its removal, across the four   *)
(* tasks that have a part in it: httpd (devices_delete_handler, in         *)
(* main/http/server.cpp), which asks for three things one after the other  *)
(* and answers OK whatever became of them; presence_task and the Bluedroid *)
(* callbacks (main/bt/manager.cpp), which unbond phones and report         *)
(* sightings; and sm_task (main/bt/sm_task.cpp), whose StateMachine keeps  *)
(* a slot for each device it has heard of.  The configurations are those   *)
(* of DeviceConfigs.                                                       *)
(*                                                                         *)
(* Of a slot only the configuration in it is kept (StateMachine has the    *)
(* rest), and of the bonds only which phones have one: the list in         *)
(* Bluedroid and the copies of it that BondCache tells apart are one here. *)
(* A Mac that is no Phone never comes near: the web server knows of it.    *)
(* There are as many slots as devices.                                     *)
(***************************************************************************)
EXTENDS DeviceConfigs, Sequences

CONSTANTS
  Phone, NoSlot,
  CmdQueueDepth,    \* length of s_bt_cmd_queue (4)
  QueueDepth        \* kQueueDepth (16)

ASSUME DeviceRemovalAssumption ==
  /\ CmdQueueDepth \in Nat \ {0} /\ QueueDepth \in Nat \ {0}
  /\ Phone \subseteq Mac
  /\ NoSlot \notin Config \cup {Absent, Outdated}

VARIABLES
  deleting,     \* the device devices_delete_handler is removing, or NoMac
  bonded,       \* the phones with a bond, which survives a restart
  peers,        \* the bond caches: the phones that are recognised or probed
  commands,     \* s_bt_cmd_queue: the phones to unbond
  probed,       \* the phone whose name is being asked for, or NoMac
  queue,        \* s_queue of sm_task
  slot,         \* the configuration in the slot of each device, or NoSlot
  young,        \* the clock of sm_task is still at 0
  stuck,        \* the slots that are detected with last_seen_ms = 0
  unheard       \* history: the devices whose removal sm_task has never been told of

slotVars    == <<slot, young, stuck>>
removalVars == <<deleting, bonded, peers, commands, probed, queue, slotVars, unheard>>
allVars     == <<vars, removalVars>>

Message == [type : {"Feed", "RemoveDevice"}, mac : Mac]

RemovalTypeOK ==
  /\ TypeOK
  /\ deleting \in Mac \cup {NoMac}
  /\ bonded \subseteq Phone /\ peers \subseteq Phone /\ unheard \subseteq Phone
  /\ commands \in Seq(Mac) /\ Len(commands) <= CmdQueueDepth
  /\ probed \in Phone \cup {NoMac}
  /\ queue \in Seq(Message) /\ Len(queue) <= QueueDepth
  /\ slot \in [Phone -> Setting \cup {NoSlot}]
  /\ young \in BOOLEAN /\ stuck \subseteq Mac

\* xQueueSend with no timeout: what finds the queue full is dropped.
Sent(q, depth, message) == IF Len(q) < depth THEN Append(q, message) ELSE q

-------------------------------------------------------------------------------
\* httpd, one request at a time.

\* devices_config_handler, whose body DeviceConfigs has.
ConfigRequest(m, config) ==
  /\ deleting = NoMac /\ Request(m, config)
  /\ UNCHANGED removalVars

\* devices_delete_handler: bt_remove_bond posts a command, and device_config_delete
\* follows.
DeleteRequest(m) ==
  /\ deleting = NoMac /\ deleting' = m
  /\ commands' = Sent(commands, CmdQueueDepth, m)
  /\ Request(m, Absent)
  /\ UNCHANGED <<bonded, peers, probed, queue, slotVars, unheard>>

\* Mutant: sm_task is told before the configuration is deleted.
SlotRemoval_Early ==
  /\ deleting # NoMac /\ pc = "cache"
  /\ deleting' = NoMac
  /\ queue' = Sent(queue, QueueDepth, [type |-> "RemoveDevice", mac |-> deleting])
  /\ unheard' = IF Len(queue) < QueueDepth THEN unheard ELSE unheard \cup (Phone \cap {deleting})
  /\ UNCHANGED <<vars, bonded, peers, commands, probed, slotVars>>

\* Then sm_remove_device_queue_send, and the answer.
SlotRemoval ==
  /\ deleting # NoMac /\ pc = "idle"
  /\ deleting' = NoMac
  /\ queue' = Sent(queue, QueueDepth, [type |-> "RemoveDevice", mac |-> deleting])
  /\ unheard' = IF Len(queue) < QueueDepth THEN unheard ELSE unheard \cup (Phone \cap {deleting})
  /\ UNCHANGED <<vars, bonded, peers, commands, probed, slotVars>>

HandleConfig == Handle /\ UNCHANGED removalVars

-------------------------------------------------------------------------------
\* The Bluetooth manager.

Bonding(phones) == bonded' = phones /\ peers' = phones

\* A phone is paired; the callback refreshes the caches.
Pair(m) ==
  /\ m \notin bonded
  /\ Bonding(bonded \cup {m})
  /\ UNCHANGED <<vars, deleting, commands, probed, queue, slotVars, unheard>>

\* Mutant: the caches are not refreshed.
RemoveBond_NoRefresh ==
  /\ commands # << >>
  /\ commands' = Tail(commands)
  /\ bonded' = bonded \ {Head(commands)}
  /\ UNCHANGED <<vars, deleting, peers, probed, queue, slotVars, unheard>>

\* presence_task unbonds the phone and refreshes the caches.
RemoveBond ==
  /\ commands # << >>
  /\ commands' = Tail(commands)
  /\ Bonding(bonded \ {Head(commands)})
  /\ UNCHANGED <<vars, deleting, probed, queue, slotVars, unheard>>

SendFeed(m) == queue' = Sent(queue, QueueDepth, [type |-> "Feed", mac |-> m])

\* An advertisement is recognised as that of a BLE peer.
BleSighting(m) ==
  /\ m \in peers
  /\ SendFeed(m)
  /\ UNCHANGED <<vars, deleting, bonded, peers, commands, probed, slotVars, unheard>>

\* maybe_start_classic_probe, and some seconds later the answer, if any: it is
\* passed on without another look at the cache.
StartProbe(m) ==
  /\ probed = NoMac /\ m \in peers
  /\ probed' = m
  /\ UNCHANGED <<vars, deleting, bonded, peers, commands, queue, slotVars, unheard>>

ProbeEnds ==
  /\ probed # NoMac /\ probed' = NoMac
  /\ SendFeed(probed) \/ UNCHANGED queue
  /\ UNCHANGED <<vars, deleting, bonded, peers, commands, slotVars, unheard>>

-------------------------------------------------------------------------------
\* sm_task.

\* A sighting injects the device's configuration as the cache has it now, into a
\* new slot where there is none.  While the clock is at 0 it may, with others, have the
\* device detected and last seen at 0.
HandleFeed ==
  /\ queue # << >> /\ Head(queue).type = "Feed"
  /\ queue' = Tail(queue)
  /\ LET m == Head(queue).mac
     IN  /\ slot' = [slot EXCEPT ![m] = Get(m)] /\ unheard' = unheard \ {m}
         /\ stuck' \in IF young THEN {stuck, stuck \cup {m}} ELSE {stuck \ {m}}
  /\ UNCHANGED <<vars, deleting, bonded, peers, commands, probed, young>>

HandleRemove ==
  /\ queue # << >> /\ Head(queue).type = "RemoveDevice"
  /\ queue' = Tail(queue)
  /\ LET m == Head(queue).mac
     IN  /\ slot' = [p \in Phone |-> IF p = m THEN NoSlot ELSE slot[p]]
         /\ stuck' = stuck \ {m} /\ unheard' = unheard \ {m}
  /\ UNCHANGED <<vars, deleting, bonded, peers, commands, probed, young>>

\* The first tick with no pairing window open for which the clock moves.
ClockStarts ==
  /\ young /\ young' = FALSE
  /\ UNCHANGED <<vars, deleting, bonded, peers, commands, probed, queue, slot, stuck, unheard>>

\* A device that has been silent for 24 hours loses its slot (cleanup_stale), unless it is
\* detected still: tick times out no slot with last_seen_ms = 0.  No sighting of it has
\* been waiting that long.
Expire(m) ==
  /\ ~young /\ slot[m] # NoSlot /\ m \notin stuck
  /\ probed # m /\ \A i \in DOMAIN queue : queue[i].mac # m
  /\ slot' = [slot EXCEPT ![m] = NoSlot]
  /\ unheard' = unheard \ {m}
  /\ UNCHANGED <<vars, deleting, bonded, peers, commands, probed, queue, young, stuck>>

SmTask == HandleFeed \/ HandleRemove

-------------------------------------------------------------------------------
\* What the start of sm_task makes of the configurations that were loaded.
Preload == [m \in Phone |-> IF Get(m) = Absent THEN NoSlot ELSE Get(m)]

\* The queues are lost, the bonds are not.
Reboot ==
  /\ Restart
  /\ deleting' = NoMac /\ commands' = << >> /\ queue' = << >>
  /\ probed' = NoMac /\ unheard' = {}
  /\ Bonding(bonded)
  /\ slot' = Preload' /\ young' = TRUE /\ stuck' = {}

RemovalInit ==
  /\ Init
  /\ deleting = NoMac /\ commands = << >> /\ queue = << >>
  /\ probed = NoMac /\ unheard = {}
  /\ bonded \in SUBSET Phone /\ peers = bonded
  /\ slot = Preload /\ young = TRUE /\ stuck = {}

Httpd ==
  \/ \E m \in Mac : DeleteRequest(m) \/ \E config \in Config : ConfigRequest(m, config)
  \/ HandleConfig \/ SlotRemoval

RemovalNext ==
  \/ Httpd
  \/ \E m \in Phone : Pair(m) \/ BleSighting(m) \/ StartProbe(m) \/ Expire(m)
  \/ RemoveBond \/ ProbeEnds
  \/ SmTask \/ ClockStarts
  \/ Reboot

RemovalSpec == RemovalInit /\ [][RemovalNext]_allVars

\* sm_task runs while there is something in its queue, probes end, pairing windows are
\* closed and days pass; nobody owes the system a request or a sighting.
RemovalFairness ==
  /\ WF_allVars(ProbeEnds)
  /\ WF_allVars(SmTask) /\ WF_allVars(ClockStarts)
  /\ \A m \in Phone : WF_allVars(Expire(m))

FairSpec == RemovalSpec /\ RemovalFairness

-------------------------------------------------------------------------------
\* A deleted configuration is nowhere in use: when a device has none, and no step
\* of its deletion is left, its slot has the default one or is gone, whatever
\* sightings were under way.  Only a removal that found the queue full, which the
\* handler does not notice, leaves the old thresholds in force, until the next
\* sighting (devices_delete_handler: the configuration goes before the slot).
DeletedConfigIsUnused ==
  \A m \in Phone :
    \/ Get(m) # Absent \/ slot[m] \in {NoSlot, Absent}
    \/ deleting = m
    \/ \E i \in DOMAIN queue : queue[i] = [type |-> "RemoveDevice", mac |-> m]
    \/ m \in unheard

\* A phone that has neither a bond nor a configuration any more leaves no ghost: a
\* late sighting may give it a slot again after the removal of the old one, and a
\* removal may be lost, but in the end the slot is gone for good, unless the phone was
\* seen in the first ticks only and is detected ever since
\* (devices_delete_handler, and cleanup_stale where that came too early).
ForgottenInTheEnd ==
  \A m \in Phone :
    <>[](m \notin bonded /\ Get(m) = Absent /\ m \notin stuck) => <>[](slot[m] = NoSlot)
===============================================================================

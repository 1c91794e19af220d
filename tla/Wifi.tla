--------------------------------- MODULE Wifi ---------------------------------
(***************************************************************************)
(* Wi-Fi (main/wifi/wifi.cpp).  main calls wifi_start once: it waits at    *)
(* most 15 s for the stored network and falls back to an access point of   *)
(* its own.  The event handler runs in the task of the system's event      *)
(* loop, before main's back and after wifi_start has returned; what it     *)
(* does with a lost link depends on whether main's event group is there.   *)
(*                                                                         *)
(* The driver, the network and the queue of the event loop are external.   *)
(***************************************************************************)
EXTENDS Naturals, Sequences

CONSTANTS MaxRetries    \* kMaxRetries (5)

ASSUME WifiAssumption == MaxRetries \in Nat

VARIABLES
  wifi_pc,        \* the call wifi_start is about to make, or the mode it returned
  event_group,    \* s_event_group
  bits,           \* the bits of the latest group, also of one that is gone
  got,            \* the local bits of try_sta
  retry_count,    \* s_retry_count
  keys,           \* which keys of namespace "net" the NVS holds
  link,           \* the driver's station interface
  events,         \* events the loop has not delivered yet
  reachable       \* the network is there and accepts the credentials

mainVars   == <<wifi_pc, event_group, bits, got, retry_count>>
driverVars == <<link, events>>
wifiVars   == <<mainVars, driverVars, keys, reachable>>

Mode == {"STA", "SoftAP"}

WifiTypeOK ==
  /\ wifi_pc \in Mode \cup {"off", "try", "wait", "delete", "clear", "stop", "softap"}
  /\ event_group \in {"null", "live", "deleted"}
  /\ bits \subseteq {"CONNECTED", "FAIL"} /\ got \subseteq bits
  /\ retry_count \in 0 .. MaxRetries
  /\ keys \subseteq {"ssid", "pass"}
  /\ link \in {"stopped", "idle", "connecting", "up"}
  /\ events \in Seq({"DISCONNECTED", "GOT_IP"}) /\ Len(events) <= 2
  /\ reachable \in BOOLEAN

\* What is in RAM when the chip starts.
WifiReset ==
  /\ wifi_pc' = "off" /\ event_group' = "null" /\ bits' = {} /\ got' = {}
  /\ retry_count' = 0 /\ link' = "stopped" /\ events' = << >>

WifiInit ==
  /\ wifi_pc = "off" /\ event_group = "null" /\ bits = {} /\ got = {}
  /\ retry_count = 0 /\ link = "stopped" /\ events = << >>
  /\ keys \in SUBSET {"ssid", "pass"} /\ reachable \in BOOLEAN

-------------------------------------------------------------------------------
\* wifi_start, call by call.

\* load_credentials_from_nvs needs both keys.
LoadCredentials ==
  /\ wifi_pc = "off"
  /\ wifi_pc' = IF keys = {"ssid", "pass"} THEN "try" ELSE "softap"
  /\ UNCHANGED <<event_group, bits, got, retry_count, driverVars, keys, reachable>>

\* try_sta up to esp_wifi_connect, which may refuse.
TryConnect ==
  /\ wifi_pc = "try"
  /\ retry_count' = 0 /\ bits' = {}
  /\ \/ event_group' = "live" /\ link' = "connecting" /\ wifi_pc' = "wait"
     \/ event_group' = "null" /\ link' = "stopped" /\ wifi_pc' = "softap"
  /\ UNCHANGED <<got, events, keys, reachable>>

\* xEventGroupWaitBits returns with a bit, or without one after kStaTimeoutMs.
Wait ==
  /\ wifi_pc = "wait"
  /\ got' = bits /\ wifi_pc' = "delete"
  /\ UNCHANGED <<event_group, bits, retry_count, driverVars, keys, reachable>>

Delete ==
  /\ wifi_pc = "delete"
  /\ event_group' = "deleted" /\ wifi_pc' = "clear"
  /\ UNCHANGED <<bits, got, retry_count, driverVars, keys, reachable>>

Clear ==
  /\ wifi_pc = "clear"
  /\ event_group' = "null" /\ got' = {}
  /\ wifi_pc' = IF "CONNECTED" \in got THEN "STA" ELSE "stop"
  /\ UNCHANGED <<bits, retry_count, driverVars, keys, reachable>>

\* esp_wifi_disconnect and esp_wifi_stop; a link that was there is reported lost.
Stop ==
  /\ wifi_pc = "stop"
  /\ link' = "stopped"
  /\ events' = IF link \in {"connecting", "up"} THEN Append(events, "DISCONNECTED")
                                                ELSE events
  /\ wifi_pc' = "softap"
  /\ UNCHANGED <<event_group, bits, got, retry_count, keys, reachable>>

StartSoftAp ==
  /\ wifi_pc = "softap"
  /\ wifi_pc' = "SoftAP"
  /\ UNCHANGED <<event_group, bits, got, retry_count, driverVars, keys, reachable>>

WifiStart ==
  LoadCredentials \/ TryConnect \/ Wait \/ Delete \/ Clear \/ Stop \/ StartSoftAp

-------------------------------------------------------------------------------
\* event_handler.

\* esp_wifi_connect; it does nothing unless the station has been started.
Connect == link' = IF link = "idle" THEN "connecting" ELSE link

\* Mutant: a link that is lost in operation is not connected again.
OnDisconnected_OnlyAtStart ==
  IF event_group # "null" /\ retry_count < MaxRetries
  THEN retry_count' = retry_count + 1 /\ Connect /\ UNCHANGED bits
  ELSE UNCHANGED <<bits, retry_count, link>>

\* Mutant: one retry too many.
OnDisconnected_OffByOne ==
  IF event_group = "null"
  THEN Connect /\ UNCHANGED <<bits, retry_count>>
  ELSE IF retry_count <= MaxRetries
  THEN retry_count' = retry_count + 1 /\ Connect /\ UNCHANGED bits
  ELSE bits' = bits \cup {"FAIL"} /\ UNCHANGED <<retry_count, link>>

\* Until main has cleared its group a lost link is a failed attempt, after that
\* a link to be restored.  Setting a bit of a deleted group writes to freed
\* memory: the chip may go on (as here) or panic (in Boot).
OnDisconnected ==
  IF event_group = "null"
  THEN Connect /\ UNCHANGED <<bits, retry_count>>
  ELSE IF retry_count < MaxRetries
  THEN retry_count' = retry_count + 1 /\ Connect /\ UNCHANGED bits
  ELSE bits' = bits \cup {"FAIL"} /\ UNCHANGED <<retry_count, link>>

OnGotIp ==
  /\ bits' = IF event_group = "null" THEN bits ELSE bits \cup {"CONNECTED"}
  /\ UNCHANGED <<retry_count, link>>

EventHandler ==
  /\ events # << >>
  /\ events' = Tail(events)
  /\ IF Head(events) = "DISCONNECTED" THEN OnDisconnected ELSE OnGotIp
  /\ UNCHANGED <<wifi_pc, event_group, got, keys, reachable>>

-------------------------------------------------------------------------------
\* The driver and the network.

Associate ==
  /\ link = "connecting" /\ reachable
  /\ link' = "up" /\ events' = Append(events, "GOT_IP")
  /\ UNCHANGED <<mainVars, keys, reachable>>

LoseLink ==
  /\ link \in {"connecting", "up"} /\ ~reachable
  /\ link' = "idle" /\ events' = Append(events, "DISCONNECTED")
  /\ UNCHANGED <<mainVars, keys, reachable>>

NetworkChanges ==
  /\ reachable' = ~reachable
  /\ UNCHANGED <<mainVars, driverVars, keys>>

-------------------------------------------------------------------------------
\* The handler has taken the loss of an established link for a failed attempt:
\* main goes on as a station, and nobody connects again.
Deaf == {"CONNECTED", "FAIL"} \subseteq bits

\* A link lost in operation is restored when the network is back (event_handler:
\* reconnects by itself), and main is never left without one for good.
LinkComesBack ==
  <>[](wifi_pc = "STA" /\ reachable /\ ~Deaf) => <>[](link = "up")
===============================================================================

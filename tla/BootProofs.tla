------------------------------ MODULE BootProofs ------------------------------
(***************************************************************************)
(* What Boot, with Wifi and Firmware, keeps for every threshold of panics, *)
(* every width of their counter and every number of retries.               *)
(***************************************************************************)
EXTENDS Boot, SequenceTheorems, TLAPS

\* The positions in Program that matter.
LEMMA ProgramPositions ==
  ASSUME main_pc \in 1 .. Len(Program)
  PROVE  /\ Len(Program) = 19
         /\ At("nvs_flash_init") <=> main_pc = 1
         /\ At("check_safe_mode") <=> main_pc = 2
         /\ At("wifi_start") <=> main_pc = 5
         /\ At("controlQueue") <=> main_pc = 11
         /\ At("ready") <=> main_pc = 19
         /\ Past("check_safe_mode") <=> main_pc > 2
         /\ Past("httpd") <=> main_pc > 10
         /\ Past("sm") <=> main_pc > 15
         /\ Past("panic_timer") <=> main_pc > 18
<1>1. Len(Program) = 19
  BY DEF Program
<1>2. main_pc \in 1 .. 19
  BY <1>1
<1>3. \A i \in 1 .. 19 :
        /\ Program[i] = "nvs_flash_init" <=> i = 1
        /\ Program[i] = "check_safe_mode" <=> i = 2
        /\ Program[i] = "wifi_start" <=> i = 5
        /\ Program[i] = "httpd" <=> i = 10
        /\ Program[i] = "controlQueue" <=> i = 11
        /\ Program[i] = "sm" <=> i = 15
        /\ Program[i] = "panic_timer" <=> i = 18
        /\ Program[i] = "ready" <=> i = 19
  BY DEF Program
<1>4. 1 .. (main_pc - 1) \subseteq 1 .. 19
  BY <1>2
<1>5. /\ At("nvs_flash_init") <=> main_pc = 1
      /\ At("check_safe_mode") <=> main_pc = 2
      /\ At("wifi_start") <=> main_pc = 5
      /\ At("controlQueue") <=> main_pc = 11
      /\ At("ready") <=> main_pc = 19
  BY <1>2, <1>3 DEF At
<1>6. ASSUME NEW s, NEW k \in 1 .. 19, \A i \in 1 .. 19 : Program[i] = s <=> i = k
      PROVE  Past(s) <=> main_pc > k
  <2>1. CASE main_pc > k
    <3>1. k \in 1 .. (main_pc - 1)
      BY <2>1, <1>2
    <3>2. Program[k] = s
      BY <1>6
    <3> QED BY <2>1, <3>1, <3>2 DEF Past
  <2>2. CASE ~(main_pc > k)
    <3>1. k \notin 1 .. (main_pc - 1)
      BY <2>2, <1>2
    <3> QED BY <2>2, <3>1, <1>4, <1>6 DEF Past
  <2> QED BY <2>1, <2>2
<1>7. /\ 2 \in 1 .. 19 /\ 10 \in 1 .. 19 /\ 15 \in 1 .. 19 /\ 18 \in 1 .. 19
  OBVIOUS
<1>8. Past("check_safe_mode") <=> main_pc > 2
  <2>1. \A i \in 1 .. 19 : Program[i] = "check_safe_mode" <=> i = 2
    BY <1>3
  <2> QED BY <2>1, <1>6, <1>7
<1>9. Past("httpd") <=> main_pc > 10
  <2>1. \A i \in 1 .. 19 : Program[i] = "httpd" <=> i = 10
    BY <1>3
  <2> QED BY <2>1, <1>6, <1>7
<1>10. Past("sm") <=> main_pc > 15
  <2>1. \A i \in 1 .. 19 : Program[i] = "sm" <=> i = 15
    BY <1>3
  <2> QED BY <2>1, <1>6, <1>7
<1>11. Past("panic_timer") <=> main_pc > 18
  <2>1. \A i \in 1 .. 19 : Program[i] = "panic_timer" <=> i = 18
    BY <1>3
  <2> QED BY <2>1, <1>6, <1>7
<1> QED BY <1>1, <1>5, <1>8, <1>9, <1>10, <1>11

LEMMA Modulo ==
  ASSUME NEW n \in Nat, NEW k \in Nat \ {0}
  PROVE  /\ n % k \in 0 .. (k - 1)
         /\ n < k => n % k = n
OBVIOUS

LEMMA OneTwo ==
  ASSUME NEW a, NEW b
  PROVE  /\ Append(<< >>, a) = <<a>> /\ Append(<<a>>, b) = <<a, b>>
         /\ Tail(<<a>>) = << >> /\ Tail(<<a, b>>) = <<b>>
         /\ Head(<<a>>) = a /\ Head(<<a, b>>) = a
         /\ Len(<< >>) = 0 /\ Len(<<a>>) = 1 /\ Len(<<a, b>>) = 2
<1>1. Append(<< >>, a) = <<a>>
  OBVIOUS
<1>2. Append(<<a>>, b) = <<a, b>>
  <2>1. <<a>> \in Seq({a, b}) /\ <<a, b>> \in Seq({a, b})
    OBVIOUS
  <2>2. Append(<<a>>, b) \in Seq({a, b})
    BY <2>1
  <2>3. /\ Len(Append(<<a>>, b)) = 2 /\ Len(<<a, b>>) = 2
        /\ Append(<<a>>, b)[1] = <<a, b>>[1] /\ Append(<<a>>, b)[2] = <<a, b>>[2]
    BY <2>1
  <2>4. \A i \in 1 .. 2 : i = 1 \/ i = 2
    OBVIOUS
  <2>5. \A i \in 1 .. Len(Append(<<a>>, b)) : Append(<<a>>, b)[i] = <<a, b>>[i]
    BY <2>3, <2>4
  <2> QED BY <2>1, <2>2, <2>3, <2>5, SeqEqual
<1>3. Tail(<<a>>) = << >>
  OBVIOUS
<1>4. Tail(<<a, b>>) = <<b>>
  OBVIOUS
<1>5. Head(<<a>>) = a /\ Head(<<a, b>>) = a
  OBVIOUS
<1>6. Len(<< >>) = 0 /\ Len(<<a>>) = 1 /\ Len(<<a, b>>) = 2
  OBVIOUS
<1> QED BY <1>1, <1>2, <1>3, <1>4, <1>5, <1>6

-------------------------------------------------------------------------------
(***************************************************************************)
(* The invariant, part by part.                                            *)
(***************************************************************************)

\* The events that may be waiting: at most one of each kind.
GotIp         == <<"GOT_IP">>
Lost          == <<"DISCONNECTED">>
GotIpThenLost == <<"GOT_IP", "DISCONNECTED">>

Waiting == {<< >>, GotIp, Lost, GotIpThenLost}

LEMMA WaitingEvents ==
  /\ Append(<< >>, "GOT_IP") = GotIp /\ Append(<< >>, "DISCONNECTED") = Lost
  /\ Append(GotIp, "DISCONNECTED") = GotIpThenLost
  /\ GotIp # << >> /\ Head(GotIp) = "GOT_IP" /\ Tail(GotIp) = << >>
  /\ Lost # << >> /\ Head(Lost) = "DISCONNECTED" /\ Tail(Lost) = << >>
  /\ GotIpThenLost # << >> /\ Head(GotIpThenLost) = "GOT_IP" /\ Tail(GotIpThenLost) = Lost
<1>1. /\ Append(<< >>, "GOT_IP") = GotIp /\ Append(<< >>, "DISCONNECTED") = Lost
      /\ Append(GotIp, "DISCONNECTED") = GotIpThenLost
  BY OneTwo DEF GotIp, Lost, GotIpThenLost
<1>2. GotIp # << >> /\ Head(GotIp) = "GOT_IP" /\ Tail(GotIp) = << >>
  BY DEF GotIp
<1>3. Lost # << >> /\ Head(Lost) = "DISCONNECTED" /\ Tail(Lost) = << >>
  BY DEF Lost
<1>4. GotIpThenLost # << >> /\ Head(GotIpThenLost) = "GOT_IP"
  BY DEF GotIpThenLost
<1>5. Tail(GotIpThenLost) = Lost
  BY OneTwo DEF GotIpThenLost, Lost
<1> QED BY <1>1, <1>2, <1>3, <1>4, <1>5

LEMMA WaitingType ==
  ASSUME NEW q \in Waiting
  PROVE  q \in Seq({"DISCONNECTED", "GOT_IP"}) /\ Len(q) <= 2
<1>1. CASE q = << >>
  BY <1>1
<1>2. CASE q = GotIp
  BY <1>2 DEF GotIp
<1>3. CASE q = Lost
  BY <1>3 DEF Lost
<1>4. CASE q = GotIpThenLost
  BY <1>4 DEF GotIpThenLost
<1> QED BY <1>1, <1>2, <1>3, <1>4 DEF Waiting

\* At most one event of each kind waits, the loss of a link after its address, and
\* none while a connection is being made: the handler or main has asked for it.
WifiInv ==
  /\ WifiTypeOK
  /\ wifi_pc \in {"off", "try"} => got = {} /\ link = "stopped" /\ events = << >>
  /\ events \in Waiting
  /\ link = "connecting" => events = << >>
  /\ link = "up" => events \in {<< >>, GotIp}

\* What was answered with OK is verified and is what will be started.
FirmwareInv ==
  /\ FirmwareTypeOK
  /\ httpd_pc \in {"idle", "savePass", "begin", "receive", "end", "setBoot", "release",
                   "cleanup", "schedule"}
  /\ SomethingBoots
  /\ httpd_pc = "setBoot" => image[UpdateSlot] = "whole"
  /\ promised # None => boot_slot = promised /\ image[promised] = "whole"

MainTypes ==
  /\ main_pc \in 1 .. 19
  /\ reset_reason \in {"panic", "other"}
  /\ panic_count \in 0 .. (CountMod - 1) /\ streak \in 0 .. CountMod
  /\ safe_mode \in BOOLEAN /\ restart_pending \in BOOLEAN /\ trouble \in BOOLEAN

\* Safe mode stops main half-way.
SafeModeStops == safe_mode => main_pc \in 3 .. 11

\* The counter in the NVS follows the panics, one behind them until main has counted
\* the one that led to this start; nothing is known of it once it has wrapped.
CounterFollows ==
  ~trouble /\ streak < CountMod =>
    /\ main_pc > 2 => panic_count = streak /\ (safe_mode <=> streak >= PanicThreshold)
    /\ main_pc <= 2 /\ reset_reason = "panic" => streak = panic_count + 1

MainInv == MainTypes /\ SafeModeStops /\ CounterFollows

BootInv == WifiInv /\ FirmwareInv /\ MainInv

-------------------------------------------------------------------------------
\* Wi-Fi: main's calls, the event handler, the driver and the network.
WifiStep ==
  \/ WifiStart \/ EventHandler \/ Associate \/ LoseLink \/ NetworkChanges
  \/ WifiReset /\ UNCHANGED <<keys, reachable>>
  \/ keys' \subseteq {"ssid", "pass"} /\ UNCHANGED <<mainVars, driverVars, reachable>>

LEMMA WifiKept ==
  ASSUME WifiInv, WifiStep
  PROVE  WifiInv'
<1> USE DEF WifiInv, WifiTypeOK, mainVars, driverVars, Mode, Waiting
<1>1. CASE LoadCredentials
  BY <1>1 DEF LoadCredentials
<1>2. CASE TryConnect
  BY <1>2, WifiAssumption DEF TryConnect
<1>3. CASE Wait
  BY <1>3 DEF Wait
<1>4. CASE Delete
  BY <1>4 DEF Delete
<1>5. CASE Clear
  BY <1>5 DEF Clear
<1>6. CASE Stop
  <2>1. events' \in Waiting
    BY <1>6, WaitingEvents DEF Stop
  <2> QED BY <1>6, <2>1, WaitingType DEF Stop
<1>7. CASE StartSoftAp
  BY <1>7 DEF StartSoftAp
<1>8. CASE EventHandler
  <2>1. \/ events = GotIp /\ events' = << >> /\ OnGotIp
        \/ events = Lost /\ events' = << >> /\ OnDisconnected
        \/ events = GotIpThenLost /\ events' = Lost /\ OnGotIp
    BY <1>8, WaitingEvents DEF EventHandler
  <2>2. /\ UNCHANGED <<wifi_pc, event_group, got, keys, reachable>>
        /\ wifi_pc \notin {"off", "try"}
    BY <1>8 DEF EventHandler
  <2>3. events' \in Waiting /\ events' \in Seq({"DISCONNECTED", "GOT_IP"}) /\ Len(events') <= 2
    BY <2>1, WaitingType
  <2>4. link # "connecting" /\ (link = "up" => events = GotIp)
    BY <2>1, WaitingEvents
  <2>5. CASE events = GotIp /\ events' = << >> /\ OnGotIp
    BY <2>2, <2>3, <2>5 DEF OnGotIp
  <2>6. CASE events = GotIpThenLost /\ events' = Lost /\ OnGotIp
    <3>1. link # "up"
      BY <2>4, <2>6, WaitingEvents
    <3> QED BY <2>2, <2>3, <2>4, <2>6, <3>1 DEF OnGotIp
  <2>7. CASE events = Lost /\ events' = << >> /\ OnDisconnected
    <3>1. bits' \subseteq {"CONNECTED", "FAIL"} /\ bits \subseteq bits'
      BY <2>7 DEF OnDisconnected, Connect
    <3>2. retry_count' \in 0 .. MaxRetries
      BY <2>7, WifiAssumption DEF OnDisconnected, Connect
    <3>3. link # "up" /\ link' \in {link, "connecting"}
      BY <2>4, <2>7, WaitingEvents DEF OnDisconnected, Connect
    <3> QED BY <2>2, <2>3, <2>4, <2>7, <3>1, <3>2, <3>3
  <2> QED BY <2>1, <2>5, <2>6, <2>7
<1>9. CASE Associate
  <2>1. link = "connecting" /\ link' = "up" /\ events' = GotIp
    BY <1>9, WaitingEvents DEF Associate
  <2> QED BY <1>9, <2>1, WaitingType DEF Associate
<1>10. CASE LoseLink
  <2>1. events' \in {Lost, GotIpThenLost}
    BY <1>10, WaitingEvents DEF LoseLink
  <2> QED BY <1>10, <2>1, WaitingType DEF LoseLink
<1>11. CASE NetworkChanges
  BY <1>11 DEF NetworkChanges
<1>12. CASE WifiReset /\ UNCHANGED <<keys, reachable>>
  BY <1>12, WaitingType, WifiAssumption DEF WifiReset
<1>13. CASE keys' \subseteq {"ssid", "pass"} /\ UNCHANGED <<mainVars, driverVars, reachable>>
  BY <1>13
<1> QED BY <1>1, <1>2, <1>3, <1>4, <1>5, <1>6, <1>7, <1>8, <1>9, <1>10, <1>11, <1>12, <1>13
        DEF WifiStep, WifiStart

-------------------------------------------------------------------------------
\* Firmware: httpd's upload, the bootloader, and what else httpd does.
FirmwareStep ==
  \/ Claim \/ UploadStep \/ Bootloader
  \/ /\ httpd_pc' = httpd_pc \/ httpd_pc' \in {"idle", "savePass", "schedule"}
     /\ UNCHANGED <<upload_in_progress, session, flashVars>>

LEMMA FirmwareKept ==
  ASSUME FirmwareInv, FirmwareStep
  PROVE  FirmwareInv'
<1> USE DEF FirmwareInv, FirmwareTypeOK, SomethingBoots, UpdateSlot, Slot, None, flashVars
<1>1. UpdateSlot \in Slot /\ UpdateSlot # running
  OBVIOUS
<1>2. CASE UNCHANGED flashVars /\ httpd_pc' # "setBoot"
           /\ (upload_in_progress' \in BOOLEAN /\ session' \in BOOLEAN)
           /\ httpd_pc' \in {"idle", "savePass", "begin", "receive", "end", "setBoot", "release",
                             "cleanup", "schedule"}
  BY <1>2
<1>3. CASE Claim \/ Receive \/ Release \/ Cleanup
  BY <1>2, <1>3 DEF Claim, Receive, Release, Cleanup
<1>4. CASE BeginFails
  BY <1>1, <1>4 DEF BeginFails
<1>5. CASE Begin
  BY <1>1, <1>5 DEF Begin
<1>6. CASE End
  BY <1>1, <1>6 DEF End
<1>7. CASE SetBootPartition
  BY <1>1, <1>7 DEF SetBootPartition
<1>8. CASE Bootloader
  <2>1. running' \in Slot /\ image[running'] = "whole"
    BY <1>8 DEF Bootloader
  <2> QED BY <1>8, <2>1 DEF Bootloader
<1>9. CASE /\ httpd_pc' = httpd_pc \/ httpd_pc' \in {"idle", "savePass", "schedule"}
           /\ UNCHANGED <<upload_in_progress, session, flashVars>>
  BY <1>9
<1> QED BY <1>3, <1>4, <1>5, <1>6, <1>7, <1>8, <1>9 DEF FirmwareStep, UploadStep

-------------------------------------------------------------------------------
\* Every step is one of these for Wi-Fi and for the firmware.
LEMMA PartsOfStep ==
  ASSUME WifiInv, [Next]_vars
  PROVE  WifiStep /\ FirmwareStep
<1> USE DEF WifiStep, FirmwareStep
<1>1. keys \subseteq {"ssid", "pass"}
  BY DEF WifiInv, WifiTypeOK
<1>2. CASE UNCHANGED <<wifiVars, firmwareVars>>
  BY <1>1, <1>2 DEF wifiVars, firmwareVars, uploadVars
<1>3. CASE NvsFlashErase
  BY <1>3 DEF NvsFlashErase, firmwareVars, uploadVars
<1>4. CASE CheckSafeMode \/ CheckWithoutNvs \/ Create \/ ResetPanicCounter
  BY <1>2, <1>4 DEF CheckSafeMode, CheckWithoutNvs, Create, ResetPanicCounter
<1>5. CASE CallWifiStart
  BY <1>5 DEF CallWifiStart, firmwareVars, uploadVars
<1>6. CASE SaveSsid
  BY <1>1, <1>6 DEF SaveSsid
<1>7. CASE SavePass
  BY <1>1, <1>7 DEF SavePass
<1>8. CASE ScheduleRestart
  BY <1>1, <1>8 DEF ScheduleRestart, wifiVars
<1>9. CASE Upload
  BY <1>1, <1>9 DEF Upload, wifiVars
<1>10. CASE System
  BY <1>10 DEF System, firmwareVars, uploadVars
<1>11. ASSUME NEW reason, Reset(reason)
       PROVE  WifiStep /\ FirmwareStep
  BY <1>11 DEF Reset
<1>12. CASE AppPanic \/ BasePanic \/ Restart \/ OtherReset
  BY <1>11, <1>12 DEF AppPanic, BasePanic, Panic, Restart, OtherReset
<1>13. CASE UNCHANGED vars
  BY <1>2, <1>13 DEF vars
<1> QED BY <1>3, <1>4, <1>5, <1>6, <1>7, <1>8, <1>9, <1>10, <1>12, <1>13
        DEF Next, AppMain, Httpd

-------------------------------------------------------------------------------
\* Main and the counter of panics.
LEMMA NewCountType ==
  ASSUME MainTypes
  PROVE  /\ NewCount \in 0 .. (CountMod - 1)
         /\ reset_reason = "panic" /\ panic_count + 1 < CountMod => NewCount = panic_count + 1
         /\ reset_reason # "panic" => NewCount = 0
<1>1. CountMod \in Nat \ {0} /\ panic_count + 1 \in Nat /\ 0 \in 0 .. (CountMod - 1)
  BY BootAssumption DEF MainTypes
<1>2. /\ (panic_count + 1) % CountMod \in 0 .. (CountMod - 1)
      /\ panic_count + 1 < CountMod => (panic_count + 1) % CountMod = panic_count + 1
  BY <1>1, Modulo
<1> QED BY <1>1, <1>2 DEF NewCount

LEMMA CheckKeeps ==
  ASSUME MainInv, main_pc = 2, CheckSafeMode
  PROVE  MainInv'
<1>1. /\ main_pc' = 3 /\ panic_count' = NewCount /\ safe_mode' = (NewCount >= PanicThreshold)
      /\ UNCHANGED <<reset_reason, restart_pending>>
  BY DEF CheckSafeMode, Go
<1>2. NewCount \in 0 .. (CountMod - 1)
  BY NewCountType DEF MainInv
<1>3. safe_mode' \in BOOLEAN /\ (safe_mode' <=> NewCount >= PanicThreshold)
  <2>1. (NewCount >= PanicThreshold) \in BOOLEAN
    OBVIOUS
  <2>2. safe_mode' \in BOOLEAN
    BY <1>1, <2>1, Zenon
  <2>3. safe_mode' => NewCount >= PanicThreshold
    BY <1>1, Zenon
  <2>4. NewCount >= PanicThreshold => safe_mode'
    BY <1>1, Zenon
  <2> QED BY <2>2, <2>3, <2>4
<1>4. CASE reset_reason = "panic"
  <2>1. UNCHANGED <<streak, trouble>>
    BY <1>4 DEF CheckSafeMode
  <2>2. MainTypes'
    BY <1>1, <1>2, <1>3, <2>1 DEF MainInv, MainTypes
  <2>3. ~trouble /\ streak < CountMod => NewCount = streak
    <3> SUFFICES ASSUME ~trouble, streak < CountMod
                 PROVE  NewCount = streak
      OBVIOUS
    <3>1. streak = panic_count + 1
      BY <1>4 DEF MainInv, CounterFollows
    <3> QED BY <3>1, <1>4, NewCountType DEF MainInv
  <2>4. CounterFollows'
    BY <1>1, <1>3, <2>1, <2>3 DEF CounterFollows
  <2> QED BY <1>1, <2>2, <2>4 DEF MainInv, SafeModeStops
<1>5. CASE reset_reason # "panic"
  <2>1. streak' = 0 /\ trouble' = FALSE
    BY <1>5 DEF CheckSafeMode, InStep
  <2>2. NewCount = 0
    BY <1>5, NewCountType DEF MainInv
  <2>3. MainTypes'
    <3>1. streak' \in 0 .. CountMod
      BY <2>1, BootAssumption
    <3>2. trouble' \in BOOLEAN
      BY <2>1, Zenon
    <3> QED BY <1>1, <1>2, <1>3, <3>1, <3>2 DEF MainInv, MainTypes
  <2>4. CounterFollows'
    BY <1>1, <1>3, <2>1, <2>2 DEF CounterFollows
  <2> QED BY <1>1, <2>3, <2>4 DEF MainInv, SafeModeStops
<1> QED BY <1>4, <1>5

LEMMA PanicKeeps ==
  ASSUME MainInv, Panic
  PROVE  MainInv'
<1>1. /\ main_pc' = 1 /\ reset_reason' = "panic" /\ safe_mode' = FALSE
      /\ restart_pending' = FALSE /\ panic_count' = panic_count
  BY DEF Panic, Reset
<1>2. main_pc' \in 1 .. 19 /\ safe_mode' \in BOOLEAN /\ restart_pending' \in BOOLEAN
  <2>1. main_pc' \in 1 .. 19
    BY <1>1
  <2>2. safe_mode' \in BOOLEAN /\ restart_pending' \in BOOLEAN
    BY <1>1, Zenon
  <2> QED BY <2>1, <2>2
<1>3. CASE trouble \/ ~Past("check_safe_mode")
  <2>1. streak' = 0 /\ trouble' = TRUE
    BY <1>3 DEF Panic, OutOfStep
  <2>2. streak' \in 0 .. CountMod /\ trouble' \in BOOLEAN
    BY <2>1, BootAssumption
  <2>3. MainTypes'
    BY <1>1, <1>2, <2>2 DEF MainInv, MainTypes
  <2> QED BY <1>1, <2>1, <2>3 DEF MainInv, SafeModeStops, CounterFollows
<1>4. CASE ~trouble /\ Past("check_safe_mode")
  <2>1. trouble' = trouble /\ streak' = IF streak < CountMod THEN streak + 1 ELSE streak
    BY <1>4 DEF Panic
  <2>2. main_pc > 2
    BY <1>4, ProgramPositions DEF MainInv, MainTypes, Program
  <2>3. streak \in 0 .. CountMod /\ CountMod \in Nat
    BY BootAssumption DEF MainInv, MainTypes
  <2>4. streak' \in 0 .. CountMod
    BY <2>1, <2>3
  <2>5. MainTypes'
    BY <1>1, <1>2, <2>1, <2>4 DEF MainInv, MainTypes
  <2>6. streak' < CountMod => streak' = panic_count + 1
    BY <1>4, <2>1, <2>2, <2>3 DEF MainInv, CounterFollows
  <2>7. CounterFollows'
    BY <1>1, <2>6 DEF CounterFollows
  <2> QED BY <1>1, <2>5, <2>7 DEF MainInv, SafeModeStops
<1> QED BY <1>3, <1>4

\* The steps after which the counter is known to be right, or not to be.
LEMMA CounterSettled ==
  ASSUME MainInv, main_pc' \in 1 .. 19, reset_reason' \in {"panic", "other"},
         panic_count' \in 0 .. (CountMod - 1), streak' = 0,
         safe_mode' \in BOOLEAN, restart_pending' \in BOOLEAN,
         safe_mode' => main_pc' \in 3 .. 11,
         trouble' = TRUE \/ (main_pc' > 2 /\ panic_count' = 0 /\ ~safe_mode' /\ trouble' = FALSE)
  PROVE  MainInv'
<1>1. streak' \in 0 .. CountMod
  BY BootAssumption
<1>2. trouble' \in BOOLEAN
  BY Zenon
<1>3. MainTypes'
  BY <1>1, <1>2 DEF MainTypes
<1>4. ~(streak' >= PanicThreshold)
  BY BootAssumption
<1>5. CASE trouble'
  BY <1>3, <1>5 DEF MainInv, SafeModeStops, CounterFollows
<1>6. CASE ~trouble'
  <2>1. main_pc' > 2 /\ panic_count' = 0 /\ ~safe_mode'
    BY <1>6, Zenon
  <2>2. ~(main_pc' <= 2)
    BY <2>1
  <2>3. CounterFollows'
    BY <1>4, <2>1, <2>2 DEF CounterFollows
  <2> QED BY <1>3, <2>3 DEF MainInv, SafeModeStops
<1> QED BY <1>5, <1>6

LEMMA MainKept ==
  ASSUME MainInv, [Next]_vars
  PROVE  MainInv'
<1>1. /\ main_pc \in 1 .. 19 /\ panic_count \in 0 .. (CountMod - 1)
      /\ safe_mode => main_pc \in 3 .. 11
      /\ reset_reason \in {"panic", "other"} /\ restart_pending \in BOOLEAN
  BY DEF MainInv, MainTypes, SafeModeStops
<1>2. /\ At("nvs_flash_init") <=> main_pc = 1
      /\ At("check_safe_mode") <=> main_pc = 2
      /\ At("controlQueue") <=> main_pc = 11
      /\ At("ready") <=> main_pc = 19
      /\ Past("panic_timer") <=> main_pc > 18
  BY <1>1, ProgramPositions DEF Program
<1>3. 0 \in 0 .. (CountMod - 1)
  BY BootAssumption
<1>4. CASE UNCHANGED bootVars
  BY <1>4 DEF bootVars, counters, MainInv, MainTypes, SafeModeStops, CounterFollows
<1>5. CASE NvsFlashErase
  <2>1. /\ main_pc' = 2 /\ ~safe_mode /\ safe_mode' = safe_mode
        /\ panic_count' = 0 /\ streak' = 0 /\ trouble' = TRUE
        /\ UNCHANGED <<reset_reason, restart_pending>>
    BY <1>1, <1>2, <1>5 DEF NvsFlashErase, Go, OutOfStep
  <2>2. safe_mode' \in BOOLEAN
    BY <2>1 DEF MainInv, MainTypes
  <2> QED BY <1>1, <1>3, <2>1, <2>2, CounterSettled
<1>6. CASE CheckSafeMode
  BY <1>2, <1>6, CheckKeeps DEF CheckSafeMode
<1>7. CASE CheckWithoutNvs
  <2>1. /\ main_pc' = 3 /\ streak' = 0 /\ trouble' = TRUE
        /\ UNCHANGED <<reset_reason, panic_count, restart_pending>>
    BY <1>2, <1>7 DEF CheckWithoutNvs, Go, OutOfStep
  <2>2. (NewCount >= PanicThreshold) \in BOOLEAN
    OBVIOUS
  <2>3. safe_mode' \in BOOLEAN
    BY <1>7, <2>2, Zenon DEF CheckWithoutNvs
  <2> QED BY <1>1, <2>1, <2>3, CounterSettled
<1>8. CASE Create
  <2>1. /\ main_pc' = main_pc + 1
        /\ UNCHANGED <<reset_reason, safe_mode, restart_pending, panic_count, streak, trouble>>
        /\ main_pc # 2
    BY <1>2, <1>8 DEF Create, Go, counters
  <2>2. safe_mode => main_pc # 11
    BY <1>2, <1>8 DEF Create, LastStep
  <2>3. ~safe_mode => main_pc # 19
    BY <1>2, <1>8 DEF Create, LastStep
  <2>4. main_pc' \in 1 .. 19 /\ (safe_mode => main_pc' \in 3 .. 11)
    BY <1>1, <2>1, <2>2, <2>3
  <2>5. (main_pc' > 2 <=> main_pc > 2) /\ (main_pc' <= 2 <=> main_pc <= 2)
    BY <1>1, <2>1
  <2>6. MainTypes' /\ SafeModeStops'
    BY <2>1, <2>4 DEF MainInv, MainTypes, SafeModeStops
  <2>7. CounterFollows'
    BY <2>1, <2>5 DEF MainInv, CounterFollows
  <2> QED BY <2>6, <2>7 DEF MainInv
<1>9. CASE ResetPanicCounter
  <2>1. main_pc > 18 /\ ~safe_mode
    BY <1>1, <1>2, <1>9 DEF ResetPanicCounter
  <2>2. /\ UNCHANGED <<main_pc, reset_reason, safe_mode, restart_pending>>
        /\ streak' = 0 /\ panic_count' \in {0, panic_count}
        /\ trouble' = TRUE \/ (panic_count' = 0 /\ trouble' = FALSE)
    BY <1>9 DEF ResetPanicCounter, InStep, OutOfStep
  <2>3. safe_mode' \in BOOLEAN /\ ~safe_mode'
    BY <2>1, <2>2 DEF MainInv, MainTypes
  <2>4. panic_count' \in 0 .. (CountMod - 1) /\ main_pc' \in 1 .. 19 /\ main_pc' > 2
    BY <1>1, <1>3, <2>1, <2>2
  <2> QED BY <1>1, <2>2, <2>3, <2>4, CounterSettled
<1>10. CASE ScheduleRestart
  <2>1. UNCHANGED <<main_pc, reset_reason, safe_mode, panic_count, streak, trouble>>
    BY <1>10 DEF ScheduleRestart, counters
  <2>2. restart_pending' \in BOOLEAN
    BY <1>1, <1>10 DEF ScheduleRestart
  <2> QED BY <2>1, <2>2 DEF MainInv, MainTypes, SafeModeStops, CounterFollows
<1>11. CASE AppPanic \/ BasePanic
  BY <1>11, PanicKeeps DEF AppPanic, BasePanic
<1>12. CASE Restart \/ OtherReset
  <2>1. /\ main_pc' = 1 /\ reset_reason' = "other" /\ safe_mode' = FALSE
        /\ restart_pending' = FALSE /\ panic_count' = panic_count
        /\ streak' = 0 /\ trouble' = trouble
    BY <1>12 DEF Restart, OtherReset, Reset
  <2>2. safe_mode' \in BOOLEAN /\ restart_pending' \in BOOLEAN
    BY <2>1, Zenon
  <2>3. streak' \in 0 .. CountMod /\ main_pc' \in 1 .. 19
    BY <2>1, BootAssumption
  <2>4. MainTypes'
    BY <1>1, <2>1, <2>2, <2>3 DEF MainInv, MainTypes
  <2> QED BY <2>1, <2>4 DEF MainInv, SafeModeStops, CounterFollows
<1>13. CASE CallWifiStart \/ SaveSsid \/ SavePass \/ Upload \/ System \/ UNCHANGED vars
  BY <1>4, <1>13 DEF CallWifiStart, SaveSsid, SavePass, Upload, System, vars, bootVars
<1> QED BY <1>5, <1>6, <1>7, <1>8, <1>9, <1>10, <1>11, <1>12, <1>13 DEF Next, AppMain, Httpd

-------------------------------------------------------------------------------
LEMMA BootInvariant == Spec => []BootInv
<1>1. Init => BootInv
  <2> SUFFICES ASSUME Init
               PROVE  BootInv
    OBVIOUS
  <2>1. WifiInv
    <3>1. events \in Waiting
      BY DEF Init, WifiInit, Waiting
    <3> QED BY <3>1, WaitingType, WifiAssumption
            DEF Init, WifiInit, WifiInv, WifiTypeOK, Mode
  <2>2. FirmwareInv
    BY DEF Init, FirmwareInit, FirmwareInv, FirmwareTypeOK, SomethingBoots, Slot, None
  <2>3. MainTypes
    <3>1. 0 \in 0 .. (CountMod - 1) /\ 0 \in 0 .. CountMod
      BY BootAssumption
    <3>2. safe_mode \in BOOLEAN /\ restart_pending \in BOOLEAN /\ trouble \in BOOLEAN
      BY Zenon DEF Init
    <3> QED BY <3>1, <3>2 DEF Init, MainTypes
  <2>4. MainInv
    BY <2>3 DEF Init, MainInv, SafeModeStops, CounterFollows
  <2> QED BY <2>1, <2>2, <2>4 DEF BootInv
<1>2. BootInv /\ [Next]_vars => BootInv'
  BY PartsOfStep, WifiKept, FirmwareKept, MainKept DEF BootInv
<1> QED BY <1>1, <1>2, PTL DEF Spec

\* The queue of the event loop never holds more than two events of Wi-Fi, main never
\* runs past the end of its program, and the counter fits its width.
THEOREM BootTypeCorrect == Spec => []TypeOK
<1>1. BootInv => TypeOK
  <2> SUFFICES ASSUME BootInv
               PROVE  TypeOK
    OBVIOUS
  <2>1. Len(Program) = 19
    BY DEF Program
  <2>2. MainTypes
    BY DEF BootInv, MainInv
  <2> QED BY <2>1, <2>2 DEF BootInv, WifiInv, FirmwareInv, MainTypes, TypeOK
<1> QED BY <1>1, BootInvariant, PTL

\* What a task uses without a look comes before the task in the program.
LEMMA UserComesLater ==
  ASSUME NEW n \in 1 .. 19, Program[n] \in DOMAIN Uses,
         NEW o \in Uses[Program[n]], <<Program[n], o>> \notin Guarded
  PROVE  \E k \in 1 .. 19 : k < n /\ Program[k] = o
<1>1. /\ Program[8] = "notifier" /\ Program[10] = "httpd" /\ Program[12] = "control"
      /\ Program[15] = "sm" /\ Program[17] = "bluetooth"
      /\ Program[4] = "configMutex" /\ Program[7] = "slackQueue"
      /\ Program[11] = "controlQueue" /\ Program[13] = "smQueue"
      /\ Program[14] = "snapshotMutex" /\ Program[16] = "btQueue"
  BY DEF Program
<1>2. n \in {8, 10, 12, 15, 17}
  <2>1. \A i \in 1 .. 19 :
          Program[i] \in {"httpd", "notifier", "control", "sm", "bluetooth"}
            => i \in {8, 10, 12, 15, 17}
    BY DEF Program
  <2>2. Program[n] \in {"httpd", "notifier", "control", "sm", "bluetooth"}
    BY DEF Uses
  <2> QED BY <2>1, <2>2
<1> USE DEF Guarded, AutoUnlockGuards, ControlGuards, SlackGuards, AuditGuards, BtGuards, SmGuards
<1>3. CASE n = 8
  <2>1. o = "slackQueue"
    BY <1>1, <1>3 DEF Uses
  <2> QED BY <1>1, <1>3, <2>1
<1>4. CASE n = 10
  <2>1. o = "configMutex"
    BY <1>1, <1>4 DEF Uses
  <2> QED BY <1>1, <1>4, <2>1
<1>5. CASE n = 12
  <2>1. o = "controlQueue"
    BY <1>1, <1>5 DEF Uses
  <2> QED BY <1>1, <1>5, <2>1
<1>6. CASE n = 15
  <2>1. o \in {"smQueue", "snapshotMutex", "configMutex"}
    BY <1>1, <1>6 DEF Uses
  <2> QED BY <1>1, <1>6, <2>1
<1>7. CASE n = 17
  <2>1. o = "btQueue"
    BY <1>1, <1>7 DEF Uses
  <2> QED BY <1>1, <1>7, <2>1
<1> QED BY <1>2, <1>3, <1>4, <1>5, <1>6, <1>7

\* The order of app_main and the null checks are enough: no handler and no task takes
\* a mutex or a queue that is not there, in safe mode neither.
THEOREM NothingUsesNull == Spec => []HandlersAreSafe
<1>1. BootInv => HandlersAreSafe
  <2> SUFFICES ASSUME BootInv, NEW t \in DOMAIN Uses, Past(t),
                      NEW o \in Uses[t], <<t, o>> \notin Guarded, ~Past(o)
               PROVE  FALSE
    BY DEF HandlersAreSafe, NullUse
  <2>1. PICK n \in 1 .. (main_pc - 1) : Program[n] = t
    BY DEF Past
  <2>2. main_pc \in 1 .. 19
    BY DEF BootInv, MainInv, MainTypes
  <2>3. n \in 1 .. 19 /\ n < main_pc
    BY <2>1, <2>2
  <2>4. \E k \in 1 .. 19 : k < n /\ Program[k] = o
    BY <2>1, <2>3, UserComesLater
  <2>5. PICK k \in 1 .. 19 : k < n /\ Program[k] = o
    BY <2>4
  <2>6. k \in 1 .. (main_pc - 1)
    BY <2>2, <2>3, <2>5
  <2> QED BY <2>5, <2>6 DEF Past
<1> QED BY <1>1, BootInvariant, PTL

\* Safe mode is entered after PanicThreshold panics in a row and for nothing else
\* (check_safe_mode), as long as the counter has missed nothing and not wrapped.
THEOREM SafeModeIsRight == Spec => []SafeModeIsEarned
<1>1. BootInv => SafeModeIsEarned
  <2> SUFFICES ASSUME BootInv, Past("check_safe_mode"), ~trouble
               PROVE  /\ safe_mode => streak >= PanicThreshold
                      /\ streak \in PanicThreshold .. (CountMod - 1) => safe_mode
    BY DEF SafeModeIsEarned
  <2>1. main_pc \in 1 .. Len(Program) /\ streak \in 0 .. CountMod
    BY DEF BootInv, MainInv, MainTypes, Program
  <2>2. main_pc > 2
    BY <2>1, ProgramPositions
  <2>3. streak < CountMod => (safe_mode <=> streak >= PanicThreshold)
    BY <2>2 DEF BootInv, MainInv, CounterFollows
  <2>4. PanicThreshold \in Nat /\ CountMod \in Nat /\ PanicThreshold < CountMod
    BY BootAssumption
  <2>5. ~(streak < CountMod) => streak >= PanicThreshold
    BY <2>1, <2>4
  <2>6. streak \in PanicThreshold .. (CountMod - 1) => streak < CountMod /\ streak >= PanicThreshold
    BY <2>1, <2>4
  <2> QED BY <2>3, <2>5, <2>6
<1> QED BY <1>1, BootInvariant, PTL

\* At every moment the running slot holds a whole image, so that a reset in the middle
\* of an upload always finds one to start.
THEOREM AlwaysBootable == Spec => []SomethingBoots
<1>1. BootInv => SomethingBoots
  BY DEF BootInv, FirmwareInv
<1> QED BY <1>1, BootInvariant, PTL

\* What was answered with OK is what the next reset starts (ota_upload_handler).
THEOREM AcceptedRuns == Spec => AcceptedFirmwareRuns
<1>1. BootInv => [Bootloader /\ promised # None => running' = promised]_firmwareVars
  BY DEF BootInv, FirmwareInv, Bootloader
<1> QED BY <1>1, BootInvariant, PTL DEF AcceptedFirmwareRuns
===============================================================================

-------------------------------- MODULE BtRadio --------------------------------
(***************************************************************************)
(* The radio side of the Bluetooth manager (main/bt/manager.cpp): who      *)
(* advertises, who scans and who probes.  Every call into Bluedroid only   *)
(* posts a request; what comes of it is reported later, in a callback of   *)
(* the Bluedroid task.  presence_task runs the commands of the web server  *)
(* and probes Classic devices.  Both are pinned to core 0, and the         *)
(* Bluedroid task has the higher priority: a callback may run between any  *)
(* two calls of presence_task, and itself runs to its end.                 *)
(*                                                                         *)
(* The bond caches, which the same handlers refresh, share no state with   *)
(* this part and are left out, and so is the RemoveBond command.           *)
(***************************************************************************)
EXTENDS Integers, Sequences, FiniteSets

CONSTANTS
  CmdQueueDepth,    \* length of s_bt_cmd_queue (4)
  MaxInputs         \* uses of the pairing button and connections of phones; bounds TLC

ASSUME BtRadioAssumption == CmdQueueDepth \in Nat \ {0} /\ MaxInputs \in Nat

VARIABLES
  pairing_mode,        \* s_pairing_mode
  privacy_ready,       \* s_ble_local_privacy_ready
  advertising,         \* s_ble_advertising
  scan_requested,      \* s_ble_scan_requested
  scanning,            \* s_ble_scanning
  adv_config_mask,     \* s_ble_adv_config_mask: data sets not confirmed yet
  probe_in_flight,     \* s_classic_probe_in_flight
  cmd_queue,           \* s_bt_cmd_queue
  pc,                  \* what presence_task does next
  requests, events,    \* posted to Bluedroid, and reported by it but not delivered yet
  radio,               \* what the radio really does
  misread,             \* history: the last closing took a scan that was being stopped for one
                       \* that goes on
  inputs               \* how many uses of the button and connections there have been

flags     == <<pairing_mode, privacy_ready, advertising, scan_requested, scanning,
               adv_config_mask, probe_in_flight>>
stackVars == <<requests, events, radio>>
vars      == <<flags, cmd_queue, pc, stackVars, misread, inputs>>

Request == {"LocalPrivacy", "AdvData", "ScanRspData", "StartAdv", "StopAdv", "ScanParams",
            "StartScan", "StopScan", "Discoverable", "Hidden", "ReadRemoteName"}
Event   == {"LocalPrivacySet", "AdvDataSet", "ScanRspDataSet", "AdvStarted", "AdvStartFailed",
            "AdvStopped", "ScanParamsSet", "ScanStarted", "ScanStartFailed", "ScanStopped",
            "RemoteNameRead", "SppStarted", "Disconnected"}
Command == {"StartPairing", "StopPairing"}
Radio   == [adv : BOOLEAN, scan : BOOLEAN, connected : BOOLEAN,
            discoverable : BOOLEAN, paging : BOOLEAN]

OpenStep  == {"resetProbe", "stopScan", "unrequestScan", "configAdv", "adData", "scanRsp", "discover"}
CloseStep == {"hide", "stopAdv", "checkScanning", "requestScan", "checkPrivacy", "startScan"}

TypeOK ==
  /\ pairing_mode \in BOOLEAN /\ privacy_ready \in BOOLEAN /\ advertising \in BOOLEAN
  /\ scan_requested \in BOOLEAN /\ scanning \in BOOLEAN /\ probe_in_flight \in BOOLEAN
  /\ adv_config_mask \subseteq {"AdvData", "ScanRspData"}
  /\ cmd_queue \in Seq(Command) /\ Len(cmd_queue) <= CmdQueueDepth
  /\ pc \in {"command", "mode", "probe", "readName", "setInFlight"} \cup OpenStep \cup CloseStep
  /\ requests \in Seq(Request) /\ events \in Seq(Event)
  /\ radio \in Radio
  /\ misread \in BOOLEAN /\ inputs \in 0 .. MaxInputs

Posted(s) == requests' = requests \o s

\* The stop of the scan has been asked for, and not been reported yet.
ScanStopOutstanding ==
  \/ \E i \in DOMAIN requests : requests[i] = "StopScan"
  \/ \E i \in DOMAIN events : events[i] = "ScanStopped"

-------------------------------------------------------------------------------
\* presence_task: one command an iteration, then perhaps a probe, then a delay.

TakeCommand ==
  /\ pc = "command" /\ cmd_queue # << >>
  /\ cmd_queue' = Tail(cmd_queue)
  /\ \/ /\ Head(cmd_queue) = "StartPairing" /\ ~pairing_mode
        /\ pairing_mode' = TRUE /\ pc' = "resetProbe"
     \/ /\ Head(cmd_queue) = "StopPairing" /\ pairing_mode
        /\ pairing_mode' = FALSE /\ pc' = "hide"
     \/ /\ (Head(cmd_queue) = "StartPairing") = pairing_mode
        /\ pc' = "mode" /\ UNCHANGED pairing_mode
  /\ UNCHANGED <<privacy_ready, advertising, scan_requested, scanning, adv_config_mask,
                 probe_in_flight, stackVars>>

NoCommand ==
  /\ pc = "command" /\ cmd_queue = << >>
  /\ pc' = "mode"
  /\ UNCHANGED <<flags, cmd_queue, stackVars>>

\* open_pairing_window after the flag, call by call.
ResetProbe ==
  /\ pc = "resetProbe" /\ pc' = "stopScan"
  /\ probe_in_flight' = FALSE
  /\ UNCHANGED <<pairing_mode, privacy_ready, advertising, scan_requested, scanning,
                 adv_config_mask, cmd_queue, stackVars>>

StopScan ==
  /\ pc = "stopScan" /\ pc' = "unrequestScan"
  /\ Posted(IF scanning THEN <<"StopScan">> ELSE << >>)
  /\ UNCHANGED <<flags, cmd_queue, events, radio>>

UnrequestScan ==
  /\ pc = "unrequestScan" /\ pc' = "configAdv"
  /\ scan_requested' = FALSE
  /\ UNCHANGED <<pairing_mode, privacy_ready, advertising, scanning, adv_config_mask,
                 probe_in_flight, cmd_queue, stackVars>>

ConfigAdv ==
  /\ pc = "configAdv"
  /\ IF privacy_ready
     THEN pc' = "adData" /\ adv_config_mask' = {"AdvData", "ScanRspData"}
     ELSE pc' = "discover" /\ UNCHANGED adv_config_mask
  /\ UNCHANGED <<pairing_mode, privacy_ready, advertising, scan_requested, scanning,
                 probe_in_flight, cmd_queue, stackVars>>

\* A step of presence_task that only posts a request.
PostStep(here, request, next) ==
  /\ pc = here /\ pc' = next
  /\ Posted(<<request>>)
  /\ UNCHANGED <<flags, cmd_queue, events, radio>>

OpenPairingWindow ==
  \/ ResetProbe \/ StopScan \/ UnrequestScan \/ ConfigAdv
  \/ PostStep("adData", "AdvData", "scanRsp")
  \/ PostStep("scanRsp", "ScanRspData", "discover")
  \/ PostStep("discover", "Discoverable", "mode")

\* request_ble_scan_mode, called at the end of close_pairing_window.
CheckScanning ==
  /\ pc = "checkScanning"
  /\ pc' = IF scanning THEN "mode" ELSE "requestScan"
  /\ UNCHANGED <<flags, cmd_queue, stackVars>>

RequestScan ==
  /\ pc = "requestScan" /\ pc' = "checkPrivacy"
  /\ scan_requested' = TRUE
  /\ UNCHANGED <<pairing_mode, privacy_ready, advertising, scanning, adv_config_mask,
                 probe_in_flight, cmd_queue, stackVars>>

CheckPrivacy ==
  /\ pc = "checkPrivacy"
  /\ pc' = IF privacy_ready THEN "startScan" ELSE "mode"
  /\ UNCHANGED <<flags, cmd_queue, stackVars>>

\* While advertising, the scan has to wait for AdvStopped.
FirstScanRequest == IF advertising THEN <<"StopAdv">> ELSE <<"ScanParams">>

StartScan ==
  /\ pc = "startScan" /\ pc' = "mode"
  /\ Posted(FirstScanRequest)
  /\ UNCHANGED <<flags, cmd_queue, events, radio>>

ClosePairingWindow ==
  \/ PostStep("hide", "Hidden", "stopAdv")
  \/ PostStep("stopAdv", "StopAdv", "checkScanning")
  \/ CheckScanning \/ RequestScan \/ CheckPrivacy \/ StartScan

\* In scan mode a probe is started every second iteration.
Mode ==
  /\ pc = "mode"
  /\ pc' \in IF pairing_mode THEN {"command"} ELSE {"command", "probe"}
  /\ UNCHANGED <<flags, cmd_queue, stackVars>>

MaybeStartProbe ==
  \/ /\ pc = "probe"
     /\ pc' = IF pairing_mode \/ probe_in_flight THEN "command" ELSE "readName"
     /\ UNCHANGED <<flags, cmd_queue, stackVars>>
  \/ PostStep("readName", "ReadRemoteName", "setInFlight")
  \/ /\ pc = "setInFlight" /\ pc' = "command"
     /\ probe_in_flight' = TRUE
     /\ UNCHANGED <<pairing_mode, privacy_ready, advertising, scan_requested, scanning,
                    adv_config_mask, cmd_queue, stackVars>>

PresenceTask ==
  /\ \/ TakeCommand \/ NoCommand \/ OpenPairingWindow
     \/ ClosePairingWindow \/ Mode \/ MaybeStartProbe
  /\ misread' = IF pc = "checkScanning" THEN scanning /\ ScanStopOutstanding ELSE misread
  /\ UNCHANGED inputs

-------------------------------------------------------------------------------
\* The callbacks, each run for the event at the head of the queue.

Delivered(e) == events # << >> /\ Head(events) = e /\ events' = Tail(events)

\* request_ble_scan_mode as a callback runs it.
RequestScanMode ==
  IF scanning THEN UNCHANGED <<scan_requested, requests>>
  ELSE /\ scan_requested' = TRUE
       /\ Posted(IF privacy_ready' THEN FirstScanRequest ELSE << >>)

OnLocalPrivacySet ==
  /\ Delivered("LocalPrivacySet")
  /\ privacy_ready' = TRUE
  /\ \/ /\ pairing_mode
        /\ adv_config_mask' = {"AdvData", "ScanRspData"}
        /\ Posted(<<"AdvData", "ScanRspData">>)
        /\ UNCHANGED scan_requested
     \/ ~pairing_mode /\ RequestScanMode /\ UNCHANGED adv_config_mask
  /\ UNCHANGED <<pairing_mode, advertising, scanning, probe_in_flight, cmd_queue, pc, radio>>

\* Either data set confirmed: the second of the two starts the advertising.
OnDataSet(e, data) ==
  /\ Delivered(e)
  /\ adv_config_mask' = adv_config_mask \ {data}
  /\ Posted(IF adv_config_mask' = {} /\ pairing_mode THEN <<"StartAdv">> ELSE << >>)
  /\ UNCHANGED <<pairing_mode, privacy_ready, advertising, scan_requested, scanning,
                 probe_in_flight, cmd_queue, pc, radio>>

OnAdvStarted ==
  /\ Delivered("AdvStarted")
  /\ advertising' = TRUE
  /\ UNCHANGED <<pairing_mode, privacy_ready, scan_requested, scanning, adv_config_mask,
                 probe_in_flight, cmd_queue, pc, requests, radio>>

\* Mutant: nobody notes that the advertising has stopped.
OnAdvStopped_Unnoted ==
  /\ Delivered("AdvStopped")
  /\ \/ /\ scan_requested /\ ~scanning
        /\ Posted(IF privacy_ready THEN <<"ScanParams">> ELSE << >>)
     \/ ~(scan_requested /\ ~scanning) /\ UNCHANGED requests
  /\ UNCHANGED <<flags, cmd_queue, pc, radio>>

\* Mutant: the scan that waited for the advertising to stop is not started.
OnAdvStopped_NoScan ==
  /\ Delivered("AdvStopped")
  /\ advertising' = FALSE
  /\ UNCHANGED <<pairing_mode, privacy_ready, scan_requested, scanning, adv_config_mask,
                 probe_in_flight, cmd_queue, pc, requests, radio>>

OnAdvStopped ==
  /\ Delivered("AdvStopped")
  /\ advertising' = FALSE
  /\ \/ /\ scan_requested /\ ~scanning
        /\ Posted(IF privacy_ready THEN <<"ScanParams">> ELSE << >>)
     \/ ~(scan_requested /\ ~scanning) /\ UNCHANGED requests
  /\ UNCHANGED <<pairing_mode, privacy_ready, scan_requested, scanning, adv_config_mask,
                 probe_in_flight, cmd_queue, pc, radio>>

OnScanParamsSet ==
  /\ Delivered("ScanParamsSet")
  /\ Posted(<<"StartScan">>)
  /\ UNCHANGED <<flags, cmd_queue, pc, radio>>

OnScanStartOrStop ==
  /\ \/ Delivered("ScanStarted") /\ scanning' = TRUE
     \/ Delivered("ScanStopped") /\ scanning' = FALSE
  /\ UNCHANGED <<pairing_mode, privacy_ready, advertising, scan_requested, adv_config_mask,
                 probe_in_flight, cmd_queue, pc, requests, radio>>

\* A start that failed is only logged.
OnStartFailed ==
  /\ Delivered("AdvStartFailed") \/ Delivered("ScanStartFailed")
  /\ UNCHANGED <<flags, cmd_queue, pc, requests, radio>>

OnRemoteNameRead ==
  /\ Delivered("RemoteNameRead")
  /\ probe_in_flight' = FALSE
  /\ UNCHANGED <<pairing_mode, privacy_ready, advertising, scan_requested, scanning,
                 adv_config_mask, cmd_queue, pc, requests, radio>>

\* Mutant: what the window asked for is renewed after it was closed, too.
OnRenewal_Unguarded(e, request) ==
  /\ Delivered(e)
  /\ Posted(<<request>>)
  /\ UNCHANGED <<flags, cmd_queue, pc, radio>>

\* Mutant: nothing is renewed.
OnRenewal_Never(e, request) ==
  /\ Delivered(e)
  /\ UNCHANGED <<flags, cmd_queue, pc, requests, radio>>

\* The callbacks that only renew what the pairing window asks for.
OnRenewal(e, request) ==
  /\ Delivered(e)
  /\ Posted(IF pairing_mode THEN <<request>> ELSE << >>)
  /\ UNCHANGED <<flags, cmd_queue, pc, radio>>

Callback ==
  /\ \/ OnLocalPrivacySet \/ OnAdvStarted \/ OnAdvStopped \/ OnScanParamsSet
     \/ OnDataSet("AdvDataSet", "AdvData") \/ OnDataSet("ScanRspDataSet", "ScanRspData")
     \/ OnScanStartOrStop \/ OnStartFailed \/ OnRemoteNameRead
     \/ OnRenewal("Disconnected", "StartAdv") \/ OnRenewal("SppStarted", "Discoverable")
  /\ UNCHANGED <<misread, inputs>>

-------------------------------------------------------------------------------
\* Bluedroid, as the code uses it: requests are carried out in order, each with
\* its effect on the radio and the event that reports it.

Outcomes(request) ==
  CASE request = "LocalPrivacy"   -> {<<radio, <<"LocalPrivacySet">>>>}
    [] request = "AdvData"        -> {<<radio, <<"AdvDataSet">>>>}
    [] request = "ScanRspData"    -> {<<radio, <<"ScanRspDataSet">>>>}
    [] request = "StartAdv"       ->
         IF radio.adv THEN {<<radio, <<"AdvStartFailed">>>>}
                      ELSE {<<[radio EXCEPT !.adv = TRUE], <<"AdvStarted">>>>}
    [] request = "StopAdv"        -> {<<[radio EXCEPT !.adv = FALSE], <<"AdvStopped">>>>}
    [] request = "ScanParams"     -> {<<radio, <<"ScanParamsSet">>>>}
    [] request = "StartScan"      ->
         IF radio.scan THEN {<<radio, <<"ScanStartFailed">>>>}
                       ELSE {<<[radio EXCEPT !.scan = TRUE], <<"ScanStarted">>>>}
    [] request = "StopScan"       -> {<<[radio EXCEPT !.scan = FALSE], <<"ScanStopped">>>>}
    [] request = "Discoverable"   ->   \* may cancel a page, which then reports nothing
         {<<[radio EXCEPT !.discoverable = TRUE, !.paging = p], << >>>> : p \in {radio.paging, FALSE}}
    [] request = "Hidden"         -> {<<[radio EXCEPT !.discoverable = FALSE], << >>>>}
    [] request = "ReadRemoteName" ->   \* one page at a time
         IF radio.paging THEN {<<radio, <<"RemoteNameRead">>>>}
                         ELSE {<<[radio EXCEPT !.paging = TRUE], << >>>>}

CarryOut ==
  /\ requests # << >>
  /\ requests' = Tail(requests)
  /\ \E outcome \in Outcomes(Head(requests)) :
       radio' = outcome[1] /\ events' = events \o outcome[2]
  /\ UNCHANGED <<flags, cmd_queue, pc, misread, inputs>>

\* A page is answered, or times out.
PageEnds ==
  /\ radio.paging
  /\ radio' = [radio EXCEPT !.paging = FALSE]
  /\ events' = Append(events, "RemoteNameRead")
  /\ UNCHANGED <<flags, cmd_queue, pc, requests, misread, inputs>>

\* A phone connects, which ends the advertising without a report, and leaves.
Connect ==
  /\ radio.adv /\ ~radio.connected
  /\ inputs < MaxInputs /\ inputs' = inputs + 1
  /\ radio' = [radio EXCEPT !.adv = FALSE, !.connected = TRUE]
  /\ UNCHANGED <<flags, cmd_queue, pc, requests, events, misread>>

Disconnect ==
  /\ radio.connected
  /\ radio' = [radio EXCEPT !.connected = FALSE]
  /\ events' = Append(events, "Disconnected")
  /\ UNCHANGED <<flags, cmd_queue, pc, requests, misread, inputs>>

\* Mutant: the bound of the queue is not observed.
PairingToggle_Unbounded ==
  /\ cmd_queue' = Append(cmd_queue, IF pairing_mode THEN "StopPairing" ELSE "StartPairing")
  /\ inputs < MaxInputs /\ inputs' = inputs + 1
  /\ UNCHANGED <<flags, pc, stackVars, misread>>

\* pairing_toggle_handler: asks for the opposite of what it reads; a full queue
\* drops the command.
PairingToggle ==
  /\ cmd_queue' = IF Len(cmd_queue) < CmdQueueDepth
                  THEN Append(cmd_queue, IF pairing_mode THEN "StopPairing" ELSE "StartPairing")
                  ELSE cmd_queue
  /\ inputs < MaxInputs /\ inputs' = inputs + 1
  /\ UNCHANGED <<flags, pc, stackVars, misread>>

Init ==
  /\ pairing_mode = FALSE /\ privacy_ready = FALSE
  /\ advertising = FALSE /\ scan_requested = FALSE /\ scanning = FALSE
  /\ adv_config_mask = {} /\ probe_in_flight = FALSE
  /\ cmd_queue = << >> /\ pc = "command"
  /\ requests = <<"LocalPrivacy">> /\ events = <<"SppStarted">>
  /\ radio = [adv |-> FALSE, scan |-> FALSE, connected |-> FALSE,
              discoverable |-> FALSE, paging |-> FALSE]
  /\ misread = FALSE /\ inputs = 0

Bluedroid == CarryOut \/ PageEnds \/ Callback

Next == PresenceTask \/ Bluedroid \/ Connect \/ Disconnect \/ PairingToggle

Spec == Init /\ [][Next]_vars

\* Ready tasks run, requests are carried out and pages end.  Nobody owes the
\* system a click, and a phone may stay connected for ever.
Fairness ==
  /\ WF_vars(PresenceTask)
  /\ WF_vars(CarryOut) /\ WF_vars(Callback) /\ WF_vars(PageEnds)

FairSpec == Spec /\ Fairness

-------------------------------------------------------------------------------
\* When nothing is outstanding the flags agree with the radio, on which
\* request_ble_scan_mode and open_pairing_window rely: a wrong s_ble_scanning
\* stops the one from scanning ever again, a wrong s_ble_advertising the other.
FlagsTellTheTruth ==
  requests = << >> /\ events = << >> /\ pc = "command" =>
    /\ scanning = radio.scan
    /\ radio.adv => advertising
    /\ advertising => radio.adv \/ radio.connected
    /\ radio.discoverable = pairing_mode

\* A closed window stays closed: once no more pairing is asked for, the device
\* is in the end neither advertised nor discoverable, whatever was in flight
\* (close_pairing_window).
WindowCloses == <>[]~pairing_mode => <>[](~radio.adv /\ ~radio.discoverable)

\* An open window can be found: it is discoverable, and advertises whenever no
\* phone is connected (open_pairing_window).
WindowOpens ==
  <>[]pairing_mode => /\ <>[]radio.discoverable
                      /\ []<>(radio.adv \/ radio.connected)

\* After the pairing window the radio goes back to scanning, without which no BLE device
\* is ever detected again (close_pairing_window: switches to scan mode), unless the window
\* was closed before Bluedroid had reported the end of the scan that its opening stopped:
\* request_ble_scan_mode then reads an s_ble_scanning that is still set, and asks for
\* nothing.
ScanResumes == <>[]~pairing_mode => <>[](radio.scan \/ misread)
===============================================================================

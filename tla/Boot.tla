--------------------------------- MODULE Boot ---------------------------------
(***************************************************************************)
(* The start of the firmware (main/main.cpp) and what ends it: main counts *)
(* panics, creates the parts one by one while those that are there already *)
(* run, and after too many panics in a row stops half-way, in safe mode.   *)
(* The web server's handlers are in reach from start_webserver on, before  *)
(* most of what they use exists; in safe mode it never will.               *)
(*                                                                         *)
(* Only the NVS survives a reset.  A reset is a panic, a requested restart *)
(* or any other (power, watchdog).                                         *)
(***************************************************************************)
EXTENDS Wifi, Firmware

CONSTANTS
  PanicThreshold,    \* kPanicThreshold (3)
  CountMod           \* 256: the panic counter is a uint8_t

ASSUME BootAssumption ==
  PanicThreshold \in Nat \ {0} /\ CountMod \in Nat /\ PanicThreshold < CountMod

VARIABLES
  main_pc,           \* the step of Program app_main is about to take
  reset_reason,      \* esp_reset_reason(): ESP_RST_PANIC or any other
  panic_count,       \* "panic_cnt" in the NVS
  safe_mode,         \* s_safe_mode
  restart_pending,   \* the task of schedule_restart exists
  streak,            \* panics in a row, counted up to CountMod
  trouble            \* the counter has missed something: the NVS or main failed

counters == <<panic_count, streak, trouble>>
bootVars == <<main_pc, reset_reason, safe_mode, restart_pending, counters>>
vars     == <<bootVars, wifiVars, firmwareVars>>

-------------------------------------------------------------------------------
(***************************************************************************)
(* The order of the start.  A step creates a kernel object, or starts a    *)
(* task or a source of callbacks, or neither.                              *)
(***************************************************************************)

\* Mutant: the web server is started before the configuration service.
Program_ServerFirst ==
  <<"nvs_flash_init", "check_safe_mode", "autoUnlockMutex",
    "wifi_start", "urlMutex", "slackQueue", "notifier", "failMutex", "httpd", "configMutex",
    "controlQueue", "control", "smQueue", "snapshotMutex", "sm",
    "btQueue", "bluetooth", "panic_timer", "ready">>

Program ==
  <<"nvs_flash_init", "check_safe_mode", "autoUnlockMutex", "configMutex",
    "wifi_start", "urlMutex", "slackQueue", "notifier", "failMutex", "httpd",
    "controlQueue", "control", "smQueue", "snapshotMutex", "sm",
    "btQueue", "bluetooth", "panic_timer", "ready">>

At(step)   == Program[main_pc] = step
Past(step) == \E i \in 1 .. (main_pc - 1) : Program[i] = step

\* Safe mode returns after start_webserver.
LastStep == IF safe_mode THEN "controlQueue" ELSE "ready"
Started  == At(LastStep)

\* The kernel objects each task or callback takes, sends to or receives from.
Uses ==
  [httpd     |-> {"autoUnlockMutex", "configMutex", "urlMutex", "slackQueue", "failMutex",
                  "controlQueue", "smQueue", "snapshotMutex", "btQueue"},
   notifier  |-> {"urlMutex", "slackQueue"},
   control   |-> {"controlQueue"},
   sm        |-> {"smQueue", "snapshotMutex", "configMutex", "autoUnlockMutex", "controlQueue"},
   bluetooth |-> {"btQueue", "smQueue"}]

\* The functions that look at their object first and leave it alone while it is nullptr,
\* by the tasks that call them.  A task looks at no object of its own.
AutoUnlockGuards == {"httpd", "sm"} \X {"autoUnlockMutex"}
ControlGuards    == {"httpd", "sm"} \X {"controlQueue"}
SlackGuards      == {<<"httpd", "urlMutex">>, <<"notifier", "urlMutex">>, <<"httpd", "slackQueue">>}
AuditGuards      == {<<"httpd", "failMutex">>}
BtGuards         == {<<"httpd", "btQueue">>}

\* Mutant: sm_get_snapshots takes its mutex unconditionally.
SmGuards_NoSnapshot == {<<"httpd", "smQueue">>, <<"bluetooth", "smQueue">>}

SmGuards ==
  {<<"httpd", "smQueue">>, <<"bluetooth", "smQueue">>, <<"httpd", "snapshotMutex">>}

Guarded ==
  AutoUnlockGuards \cup ControlGuards \cup SlackGuards \cup AuditGuards \cup BtGuards \cup SmGuards

\* Somebody who runs already may use an object that is not there yet.
NullUse ==
  \E t \in DOMAIN Uses :
    Past(t) /\ \E o \in Uses[t] : <<t, o>> \notin Guarded /\ ~Past(o)

-------------------------------------------------------------------------------
TypeOK ==
  /\ WifiTypeOK /\ FirmwareTypeOK
  /\ main_pc \in 1 .. Len(Program)
  /\ reset_reason \in {"panic", "other"}
  /\ panic_count \in 0 .. (CountMod - 1) /\ streak \in 0 .. CountMod
  /\ {safe_mode, restart_pending, trouble} \subseteq BOOLEAN
  /\ httpd_pc \in {"idle", "savePass", "begin", "receive", "end", "setBoot", "release",
                   "cleanup", "schedule"}

Init ==
  /\ WifiInit /\ FirmwareInit
  /\ main_pc = 1 /\ reset_reason = "other"
  /\ panic_count = 0 /\ streak = 0 /\ trouble = FALSE
  /\ safe_mode = FALSE /\ restart_pending = FALSE

Go == main_pc' = main_pc + 1

\* A counter known to be right again, or no longer.
InStep    == streak' = 0 /\ trouble' = FALSE
OutOfStep == streak' = 0 /\ trouble' = TRUE

-------------------------------------------------------------------------------
\* app_main.

\* An NVS without free pages or of a newer format is erased.
NvsFlashErase ==
  /\ At("nvs_flash_init") /\ Go
  /\ panic_count' = 0 /\ keys' = {} /\ OutOfStep
  /\ UNCHANGED <<reset_reason, safe_mode, restart_pending, firmwareVars,
                 mainVars, driverVars, reachable>>

\* Mutant: only panics are written down.
NewCount_KeepsOld ==
  IF reset_reason = "panic" THEN (panic_count + 1) % CountMod ELSE panic_count

NewCount == IF reset_reason = "panic" THEN (panic_count + 1) % CountMod ELSE 0

CheckSafeMode ==
  /\ At("check_safe_mode") /\ Go
  /\ panic_count' = NewCount /\ safe_mode' = (NewCount >= PanicThreshold)
  /\ IF reset_reason = "panic" THEN UNCHANGED <<streak, trouble>> ELSE InStep
  /\ UNCHANGED <<reset_reason, restart_pending, wifiVars, firmwareVars>>

\* A namespace that cannot be opened means no safe mode; whether the new count
\* could be written is not looked at.
CheckWithoutNvs ==
  /\ At("check_safe_mode") /\ Go
  /\ safe_mode' \in {FALSE, NewCount >= PanicThreshold} /\ OutOfStep
  /\ UNCHANGED <<reset_reason, panic_count, restart_pending, wifiVars, firmwareVars>>

CallWifiStart ==
  /\ At("wifi_start") /\ wifi_pc \notin Mode
  /\ WifiStart
  /\ UNCHANGED <<bootVars, firmwareVars>>

\* The other steps, one object or task each.
Create ==
  /\ ~At(LastStep)
  /\ ~At("check_safe_mode")
  /\ At("wifi_start") => wifi_pc \in Mode
  /\ Go
  /\ UNCHANGED <<reset_reason, safe_mode, restart_pending, counters, wifiVars, firmwareVars>>

AppMain == NvsFlashErase \/ CheckSafeMode \/ CheckWithoutNvs \/ CallWifiStart \/ Create

\* reset_panic_counter, a minute after main has returned.
ResetPanicCounter ==
  /\ Past("panic_timer")
  /\ \/ panic_count' = 0 /\ InStep
     \/ UNCHANGED panic_count /\ OutOfStep
  /\ UNCHANGED <<main_pc, reset_reason, safe_mode, restart_pending, wifiVars, firmwareVars>>

-------------------------------------------------------------------------------
\* httpd.

\* /api/wifi/setup and /api/wifi/update: wifi_save_credentials writes two keys.
SaveSsid ==
  /\ Past("httpd") /\ httpd_pc = "idle"
  /\ keys' = keys \cup {"ssid"} /\ httpd_pc' = "savePass"
  /\ UNCHANGED <<main_pc, reset_reason, safe_mode, restart_pending, counters,
                 mainVars, driverVars, reachable, upload_in_progress, session, flashVars>>

SavePass ==
  /\ httpd_pc = "savePass"
  /\ keys' = keys \cup {"pass"} /\ httpd_pc' = "schedule"
  /\ UNCHANGED <<main_pc, reset_reason, safe_mode, restart_pending, counters,
                 mainVars, driverVars, reachable, upload_in_progress, session, flashVars>>

\* schedule_restart does not look whether the task could be created.
ScheduleRestart ==
  /\ httpd_pc = "schedule"
  /\ restart_pending' \in {restart_pending, TRUE} /\ httpd_pc' = "idle"
  /\ UNCHANGED <<main_pc, reset_reason, safe_mode, counters, wifiVars,
                 upload_in_progress, session, flashVars>>

\* /api/firmware/upload is there as a station only.
Upload ==
  /\ Past("httpd") /\ wifi_pc = "STA"
  /\ Claim \/ UploadStep
  /\ UNCHANGED <<bootVars, wifiVars>>

HttpdStep == SavePass \/ ScheduleRestart \/ (Upload /\ httpd_pc # "idle")
Httpd     == SaveSsid \/ Upload \/ SavePass \/ ScheduleRestart

-------------------------------------------------------------------------------
\* Resets.

Reset(reason) ==
  /\ main_pc' = 1 /\ reset_reason' = reason
  /\ safe_mode' = FALSE /\ restart_pending' = FALSE
  /\ WifiReset /\ Bootloader
  /\ UNCHANGED <<panic_count, keys, reachable>>

\* A panic before the count was taken is not counted.
Panic ==
  /\ Reset("panic")
  /\ IF trouble \/ ~Past("check_safe_mode") THEN OutOfStep
     ELSE UNCHANGED trouble /\ streak' = IF streak < CountMod THEN streak + 1 ELSE streak

AppRuns == \E t \in {"control", "sm", "bluetooth"} : Past(t)

\* A panic while the parts run that safe mode leaves out, or for a mutex or a queue
\* that is not there, which is an assertion in the kernel.
AppPanic == (AppRuns \/ NullUse) /\ Panic

\* A panic of main or the parts that always run.
BasePanic == ~AppRuns /\ ~NullUse /\ Panic

\* reboot_handler, or the task of schedule_restart.
Restart ==
  /\ restart_pending \/ (Past("httpd") /\ httpd_pc = "idle" /\ wifi_pc = "STA")
  /\ Reset("other") /\ streak' = 0 /\ UNCHANGED trouble

\* Power, watchdogs and the reset pin.
OtherReset == Reset("other") /\ streak' = 0 /\ UNCHANGED trouble

System ==
  \/ EventHandler /\ UNCHANGED <<bootVars, firmwareVars>>
  \/ (Associate \/ LoseLink \/ NetworkChanges) /\ UNCHANGED <<bootVars, firmwareVars>>

Next ==
  \/ AppMain \/ ResetPanicCounter \/ Httpd \/ System
  \/ AppPanic \/ BasePanic \/ Restart \/ OtherReset

Spec == Init /\ [][Next]_vars

\* Ready tasks run, the loop delivers its events, the driver goes on, and a task
\* that was created for a restart restarts.  Nothing else is owed.
Fairness ==
  /\ WF_vars(AppMain)
  /\ WF_vars(HttpdStep)
  /\ WF_vars(restart_pending /\ Restart)
  /\ WF_vars(EventHandler /\ UNCHANGED <<bootVars, firmwareVars>>)
  /\ WF_vars(Associate /\ UNCHANGED <<bootVars, firmwareVars>>)
  /\ WF_vars(LoseLink /\ UNCHANGED <<bootVars, firmwareVars>>)

FairSpec == Spec /\ Fairness
-------------------------------------------------------------------------------
\* No handler, task or callback uses a kernel object that is not there yet, or,
\* in safe mode, never will be (sm_task.cpp: the null check that ended a loop of
\* panics; the order of app_main).
HandlersAreSafe == ~NullUse

\* Safe mode is entered after PanicThreshold panics in a row and stays as long as
\* panics go on, but for the 256th, at which the counter starts again; it is
\* entered for nothing else.  A counter that has missed something is left out.
SafeModeIsEarned ==
  Past("check_safe_mode") /\ ~trouble =>
    /\ safe_mode => streak >= PanicThreshold
    /\ streak \in PanicThreshold .. (CountMod - 1) => safe_mode

\* A device that keeps crashing ends in safe mode, with the web server up for good,
\* unless its crashes are in the parts that safe mode needs itself, or a minute
\* apart, or others reset it for ever, or the NVS never works.
CrashLoopIsBroken ==
  \/ []<><<BasePanic>>_vars
  \/ []<><<ResetPanicCounter>>_vars
  \/ []<><<Restart \/ OtherReset>>_vars
  \/ []<><<NvsFlashErase \/ CheckWithoutNvs>>_vars
  \/ <>[]Past("httpd")
===============================================================================

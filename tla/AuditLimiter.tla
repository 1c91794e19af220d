----------------------------- MODULE AuditLimiter -----------------------------
(***************************************************************************)
(* Which failed logins are reported (main/http/server.cpp, audit_401): one *)
(* entry for the address that failed last, and one counter for everybody.  *)
(* Both count from the first failure of a window that ends only when       *)
(* another failure comes too late for it.                                  *)
(*                                                                         *)
(* A time stamp is modelled by its age, counted no further than the limits *)
(* it is compared with; a counter no further than its threshold.           *)
(***************************************************************************)
EXTENDS Integers, Sequences

CONSTANTS
  Ip, NoIp,
  FailWindow,          \* kFailWindowMs (10 s)
  FailCooldown,        \* kFailCooldownMs (60 s)
  FailGlobalWindow,    \* kFailGlobalWindowMs (60 s)
  FailThreshold,       \* kFailThreshold (3)
  FailGlobalThresh     \* kFailGlobalThresh (10)

ASSUME LimiterAssumption ==
  /\ NoIp \notin Ip
  /\ {FailWindow, FailCooldown, FailGlobalWindow} \subseteq Nat
  /\ FailThreshold \in Nat \ {0} /\ FailGlobalThresh \in Nat \ {0}

VARIABLES
  latest_fail,     \* s_latest_fail
  global_fail,     \* s_global_fail
  failures,        \* history: the latest failures, the newest last
  ip_alert,        \* history: age of the latest alert for one address
  global_alert     \* history: age of the latest global alert

limiterVars == <<latest_fail, global_fail, failures, ip_alert, global_alert>>

IpLimit == FailWindow + FailCooldown

\* Counting starts anew at the end of a window, so that one short of a threshold on
\* either side of it goes unreported.
Unmissable(threshold) == 2 * threshold - 1
KeptFailures == Unmissable(IF FailThreshold > FailGlobalThresh THEN FailThreshold
                                                               ELSE FailGlobalThresh)
\* Ages of alerts that nothing asks about.
IpForgotten     == IpLimit + FailWindow + 1
GlobalForgotten == 2 * FailGlobalWindow + 1
\* The age of a failure that is too old for either window.
FailureForgotten == 1 + IF FailWindow > FailGlobalWindow THEN FailWindow ELSE FailGlobalWindow

AtMost(n, limit) == IF n < limit THEN n ELSE limit

LimiterTypeOK ==
  /\ latest_fail \in [ip : Ip \cup {NoIp}, age : 0 .. (IpLimit + 1),
                      count : 0 .. (FailThreshold + 1), alerted : BOOLEAN]
  /\ global_fail \in [age : 0 .. (FailGlobalWindow + 1),
                      count : 0 .. (FailGlobalThresh + 1), alerted : BOOLEAN]
  /\ failures \in Seq([ip : Ip, age : 0 .. FailureForgotten]) /\ Len(failures) <= KeptFailures
  /\ ip_alert \in 0 .. IpForgotten /\ global_alert \in 0 .. GlobalForgotten

LimiterInit ==
  /\ latest_fail = [ip |-> NoIp, age |-> 0, count |-> 0, alerted |-> FALSE]
  /\ global_fail = [age |-> 0, count |-> 0, alerted |-> FALSE]
  /\ failures = << >> /\ ip_alert = IpForgotten /\ global_alert = GlobalForgotten

-------------------------------------------------------------------------------
NewEntry(ip) == [ip |-> ip, age |-> 0, count |-> 1, alerted |-> FALSE]

\* Mutant: alerted is left set when a window is over.
CountIp_StaysAlerted(ip) ==
  IF latest_fail.ip # ip THEN NewEntry(ip)
  ELSE IF latest_fail.age > IpLimit THEN [NewEntry(ip) EXCEPT !.alerted = latest_fail.alerted]
  ELSE [latest_fail EXCEPT !.count = AtMost(@ + 1, FailThreshold + 1)]

\* One more failure of this address: another address, or a window and cooldown that
\* are over, start anew.
CountIp(ip) ==
  IF latest_fail.ip # ip \/ latest_fail.age > IpLimit THEN NewEntry(ip)
  ELSE [latest_fail EXCEPT !.count = AtMost(@ + 1, FailThreshold + 1)]

\* Mutant: the window begins anew with every failure.
CountGlobal_Slides ==
  IF global_fail.age > FailGlobalWindow THEN [age |-> 0, count |-> 1, alerted |-> FALSE]
  ELSE [global_fail EXCEPT !.age = 0, !.count = AtMost(@ + 1, FailGlobalThresh + 1)]

CountGlobal ==
  IF global_fail.age > FailGlobalWindow THEN [age |-> 0, count |-> 1, alerted |-> FALSE]
  ELSE [global_fail EXCEPT !.count = AtMost(@ + 1, FailGlobalThresh + 1)]

Due(entry, threshold) == entry.count = threshold /\ ~entry.alerted

AlertsIp(ip) == Due(CountIp(ip), FailThreshold)
AlertsGlobal == Due(CountGlobal, FailGlobalThresh)

\* The critical section of audit_401; AlertsIp and AlertsGlobal are its results.
Audit401(ip) ==
  /\ latest_fail' = [CountIp(ip) EXCEPT !.alerted = @ \/ AlertsIp(ip)]
  /\ global_fail' = [CountGlobal EXCEPT !.alerted = @ \/ AlertsGlobal]
  /\ LET all == Append(failures, [ip |-> ip, age |-> 0])
     IN  failures' = SubSeq(all, IF Len(all) > KeptFailures THEN 2 ELSE 1, Len(all))
  /\ ip_alert' = IF AlertsIp(ip) THEN 0 ELSE ip_alert
  /\ global_alert' = IF AlertsGlobal THEN 0 ELSE global_alert

Older(n, limit) == AtMost(n + 1, limit)

LimiterTime ==
  /\ latest_fail' = [latest_fail EXCEPT !.age = IF latest_fail.ip = NoIp THEN 0
                                                ELSE Older(@, IpLimit + 1)]
  /\ global_fail' = [global_fail EXCEPT !.age = Older(@, FailGlobalWindow + 1)]
  /\ failures' = [i \in DOMAIN failures |->
                    [failures[i] EXCEPT !.age = Older(@, FailureForgotten)]]
  /\ ip_alert' = Older(ip_alert, IpForgotten)
  /\ global_alert' = Older(global_alert, GlobalForgotten)

-------------------------------------------------------------------------------
\* The latest n failures, if so many are kept.
Latest(n) == SubSeq(failures, Len(failures) - n + 1, Len(failures))

\* An address whose latest n failures, nobody else's in between, fall within the window
\* has been reported, not longer ago than the window and the cooldown before it.
ReportedAfter(n) ==
  Len(failures) >= n =>
    LET last == Latest(n)
    IN  (\A i \in DOMAIN last : last[i].ip = last[1].ip /\ last[i].age <= FailWindow)
          => ip_alert <= IpLimit + FailWindow

\* Of an address that fails 2 * FailThreshold - 1 times in a row within the window (five
\* times within 10 s) the administrator has been told (audit_401: one entry, of the
\* address that failed last, and a window that does not slide).
RepeatedFailuresAreReported == ReportedAfter(Unmissable(FailThreshold))

\* What the plan of the audit log promises instead: FailThreshold failures in a row
\* within the window are enough.
PromisedFailuresAreReported == ReportedAfter(FailThreshold)

\* However many addresses take turns, 2 * FailGlobalThresh - 1 failures within the global
\* window (nineteen within a minute) cannot go by without a global alert; about half as
\* many can, on both sides of the end of a window (audit_401: rotating addresses do not
\* silence it).
RotationIsReported ==
  Len(failures) >= Unmissable(FailGlobalThresh) =>
    LET last == Latest(Unmissable(FailGlobalThresh))
    IN  (\A i \in DOMAIN last : last[i].age <= FailGlobalWindow)
          => global_alert <= 2 * FailGlobalWindow
===============================================================================

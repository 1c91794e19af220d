-------------------------------- MODULE Alerts --------------------------------
(***************************************************************************)
(* What the web server tells the administrator on Slack: failed logins by  *)
(* AuditLimiter's rules, and what is done with administrative rights.  All *)
(* handlers run in httpd, a single thread; the notifier posts meanwhile.   *)
(***************************************************************************)
EXTENDS AuditLimiter, Notifier

VARIABLES to_send    \* alerts that the handler at work has yet to send

vars == <<to_send, limiterVars, notifierVars>>

TypeOK == LimiterTypeOK /\ NotifierTypeOK /\ to_send \in 0 .. 2

Init == LimiterInit /\ NotifierInit /\ to_send = 0

HttpdIdle == to_send = 0 /\ update_pc = "none"

\* check_auth fails: the request is answered, and then counted.
FailedLogin(ip) ==
  /\ HttpdIdle
  /\ Audit401(ip)
  /\ to_send' = (IF AlertsIp(ip) THEN 1 ELSE 0) + (IF AlertsGlobal THEN 1 ELSE 0)
  /\ UNCHANGED notifierVars

SendAlert ==
  /\ to_send > 0
  /\ Send /\ to_send' = to_send - 1
  /\ UNCHANGED limiterVars

\* audit_log: firmware upload, change of accounts, Wi-Fi or the like.
AuditLog == HttpdIdle /\ Send /\ UNCHANGED <<to_send, limiterVars>>

\* /api/slack/update, after its own audit_log.
SlackUpdate(url) == HttpdIdle /\ UpdateUrl(url) /\ UNCHANGED <<to_send, limiterVars>>

\* The chip is reset: httpd's counters are gone, and so are the messages.
Restart ==
  /\ NotifierRestart
  /\ latest_fail' = [ip |-> NoIp, age |-> 0, count |-> 0, alerted |-> FALSE]
  /\ global_fail' = [age |-> 0, count |-> 0, alerted |-> FALSE]
  /\ failures' = << >> /\ ip_alert' = IpForgotten /\ global_alert' = GlobalForgotten
  /\ to_send' = 0

\* A unit of time; what httpd does between two requests takes less.
TimePasses == HttpdIdle /\ LimiterTime /\ UNCHANGED <<to_send, notifierVars>>

Next ==
  \/ \E ip \in Ip : FailedLogin(ip)
  \/ SendAlert \/ AuditLog \/ TimePasses \/ Restart
  \/ \E url \in Url \cup {NoUrl} : SlackUpdate(url)
  \/ (NotifierTask \/ UpdateStep) /\ UNCHANGED <<to_send, limiterVars>>

Spec == Init /\ [][Next]_vars
===============================================================================

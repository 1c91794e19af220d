----------------------------- MODULE MCSmTaskClock -----------------------------
\* MCSmTask with the record of time that SmTaskClock adds.
EXTENDS SmTaskClock, MCSmTask
===============================================================================

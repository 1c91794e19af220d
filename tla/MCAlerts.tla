------------------------------- MODULE MCAlerts -------------------------------
\* A small instance of Alerts: two addresses and two URLs.
EXTENDS Alerts, TLC

CONSTANTS a, b, u, v    \* addresses and URLs

Symmetry == Permutations(Ip) \cup Permutations(Url)
===============================================================================

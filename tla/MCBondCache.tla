------------------------------ MODULE MCBondCache ------------------------------
EXTENDS BondCache, TLC

CONSTANTS a, b, c, a1, a2

\* The phone b is paired and removed, and is not heard.
MCOwnerOf == [x \in Addr |-> a]
===============================================================================

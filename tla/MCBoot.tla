-------------------------------- MODULE MCBoot --------------------------------
\* A small instance of Boot: a counter that wraps at 4 instead of 256.
EXTENDS Boot
===============================================================================

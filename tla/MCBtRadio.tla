------------------------------- MODULE MCBtRadio -------------------------------
\* Small instances of BtRadio for TLC.
EXTENDS BtRadio
===============================================================================

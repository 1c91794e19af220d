---------------------------- MODULE MCDeviceRemoval ----------------------------
\* A phone and a device that never comes near, and one entry for the configurations of both.
EXTENDS DeviceRemoval

CONSTANTS a, b, x
===============================================================================

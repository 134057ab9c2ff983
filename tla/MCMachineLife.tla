---------------------------- MODULE MCMachineLife ----------------------------
EXTENDS MachineLife
CONSTANTS t1, t2, stop, length, u1
MCText == {t1, t2}
MCReason == {stop, length}
MCUsage == {u1}
=============================================================================

------------------------------ MODULE MCLockCV ------------------------------
EXTENDS LockCV, TLC

CONSTANTS t1, t2, t3, t4
Thread4 == {t1, t2, t3, t4}
=============================================================================

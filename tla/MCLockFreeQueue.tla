-------------------------- MODULE MCLockFreeQueue --------------------------
\* Small instances of LockFreeQueue for TLC; threads and addresses are model values.
EXTENDS LockFreeQueue
============================================================================

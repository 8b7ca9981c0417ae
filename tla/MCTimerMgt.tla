----------------------------- MODULE MCTimerMgt -----------------------------
EXTENDS TimerMgt
CONSTANTS t1, t2    \* application threads
=============================================================================

----------------------------- MODULE MCTableAccess -----------------------------
EXTENDS TableAccess

CONSTANTS gt, t1, t2, ka, kp, n1
================================================================================

---------------------------- MODULE MCStoreGuard ----------------------------
EXTENDS StoreGuard, TLC

CONSTANTS t1, t2, t3, t4
FourTasks == {t1, t2, t3, t4}
=============================================================================

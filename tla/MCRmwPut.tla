----------------------------- MODULE MCRmwPut ------------------------------
EXTENDS RmwPut, TLC

CONSTANTS t1, t2

MCThreads == {t1, t2}
MCSizes == {1, 2}
=============================================================================

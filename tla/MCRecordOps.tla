---------------------------- MODULE MCRecordOps ----------------------------
(* Model-checking instance of RecordOps: two threads on one key, so that  *)
(* calls contend for the key's lock and deadlock victims occur.           *)
EXTENDS RecordOps, TLC

CONSTANTS t1, t2, k1

MCThreads == {t1, t2}
MCKeys == {k1}
MCSizes == {1, 2}        \* 2 exceeds the Get buffer: BUFFER_SMALL
MCCaps == {1}
MCPutFlags == {"none", "nooverwrite"}

Symmetry == Permutations(MCThreads)
=============================================================================

---------------------------- MODULE MCLegacyOps ----------------------------
EXTENDS LegacyOps, TypedKeys, TLC

CONSTANTS t1, t2, k1

MCThreads == {t1, t2}
MCKeys == {k1}
MCSizes == {1, 2}
MCCaps == {1}
MCKeyChars == {97, 353}   \* 'a' and U+0161: a high byte of 0 and of 1
MCKeyBytes == {0, 1}
MCKeyInts == {-1, 1, 256}
=============================================================================

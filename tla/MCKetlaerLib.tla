---------------------------- MODULE MCKetlaerLib ----------------------------
\* KetlaerLib for TLC.
EXTENDS KetlaerLib, TLC

=============================================================================

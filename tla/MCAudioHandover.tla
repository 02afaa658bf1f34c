-------------------------- MODULE MCAudioHandover --------------------------
\* AudioHandover for TLC.
EXTENDS AudioHandover, TLC
=============================================================================

-------------------------- MODULE MCPlaybackServer --------------------------
\* PlaybackServer for TLC.
EXTENDS PlaybackServer, TLC
=============================================================================

---------------------------- MODULE MCRootApp2 ----------------------------
\* RootApp2 for TLC.
EXTENDS RootApp2, TLC
=============================================================================

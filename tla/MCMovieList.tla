---------------------------- MODULE MCMovieList ----------------------------
\* MovieList for TLC: every name of one or two characters.
EXTENDS MovieList, TLC

MCNames == [1..1 -> Chars] \cup [1..2 -> Chars]
=============================================================================

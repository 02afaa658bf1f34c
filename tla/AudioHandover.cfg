SPECIFICATION FairSpec
CONSTANTS
  Tracks = {t1, t2}
  Movie = Movie
  None = None
INVARIANTS
  MovieKeepsPlayer
  AudioComesBack
PROPERTIES
  MovieEndReturns
  PlaylistGoesOn

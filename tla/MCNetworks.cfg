SPECIFICATION FairSpec
CONSTANTS
  MaxMedia = 3
  AlbumMax = 2
  MaxFaults = 4
INVARIANTS
  CopiesAccounted
  CopiesAreWhole
  AcceptedIsNotRefused
PROPERTIES
  
  KeepsToTheCall

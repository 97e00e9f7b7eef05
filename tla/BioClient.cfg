\* Two tags, so that a tag is reused while a refused request is still being
\* ended; starts inside, at the end and at the wrap-around of the offset.  The
\* client uses the last sector, or one that the disk has not.
CONSTANTS
  Tags = {g1, g2}
  CAPACITY = 2
  UINT_SECTORS = 4
  Values = {0, 1}
  Starts = {0, 1, 5}
  Lengths = {1, 2}
  MaxOthers = 1
  Hello = 1
  BioStarts = {1, 2}
SPECIFICATION BioFairSpec
INVARIANTS ReadsBack EarlyEndsBounded Leaks
PROPERTIES RequestsEnd
\* a failed init, an oops and the end of ramblock_exit are final
CHECK_DEADLOCK FALSE

SPECIFICATION FairSpec
CONSTANTS
  ID = {1, 2, 3}
  Junk = {0, 2, 200}
INVARIANTS TypeOK FailIsLatest
PROPERTIES StaysInList EveryNodePinged

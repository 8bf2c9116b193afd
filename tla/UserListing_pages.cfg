\* A client lists users while others are registered, changed and deleted.
SPECIFICATION FairSpec
CONSTANTS
  Users = {u1, u2, u3}
  Readers = {r1}
  Writers = {w1, w2}
  Limit = 2
  MaxTime = 3
  None = none
INVARIANTS
  TypeOK
  ShownOnce
  ListingComplete
  PageNotTorn
PROPERTIES
  ListingEnds

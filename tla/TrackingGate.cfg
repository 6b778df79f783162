\* A turn may be one unit late, a segment is valid for two instants, and it may
\* come one unit late: in its window still, expired when the turn comes, or older
\* than the segment that is active.
SPECIFICATION Spec
CONSTANTS
  Poses = {here, there}
  Partial = Partial
  NotFinite = NotFinite
  Window = 1
  Modes <- MCModes
  LogInterval = 3
  Lateness = 1
  Ahead = 1
  Behind = 1
  Lengths = {1, 3}
  Begin = 2
  MaxTime = 6
  MaxEntries = 1
SYMMETRY Symmetry
INVARIANTS ActiveHasBegun StaleCommandIsReplaced SetpointsKeepComing
PROPERTIES NoDueSegmentIsLost HeldIsFrozen TurnIsSpent
CHECK_DEADLOCK FALSE  \* nothing moves at the bound of time

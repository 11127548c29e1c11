\* A new file, or any that an older version may have left, opened over crashes.
\* The system may stop: nothing need be done with the open store, and its bounds
\* may be reached.
SPECIFICATION FairSpec
CONSTANTS
  Ids = {1, 2}
  MaxEntries = 2
  MaxCrashes = 2
CHECK_DEADLOCK FALSE
INVARIANT TypeOK
INVARIANT HistoryKept
INVARIANT OpenIsCurrent
PROPERTY ForgetsOnlyTheGone
PROPERTY EventuallyOpen

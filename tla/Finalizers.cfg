\* Three other controllers; a request carries at most nine finalizers.
SPECIFICATION FairSpec
CONSTANTS
  RecordFinalizer = ours
  Others = {a, b, c}
  MaxLength = 9
INVARIANTS OthersWaitedFor DoublingEnds
PROPERTY Completes
CHECK_DEADLOCK FALSE

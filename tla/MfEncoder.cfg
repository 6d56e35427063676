SPECIFICATION FairSpec
CONSTANTS
  Window = 3
  MaxFrames = 5
  MaxSkips = 2
  MftFaults = {"error", "skip", "empty"}
  MftLists <- MCMftLists
CHECK_DEADLOCK FALSE
INVARIANTS MetaFollowsFrames
PROPERTIES SubmitReturns ImplementsContract

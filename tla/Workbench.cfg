\* One page, two spaces, two handlers at a time, three clicks or failures.
SPECIFICATION WorkbenchSpec
CONSTANTS
  Spaces = {home, work}
  Default = home
  Existing = {home}
  Stored = {1, 2}
  Known = {2}
  Slots = {1, 2}
  MaxEpisodes = 4
  MaxEvents = 3
  None = None
INVARIANTS ScreenAgreesWhenQuiet ListsAreCurrentWhenQuiet NoProposalIsLost LocksHaveOwners NoTimerLeaks SoleRunIsWatched
CHECK_DEADLOCK FALSE

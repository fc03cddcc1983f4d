CONSTANTS
  MaxClients = 2
  Watcher = watch
  Notifier = {resume}
  Capacity = 2
  MaxChanges = 2
  MaxEvents = 1
  Other = Other
SPECIFICATION FairSpec
PROPERTIES NeverBackwards ListedCatchesUp LeaversAreRemoved
CHECK_DEADLOCK FALSE

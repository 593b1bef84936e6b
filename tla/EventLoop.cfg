SPECIFICATION FairSpec
CONSTANTS
  Reported = {"dbus", "wayland"}
  MaxWaiting = 1
  MaxMessages = 3
INVARIANTS WaitsInPollOnly SentBeforeSleeping
PROPERTIES EverySourceServed
CHECK_DEADLOCK FALSE

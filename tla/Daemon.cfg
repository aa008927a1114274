SPECIFICATION FairSpec
CONSTANTS
  Processes = {p, q}
  Service = p
  Permitted = {1, 2, 3, 7}
  Priorities = {1, 2, 3}
  RouterIDs = {"configured", "random1", "random2"}
  Options <- MCOptions
  Profiles <- MCProfiles
  Invalid = Invalid
  None = None
INVARIANTS MigrationResumes WinnersKept PromiseKept Reachable
PROPERTIES SettingsAgree Serves
CHECK_DEADLOCK FALSE

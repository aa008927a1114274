SPECIFICATION FairSpec
CONSTANTS
  Tunnels = {a, b}
  Versions = {1, 2}
  Tables = {254, 100}
  Profiles <- MCProfiles
  Start <- MCStart
  Choices <- MCChoices
  None = None
INVARIANT SpeakerMatches
PROPERTIES ForeignStays PolicyInstalled RoutesFollow EndpointsFollow
CHECK_DEADLOCK FALSE

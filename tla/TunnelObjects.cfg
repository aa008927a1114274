SPECIFICATION FairSpec
CONSTANTS
  Tunnels = {"a", "b"}
  None = None
  Offers <- MCOffers
  Feeds <- MCFeeds
  Urls <- MCUrls
  Profiles <- MCProfiles
INVARIANTS ReadyIsExact NothingLeft Accounted
PROPERTIES ForeignStays Settles
CHECK_DEADLOCK FALSE

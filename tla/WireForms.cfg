CONSTANTS
  Parts <- AllParts
  Template <- MCTemplate
  SomeKeys <- MCKeys
  SomeAccess <- MCAccess
  SomeSdm <- MCSdm
  MaxEdits = 2
  CapBytes <- MCCap
  Counters <- MCCounters
  MaxSetters = 3
  MaxSends = 2
  Base = 3
  Width = 2
  MaxLength = 3
  MaxMessages = 4
  MaxVersions = 3
  BlockSize = 3
  MaxPayload = 9
  MaxFile = 14
  MaxString = 8
  Containers <- MCContainers
  Urls <- MCUrls
  OldUrls <- MCOldUrls
  Uids <- MCUids
  KeyNumbers <- MCKeyNumbers
  SystemIds <- MCSystemIds
SPECIFICATION Spec
CHECK_DEADLOCK FALSE
INVARIANTS
  ContainerHonest
  ConfiguredInOrder
  MessageRecovered
  CountersFresh
  VectorsWhole
  VersionWhole
  ContainerRoundTrip
  UrlReadsBack
  KeysDistinct
  StatusFaithful
PROPERTIES
  EditReadsBack
  RefusedForRightsOnly

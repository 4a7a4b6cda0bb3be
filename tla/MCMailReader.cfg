SPECIFICATION Spec
CONSTANTS
  Messages = {1, 2, 3, 4, 5}
  Sources <- TheSources
  Conversations <- TheConversations
  Times = {2, 3, 4, 6, 8, 10}
  RfcIds = {"i1"}
  Addresses = {"x1", "x2"}
  Bodies <- TheBodies
  RecipientLists <- TheRecipients
  Attachments = {0, 1, 3}
  None = None
  MinRecentScan = 2
  ScanPerRow = 1
  MaxRecentCopies = 1
  MaxMessages = 3
  CandidateLimit = 5
  BodyTotal = 5
  BodyCap = 3
  MetadataCap = 2
  MetadataTotal = 3
  OutputMax = 20
  Escaped = 2
  EnvelopeJson = 3
  MetadataJson = 2
  InitialArchives <- TheArchives
  Moving <- Traded
  Limits = {1, 2}
  MaxEvents = 2
INVARIANTS WalkIsTheListing ListedItemsOpen
PROPERTIES HiddenStaysHidden ThreadsTellWhatTheyOmit

SPECIFICATION FairSpec
CONSTANTS
  Zero = Zero
  Width = 2
  Commands = {"http", "help", "unknown"}
  Errors = {"authentication failed", "other"}
  RequestSizes = {1, 2}
  MaxAnnounced = 2
  MaxDisturbances = 1
CHECK_DEADLOCK FALSE
INVARIANTS
  AgentTypeOK
  ReadyMeansOpened
  VerdictsAreTheServers
  ServedAsAnnounced
PROPERTIES
  ImplementsContainer
  SigtermEndsAgent
  LostStreamEndsAgent
  ComesBack

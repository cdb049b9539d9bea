CONSTANTS
  Pubs <- MCPubs
  NodeOf <- MCNodeOf
  Hash <- MCHash
  PubTopic <- MCPubTopic
  Kinds <- MCKinds
  Sources <- MCSources
  Relay <- MCRelay
  None = "none"
  Writers <- MCWritersIdColumn
  MaxMsgs <- MCMaxMsgs
SPECIFICATION Spec
INVARIANTS
  TypeOK
  IdsForwarded
  JoinSound
\* Once every message is created and delivered or lost, the nodes idle.
CHECK_DEADLOCK FALSE

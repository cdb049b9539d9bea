CONSTANTS
  Pubs <- MCPubs
  NodeOf <- MCNodeOf
  Hash <- MCHash
  PubTopic <- MCPubTopic
  Kinds <- MCKinds
  Sources <- MCSources
  Relay <- MCRelay
  None = "none"
  Writers <- MCWritersFile
  MaxMsgs <- MCMaxMsgs
SPECIFICATION Spec
INVARIANT IdsForwarded
\* Once every message is created and delivered or lost, the nodes idle.
CHECK_DEADLOCK FALSE

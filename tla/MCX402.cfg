SPECIFICATION Spec
CONSTANTS
  MaxBlock = 3
  MaxTime = 4
  Prefixes <- Chains
  ValidAfter = 1
  Limit <- Limits
  Margin = 1
  Skews = {1}
  LogChunkBlocks = 1
  MaxWindowBlocks = 2
INVARIANTS VerdictIsSound EvidenceIsSound SearchFindsTheTransfer
CHECK_DEADLOCK FALSE

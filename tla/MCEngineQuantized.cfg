CONSTANTS
  MaxU64 = 30
  Rests = {1}
  Layers <- MCLayers
  NamePrefixes <- MCPrefixes
  NumLayers = 2
  LayerResident <- MCLayerResident
  LayerPeak <- MCLayerPeak
  Weights <- MCLargeWeights
  Output = 1
  ForwardBytes = 2
  ScoreBytes = 1
  DecodedRow = 8
  EmbdRow = 1
  OutputRow = 1
  LogitsBytes = 1
  SamplerBytes = 0
  KvBytes = 1
  Chunk = 2
  ContextLength = 4
  Share = 4
  MaxStreamChunk = 4
  MaxPrompt = 2
  MaxNew = 3
  Totals = {20, 22, 24}
SPECIFICATION Spec
CHECK_DEADLOCK FALSE
INVARIANT MatvecNeedsOneRow

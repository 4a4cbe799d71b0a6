CONSTANTS
  MaxU64 = 40
  Rests = {1}
  Layers <- MCLayers
  NamePrefixes <- MCPrefixes
  NumLayers = 2
  LayerResident <- MCLayerResident
  LayerPeak <- MCLayerPeak
  Weights <- MCWeights
  Output = 1
  ForwardBytes = 2
  ScoreBytes = 1
  DecodedRow = 2
  EmbdRow = 1
  OutputRow = 1
  LogitsBytes = 1
  SamplerBytes = 1
  KvBytes = 2
  Chunk = 2
  ContextLength = 4
  Share = 4
  MaxStreamChunk = 4
  MaxPrompt = 2
  MaxNew = 3
  Totals = {12, 14, 15, 16, 18, 21, 24}
SPECIFICATION Spec
INVARIANTS ChargesMatchState GenerationSound ShortOnlyWhenCacheEmpty
PROPERTIES GenerationReturns
CHECK_DEADLOCK FALSE

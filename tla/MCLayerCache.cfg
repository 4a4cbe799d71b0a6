CONSTANTS
  Layers <- MCLayers
  Other <- MCOther
  NamePrefixes <- MCPrefixes
  Rests = {1, 2}
  MaxU64 = 4
SPECIFICATION Spec
INVARIANTS CacheConsistent
PROPERTIES EvictionsExact CallsReturn

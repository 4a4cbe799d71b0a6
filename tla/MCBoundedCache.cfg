\* A ledger and a cache of at most 3 bytes, the prefixes of two kinds of other
\* charges, of the cache and of temporary charges, and two names under each:
\* enough for a full ledger, a rename that meets an existing name, a committed
\* resize beside a live charge or to a size u64 cannot add, two nested scopes,
\* and an insert that evicts for the capacity, for the ledger, or for both.
CONSTANTS
  NamePrefixes = {"layer", "kv", "cache", "tmp"}
  Rests = {"a", "b"}
  MaxU64 = 3
  TempPrefix = "tmp"
  CachePrefix = "cache"
  MaxDepth = 2
SPECIFICATION CacheSpec
INVARIANTS LedgerBalanced AccountingErrorsTruthful TempChargesScoped CacheChargesMatch

SPECIFICATION Spec
CONSTANTS
  u1 = u1
  u2 = u2
  everyone = everyone
  r1 = r1
  r2 = r2
  c1 = c1
  c2 = c2
  VectorIds = {1, 2, 3}
  Cosine <- MCCosine
  Lexical <- MCLexical
  Values <- MCValues
  Filters <- MCFilters
  Ks = {1, 2}
  ScanFactor = 2
  MaxOperations = 3
  MaxDeaths = 1
  Requests = {r1, r2}
  Documents = {1, 2, 3}
  BatchSize = 1
  MaxIngestions = 2
  MaxUploads = 1
  MaxTrouble = 3
  Calls = {c1, c2}
  Corpus <- MCCorpus
  Arrivals <- MCArrivals
  Sizes = {1, 2, 3}
  Overlaps = {0, 1, 2}
  MaxIngests = 1
  MaxEmbedFailures = 1
  Agents = {u1, u2, everyone}
  NamespaceOf <- MCNamespaces
  Facts = {1, 2, 3}
  KindOf <- MCKinds
  RecallSizes = {1, 2}
  Ttl = 1
  ExtractTtl = 2
  MaxClock = 1
  MaxNotes = 3
SYMMETRY MCAlike
INVARIANTS
  SearchesAreRight
  CatalogIsTrue
  SearchSeesEveryDocument
  NotesAreOneAndFound
CHECK_DEADLOCK FALSE

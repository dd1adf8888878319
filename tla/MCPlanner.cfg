\* Every pair of domains under every policy; a staging node needs four chunks,
\* and each pool has room for two nodes, for one, or a little too little.
SPECIFICATION RouteSpec
CONSTANTS
  GBs = {0, 1, 64}
  HopLimits = {1, 2, 8}
  Allowlists <- MCAllowlists
  PreferredSizes = {2}
  Capacities = {7, 8, 16}
  BackendSets <- MCBackendSets
INVARIANT FoundIffRoutable ShortestWins BestExecutable

\* 15 s timeout at 1 s, transient failures, three servers.
CONSTANTS
  Timeout = 15
  Faults = TRUE
  Servers <- MCServers
SPECIFICATION Spec
PROPERTIES FetchRefinement
\* GetInstance returns and its poll loop stops; nothing else runs here.
CHECK_DEADLOCK FALSE

SPECIFICATION DeploySpec
CONSTANTS
  MaxRespawns = 1
  MaxActs = 3
  MaxEdits = 2
  MaxDeeds = 2
  MaxWorkers = 4
  Snips = {1,2}
  ScopeOrder <- MCScopes
  Revisions <- MCRevisions
  FirstStores <- MCStores
  Versions <- MCContents
  Unread = Unread
INVARIANTS DeploySound Deployed RestartIsNoDeath
CHECK_DEADLOCK FALSE
PROPERTIES WorkersFollow

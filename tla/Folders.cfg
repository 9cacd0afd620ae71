CONSTANTS
  d1 = d1
  d2 = d2
  Devices = {d1, d2}
  Snippets = {s1}
  Groups = {g1}
  NoGroup = NoGroup
  Texts = {t1}
  NoText = NoText
  Users = {d1, d2}
  NoUser = NoUser
  UserOf <- OwnIdentity
  Managers = {d1}
  PageSize = 1
  Stamps <- Three
  KindsUsed = {"text", "command", "exec"}
  TeamAsked = {TRUE, FALSE}
  HalfBatch = 1
  MaxFaults = 2
  SaveRaces = TRUE
  TornCalls = TRUE
SPECIFICATION Spec
INVARIANTS ScopeRule
PROPERTIES ImplementsFeed

CONSTANTS
  d1 = d1
  d2 = d2
  Devices = {d1, d2}
  Snippets = {s1, s2}
  Groups = {}
  NoGroup = NoGroup
  Texts = {t1}
  NoText = NoText
  Users = {d1, d2}
  NoUser = NoUser
  UserOf <- OwnIdentity
  Managers = {d1, d2}
  PageSize = 1
  Stamps <- Three
  KindsUsed = {"text"}
  TeamAsked = {TRUE}
  HalfBatch = 2
  MaxFaults = 1
  SaveRaces = FALSE
  TornCalls = FALSE
SPECIFICATION FairSpec
INVARIANTS IndInv Agreement
PROPERTIES PendingEditSurvives Converges

CONSTANTS
  Subs = {"ann", "ben", "cat"}
  Claimed = {"ann", "ben"}
  Settled = {4, 5}
  Ops = {"touch", "set", "remove", "revoke", "invite", "redeem", "leave"}
  Granted = {2, 4, 5}
  DefaultRole = 2
  Defaults = {5}
  Bootstrap = TRUE
  MaxRequests = 4
  MaxTogether = 2
  Invites = {1}
SPECIFICATION Spec
CHECK_DEADLOCK FALSE
INVARIANTS Sound RevokedStaysOut
PROPERTIES LeaveStrandsNobody OwnershipTraced

CONSTANTS
  c1 = c1
  c2 = c2
  Call = {c1, c2}
  Inherited <- MCInherited
  Items <- MCItems
  Changes <- MCChanges
  NewItems <- MCNewItems
  Connections <- MCConnections
  Details <- MCDetails
  Edits <- MCEdits
  OrganizationArea <- MCArea
  MaxEvents = 1
SYMMETRY AnyCall
SPECIFICATION Spec
CHECK_DEADLOCK FALSE
INVARIANTS
  RestIsKept
  WrittenAsApproved
  ConnectionsKeepDetails
  AgainIsOnce
  ValidIsAccepted

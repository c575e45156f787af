SPECIFICATION Spec
CONSTANTS
  Calls = {c1, c2}
  Users = {u1, u2}
  Tenants = {home, new}
  Home = home
  Assigned = {"publisher"}
  MaxCuts = 1
  Null = null
  Old = old
SYMMETRY Symmetric
INVARIANTS TrailIsTrue ConnectionsTakeEffect AdaptersAreEntitled WritesAreRecorded
PROPERTIES ApiUserStays
CHECK_DEADLOCK FALSE

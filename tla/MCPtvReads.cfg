SPECIFICATION Spec
CONSTANTS
  Calls = {c1, c2}
  Processes = {p1, p2}
  o1 = o1
  o2 = o2
  s1 = s1
  s2 = s2
  Orgs = {o1, o2}
  Root = o1
  Parent <- MCParent
  Apis = {"v11", "v12"}
  CatalogueTtl = 1
  NameTtl = 2
  MissingTtl = 1
  MaxEvents = 1
  Services = {s1, s2}
  Owner <- MCOwner
  Bare = {s1}
  PageSize = 1
  MaxItems = 2
  Null = null
SYMMETRY Symmetric
INVARIANTS CatalogueIsWhole NamesAreKept ContentOnce FailuresAreForgotten
CHECK_DEADLOCK FALSE

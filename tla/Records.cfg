SPECIFICATION RecordsSpec
CONSTANTS
  Txns = {t1, t2}
  Keys = {k1, k2}
  Branches = {b1, b2}
  Customers = {c1}
  DueAmounts = {2}
  LegacyDues <- MCLegacyDues
  Members = {m1}
  Days = {d1, d2}
  Facts = {f1, f2}
  MaxRecordVersion = 3
  People = {o, k1, k2}
  Owner = o
  Roles = {r1}
  Grants <- MCGrants
  FieldIds = {x1, x2}
  ChoiceFields = {x1}
  Options = {d1, d2}
  RecordIds = {r1}
  Sessions = {t1, t2}
  Modules = {"queue", "tasks"}
  TaskModule = "tasks"
  Plans = {"core"}
  AddOns = {"extra"}
  Catalogues <- MCCatalogues
  ContractEdits <- MCContractEdits
  ExceptionEdits <- MCExceptionEdits
  MaxMoment = 2
SYMMETRY RecordsSymmetry
INVARIANTS RecordsInv NobodyStranded WritersAreEntitled
PROPERTIES DuesLedgerSpec CorrectsWhatWasRead GrantsAreHeld ValuesFollowDefinitions
CHECK_DEADLOCK FALSE

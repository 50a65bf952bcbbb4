SPECIFICATION Spec
CONSTANTS
  a = a
  b = b
  phone = phone
  tablet = tablet
  ether = ether
  Absent = Absent
  Shell = {a, b}
  Profile = {"location", "home"}
  Own = {1, 2}
  Edits <- SomeEdits
  Ip = {phone, tablet}
  Mac = {ether}
  MaxEntries = 2
  Budgets <- Together
INVARIANTS PolicyVetted ReloadTakesEffect FailedReloadChangesNothing FailedActivationUndone
PROPERTIES ActivationKeepsEdits HistoryNeverShrinks
CHECK_DEADLOCK FALSE

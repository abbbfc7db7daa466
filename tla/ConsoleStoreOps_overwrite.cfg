SPECIFICATION Spec
CHECK_DEADLOCK FALSE
CONSTANTS
  None = None
  ann = ann
  sue = sue
  d1 = d1
  d2 = d2
  k1 = k1
  k2 = k2
  k3 = k3
  Person <- Persons
  InitialRoles <- Roles
  Creator = ann
  Key <- Keys
  Draft <- Drafts
  Focus = {{"row"}, {"form"}, {"editor"}}
  NewRole = {"agent"}
  MaxActs = 3
  MaxChanges = 1
PROPERTY
  EditsSurvive

SPECIFICATION Spec
CONSTANTS
  t = t
  v = v
  n = n
  g = g
  NULL = NULL
  u1 = u1
  u2 = u2
  Nodes = {n}
  Groups = {g}
  MaxClasses = 1
  Types = {t, v}
  GroupType <- MCGroupType
  Urls = {u1, u2}
  Period = 2
  dirttl = 6
  Delay = 1
  MaxLost = 1
  MaxChanges = 5
INVARIANTS
  TypeOK
  AnnouncedIsListed
  WithdrawnIsDropped
  ReadersAreTold

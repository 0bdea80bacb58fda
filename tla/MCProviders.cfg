SPECIFICATION FairSpec
CONSTANTS
  p1 = p1
  p2 = p2
  p3 = p3
  r1 = r1
  r2 = r2
  n1 = n1
  n2 = n2
  Same = Same
  NoRow = NoRow
  NoUser = NoUser
  NoName = NoName
  Tabs = {t1, t2}
  Own = {poll}
  Providers = {p1, p2, p3}
  Routes = {r1, r2}
  Names = {n1, n2}
  Installed <- MCInstalled
  Clients <- MCClients
  MaxUsers = 3
  Edits <- MCEdits
  MaxEdits = 2
  MaxLost = 1
INVARIANTS
  TypeOK
PROPERTIES
  RegistryConverges

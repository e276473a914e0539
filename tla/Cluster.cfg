CONSTANTS
  None = None
  NoNS = NoNS
  Blank = Blank
  All = All
  a1 = a1
  a2 = a2
  a3 = a3
  n1 = n1
  n2 = n2
  n0 = n0
  Apps <- MCBoth
  RepoNames <- MCOne
  Instances <- MCBoth
  Existing <- MCExisting
  Ops <- MCBoth
  Wide <- MCOne
  Namespaces <- MCNamespaces
  Global = n0
  Accounts <- MCAccounts
  Clusters <- MCClusters
  Default = n0
  First = n0
  Access <- MCAccess
  Home <- MCHome
  Contents <- MCTwo
  Jobs <- MCTwo
  Indexes <- MCIndexes
  Max <- MCMax
SPECIFICATION Spec
INVARIANTS TypeOK ResourcesAreCurrent RequestsMatchPages RepoFormSends ListsSettle SessionHolds ControllerConverges ChecksumTells
\* A user may stop anywhere.
CHECK_DEADLOCK FALSE

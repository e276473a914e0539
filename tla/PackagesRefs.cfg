CONSTANTS
  None = None
  Unset = Unset
  a = a
  b = b
  x = x
  y = y
  w = w
  Namespaces <- MCNamespaces
  Filters <- MCFilters
  NoFilter = x
  Listing <- MCListing
  Pkgs <- MCBoth
  PkgVersions <- MCNumbers
  Files <- MCTwo
  Debounced <- MCOne
  Immediate <- MCOther
  ArrayParam = w
  Values <- MCTwo
  FormVersions <- MCVersions
  Defaults <- MCDefaults
  Deployed = 1
  Applied <- MCApplied
  Apps <- MCBoth
  Here <- MCOne
  AppVersions <- MCTwo
  Max <- MCMax
SPECIFICATION MCSpec
INVARIANT RefsErrorShown
\* A user may stop anywhere.
CHECK_DEADLOCK FALSE

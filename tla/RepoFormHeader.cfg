CONSTANTS
  NoDetail = NoDetail
  MaxFeatures = 1
  MaxEdits = 4
  MaxFixes = 1
SPECIFICATION Spec
INVARIANT SendsHeader
\* A user may stop anywhere.
CHECK_DEADLOCK FALSE

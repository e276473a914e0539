SPECIFICATION Spec
CONSTANTS
    Catalogs <- OneFlux
    PageSizes = {1}
    MaxErrors = 0
    MaxListed = 6
INVARIANT ListedOnce
CHECK_DEADLOCK FALSE

SPECIFICATION FairSpec
CONSTANTS
    Catalogs <- OneAndTwo
    PageSizes = {0, 1, 2, 3}
    MaxErrors = 1
    MaxListed = 6
INVARIANTS TokenTellsProgress EachListedOnce NamesInOrder
PROPERTY PagingEnds
CHECK_DEADLOCK FALSE

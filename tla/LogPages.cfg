SPECIFICATION Spec
CONSTANTS
    Listings = {"logs"}
    Sizes = {4}
    PageLimits = {2}
    MaxEmpty = 1
INVARIANT PaginationIsFull

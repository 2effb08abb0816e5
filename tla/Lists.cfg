\* Both lists with pages of one, two and the default number of rows.
CONSTANTS
    MaxOrders = 3
    ProductValue <- ThreeProducts
    PageSizes = {0, 1, 2}
    DefaultSize = 4
SPECIFICATION Spec
INVARIANTS
    PageIsFilled
    ProductsOnce
    NewestFirst

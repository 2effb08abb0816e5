\* Leafing through an order history longer than a page.
CONSTANTS
    MaxOrders = 2
    ProductValue <- ThreeProducts
    PageSizes = {1}
    DefaultSize = 4
SPECIFICATION Spec
INVARIANTS
    HistoryIsReachable

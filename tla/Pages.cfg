\* Two rows, two searches, three lists asked for, two orders.
CONSTANTS
    everything = everything
    lamp = lamp
    Everything = everything
    Searches = {everything, lamp}
    Found <- Hit
    Sizes = {1, 2}
    FirstSize = 1
    MaxFetches = 3
    MaxEntries = 2
CHECK_DEADLOCK FALSE
SPECIFICATION Spec
INVARIANTS
    SettledIsAsked
    PageExists
    OrderedOnce
PROPERTIES
    LoadingEnds

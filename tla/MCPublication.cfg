\* Two publishers of one target, each with any of three lists of module graphs; three
\* checkouts that acquire one package.
CONSTANTS
    p1 = p1
    p2 = p2
    c1 = c1
    c2 = c2
    c3 = c3
    Nobody = Nobody
    Publishers <- MCPublishers
    Checkouts <- MCCheckouts
    Names <- MCNames
    Records <- MCRecords
    GraphLists <- MCGraphLists
SPECIFICATION MCSpec
INVARIANTS
    PublishersAreSound
PROPERTIES
    PublicationsAreWhole
    InterruptedNeverReturns
SYMMETRY MCSymmetry
CHECK_DEADLOCK FALSE

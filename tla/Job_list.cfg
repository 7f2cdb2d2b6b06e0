\* Two writers on three keys, any command of which may fail, and a client that
\* pages through the list; ints have four bits, so that page 7 of two overflows.
SPECIFICATION PagingSpec
CONSTANTS
    Keys = {k1, k2, k3}
    Clients = {p1, p2}
    NoKey = NoKey
    CommandsFail = TRUE
    MaxInt = 7
    Queries <- SomeQueries
SYMMETRY Symmetry
INVARIANTS PagingTypeOK IndexMatchesRecords WalkComplete ListFailsOnlyForGone FarPagesEmpty

\* Reordering, loss, duplication, damage and eviction: three transfers, two places.
SPECIFICATION Spec
CONSTANTS
    odd = odd
    even = even
    empty = empty
    Transfers <- ThreeTransfers
    Posted <- Bodies
    Damaged <- Damages
    ChunkSize = 2
    MaxPending = 2
    MaxCopies <- Copies
INVARIANTS
    TypeOK
    DeliveredIsPosted
    TableSound
    OnlyDamageIsRejected
    DeliveriesPaid
    DeliveredWhenAllArrived
PROPERTY
    EvictedOnlyWhenStale
\* Every envelope may have arrived.
CHECK_DEADLOCK FALSE

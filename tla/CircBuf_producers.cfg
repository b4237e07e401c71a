CONSTANTS
    Producers = {p1, p2}
    Consumers = {c1}
    Size = 2
    Production = "MULTI"
    TimeoutConsumers = {}
    NoblockConsumers = {}
    SpuriousCas = FALSE
    MaxSeq = 2
SPECIFICATION FairSpec
INVARIANTS
    SlotExclusive
    AssertsHold
PROPERTIES
    ImplementsRing
    EventuallyConsumed
    TakeReturns

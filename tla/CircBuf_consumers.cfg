CONSTANTS
    Producers = {p1}
    Consumers = {c1, c2}
    Size = 2
    Production = "SINGLE"
    TimeoutConsumers = {c1}
    NoblockConsumers = {c2}
    SpuriousCas = TRUE
    MaxSeq = 3
SPECIFICATION Spec
INVARIANTS
    ReadsOwnTask
    IndInv
PROPERTIES
    NoblockMissesNothing

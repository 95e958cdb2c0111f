SPECIFICATION Spec
CONSTANTS
    LastDay = 3
    LoadedTo = 1
    LoadFroms = {1}
    ChunkSizes = {1, 2}
    MaxDays = 1
    Slots = 1
    T0Flags = {TRUE}
    MaxLoads = 2
INVARIANTS TypeOK ConfirmedSilverIsWhole MarkersMeanReplaced PromotionDocumentsLast  SilverInv
PROPERTY SilverImplementsPrefix

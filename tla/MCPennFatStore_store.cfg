SPECIFICATION StoreSpec
CONSTANTS
    f1 = f1
    f2 = f2
    x = x
    y = y
    Zero = Zero
    Names <- TwoNames
    Data <- TwoTokens
    Lines <- Short
    Perms <- OnOff
    NumEntries = 5
    BlockSize = 2
    MaxSize = 4
    Uses <- Mounting
INVARIANTS
    FreeBlockNumber
PROPERTIES
    ImplementsStore

SPECIFICATION Spec
CONSTANTS
    f1 = f1
    f2 = f2
    f3 = f3
    x = x
    Zero = Zero
    Names <- ThreeNames
    Data <- OneToken
    Lines <- ShortLong
    Perms <- ReadOnly
    NumEntries = 6
    BlockSize = 2
    MaxSize = 4
    Uses <- Moving
VIEW Shape
SYMMETRY NamesAlike
INVARIANTS
    TypeOK
    ChainsSound
    NoSharedBlock
    NoLostBlock
    FreeNotOverstated
    NamesUnique

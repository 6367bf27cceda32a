SPECIFICATION Spec
CONSTANTS
    f1 = f1
    f2 = f2
    f3 = f3
    x = x
    Zero = Zero
    Names <- ThreeNames
    Data <- OneToken
    Lines <- OneTwo
    Perms <- NoPerm
    NumEntries = 6
    BlockSize = 2
    MaxSize = 4
    Uses <- Spill
VIEW Shape
SYMMETRY NamesAlike
PROPERTIES
    InputArrives

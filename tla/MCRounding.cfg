SPECIFICATION Spec
CONSTANT WIDTH = 40
INVARIANTS NormVerdictIsCentered DecomposeIsDivision PartsFitTheirBits HintRepairs PackIsBitString UnpackInvertsPack ZetasAreRoots FieldsReadAsWritten
CHECK_DEADLOCK FALSE

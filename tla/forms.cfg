SPECIFICATION PageSpec
CONSTANTS
    f1 = f1
    f2 = f2
    Fields = {f1, f2}
    Decls <- PageDecls
    MaxLength = 3
    MaxNumber = 6
INVARIANTS
    TypeOK
    ShownIsFound
    BoxAgreesWithInput
    LetThroughIsAccepted
PROPERTIES
    NoStricterThanServer

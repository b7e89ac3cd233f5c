SPECIFICATION Spec
CONSTANTS
    Base = 4
    DigitBytes = 4
    SafeDigits = 2
    WordDigits = 8
    Top = 3
    FieldLists = {}
    OwnSchemas <- LooseOwnSchemas
    Ids <- MCIds
    Metadata <- LooseMetadata
    TokenFields = {}
INVARIANT TypesValidated
CHECK_DEADLOCK FALSE

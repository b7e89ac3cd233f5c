SPECIFICATION Spec
CONSTANTS
    Base = 4
    DigitBytes = 4
    SafeDigits = 2
    WordDigits = 8
    Top = 3
    FieldLists <- MCFieldLists
    OwnSchemas <- MCOwnSchemas
    Ids <- MCIds
    Metadata <- MCMetadata
    TokenFields <- MCTokenFields
INVARIANTS
    PublishedAsMade
    ReadsAsSupplied
    IdentityKept
    TokenMetadataKept
CHECK_DEADLOCK FALSE

SPECIFICATION CallSpec
CONSTANTS
    Base = 4
    DigitBytes = 4
    SafeDigits = 2
    WordDigits = 8
    Top = 3
    Messages <- MCMessages
    Keys = {1, 2}
    MaxWitnesses = 2
    Losses = {1, 7}
    Supplied <- MCSupplied
    Kept <- MCKept
    Orders <- MCOrders
    Soon = 1
INVARIANTS
    IntactOrRefused
    ReadAsSigned
    SignaturesVerify
    EnvelopesMeasured
    RecordsAsSupplied
CHECK_DEADLOCK FALSE

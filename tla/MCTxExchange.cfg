SPECIFICATION ExchangeSpec
CONSTANTS
    Keys = {1, 2}
    Sender = 1
    Expirations = {0, 2, 65536}
    MaxExpiration = 65535
    Ttl = 1
    MaxNonce = 4
    Work <- MCWork
    Difficulties = {0, 1, 2}
    MaxTime = 3
    MaxSignatures = 3
    MaxAttempts = 2
    Base = 16
    MaxArraySize = 64
    Characters <- MCCharacters
    Utf8 <- MCUtf8
    SignatureBytes = 3
    NexusName <- MCNexusName
    ChainName <- MCChainName
    Script <- MCScript
    Payload <- MCPayload
    Alphabet <- MCAlphabet
    PublicBytes = 2
    PrivateBytes = 1
    Check <- MCCheck
    NullTexts <- MCNullTexts
    PrivateKey <- MCPrivateKey
    PublicKey <- MCPublicKey
    Letters = {"0", "1", "P", "S", "X", "a", "b", "NULL", "null"}
    Entries <- MCEntries
INVARIANTS
    BuiltExecutedOnce
    FreshExecutedOnce
    SignersKnown
    WorkKept
    HandedOverWhole
    SignersRecognised
    TextsNameOne
CHECK_DEADLOCK FALSE

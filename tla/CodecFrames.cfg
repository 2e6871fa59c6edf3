SPECIFICATION Spec
CONSTANTS
    Base = 3
    CiphertextSize = 2
    KeySizes <- MCKeySizes
    DSAKeys <- MCDSAKeys
    MLKEMKeys <- MCMLKEMKeys
    Labels <- MCLabels
    MaxLen = 10
CHECK_DEADLOCK FALSE
INVARIANTS
    AcceptsExactlyEncodings
    IdentityRoundTrip
    PrefixFree
    PortsAgree
    DigestUnambiguous
    TranscriptUnambiguous

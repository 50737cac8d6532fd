SPECIFICATION Spec
CONSTANTS
    Width = 12
    MaxPort = 12
    UllongMax = 29
    MaxHeaderSize = 30
    Streams <- MCStreams
    FileSize <- MCFileSize
    Directories <- MCDirectories
    kMaxFileSize = 3
INVARIANTS TypeOK AssertionsHold RequestWhole UrlWhole OnlyLegalAnswered EndsOnlyFor PlainAnswered
PROPERTY ReadsUnseen

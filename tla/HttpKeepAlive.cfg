SPECIFICATION Spec
CONSTANTS
    Width = 12
    MaxPort = 12
    UllongMax = 29
    MaxHeaderSize = 30
    Streams <- PairStreams
    FileSize <- MCFileSize
    Directories <- MCDirectories
    kMaxFileSize = 3
INVARIANT LastMessageIsLast

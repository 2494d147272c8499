SPECIFICATION Spec
CONSTANTS
    None = None
    Receipts <- MCReceipts
    Decode <- MCDecode
    Size <- MCSize
    Signed <- MCSigned
    Tokens <- MCTokens
    Configs <- MCConfigs
    MaxPriorStages = 2
    MaxReceiptBytes = 8
    MaxChainBytes = 6
    MaxAgeLimit = 3
    MaxTime = 4
INVARIANTS
    AdmittedChainIsCredible
    AdmittedInTime
PROPERTY
    ImplementsPromise

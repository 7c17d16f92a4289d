\* Two lines and a ping through channels of small capacity; answers of up to five chunks
\* with two tools from every upstream; three attempts over every adaptor.
SPECIFICATION MCSpec
CONSTANTS
    DataCap = 1
    StopCap = 3
    MaxLines = 2
    MaxPings = 1
    MaxChunks = 5
    MaxTools = 2
    MaxTries = 3
INVARIANTS FinishedIsDelivered   ReaderMatchesRequest 
PROPERTIES ScannerReturns
CHECK_DEADLOCK FALSE

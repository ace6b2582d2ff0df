SPECIFICATION MCSpec
CONSTANTS
    FREEMEM = 20
    HOLESTART = 128
    HOLEEND = 160
    MEMEND = 256
    Requests <- MCRequests
    MaxBlocks = 6
    ROW = 2
    COL = 4
    TAB = 2
    Printed <- MCPrinted
    Cursors = {0, 3, 7}
    MaxPaper = 12
    WORD = 12
    BILLION = 1000
    MAXSTR = 20
    Formats <- MCFormats
    Arguments <- MCArguments
    BMAX = 9
    Codes <- MCCodes
    WSIZE = 4
    INBUFSIZ = 2
    Bytes = {0, 1}
    LengthExtra = {0, 5}
    DistanceExtra = {0, 13}
    DynamicCodes <- MCDynamicCodes
    MaxStored = 2
    MaxText = 6
CHECK_DEADLOCK FALSE
INVARIANT BlocksApart
INVARIANT ShowsWhatWasPrinted
INVARIANT PrintsItsArguments
INVARIANT TablesDecodeTheCode
INVARIANT WindowIsTail
INVARIANT LookaheadUndone

SPECIFICATION MCSpec
CONSTANTS
    CRLF = N
    Dashes = D
    Boundary = B
    NoType = none
    NoForm = noform
    NoLength = nolength
    Window = 6
    Bodies <- TheBodies
    Separator = "/"
    Marker = ":"
    Letters = {"b", "c"}
    MaxPath = 4
    RangeMaxCount = 4
    Code <- TheCode
    Chars <- TheChars
    HexDigits <- TheHexDigits
    Unreserved <- TheUnreserved
    Escaped <- TheEscaped
    RangeQuestions <- TheRangeQuestions
    PathQuestions <- ThePathQuestions
    CallQuestions <- TheCallQuestions
    ParamsQuestions <- TheParamsQuestions
INVARIANTS
    WholeOrRefused
    PartsInOrder
    AcceptedRangesServed
    CapturesExact
    CallsFramed
    QuerySurvives
PROPERTIES
    TransfersEnd
CHECK_DEADLOCK FALSE

SPECIFICATION Spec
CONSTANTS
    Texts <- MCTexts
    weight <- MCWeight
    length <- MCLength
    number <- MCNumber
    NaN = NaN
    to_string <- MCToString
    padded <- MCPadded
    Requests <- MCRequests
    Messages <- MCMessages
    Received <- MCReceived
    Strays <- MCStrays
INVARIANTS
    TypeOK
    IntactArrives
    AcceptedIsIntact
    ValidatorsAgree
\* A message is sent and read once.
CHECK_DEADLOCK FALSE

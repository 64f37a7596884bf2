SPECIFICATION Spec
CONSTANTS
    Params <- MCParams
    Puzzles = {"hash-to-der", "signature-size-surrogate"}
    Bits = {1, 3}
    Digits = {1, 2}
INVARIANTS
    AcceptsTheAuthorized
    OneSignatureOneMessage
    RollsFetchTheirElement
    OpcodesAsCounted
CHECK_DEADLOCK FALSE

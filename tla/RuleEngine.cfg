SPECIFICATION Spec
CONSTANTS
    food = food
    transport = transport
    undefined = undefined
    mcc1 = mcc1
    mcc2 = mcc2
    coffee = coffee
    metro = metro
    ticket = ticket
    Coffee = Coffee
    dash = dash
    Categories = {food, transport, undefined}
    Codes = {mcc1, mcc2}
    Words = {coffee, metro, ticket}
    RawWords = {coffee, Coffee, metro, ticket, dash}
    normalize <- MCNormalize
    Blank = Blank
    Unsupported = Unsupported
    Unit = 100
    NaN = NaN
    PosInf = PosInf
    NegInf = NegInf
    Documents <- MCDocuments
    Texts <- MCTexts
    Undefined = undefined
    Null = Null
CHECK_DEADLOCK FALSE
INVARIANTS TypeOK ConfidenceInRange SupportNeverHurts KeywordDecisionIsBest

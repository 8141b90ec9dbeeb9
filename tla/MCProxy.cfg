\* The whole life of a proxy; the session may idle once all is answered.
SPECIFICATION Spec
CONSTANTS
    init = init
    list = list
    call1 = call1
    call2 = call2
    ping = ping
    roots = roots
    Ids <- MCIds
    SrvIds = {roots}
    KindOf <- MCKindOf
INVARIANTS
    TypeOK
    EachRequestHeldOnce
PROPERTY AnswersOnce
CHECK_DEADLOCK FALSE

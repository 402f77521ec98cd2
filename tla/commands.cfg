\* Four requests for three commands over two positions and two keys.
CONSTANTS
    p = p
    q = q
    k1 = k1
    k2 = k2
    move = move
    reused = reused
    back = back
    first = first
    retry = retry
    other = other
    third = third
    Position = {p, q}
    Key = {k1, k2}
    Command = {move, reused, back}
    Request = {first, retry, other, third}
    NoRequest = NoRequest
    CommandOf <- MCCommandOf
    KeyOf <- MCKeyOf
    RowsOf <- MCRowsOf
    Stamped = {back}
SPECIFICATION FairSpec
INVARIANTS
    TypeOK
    AnswersAgree
PROPERTIES
    CommandsExactlyOnce
    EveryRequestAnswered
\* Every request is answered in the end, and then the system is done.
CHECK_DEADLOCK FALSE

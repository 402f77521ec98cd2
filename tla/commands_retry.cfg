\* The same requests, for a command such as create_order that is stamped when it arrives.
CONSTANTS
    p = p
    q = q
    k1 = k1
    k2 = k2
    move = move
    reused = reused
    back = back
    first = first
    retry = retry
    other = other
    third = third
    Position = {p, q}
    Key = {k1, k2}
    Command = {move, reused, back}
    Request = {first, retry, other, third}
    NoRequest = NoRequest
    CommandOf <- MCCommandOf
    KeyOf <- MCKeyOf
    RowsOf <- MCRowsOf
    Stamped = {move}
SPECIFICATION Spec
INVARIANT RetryReplayed
CHECK_DEADLOCK FALSE

------------------------ MODULE MCCommandTransactions ------------------------
(***************************************************************************)
(* Four requests: move is tried twice, while another command reuses its    *)
(* key and a third locks the same two positions the other way round, as    *)
(* allocations that list their positions in opposite orders do.            *)
(***************************************************************************)
EXTENDS CommandTransactions, TLC

CONSTANTS p, q, k1, k2, move, reused, back, first, retry, other, third

MCCommandOf == first :> move @@ retry :> move @@ other :> reused @@ third :> back
MCKeyOf == move :> k1 @@ reused :> k1 @@ back :> k2
MCRowsOf == move :> <<p, q>> @@ reused :> <<p>> @@ back :> <<q, p>>

=============================================================================

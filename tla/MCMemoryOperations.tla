------------------------- MODULE MCMemoryOperations -------------------------
(***************************************************************************)
(* An instance of MemoryOperations for TLC: a purchase order of two units, *)
(* a sales order of two lines of which one is in stock, one order that has *)
(* been shipped before, a count and a transfer to the warehouse in the east.*)
(***************************************************************************)
EXTENDS MemoryOperations, TLC

East == <<"a", "sellable", "east">>

MCElsewhere == {East}
MCPosition == (Product \X Condition) \cup {East}
MCSellable == (Product \X {"sellable"}) \cup {East}
MCKey == SubKey \cup ClientKey \cup TaskKey

MCOrdered ==
    [po   |-> [a |-> 0, b |-> 2, c |-> 0],
     so   |-> [a |-> 1, b |-> 1, c |-> 0],
     sold |-> [a |-> 1, b |-> 0, c |-> 1]]
MCOpened == [po |-> "acknowledged", so |-> "none", sold |-> "shipped"]
MCStocked ==
    [p \in Position |-> IF p \in {<<"a", "sellable">>, <<"b", "quarantined">>} THEN 1 ELSE 0]

MCManual ==
    [count |-> [type |-> "count", source |-> <<"b", "quarantined">>],
     move  |-> [type |-> "transfer", source |-> <<"a", "sellable">>, destination |-> East,
                quantity |-> 1]]

MCAsked == [r |-> [order |-> "sold", lines |-> [a |-> 1, c |-> 1]]]

MCDeltas == {-1}
MCAdjusted == {<<"a", "sellable">>, <<"b", "quarantined">>}

KeySymmetry == Permutations(RequestKey)

=============================================================================

---------------------------- MODULE MCFulfilment ----------------------------
(***************************************************************************)
(* Instances of Fulfilment for TLC: a purchase and a sales order of the    *)
(* main warehouse, with two lines each and no manual work, or with one     *)
(* line each, a count of the bin and a transfer to the warehouse in the    *)
(* east.                                                                   *)
(***************************************************************************)
EXTENDS Fulfilment, TLC

MCSite == [main |-> "M", east |-> "E"]
MCWarehouseOf == [po |-> "M", so |-> "M"]
MCTwoLines == [po |-> [a |-> 1, b |-> 1], so |-> [a |-> 1, b |-> 1]]
MCOneLine == [po |-> [a |-> 2], so |-> [a |-> 1]]

MCManual ==
    [count |-> [type |-> "count", source |-> <<"a", "main", "sellable">>],
     move  |-> [type |-> "transfer", source |-> <<"a", "main", "sellable">>,
                destination |-> <<"a", "east", "sellable">>, quantity |-> 1]]

ReturnSymmetry == Permutations(Return)

MCDeltas == {-1}
MCAdjusted == {<<"a", "main", "sellable">>, <<"a", "east", "sellable">>}

=============================================================================

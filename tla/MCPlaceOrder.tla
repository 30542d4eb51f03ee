---------------------------- MODULE MCPlaceOrder ----------------------------
(***************************************************************************)
(* TLC instance of placing orders: PlaceOrder, whose sound orders are      *)
(* interchangeable, and OrderIntake, which follows the values of one       *)
(* order.  They share no state, so that either runs while the other has    *)
(* nothing to do.                                                          *)
(***************************************************************************)
EXTENDS PlaceOrder, OrderIntake

OrderSymmetry == Permutations(Orders \ Defective)

-----------------------------------------------------------------------------
(***************************************************************************)
(* One line of every kind, and up to three lines whose sum comes to the    *)
(* bound, or passes it, or that mix currencies.                            *)
(***************************************************************************)
Whole(n) == [type |-> "integer", halves |-> 2 * n]

Skus == {"", "beans", "65 letters", "with NUL"}
Quantities == {Whole(n) : n \in 0..IntegerMax + 1}
              \cup {[type |-> "number", halves |-> h] : h \in {4, 5}}
              \cup {[type |-> "boolean", halves |-> 2]}
Amounts == {-10, 0, 5, 10, 30, 60, 70}

Lines(skus, quantities, amounts, spellings, currencies) ==
    [sku : skus, quantity : quantities, unit_amount : amounts, spelled : spellings,
     currency : currencies]

AnyLine == Lines(Skus, Quantities, Amounts, Spelling, {"EUR", "eur"})
GoodLine == Lines({"mug", "beans"}, {Whole(1), Whole(2)}, {0, 20, 30, 60}, {"number"}, {"EUR"})
            \cup Lines({"mug"}, {Whole(1), Whole(3)}, {10}, {"number", "other string"},
                       {"EUR", "USD"})

MCRequests == {<<>>} \cup {<<l>> : l \in AnyLine} \cup (GoodLine \X GoodLine)
              \cup ({l \in GoodLine : l.unit_amount \in {10, 20}} \X
                    {l \in GoodLine : l.sku = "mug"} \X
                    {l \in GoodLine : l.quantity = Whole(1)})

-----------------------------------------------------------------------------
NoIntake == /\ via = "http" /\ request = <<>> /\ lines = <<>>
            /\ layer = "off" /\ reply = "none"
            /\ total = Refused /\ tables = {} /\ fetched = Nothing

MCInit == Init /\ (NoIntake \/ IntakeInit)

MCNext == \/ layer = "off" /\ Next /\ UNCHANGED intake
          \/ IntakeNext /\ UNCHANGED vars

MCSpec == MCInit /\ [][MCNext]_<<vars, intake>>
=============================================================================

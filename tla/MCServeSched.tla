--------------------------- MODULE MCServeSched ---------------------------
(* Three requests on two slots: two of one conversation, one of another.    *)
EXTENDS ServeSched

CONSTANTS a1, a2, b

MCReq == {a1, a2, b}
MCConv == a1 :> "A" @@ a2 :> "A" @@ b :> "B"
Apart == [r \in MCReq |-> r]
MCPrompt == a1 :> 2 @@ a2 :> 3 @@ b :> 4
MCBudget == a1 :> 2 @@ a2 :> 1 @@ b :> 2
Longer == a1 :> 3 @@ a2 :> 4 @@ b :> 3
SnapB == a1 :> 0 @@ a2 :> 0 @@ b :> 2
BudgetB == a1 :> 2 @@ a2 :> 1 @@ b :> 3
Twos == [r \in MCReq |-> 2]
Threes == [r \in MCReq |-> 3]
NoRows == [r \in MCReq |-> 0]
CutB == a1 :> 0 @@ a2 :> 0 @@ b :> 2
CutBoth == a1 :> 0 @@ a2 :> 1 @@ b :> 2
=============================================================================

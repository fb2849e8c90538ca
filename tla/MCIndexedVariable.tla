-------------------------- MODULE MCIndexedVariable --------------------------
EXTENDS IndexedVariable
SmallIndices == {Colon, Idx(0, 0, <<>>), Idx(1, 1, <<0>>), Idx(1, 1, <<1>>), Idx(1, 1, <<2>>), Idx(1, 1, <<3>>),
                 Idx(1, 2, <<2, 1>>), Idx(1, 2, <<1, 1>>), Idx(2, 1, <<1, 0>>), Idx(1, 2, <<1, 3>>), Idx(2, 1, <<2, 2>>)}
SmallOperands == {Empty, Mat(1, 1, <<1>>), Mat(1, 2, <<1, 2>>), Mat(2, 1, <<1, 2>>), Mat(2, 2, <<1, 2, 0, 1>>)}
Default == [pzo |-> FALSE, rre |-> TRUE, dfi |-> FALSE, pcv |-> TRUE]
SomePreferences == {Default, [Default EXCEPT !.pzo = TRUE, !.pcv = FALSE, !.dfi = TRUE], [Default EXCEPT !.rre = FALSE]}
==============================================================================

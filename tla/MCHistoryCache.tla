--------------------------- MODULE MCHistoryCache ---------------------------
EXTENDS HistoryCache, TLC

MCDayOf == [t \in Time |-> t \div 3]

Symmetric == Permutations(Query)

=============================================================================

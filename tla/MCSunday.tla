------------------------------ MODULE MCSunday ------------------------------
EXTENDS Sunday, TLC

Symmetric == Permutations(Channel) \cup Permutations(Request)

=============================================================================

------------------------ MODULE MCOrderedChanges ------------------------
\* The instance of OrderedChanges that TLC checks: no step tells one row key
\* or one row content from another.
EXTENDS OrderedChanges, TLC

Symmetry == Permutations(Keys) \cup Permutations(Values)

=============================================================================

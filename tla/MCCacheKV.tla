----------------------------- MODULE MCCacheKV -----------------------------
EXTENDS CacheKV

CONSTANTS a

\* Parents with no key, two keys or all of them.
MCParents == {[k \in Keys |-> IF k \in S THEN a ELSE Nil] : S \in {{}, {1, 3}, Keys}}

D(start, end) == [start |-> start, end |-> end]
MCDomains == {D(0, 0), D(1, 3)}
MCRanges == {D(1, 3), D(2, 9)}
AnyRange == {D(0, 0)}

=============================================================================

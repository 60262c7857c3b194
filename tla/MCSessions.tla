----------------------------- MODULE MCSessions -----------------------------
\* Small instances of the sessions.  Session ids, uuids and requests are
\* interchangeable.
EXTENDS SessionSafety, TLC

Symmetry == Permutations(Sids) \cup Permutations(Ids) \cup Permutations(Requests)
=============================================================================

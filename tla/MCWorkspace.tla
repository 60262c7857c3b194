---------------------------- MODULE MCWorkspace ----------------------------
\* Small instances of the workspace lifecycle.  Uuids, guest addresses and
\* requests are interchangeable.
EXTENDS WorkspaceSafety, TLC

Symmetry == Permutations(Ids) \cup Permutations(IPs) \cup Permutations(Requests)

\* Overlapping calls and crashes put a CID on the free list more than once:
\* longer lists add no new case.
MaxFree == 2
FreeListBound == Len(free_vsock_cids) <= MaxFree
=============================================================================

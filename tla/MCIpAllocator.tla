--------------------------- MODULE MCIpAllocator ---------------------------
\* The allocator on a subnet of a few offsets instead of 65536.
EXTENDS IpAllocator
=============================================================================

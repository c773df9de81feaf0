------------------------------ MODULE MCCache ------------------------------
\* Small instances of Cache for TLC; clients, handles and addresses are model values.
EXTENDS Cache

\* Entries that fit, and one that is too large for the cache.
SizesAroundMax == 1 .. MaxSize + 1
============================================================================

------------------------- MODULE MCOrderRepository -------------------------
\* TLC instance of OrderRepository: versions of one and of two lines.
EXTENDS OrderRepository

CONSTANTS short, long

MCLineCount == [s \in Savers |-> IF s = long THEN 2 ELSE 1]
=============================================================================

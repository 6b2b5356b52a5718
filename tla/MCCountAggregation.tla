------------------------- MODULE MCCountAggregation -------------------------
\* CountAggregation on a small instance.
EXTENDS CountAggregation
=============================================================================

----------------------- MODULE MCThresholdAggregation -----------------------
\* ThresholdAggregation on small instances.
EXTENDS ThresholdAggregation
=============================================================================

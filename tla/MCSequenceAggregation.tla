----------------------- MODULE MCSequenceAggregation -----------------------
\* SequenceAggregation on small instances.
EXTENDS SequenceAggregation

\* Events that match one step each.
OneStepEach == {{i} : i \in 0..LastStep}
=============================================================================

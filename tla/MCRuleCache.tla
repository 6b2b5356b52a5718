---------------------------- MODULE MCRuleCache ----------------------------
\* RuleCache on small instances.
EXTENDS RuleCache, TLC

\* Handlers and rules are interchangeable.
LoaderSymmetry == Permutations(Handlers) \cup Permutations(Rules)
=============================================================================

---------------------------- MODULE MCLogPipeline ----------------------------
\* LogPipeline on small instances.
EXTENDS LogPipeline
=============================================================================

---------------------------- MODULE MC_QueueStore ----------------------------
\* Three transaction users and two plain writers on the one store handle.
EXTENDS QueueStore
CONSTANTS a1, a2, a3, w1, w2
=============================================================================

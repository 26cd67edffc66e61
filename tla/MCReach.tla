------------------------------- MODULE MCReach -------------------------------
EXTENDS Reach
==============================================================================

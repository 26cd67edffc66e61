----------------------------- MODULE MCFeatures ------------------------------
EXTENDS Features
==============================================================================

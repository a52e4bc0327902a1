------------------------------- MODULE MCNet -------------------------------
EXTENDS Net
=============================================================================

------------------------------ MODULE MCServer ------------------------------
EXTENDS Server, MCNetServer, MCLArray
=============================================================================

----------------------------- MODULE MCProgram ------------------------------
EXTENDS Program, MCConnections, MCThreadBuffer
=============================================================================

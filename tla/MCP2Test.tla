------------------------------ MODULE MCP2Test -------------------------------
EXTENDS P2Test, TLC

ASSUME TestAssumption
=============================================================================

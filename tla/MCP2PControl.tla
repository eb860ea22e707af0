----------------------------- MODULE MCP2PControl -----------------------------
EXTENDS P2PControl
=============================================================================

--------------------------- MODULE MCPaperDaemon ---------------------------
EXTENDS PaperDaemon
=============================================================================

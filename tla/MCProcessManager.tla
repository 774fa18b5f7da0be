--------------------------- MODULE MCProcessManager ---------------------------
EXTENDS ProcessManager
===============================================================================

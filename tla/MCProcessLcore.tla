-------------------------- MODULE MCProcessLcore --------------------------
EXTENDS ProcessLcore
=============================================================================

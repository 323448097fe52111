--------------------------- MODULE MCReplacement ---------------------------
EXTENDS Replacement

MCPcts == {0, 50, 100}
MCWeights == {1, 3}
=============================================================================

---------------------------- MODULE MCRawEngine ----------------------------
EXTENDS RawEngine
=============================================================================

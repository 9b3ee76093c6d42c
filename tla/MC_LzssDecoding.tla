--------------------------- MODULE MC_LzssDecoding --------------------------
EXTENDS LzssDecoding
=============================================================================

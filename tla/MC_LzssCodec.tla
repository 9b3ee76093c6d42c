---------------------------- MODULE MC_LzssCodec ----------------------------
EXTENDS LzssCodec
=============================================================================

-------------------------- MODULE MC_Img3Container --------------------------
EXTENDS Img3Container
=============================================================================

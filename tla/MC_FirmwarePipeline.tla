------------------------ MODULE MC_FirmwarePipeline -------------------------
EXTENDS FirmwarePipeline
=============================================================================

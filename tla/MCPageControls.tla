--------------------------- MODULE MCPageControls ---------------------------
EXTENDS PageControls

MCVolumes == {0, 40, 100}
=============================================================================

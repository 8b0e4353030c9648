------------------------------ MODULE MCLayers ------------------------------
EXTENDS Layers
=============================================================================

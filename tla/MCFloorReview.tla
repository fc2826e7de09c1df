--------------------------- MODULE MCFloorReview ---------------------------
EXTENDS FloorReview, TLC
=============================================================================

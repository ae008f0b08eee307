--------------------------- MODULE NumberBufferMC ---------------------------
EXTENDS NumberBuffer
MCCapacities == 1..17
=============================================================================

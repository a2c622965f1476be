--------------------------- MODULE MCEventDelivery ---------------------------
EXTENDS EventDelivery
=============================================================================

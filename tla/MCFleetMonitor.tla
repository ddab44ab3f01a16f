--------------------------- MODULE MCFleetMonitor ---------------------------
EXTENDS FleetMonitor
=============================================================================

------------------------- MODULE MCPilotEnrollment -------------------------
EXTENDS PilotEnrollment
=============================================================================

--------------------------- MODULE MCCaddySupervisor ---------------------------
EXTENDS CaddySupervisor
=============================================================================

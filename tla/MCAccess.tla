------------------------------- MODULE MCAccess -------------------------------
EXTENDS Access
===============================================================================

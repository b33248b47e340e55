-------------------------- MODULE MC_ObjectMonitor --------------------------
EXTENDS ObjectMonitor, TLC

CONSTANTS a, b
=============================================================================

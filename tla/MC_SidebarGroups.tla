------------------------- MODULE MC_SidebarGroups -------------------------
EXTENDS SidebarGroups

CONSTANTS c1, c2, c3

MC_ConvOrder == <<c1, c2, c3>>

\* 42 days in steps of 1, 7 and 23 days reach every bucket boundary
\* (0, 7, 8, 30, 31 days old) and conversations several months apart.
MC_MaxDay == 42
MC_Jumps == {1, 7, 23}
MC_DaysPerMonth == 10
=============================================================================

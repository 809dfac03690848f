------------------------ MODULE MC_SidebarActions ------------------------
EXTENDS SidebarActions

CONSTANTS c1, c2, none

\* Two conversations; two change events and two reads of each kind in
\* flight, enough for a stale read to be overtaken by a fresh one.
MC_Convs == {c1, c2}
MC_MaxEvents == 1
MC_MaxReads == 2
=============================================================================

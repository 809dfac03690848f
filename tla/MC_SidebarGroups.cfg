\* Three conversations over 42 days, in a locale whose month names parse
\* and in one whose do not.  The only states without successor are those
\* at MaxDay with every conversation created and removed.
CONSTANTS
    c1 = c1
    c2 = c2
    c3 = c3
    ConvOrder <- MC_ConvOrder
    MaxDay <- MC_MaxDay
    Jumps <- MC_Jumps
    DaysPerMonth <- MC_DaysPerMonth
SPECIFICATION Spec
INVARIANT TypeOK
INVARIANT SidebarNewestFirst
CHECK_DEADLOCK FALSE

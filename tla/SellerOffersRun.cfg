\* One or two apl-server processes on one database.
CONSTANTS
    Servers = {apl1, apl2}
    Sellers = {s1, s2}
    Ids = {i1, i2}
    Titles = {t1}
    Absent = Absent
SPECIFICATION MCSpec
INVARIANTS ListedActivitiesAreRecorded AcknowledgedIsShown DeletedStaysDeleted TitlesAreUnique
SYMMETRY Symmetry

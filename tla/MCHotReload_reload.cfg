\* Two files; three changes or crashes, of which a save takes two.
SPECIFICATION Spec
CONSTANTS
    plain = plain  group = group  e1 = e1
    Empty = Empty  Absent = Absent  None = None
    NumFiles = 2
    Contents <- TwoContents
    Valid <- References
    Editors <- OneEditor
    MaxChanges = 3
INVARIANTS TypeOK ServedTreeExisted
PROPERTIES UndisturbedSaveLoads LastChangeIsServed
CHECK_DEADLOCK FALSE

SPECIFICATION Spec
CONSTANTS
    Dirs = {d1, d2}
    Files = {f1}
    Root = Root
    Editors = {e1, e2}
    Requests = {r1}
    Old = {{}, {d1, d2}, {d1, d2, f1}}
    Unkeyed = Unkeyed
    MaxRevision = 2
    MaxAtWork = 2
    MaxVersions = 2
SYMMETRY Alike
INVARIANTS
    TreeIsSound
    SnapshotIsRevision
    RepeatIsTrue
PROPERTIES
    RecordedIsCurrent
CHECK_DEADLOCK FALSE

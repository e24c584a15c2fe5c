\* Two imports, at once or one after the other, with one kill, edit or loss at any
\* moment, over a root, a folder, and a file of the same name in each.
SPECIFICATION Spec
SYMMETRY Interchangeable
CONSTANTS
    Folders <- FoldersC
    Files <- FilesC
    Walk <- WalkC
    Parent <- ParentC
    Base <- BaseC
    Ignored = {}
    Importers = {i1, i2}
    NoRow = NoRow
    NoDir = NoDir
    Nothing = Nothing
    MaxRuns = 2
    MaxEdits = 1
INVARIANTS
    TypeOK
    NothingLostSilently
PROPERTIES
    KeysKept
    PublishStateKept
    OnlyCompleteDownloadsRemoved

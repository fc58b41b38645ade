SPECIFICATION Spec
CONSTANTS
    Names = {1, 2}
    Contents = {"x"}
    Raws <- MCRaws
    MaxDepth = 3
    Avoided = {"write_file", "create_dir", "rename"}
INVARIANTS WalkFindsAll ErrnoRight
PROPERTIES ImplementsTreeFs FailuresChangeNothing

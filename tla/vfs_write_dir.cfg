SPECIFICATION Spec
CONSTANTS
    Names = {1, 2}
    Contents = {"x"}
    Raws <- MCRaws
    MaxDepth = 3
    Avoided = {"create_dir", "rename"}
PROPERTIES DirectoriesStay

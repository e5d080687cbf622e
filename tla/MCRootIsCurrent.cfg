\* Two requests and one move of the folder, while the first resolves its real path.
CONSTANTS
  Dir = {"d", "e"}
  Transfer = {1, 2}
  MaxUploads = 1
  MaxMoves = 1
SPECIFICATION FilesSpec
PROPERTY RootIsCurrent
CHECK_DEADLOCK FALSE

\* The components of a node that share no state, one at a time; the queue alone, and with
\* its workers, are among them.
\* Each stops where its bounds are reached, so no step may be enabled.
SPECIFICATION MCSpec
VIEW MCView
CONSTANTS
  NoCommand = NoCommand
  Record = {"m"}
  Opener = {"a", "b"}
  Call = {1, 2, 3}
  opener <- MCOpener
  MaxChanges = 3
  Tool = {"a", "b"}
  MaxEdits = 2
  MaxReadFaults = 1
  MaxStarts = 2
  KNOWN_METHODS = {"prompt", "list"}
  DefaultMethods = {"list"}
  Label = {"a"}
  Asked = {"prompt"}
  capabilities <- MCCapabilities
  Peer = {"a", "b"}
  Alias = {"x"}
  Server = {"s"}
  firstTunnel <- MCFirstTunnel
  Public = {"a"}
  ServePort = 2
  PortBase = 1
  MaxPort = 3
  MaxTokens = 2
  MaxCommands = 3
  Home = {"h", "k"}
  Workspace = {"v", "w"}
  Titled = {"w"}
  Reader = {1, 2}
  Scan = {"s", "t"}
  MaxReloads = 1
  Logged = {"h"}
  PageReader = {1}
  Limit = {1, 3}
  Chars = {1, 2}
  MaxMessages = 2
  CacheSize = 1
  ReadCap = 2
  Retries = 2
  MaxPieces = 3
  MaxLog = 3
  Manager = {1, 2}
  MaxSpawns = 3
  MaxJobs = 4
  Space = {"w"}
  Cmd = {"workspaces", "list", "read", "create", "rename", "archive", "prompt", "again",
         "last"}
  args <- MCArgs
  MaxRows = 2
  MaxResult = 1
  MaxSessions = 2
  MaxTurns = 2
  MaxRuns = 2
  Dir = {"d", "e"}
  Transfer = {1, 2}
  MaxUploads = 2
  MaxMoves = 1
  Url = {"u", "v"}
  Settings = {"s", "t"}
  MaxItems = 3
  MaxOwnerEdits = 2
  MaxInstalls = 2
INVARIANTS TypeOK PendingBound ChannelInvariant ExecutedOnce SavedIsKept ComponentsAgree EditsKept NothingMissed CallFollowsConfig TokensAccepted PortsApart AddressIsVisitor AnsweredFromConfig ExcludedStaysHidden PagesLeaveNoGap PageIsCurrent OneTunnel PromptedOnce CreatedOnce AnswerTellsWhatItOmits FilesAreWhole VerifiedIsSaved NothingLost InstallSettles
CHECK_DEADLOCK FALSE

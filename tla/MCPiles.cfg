SPECIFICATION PilesSpec
CONSTANTS
  None = None
  Transcripts <- ShortTalks
  Answers <- TwoSegments
  OwnPiles = {"own"}
  Sessions = {s}
  Piles = {"todo", "discarded"}
  Requests = {p, q}
  BatchSize = 1
  MaxSource = 2
  Engines = {"postgres", "sqlite"}
  Modes = {"immediate", "browser"}
  Chats = {c1, c2}
  BuiltIns = {"ideas", "discarded"}
  UserPiles = {"mine"}
  Runners = {r1, r2}
  RunLimit = 2
  MaxTicks = 2
  MaxEdits = 2
  Configs <- Configured
  Conversations = {1, 2, 3}
  NodeLimit = 5
  EdgeLimit = 5
  PathLimit = 3
  MaxHops = 3
  Rounds = 10
  CostScale = 12
  Contents <- Library
  Scopes <- TwoScopes
  Shelved = {1, 2, 3, 4}
  MatchLimit = 1
  GroupLimit = 3
  SourceLimit = 1
  Holdings <- Shelf
  Themes <- OneTheme
  SearchSessions = {1, 2}
  SearchCaptures = {3}
  MaxSearchEdits = 1
  Queries <- SevenQueries
  Items <- FourItems
  Paths = {"p", "q"}
  MaxRequests = 2
  Lists <- TodoLists
  Texts <- Things
SYMMETRY Symmetry
INVARIANTS TypesOK FlagHonest RoutesHold RunsHold ViewsHold
PROPERTIES NotesLatest OwnerWins
CHECK_DEADLOCK FALSE

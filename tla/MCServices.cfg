SPECIFICATION Services
CONSTANTS
  Records = {r}
  Contents = {1, 2}
  BatchSize = 2
  MaxFailures = 1
  MaxRebuilds = 1
  None = None
  Sources = {s, t}
  Upstream = {u}
  Places = {a}
  Engines = {"sqlite", "postgres"}
  MaxTime = 3
  Unset = Unset
  Grants = {g, h}
  Devices = {c, d, e}
  Names = {n, so}
  Limits = {1, None}
  MaxReplaced = 1
  ServiceOwner = so
  Deleted = Deleted
  CaptureKeys = {k}
  Payloads = {x, y}
  Requests = {p, q, v}
  Processes = {1, 2}
  Enrichments <- Answered
  Sent = Sent
  Modes = {"legacy", "workspace"}
  Clients = {c1, c2}
  RequestKeys = {k1}
  Wishes <- Reminded
  Changes <- FourChanges
  SettingChanges <- Switches
  MaxTasks = 2
  MaxTaskVersion = 3
  MaxClock = 2
  MaxSettings = 1
  Hosts = {h1}
  Spoken <- Agent
  Files = {7}
  MaxMessages = 2
  MaxLength = 2
  MaxSeconds = 1
  MaxHandled = 2
  Calls = {i, j}
  Talks = {l, m}
  Prompts = {1}
  Replies = {2}
  Providers = {"chatgpt", "grok"}
  MaxNodes = 5
  Home = Home
INVARIANTS TypesOK NotesCurrent Membership CountedOnce SavedIsKept CompletionsHold
PROPERTIES AnswersCurrent
CHECK_DEADLOCK FALSE

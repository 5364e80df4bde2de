SPECIFICATION PartsSpec
CONSTANTS
  one = one
  other = other
  tool = tool
  call = call
  first = first
  second = second
  ingest = ingest
  trace = trace
  project = project
  code = code
  token = token
  agent = agent
  deny_rate = deny_rate
  cost_rate = cost_rate
  Nothing = Nothing
  Off = Off
  Agents = {agent}
  Rates = {deny_rate}
  Amounts = {cost_rate}
  Scale = 8
  Values <- MCValues
  MinSpans = 2
  Slack = 4
  Threshold = 40
  Clients <- Two
  Calls = {call}
  Frameworks <- MCFrameworks
  ThreadKinds <- MCThreadKinds
  MaxInstruments = 2
  MaxUninstalls = 1
  BreakerAgents <- Two
  Tools = {tool}
  ErrorThreshold = 2
  Window = 2
  Cooldown = 1
  HalfOpenMax = 2
  BreakerTime = 2
  AlertAgents <- Two
  Projects = {project}
  Channels = {first, second}
  ProjectsOf <- MCProjectsOf
  ChannelKinds <- MCKinds
  Owner <- MCOwner
  Timeout = 0
  AlertTime = 2
  ChannelChanges = 1
  MaxDrifts = 1
  Requests <- Two
  Codes = {code}
  Tokens = {token}
  MaxSessions = 1
  MaxFailed = 1
  MaxSessionsMade = 2
  PasswordChanges = 2
  MaxSetups = 1
  Receivers <- Two
  Ingests = {ingest}
  Traces = {trace}
  Premake = 1
  Retention = 1
  Batch = 1
  Keeps = {0, 1}
  FirstMonth = 1
  LastMonth = 3
  MaxUpdates = 1
  Lists <- MCLists
  RowIds = {1, 2, 3}
  RowTimes = {1, 2}
  Vals = {0, 1}
  Cap = 2
  TableChanges = 1
  Batches <- MCBatches
  Settings <- MCSettings
  SettingsChanges = 1
  Callers <- Two
  Capacity <- MCCapacity
  Rate <- MCCapacity
  Per = 2
  PruneInterval = 1
  IdleTimeout = 2
  LimitTime = 4
  MaxRequests = 4
CHECK_DEADLOCK FALSE
SYMMETRY Perms
INVARIANTS RatesStaySilent ClientsShareWell AlertsAreGiven AccountsHold SpansAreStored WalksAreWhole RawStaysOut LimitsKept
PROPERTIES Hysteresis

SPECIFICATION ServicesSpec
CONSTANTS
  ServiceNames = {"social", "scheduler", "events", "websocket", "p2p", "migration", "sandbox", "health", "redis", "roles",
    "accounts", "limiter", "mfa", "sso", "apikeys", "keypool", "storage", "versions",
    "audit", "functions", "config", "logging", "ssh", "search"}
  SocialUsers = {u1, u2}
  SocialCalls = {s1, s2}
  MaxPageSize = 2
  CronTasks = {cron}
  OnceTasks = {once}
  Runs = {r1, r2}
  Events <- MCEvents
  EventFilters <- MCFilters
  NoFilter = NoFilter
  Subscribers = {b1}
  Capacity = 2
  FilteredCapacity = 2
  MaxPublished = 3
  RoomIds = {room, hall}
  Conns = {c1, c2}
  ChannelSize = 1
  MaxChannels = 2
  MaxBroadcasts = 2
  Peers = {p1, p2}
  NodeCalls = {n1, n2}
  EventBufferSize = 2
  MaxTaken = 1
  Versions = {1, 2, 3}
  Migrators = {m1, m2}
  MaxRestarts = 1
  Spawns = {w1}
  MemorySizes = {32, 64, 65}
  MaxMemoryMb = 64
  Reporters = {q1, q2}
  Checks <- MCChecks
  Latencies = {5000, 5001}
  Requests = {h1, h2}
  MetricNames = {hits, size}
  Registries = {g1, g2}
  MaxRequests = 3
  LockClients = {k1, k2}
  LockKeys = {lease}
  LockTtls = {0, 1, 2}
  RetryAttempts = 2
  MaxRedisTime = 3
  Letters = {"a", "b"}
  WordLength = 3
  WordsPerList = 2
  TextLength = 4
  Replacements = {"x", "a"}
  At = At
  Dot = Dot
  Star = Star
  MaxText = 20
  Slash = "/"
  Backslash = "back"
  Nul = "nul"
  Period = "."
  Plain = "x"
  Space = " "
  MaxInput = 3
  RbacRoles = {"editor", "viewer", "doc:read"}
  KeyOf <- MCKeyOf
  Wildcard = "*"
  Nobody = Nobody
  Uuids = {"me", "nil"}
  NilUuid = "nil"
  FullStop = "."
  LowerOf <- MCLowerOf
  Bin = "bin"
  NotFound = NotFound
  CardDigits <- MCCards
  OctetDigits <- MCOctets
  PasswordCounts <- MCCounts
  RawInputs <- MCRawInputs
  FileNamesGiven <- MCFileNames
  RoleGraphs <- MCGraphs
  RoleLists <- MCRoleLists
  TokensIssued <- MCTokens
  RequestsMade <- MCRequests
  UploadsMade <- MCUploads
  FreshName <- MCFreshName
  SystemCodes <- MCSystemCodes
  CustomCodes = {"editor"}
  PermissionCodes = {"read"}
  NoId = NoId
  MaxRoles = 2
  MaxPermissions = 2
  Usernames = {"ann"}
  Emails = {"a@b"}
  DefaultRole = "user"
  AuthCalls = {a1, a2}
  MaxUsers = 2
  LimiterEnabled = TRUE
  Clients = {"local", "far"}
  LocalAddress = "local"
  Whitelist = {"local"}
  Endpoints = {"/api/login", "/"}
  EndpointRules <- MCEndpointRules
  PrefixesOf <- MCPrefixesOf
  IpRule = NoRule
  DefaultRule <- MCDefaultRule
  NoRule = NoRule
  LimiterTasks = {l1, l2}
  NoAddress = NoAddress
  MaxLimiterTime = 3
  MaxChecks = 4
  MfaUsers = {f1, f2}
  BackupCodes = {x1, x2, x3}
  CodesPerUser = 2
  TotpInterval = 3
  MaxSecrets = 3
  MaxMfaTime = 5
  SsoProviderIds = {"github", "google"}
  MaxProviders = 2
  SsoLifetime = 1
  MaxSsoStates = 3
  MaxSsoTime = 3
  KeyPrefixes = {"k1", "k2"}
  KeySecrets = {"long", "short"}
  LengthOf <- MCLengthOf
  Tenants = {t1, t2}
  KeyDays = {0, 1}
  Forever = Forever
  MaxKeys = 3
  MaxDay = 2
  PoolNames = {o1}
  PoolKeyIds = {i1, i2, i3}
  KeyExpiries = {0, 1}
  NeverExpires = NeverExpires
  DefaultMaxKeys = 2
  MaxUses = 1
  MaxPoolTime = 2
  StorageKeys = {"a/b", "a_b", "c"}
  FileOf <- MCFileOf
  StorageValues = {"v", "w"}
  StorageTasks = {d1, d2}
  Empty = "empty"
  Torn = "torn"
  ApiVersionNames = {1, 2, 3}
  NoVersion = NoVersion
  AuditPages = {0, 1, 2, 3, 7}
  AuditSizes = {0, 1, 2, 200}
  NotGiven = NotGiven
  DefaultPageSize = 2
  LargestPageSize = 3
  WordSize = 16
  AuditTasks = {j1}
  MaxRows = 4
  ConfigValues = {e1, e2}
  FirstConfig = e1
  Unreadable = Unreadable
  Updaters = {updater}
  FileWatcher = FileWatcher
  ConfigSubscribers = {listener}
  NeverSeen = NeverSeen
  MaxFileTime = 1
  LogThreads = {y1, y2}
  LogSizes = {0, 1, 3}
  FullSize = 2
  RetentionDays = 1
  MaxLogDay = 2
  MaxLogIndex = 2
  MaxLines = 5
  ExitStatuses = {0, 1}
  CommandTimeout = 1
  MaxPieces = 2
  MaxSshTime = 2
  HeaderNames = {"csp", "hsts"}
  HeaderValues = {"first", "second"}
  MaxNesting = 3
  Unsendable = Unsendable
  MailsSent <- MCMails
  SearchCalls = {v1, v2}
  IndexIds = {books}
  PrimaryKeys = {"id", "sku"}
  DocIds = {1}
  NoIndex = NoIndex
  MaxSearchTasks = 3
INVARIANTS
  ServicesTypeOK
  RoomDelivery
  EventsTellPeers
  BusDelivers
  BlockSeversFollowing
  RunningIsRun
  AnswersAreTrue
  ReadsAreTrue
  ResultsAreTrue
  AccountsHold
  CredentialsHold
  KeyListsAgree
  WindowsHold
  TextsHold
  RulesHold
PROPERTIES
  OnlyFiringResumes
CHECK_DEADLOCK FALSE

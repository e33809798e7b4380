SPECIFICATION Spec
CONSTANTS
  ABSENT = ABSENT
  c1 = c1
  c2 = c2
  UserIds = {"a", "b", "m"}
  bridge = "m"
  owners = {"a", "b"}
  Passwords = {"p1"}
  Requests <- Callers
  MaxVersion = 2
  MaxRequests = 4
  Seeds <- MCSeeds
  Inputs <- MCInputs
  Operations <- Callers
  MaxOperations = 4
  MaxFailures = 1
  Admins <- Callers
  Capabilities <- MCCapabilities
  Profiles <- MCProfiles
  Aliases <- MCAliases
  Trusted <- MCTrusted
  MaxCalls = 2
  Agents = {"e1"}
  Humans = {"u1"}
  Codes = {"CODE_BUILD", "CODE_PLAN"}
  Unsafe = {"CODE_PLAN"}
  Resolvers = {"r1", "r2"}
  Approvers = {"a1", "a2"}
  Activators = {"v1"}
  Editors <- Callers
  Mapping <- MCMapping
  MaxEdits = 2
  Base = {"CODE_BUILD"}
  Release = "RELEASE_VERIFICATION"
  Bootstrappers <- Callers
  AgentCalls = {"g1", "g2"}
  ReleaseCalls = {"s1"}
  MaxChanges = 1
  MaxFaults = 1
  Families = {"f1", "f2"}
  Providers = {"p1", "p2"}
  Executions = {"e1", "e2"}
  MaxReviews = 2
  Verdicts = {"A", "C"}
  AssuranceLevels = {"AL2", "AL4"}
  Root <- MCRoot
  Hosts <- MCHosts
  Names = {"work", "tree", "src", "out", ".env", ".ssh", "config", "etc", "data", "orgs", "o1"}
  Segments = {"src", "..", "%2e%2e", "src%2f..", "%00", "out", ".env", ".ssh"}
  MaxSegments = 3
  Parts <- MCParts
SYMMETRY CallSymmetry
INVARIANTS
  LastOwner
  TokenCurrent
  LearnedFromEvidence
  LedgerExplainsMaturity
  CodeBuildInItsTier
  CloudHasCredential
  GateIsExact
  ExecutedAsPlanned
  OneAssignee
  BootstrapCompletes
  VerdictEarned
  SpellingGainsNothing
  ChainIsItsParts
PROPERTIES
  ReviewFinal
  AuthorityUntouched
CHECK_DEADLOCK FALSE

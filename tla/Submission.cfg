SPECIFICATION SubmissionSpec
CONSTANTS
  MaxTask = 3
  Hashes = {h1, Unreadable}
  NoHash = NoHash
  None = None
  Requests = {r1, r2, r3}
  Admins = {a1}
  Firewalls = {f1}
  Unreadable = Unreadable
  FileHashes = {}
  StatementOutcomes = {TRUE, FALSE}
INVARIANTS SubmissionTypeOK OnePlace SampleIntact KnownNotAnalysed FirewallKnows
PROPERTY OnlyOverridesChange
CHECK_DEADLOCK FALSE
SYMMETRY RequestSymmetry

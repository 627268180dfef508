SPECIFICATION PipelineSpec
CONSTANTS
  MaxTask = 2
  Hashes = {h1, h2}
  NoHash = NoHash
  None = None
  PendingCapacity = 1
  RunningCapacity = 1
  LogCapacity = 4
  MaxFreeVms = 3
  QueueMaxRetries = 2
  RunningMaxRetries = 2
  SandboxMaxRetries = 2
  MaxSubmitters = 1
  MaxSandboxTasks = 2
  FaultKinds = {}
  MaxFaults = 1
  Expiry = {FALSE}
  SubmitOutcomes = {"accepted", "refused"}
  ListOutcomes = {TRUE}
  SandboxEnds = {"reported"}
  Detections = {FALSE}
SYMMETRY DigestSymmetry
INVARIANTS SentOnce OneWorkingCopy
PROPERTIES OnlyLateWritesStrand

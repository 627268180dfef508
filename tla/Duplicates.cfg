SPECIFICATION FairPipelineSpec
CONSTANTS
  MaxTask = 3
  Hashes = {h1}
  NoHash = NoHash
  None = None
  PendingCapacity = 4
  RunningCapacity = 4
  LogCapacity = 4
  MaxFreeVms = 3
  QueueMaxRetries = 1
  RunningMaxRetries = 2
  SandboxMaxRetries = 1
  MaxSubmitters = 1
  MaxSandboxTasks = 3
  FaultKinds = {}
  MaxFaults = 1
  Expiry = {FALSE, TRUE}
  SubmitOutcomes = {"accepted"}
  ListOutcomes = {TRUE}
  SandboxEnds = {"reported", "failed_analysis", "gone"}
  Detections = {FALSE}
INVARIANTS SampleKept OwnReport
PROPERTIES VerdictStands DuplicatesServed RefinesLifecycle

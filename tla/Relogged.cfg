SPECIFICATION PipelineSpec
CONSTANTS
  MaxTask = 1
  Hashes = {h1}
  NoHash = NoHash
  None = None
  PendingCapacity = 1
  RunningCapacity = 1
  LogCapacity = 1
  MaxFreeVms = 3
  QueueMaxRetries = 1
  RunningMaxRetries = 2
  SandboxMaxRetries = 1
  MaxSubmitters = 1
  MaxSandboxTasks = 1
  FaultKinds = {}
  MaxFaults = 1
  Expiry = {FALSE}
  SubmitOutcomes = {"accepted"}
  ListOutcomes = {TRUE}
  SandboxEnds = {"reported"}
  Detections = {FALSE}
PROPERTY StaysUnflagged

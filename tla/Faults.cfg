SPECIFICATION FairPipelineSpec
CONSTANTS
  MaxTask = 2
  Hashes = {h1}
  NoHash = NoHash
  None = None
  PendingCapacity = 4
  RunningCapacity = 4
  LogCapacity = 4
  MaxFreeVms = 3
  QueueMaxRetries = 1
  RunningMaxRetries = 2
  SandboxMaxRetries = 1
  MaxSubmitters = 1
  MaxSandboxTasks = 3
  FaultKinds = {"statement"}
  MaxFaults = 1
  Expiry = {FALSE}
  SubmitOutcomes = {"accepted"}
  ListOutcomes = {TRUE}
  SandboxEnds = {"reported"}
  Detections = {FALSE}
INVARIANTS ToldOnceSettled
PROPERTIES SampleRemoved

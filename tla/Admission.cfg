SPECIFICATION PipelineSpec
CONSTANTS
  MaxTask = 2
  Hashes = {h1, h2}
  NoHash = NoHash
  None = None
  PendingCapacity = 1
  RunningCapacity = 1
  LogCapacity = 1
  MaxFreeVms = 2
  QueueMaxRetries = 1
  RunningMaxRetries = 2
  SandboxMaxRetries = 1
  MaxSubmitters = 1
  MaxSandboxTasks = 1
  FaultKinds = {}
  MaxFaults = 1
  Expiry = {FALSE}
  SubmitOutcomes = {"accepted"}
  ListOutcomes = {TRUE}
  SandboxEnds = {"reported"}
  Detections = {FALSE,TRUE}
SYMMETRY DigestSymmetry
INVARIANTS PipelineTypeOK AdmissionBounded OnePlace

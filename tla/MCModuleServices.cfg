SPECIFICATION ServicesSpec
CONSTANTS
  core_thread = core_thread
  web_worker = web_worker
  transport = transport
  None = None
  NoSlot = NoSlot
  Threads = {core_thread, web_worker, transport}
  Core = core_thread
  Callers = {web_worker, transport}
  Web = web_worker
  Modules = {"ollama", "identity", "compliance", "web"}
  ServiceNames = {"llm.generate", "identity.answer", "control.request", "policy.evidence"}
  CommandNames = {"chat", "identity", "compliance", "control", "policy-evidence"}
  RICTUS_HOST_SERVICE_MAX = 4
  RICTUS_HOST_COMMAND_MAX = 4
  Withdrawers = {core_thread}
  MaxDepth = 3
  MaxCalls = 1
  Asks <- MCAsks
  MaxLoads = 5
CHECK_DEADLOCK FALSE
INVARIANTS
  HandlersSeeTheirState
  IdentityAnswersItsOwn
PROPERTIES
  ImplementsHost
  LifecycleEnds

SPECIFICATION FairSpec
CONSTANTS
  core = core
  worker = worker
  other = other
  a = a
  b = b
  send = send
  chat = chat
  answer = answer
  who = who
  None = None
  NoSlot = NoSlot
  Threads = {core, worker, other}
  Core = core
  Callers = {worker, other}
  Modules = {a, b}
  ServiceNames = {send, answer}
  CommandNames = {chat, who}
  RICTUS_HOST_SERVICE_MAX = 1
  RICTUS_HOST_COMMAND_MAX = 1
  Withdrawers = {core, worker}
  MaxDepth = 2
  MaxCalls = 1
INVARIANTS
  InFlightExact
  CallsKeepTheirEntry
  NoCallIntoUnloadedCode
  ClaimsMatchTables
PROPERTIES
  WithdrawalEnds

CONSTANTS
  r1 = r1
  r2 = r2
  c1 = c1
  c2 = c2
  Server = Server
  NoPid = NoPid
  Empty = Empty
  NoRun = NoRun
  Requests <- MCRequests
  Commands <- MCCommands
  Objs <- MCObjs
  Pids <- MCPids
  PidOf <- MCPidOf
SPECIFICATION Spec
INVARIANT LockExcludes
INVARIANT RefusalsAreJustified
INVARIANT RunOwnsTheProject
INVARIANT LiveIsGoing
PROPERTY LockStaysWithItsOwner
CHECK_DEADLOCK FALSE

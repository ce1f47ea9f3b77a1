SPECIFICATION Spec
CONSTANTS
  Pollers <- MCPollers
  Jobs <- MCJobs
  MediaChanges <- MCNoTask
  Identifies <- MCNoTask
  Transports <- MCBothTransports
INVARIANTS TypeOK SocketExclusive
PROPERTIES OpenReturns Reconnects

SPECIFICATION Spec
CONSTANTS
  Pollers <- MCPollers
  Jobs <- MCJobs
  MediaChanges <- MCNoTask
  Identifies <- MCNoTask
  Transports <- MCUsbOnly
PROPERTIES NoQueryMidTransfer

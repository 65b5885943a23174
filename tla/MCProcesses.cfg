CONSTANTS
  server = server
  command = command
  cron = cron
  http1 = http1
  http2 = http2
  cli = cli
  Procs = {server, command, cron}
  Drills = {http1, http2, cli}
  Owner <- MCOwner
  MaxInodes = 2
SPECIFICATION ProcessesSpec
INVARIANT SchemaRecorded
INVARIANT OpensComplete
INVARIANT FailureIsBenign
INVARIANT OneDrill
INVARIANT PassedIsRestorable
PROPERTY EveryStartSettles

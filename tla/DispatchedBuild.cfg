\* One build of a command that may fork one child, which may leave the group.
CONSTANTS
  Children = {child}
  Command = command
  MayLeaveGroup = TRUE
  Identifiers <- MCIdentifiers
  Repositories <- MCRepositories
  CheckoutTargets <- MCCheckoutTargets
  LoopbackHosts <- MCLoopbackHosts
  DefaultTargetLease = 90
  MaxTargetLease = 300
  Configs <- MCConfigs
  Dispatches <- MCDispatches
  CoordinatorURL <- CI
  TunnelURLs <- MCTunnelURLs
  Builds <- MCBuilds
  Clocks <- MCClocks
SPECIFICATION DispatchedSpec
INVARIANTS DispatchedTypeOK ReportRecorded Readable
PROPERTIES JobEnds RestartKeeps

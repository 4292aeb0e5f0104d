\* A runner that a coordinator on the same Mac reaches without a tunnel; no child processes.
CONSTANTS
  Children = {}
  Command = command
  MayLeaveGroup = TRUE
  Identifiers <- MCIdentifiers
  Repositories <- MCRepositories
  CheckoutTargets <- MCCheckoutTargets
  LoopbackHosts <- MCLoopbackHosts
  DefaultTargetLease = 90
  MaxTargetLease = 300
  Configs <- MCConfigs
  Dispatches <- MCDispatches
  CoordinatorURL <- CI
  TunnelURLs <- MCTunnelURLs
  Builds <- MCBuilds
  Clocks <- MCClocks
SPECIFICATION DispatchedSpec
INVARIANTS RepeatReadable

------------------------- MODULE MCDispatchedBuild -------------------------
(***************************************************************************)
(* Small instances of DispatchedBuild: a Mac in the three ways of being    *)
(* reached, the named tunnel's name written with a slash; a job with a     *)
(* checkout and one without; pinned and unpinned requests; and clocks that *)
(* agree to the last millisecond allowed, or just not, or were set back.   *)
(***************************************************************************)
EXTENDS DispatchedBuild

HTTPS(host) == [NoURL EXCEPT !.scheme = "https", !.host = host]
CI == HTTPS("ci.example.com")

Mac == [os |-> "macOS", arch |-> "arm64", version |-> <<15, 1>>, cpus |-> 8, memory |-> 16,
        xcode |-> <<16, 2>>]

Config(mode, url) ==
  [id |-> "mac", listen |-> "127.0.0.1", mode |-> mode, publicURL |-> url, mac |-> Mac,
   register |-> [CI EXCEPT !.path = "/transwarp/register"],
   heartbeat |-> [CI EXCEPT !.path = "/transwarp/heartbeat"],
   deregister |-> [CI EXCEPT !.path = "/transwarp/deregister"], origins |-> {},
   jobs |-> {[id |-> "test", checkout |-> FALSE, allowed |-> {}],
             [id |-> "build", checkout |-> TRUE, allowed |-> {"app"}]}]

MCConfigs ==
  {Config("off", NoURL), Config("quick", NoURL),
   Config("named", [HTTPS("mac.example.com") EXCEPT !.path = "/"])}

Request(job, repo, ref, machine) ==
  [machine |-> machine, job |-> job, id |-> "run", repo |-> repo, ref |-> ref, commit |-> "",
   minCPUs |-> 8, minMemory |-> 0, minXcode |-> <<16>>, public |-> FALSE]

MCDispatches == {Request("test", "", "", ""), Request("build", "app", "main", "mac")}

MCTunnelURLs == {HTTPS("one.trycloudflare.com"), HTTPS("two.trycloudflare.com")}

Clock(ended, elapsed) == [ended |-> ended, elapsed |-> elapsed]
MCClocks == {Clock(201, 100), Clock(201, 99), Clock(-99, 100)}

MCIdentifiers == {"mac", "test", "build", "run", "build-1"}
MCRepositories == {"app"}
MCCheckoutTargets == {"main"}
MCLoopbackHosts == {"localhost", "127.0.0.1", "::1"}
MCBuilds == {"build-1"}
=============================================================================

------------------------------ MODULE MCRiskScan ------------------------------
(***************************************************************************)
(* Small instances of RiskScan: a few names, paths and domains, one per    *)
(* class the indicators of intel.py tell apart, the demo fleet of demo.py, *)
(* and bare hosts to which evidence is added.                              *)
(***************************************************************************)
EXTENDS RiskScan, TLC

MCNames ==
  {"xmrig", "nheqminer", "kthreadd", "app",
   \* the demo fleet
   "chrome", "svchost", "python", "onedrive", "system_service", "explorer", "systemupdate",
   "kdevtmpfsi", "systemd", "nginx", "network-monitor", "root", "sh", "cc1plus", "ffmpeg",
   "buildkite-agent", "nvcontainer", "nvcontainer.lnk"}

\* The file that each path names, by how the path classifier reads the path.
TrustedFiles ==
  [path \in {"Program Files/chrome", "System32/svchost", "Program Files/python",
             "Program Files/onedrive", "Windows/explorer", "/usr/lib/systemd/systemd",
             "/usr/sbin/nginx", "/bin/sh", "/usr/libexec/cc1plus", "/usr/bin/ffmpeg",
             "/usr/bin/buildkite-agent"} |->
     CASE path = "Program Files/chrome" -> "chrome"
       [] path = "System32/svchost" -> "svchost"
       [] path = "Program Files/python" -> "python"
       [] path = "Program Files/onedrive" -> "onedrive"
       [] path = "Windows/explorer" -> "explorer"
       [] path = "/usr/lib/systemd/systemd" -> "systemd"
       [] path = "/usr/sbin/nginx" -> "nginx"
       [] path = "/bin/sh" -> "sh"
       [] path = "/usr/libexec/cc1plus" -> "cc1plus"
       [] path = "/usr/bin/ffmpeg" -> "ffmpeg"
       [] path = "/usr/bin/buildkite-agent" -> "buildkite-agent"]
SuspiciousFiles ==
  [path \in {"Temp/system_service", "/tmp/.cache/kdevtmpfsi", "Downloads/miner/nvcontainer",
             "/tmp/app", "/tmp/svchost", "/tmp/sh"} |->
     CASE path = "Temp/system_service" -> "system_service"
       [] path = "/tmp/.cache/kdevtmpfsi" -> "kdevtmpfsi"
       [] path = "Downloads/miner/nvcontainer" -> "nvcontainer"
       [] path = "/tmp/app" -> "app"
       [] path = "/tmp/svchost" -> "svchost"
       [] path = "/tmp/sh" -> "sh"]
OtherFiles ==
  [path \in {"/srv/app", "/srv/nheqminer"} |->
     IF path = "/srv/app" THEN "app" ELSE "nheqminer"]

MCPathStem == TrustedFiles @@ SuspiciousFiles @@ OtherFiles
MCPaths == DOMAIN MCPathStem
MCPathTrust == [path \in MCPaths |->
  CASE path \in DOMAIN TrustedFiles -> "trusted"
    [] path \in DOMAIN SuspiciousFiles -> "suspicious"
    [] OTHER -> "unknown"]
MCMinerNames == {"xmrig", "nheqminer", "kdevtmpfsi"}
MCMinerPaths == {path \in MCPaths : MCPathStem[path] \in MCMinerNames}
MCMasqueradeNames ==
  {"svchost", "chrome", "kthreadd", "system_service", "explorer", "systemd", "nginx"}

\* The demo's names that no indicator knows, and those of the pools.
BenignDomains ==
  {"www.google.com", "outlook.office365.com", "cdn.example.net", "upstream.example.com",
   "www.streaming-example.com", "archive.ubuntu.com", "github.com"}
DemoPools == {"pool.supportxmr.com", "xmr-eu1.nanopool.org", "eu.2miners.com"}
GeneratedDomain == "j3k2m9xqv8zprt4w.duckdns.org"
MCPoolDomains == DemoPools \cup {"own-pool"}
MCDomains ==
  BenignDomains \cup MCPoolDomains \cup {GeneratedDomain, "ws.coinimp.com", "pool-word"}

Socket(domain, port, duration, count) ==
  [domain |-> domain, bad_ip |-> FALSE, public |-> TRUE, port |-> port,
   duration |-> duration, count |-> count]
Process(pid, name, path) ==
  [pid |-> pid, name |-> name, path |-> path, cpu |-> 0, sustained |-> 0, gpu |-> 0,
   mining |-> FALSE, renderer |-> FALSE, connections |-> {}]
Entry(name, target, mining) ==
  [name |-> name, target |-> target, command |-> target, mining |-> mining, enabled |-> TRUE]
Host(processes, persistence, dns) ==
  [processes |-> processes, persistence |-> persistence, dns |-> dns]

-----------------------------------------------------------------------------
(* The demo fleet.  A CPU reading is the larger of the usage and its       *)
(* average, and an autostart command starts with the path of its target.   *)

CleanWorkstation ==
  Host({[Process(1, "chrome", "Program Files/chrome") EXCEPT
            !.cpu = 12, !.connections = {Socket("www.google.com", "common", 120, 1)}],
        [Process(2, "svchost", "System32/svchost") EXCEPT !.cpu = 1],
        [Process(3, "python", "Program Files/python") EXCEPT !.cpu = 4]},
       {Entry("onedrive", "Program Files/onedrive", FALSE)},
       {"www.google.com", "outlook.office365.com"})
CpuMinerWorkstation ==
  Host({[Process(1, "system_service", "Temp/system_service") EXCEPT
            !.cpu = 94, !.sustained = 2100, !.mining = TRUE,
            !.connections = {Socket("pool.supportxmr.com", "stratum", 2050, 6)}],
        [Process(2, "explorer", "Windows/explorer") EXCEPT !.cpu = 2]},
       {Entry("systemupdate", "Temp/system_service", TRUE)},
       {"pool.supportxmr.com", "cdn.example.net"})
CompromisedServer ==
  Host({[Process(1, "kdevtmpfsi", "/tmp/.cache/kdevtmpfsi") EXCEPT
            !.cpu = 99, !.sustained = 7200, !.mining = TRUE,
            !.connections = {Socket("xmr-eu1.nanopool.org", "stratum", 7100, 9)}],
        Process(2, "systemd", "/usr/lib/systemd/systemd"),
        [Process(3, "nginx", "/usr/sbin/nginx") EXCEPT
            !.cpu = 3, !.connections = {Socket("upstream.example.com", "common", 300, 1)}]},
       {Entry("network-monitor", "/tmp/.cache/kdevtmpfsi", TRUE), Entry("root", "/bin/sh", TRUE)},
       {"xmr-eu1.nanopool.org", GeneratedDomain})
CryptojackedBrowser ==
  Host({[Process(1, "chrome", "Program Files/chrome") EXCEPT
            !.cpu = 88, !.sustained = 900, !.renderer = TRUE],
        [Process(2, "chrome", "Program Files/chrome") EXCEPT
            !.cpu = 6, !.connections = {Socket("ws.coinimp.com", "common", 880, 5)}]},
       {}, {"ws.coinimp.com", "www.streaming-example.com"})
BusyBuildServer ==
  Host({[Process(1, "cc1plus", "/usr/libexec/cc1plus") EXCEPT
            !.cpu = 100, !.sustained = 3600,
            !.connections = {Socket("archive.ubuntu.com", "common", 40, 1)}],
        [Process(2, "ffmpeg", "/usr/bin/ffmpeg") EXCEPT !.cpu = 97, !.sustained = 5400]},
       {Entry("buildkite-agent", "/usr/bin/buildkite-agent", FALSE)},
       {"archive.ubuntu.com", "github.com"})
GpuMinerWorkstation ==
  Host({[Process(1, "nvcontainer", "Downloads/miner/nvcontainer") EXCEPT
            !.cpu = 9, !.gpu = 98, !.mining = TRUE,
            !.connections = {Socket("eu.2miners.com", "other", 5200, 4)}]},
       {Entry("nvcontainer.lnk", "Downloads/miner/nvcontainer", FALSE)},
       {"eu.2miners.com"})

Fleet == {CleanWorkstation, CpuMinerWorkstation, CompromisedServer,
          CryptojackedBrowser, BusyBuildServer, GpuMinerWorkstation}

ExpectedSeverity(h) ==
  CASE h = CleanWorkstation -> "NORMAL"
    [] h = CpuMinerWorkstation -> "CRITICAL"
    [] h = CompromisedServer -> "CRITICAL"
    [] h = CryptojackedBrowser -> "MEDIUM"
    [] h = BusyBuildServer -> "NORMAL"
    [] h = GpuMinerWorkstation -> "CRITICAL"

\* The miner of each host, and on the server the downloader in the crontab.
ExpectedReports(h) ==
  CASE h \in {CleanWorkstation, BusyBuildServer} -> {}
    [] h = CompromisedServer -> {[pid |-> 1, entry |-> {}], OfEntry(Entry("root", "/bin/sh", TRUE))}
    [] OTHER -> {[pid |-> 1, entry |-> {}]}

WorstScore(findings) == CHOOSE s \in {a.score : a \in findings} :
                          \A a \in findings : a.score <= s

\* README, Demo fleet: the worst finding of each demo host has the severity
\* of the table, the miner is reported and no process beside it is, however
\* system-like its name, although the host has bad DNS names; the answer of the
\* build server, and of no other, lists findings as withheld.
DemoFleetVerdicts ==
  host \in Fleet =>
    /\ severity_for(WorstScore(found)) = ExpectedSeverity(host)
    /\ {a.of : a \in {b \in found : IsAlertable(b)}} = ExpectedReports(host)
    /\ suppressed # {} <=> host = BusyBuildServer

-----------------------------------------------------------------------------
(* Bare hosts and the evidence added to them.                              *)

BareProcesses ==
  {Process(1, "app", "/srv/app"), Process(1, "app", "/tmp/app"),
   Process(1, "ffmpeg", "/usr/bin/ffmpeg"), Process(1, "svchost", "/tmp/svchost"),
   Process(1, "nheqminer", "/srv/nheqminer"), Process(1, "kthreadd", NoPath),
   Process(1, "chrome", "Program Files/chrome"),
   [Process(1, "chrome", "/srv/app") EXCEPT !.renderer = TRUE],
   Process(1, NoName, NoPath), Process(1, "sh", "/bin/sh")}

BareHosts == {Host({p}, {}, {}) : p \in BareProcesses}

\* A renderer and the browser process that owns its sockets.
BrowserHosts ==
  {Host({[Process(1, "chrome", "Program Files/chrome") EXCEPT !.renderer = TRUE],
         Process(2, "chrome", "Program Files/chrome")}, {}, {})}

MCHosts == Fleet \cup BareHosts \cup BrowserHosts

MCConnections ==
  {Socket("pool.supportxmr.com", "stratum", 300, 4), Socket("ws.coinimp.com", "common", 300, 1),
   Socket("pool-word", "other", 0, 1), Socket("own-pool", "other", 0, 4),
   Socket(GeneratedDomain, "common", 300, 4),
   [Socket(NoDomain, "stratum", 300, 1) EXCEPT !.public = FALSE],
   [Socket(NoDomain, "other", 300, 1) EXCEPT !.bad_ip = TRUE]}
MCNewDomains ==
  {"pool.supportxmr.com", "ws.coinimp.com", "pool-word", "own-pool", GeneratedDomain,
   "cdn.example.net"}
MCAutostarts ==
  {Entry("app", "/tmp/app", FALSE), Entry("svchost", "/tmp/svchost", TRUE),
   Entry("xmrig", NoPath, TRUE), Entry("sh", "/tmp/sh", FALSE),
   [Entry("app", "/srv/nheqminer", TRUE) EXCEPT !.enabled = FALSE]}
MCCpuLevels == {<<50, 60>>, <<60, 90>>, <<95, 60>>, <<95, 180>>}

=============================================================================

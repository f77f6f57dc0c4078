---- MODULE MCResources ----
(****************************************************************************)
(* The instance of the service tree, the cloud accounts, the Kubernetes      *)
(* clusters, and the log streams and terminals of their pods.  They share no *)
(* variable, so every behaviour explores one of them while the others rest   *)
(* in an initial state.                                                      *)
(****************************************************************************)
EXTENDS TreeNode, CloudSync, ClusterClients, LogStream, PodTerminal

CONSTANTS h1, h2, ra, rb, i1, i2, i3

VARIABLE part   \* the component the behaviour explores
resourcesVars == <<part, treeVars, cloudVars, clusterVars, logVars, terminalVars>>

\* Which requests on nodes overlap, and whether statements fail.
TreeMode(overlap, faults) == [overlap |-> overlap, faults |-> faults]
mcTreeModes ==
  {TreeMode(AllOverlaps \ {Overlap("update", "update")}, TRUE),
   TreeMode(AllOverlaps \ {Overlap("create", "delete"), Overlap("update", "delete")}, FALSE),
   TreeMode({Overlap("create", "create"), Overlap("delete", "delete")}, FALSE),
   TreeMode({Overlap("create", "create")}, FALSE)}

ClusterMode(n, handlers, some, calls, outages, failures, restarts) ==
  [clusters |-> n, handlers |-> handlers, overlap |-> "overlap" \in some, requests |-> calls,
   outages |-> outages, failures |-> failures, restarts |-> restarts]
mcClusterModes ==
  {ClusterMode(2, {h1}, {}, 3, 1, 0, 1), ClusterMode(2, {h1}, {}, 3, 0, 1, 1),
   ClusterMode(1, {h1}, {"overlap"}, 3, 1, 0, 0), ClusterMode(1, {h1}, {"overlap"}, 2, 0, 1, 1),
   ClusterMode(1, {h1, h2}, {"overlap"}, 3, 0, 0, 0)}

\* Two instances in one region and one in the other; which requests overlap, whether
\* statements fail, how many requests.
mcHome == [i \in {i1, i2, i3} |-> IF i = i3 THEN rb ELSE ra]
CloudMode(overlap, faults, n) == [overlap |-> overlap, faults |-> faults, requests |-> n]
mcCloudModes ==
  {CloudMode({}, TRUE, 2), CloudMode({}, FALSE, 3),
   CloudMode({Pair("sync", "region"), Pair("sync", "account")}, FALSE, 2),
   CloudMode({Pair("sync", "resource"), Pair("region", "region"), Pair("region", "resource"),
              Pair("region", "account")}, FALSE, 2)}

Rests(m, modes) == m = CHOOSE x \in modes : TRUE

ResourcesInit ==
  /\ part \in {"tree", "cloud", "cluster", "log", "terminal"}
  /\ TreeInit /\ CloudInit /\ ClusterInit /\ LogInit /\ TerminalInit
  /\ part # "tree" => Rests(mode, Modes)
  /\ part # "cloud" => /\ Rests(cloudMode, CloudModes)
                        /\ region = [r \in Regions |-> [life |-> "live", default |-> r = ra]]
  /\ part # "cluster" => Rests(clusterMode, ClusterModes)
  /\ part # "log" => follow = FALSE /\ written = 0

TreeMoves == part = "tree" /\ UNCHANGED <<part, cloudVars, clusterVars, logVars, terminalVars>>
CloudMoves == part = "cloud" /\ UNCHANGED <<part, treeVars, clusterVars, logVars, terminalVars>>
ClusterMoves == part = "cluster" /\ UNCHANGED <<part, treeVars, cloudVars, logVars, terminalVars>>
LogMoves == part = "log" /\ UNCHANGED <<part, treeVars, cloudVars, clusterVars, terminalVars>>
TerminalMoves == part = "terminal" /\ UNCHANGED <<part, treeVars, cloudVars, clusterVars, logVars>>

ResourcesNext ==
  \/ TreeMoves /\ TreeNext
  \/ CloudMoves /\ CloudNext
  \/ ClusterMoves /\ ClusterNext
  \/ LogMoves /\ LogNext
  \/ TerminalMoves /\ TerminalNext

\* The fairness of each module, for its component.
ResourcesSpec ==
  /\ ResourcesInit /\ [][ResourcesNext]_resourcesVars
  /\ WF_resourcesVars(ClusterMoves /\ ClusterStep)
  /\ WF_resourcesVars(LogMoves /\ ProducerStep)
  /\ WF_resourcesVars(LogMoves /\ StreamerStep)
  /\ WF_resourcesVars(LogMoves /\ MonitorStep)
  /\ WF_resourcesVars(TerminalMoves /\ SessionStep)
  /\ WF_resourcesVars(TerminalMoves /\ BeatStep)
  /\ WF_resourcesVars(TerminalMoves /\ LastDeadline)
  /\ \A k \in Attempts : /\ WF_resourcesVars(TerminalMoves /\ InputStep(k))
                         /\ WF_resourcesVars(TerminalMoves /\ OutputStep(k))

\* Every variable of the five components keeps its type.
ResourcesTypeOK == TreeTypeOK /\ CloudTypeOK /\ ClusterTypeOK /\ LogTypeOK /\ TerminalTypeOK

\* What serves a client that is gone ends, in the log stream unless its producer is held and in the
\* terminal unless a pong holds it.
StreamsLetGo == OnlyProducerHolds /\ SessionEnds
====

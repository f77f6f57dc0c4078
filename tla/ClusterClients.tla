---- MODULE ClusterClients ----
(******************************************************************************)
(* The Kubernetes clusters: their rows, the clients built from the rows'      *)
(* kubeconfigs and kept in a map, and the status that requests, the start and *)
(* the periodic check of every cluster write.                                 *)
(*                                                                            *)
(*   look -> (read -> store) -> probe -> mark                                 *)
(*                                                                            *)
(* GetKubeClient looks the client up under the read lock; without one it      *)
(* reads the row and stores what it built under the write lock: rows may      *)
(* change between any two steps.  A name that is taken refuses a request      *)
(* before anything changes: names are left out.                               *)
(******************************************************************************)
EXTENDS Integers

CONSTANTS
  Kubeconfigs,   \* contents of a kubeconfig
  Malformed,     \* those no client can be built from
  KeepConfig,    \* an update that leaves the kubeconfig out
  NoCluster,     \* no row
  NoClient,      \* nothing in the map of clients
  Handlers,      \* goroutines that serve requests
  MaxCluster,    \* bound: clusters ever created
  ClusterModes   \* the modes a behaviour can have

ASSUME KubeconfigsAssumption ==
  Malformed \subseteq Kubeconfigs /\ KeepConfig \notin Kubeconfigs /\ NoClient \notin Kubeconfigs
ASSUME MaxClusterAssumption == MaxCluster \in Nat
ASSUME HandlersAssumption == Handlers \cap 1..MaxCluster = {}
ASSUME ClusterModesAssumption ==
  ClusterModes \subseteq [clusters : 0..MaxCluster,
                          handlers : SUBSET Handlers,
                          overlap : BOOLEAN,   \* requests and checks run at the same time
                          requests : Nat,      \* bounds: requests,
                          outages : Nat,       \*   clusters that stop or start to answer,
                          failures : Nat,      \*   statements that fail,
                          restarts : Nat]      \*   restarts of the process

VARIABLES
  clusterMode,
  cluster,     \* the table of clusters
  lastCluster, \* ids given so far
  clients,     \* the map: the kubeconfig each cached client was built from
  answering,   \* kubeconfigs whose API server answers
  job,         \* each handler's request, and the check of each cluster
  spent        \* what of the mode's bounds is used

clusterVars == <<clusterMode, cluster, lastCluster, clients, answering, job, spent>>

ClusterIds == 1..MaxCluster
Slots == Handlers \cup ClusterIds
Statuses == {"running", "error"}
ClusterRow == [config : Kubeconfigs, status : Statuses]
ASSUME NoClusterAssumption == NoCluster \notin ClusterRow
NoJob == [op |-> "none", pc |-> "idle", id |-> 0, config |-> NoClient, listed |-> "running"]
Jobs ==
  [op : {"none", "create", "update", "delete", "refresh", "use", "check"},
   pc : {"idle", "remove", "deleteRow", "look", "read", "store", "probe", "running", "error"},
   id : 0..MaxCluster, config : Kubeconfigs \cup {NoClient}, listed : Statuses]

HasRow(c) == cluster[c] # NoCluster
Free(s) == job[s].pc = "idle"
AllFree == \A s \in Slots : Free(s)
MayStart == clusterMode.overlap \/ AllFree

Goto(s, pc) == job' = [job EXCEPT ![s].pc = pc]
EndJob(s) == job' = [job EXCEPT ![s] = NoJob]
Spend(what) == spent[what] < clusterMode[what] /\ spent' = [spent EXCEPT ![what] = @ + 1]

ClusterInit ==
  /\ clusterMode \in ClusterModes
  /\ cluster = [c \in ClusterIds |-> NoCluster]
  /\ lastCluster = 0
  /\ clients = [c \in ClusterIds |-> NoClient]
  /\ answering = Kubeconfigs \ Malformed
  /\ job = [s \in Slots |-> NoJob]
  /\ spent = [requests |-> 0, outages |-> 0, failures |-> 0, restarts |-> 0]

----
\* Requests, up to their first change.
Request(h, op, c, pc) ==
  /\ Free(h) /\ MayStart /\ Spend("requests")
  /\ job' = [job EXCEPT ![h] = [NoJob EXCEPT !.op = op, !.pc = pc, !.id = c]]

\* The row is inserted as running.
CreateCluster(h) ==
  /\ lastCluster < clusterMode.clusters
  /\ Request(h, "create", lastCluster + 1, "look")
  /\ lastCluster' = lastCluster + 1
  /\ \E k \in Kubeconfigs :
       cluster' = [cluster EXCEPT ![lastCluster + 1] = [config |-> k, status |-> "running"]]
  /\ UNCHANGED <<clusterMode, clients, answering>>

\* The row is written, status included; empty columns are kept.
WrittenOver(c, k) ==
  [config |-> IF k = KeepConfig THEN cluster[c].config ELSE k, status |-> "running"]

\* mutant: the old client is not removed.
UpdateKeepsClient(h, c) ==
  /\ HasRow(c) /\ Request(h, "update", c, "look")
  /\ \E k \in Kubeconfigs \cup {KeepConfig} : cluster' = [cluster EXCEPT ![c] = WrittenOver(c, k)]
  /\ UNCHANGED <<clusterMode, lastCluster, clients, answering>>

UpdateCluster(h, c) ==
  /\ HasRow(c) /\ Request(h, "update", c, "remove")
  /\ \E k \in Kubeconfigs \cup {KeepConfig} : cluster' = [cluster EXCEPT ![c] = WrittenOver(c, k)]
  /\ UNCHANGED <<clusterMode, lastCluster, clients, answering>>

DeleteCluster(h, c) ==
  /\ HasRow(c) /\ Request(h, "delete", c, "remove")
  /\ UNCHANGED <<clusterMode, cluster, lastCluster, clients, answering>>

RefreshClusterStatus(h, c) ==
  /\ HasRow(c) /\ Request(h, "refresh", c, "look")
  /\ UNCHANGED <<clusterMode, cluster, lastCluster, clients, answering>>

\* Any request on the resources of a cluster, whether its row is there or not.
UseCluster(h, c) ==
  /\ c <= lastCluster /\ Request(h, "use", c, "look")
  /\ UNCHANGED <<clusterMode, cluster, lastCluster, clients, answering>>

\* checkK8sStatusWithRetry: every cluster of one list is checked in a goroutine of its own;
\* the next round, a retry included, starts when all are done.
CheckRound ==
  /\ MayStart /\ \A c \in ClusterIds : Free(c)
  /\ \E c \in ClusterIds : HasRow(c)
  /\ job' = [s \in Slots |->
       IF s \in ClusterIds /\ HasRow(s)
       THEN [NoJob EXCEPT !.op = "check", !.pc = "look", !.id = s, !.listed = cluster[s].status]
       ELSE job[s]]
  /\ UNCHANGED <<clusterMode, cluster, lastCluster, clients, answering, spent>>

----
\* The steps of a job.

RemoveClient(s) ==
  /\ job[s].pc = "remove"
  /\ clients' = [clients EXCEPT ![job[s].id] = NoClient]
  /\ Goto(s, IF job[s].op = "delete" THEN "deleteRow" ELSE "look")
  /\ UNCHANGED <<clusterMode, cluster, lastCluster, answering, spent>>

\* DeleteCluster, and the rollback of CreateCluster.
DeleteRow(s) ==
  /\ job[s].pc = "deleteRow"
  /\ \/ cluster' = [cluster EXCEPT ![job[s].id] = NoCluster] /\ UNCHANGED spent
     \/ Spend("failures") /\ UNCHANGED cluster
  /\ EndJob(s)
  /\ UNCHANGED <<clusterMode, lastCluster, clients, answering>>

\* mutant: a status is only ever lowered.
LowersStatus(s, status) == job[s].op # "check" \/ (status = "error" /\ job[s].listed # status)

\* The periodic check writes a status that is not the one it listed, the others always.
WritesStatus(s, status) == job[s].op # "check" \/ job[s].listed # status

WithStatus(s, status, config) ==
  job' = [job EXCEPT ![s] = IF WritesStatus(s, status) THEN [@ EXCEPT !.pc = status, !.config = config]
                            ELSE NoJob]

\* The client a job got: who manages the cluster marks it, who checks it asks for the version.
WithClient(s, config) ==
  CASE job[s].op \in {"create", "update"} -> WithStatus(s, "running", config)
    [] job[s].op \in {"refresh", "check"} -> job' = [job EXCEPT ![s].pc = "probe", ![s].config = config]
    [] OTHER -> EndJob(s)

WithoutClient(s) == IF job[s].op = "use" THEN EndJob(s) ELSE WithStatus(s, "error", NoClient)

LookUpClient(s) ==
  /\ job[s].pc = "look"
  /\ IF clients[job[s].id] # NoClient THEN WithClient(s, clients[job[s].id]) ELSE Goto(s, "read")
  /\ UNCHANGED <<clusterMode, cluster, lastCluster, clients, answering, spent>>

HasContent(c) == HasRow(c)   \* mutant: the kubeconfig is not parsed

\* Empty kubeconfigs count as malformed.
Buildable(c) == HasRow(c) /\ cluster[c].config \notin Malformed

\* initClusterClients, up to the built clients.
ReadCluster(s) ==
  LET c == job[s].id IN
  /\ job[s].pc = "read"
  /\ \/ /\ IF Buildable(c)
           THEN job' = [job EXCEPT ![s].pc = "store", ![s].config = cluster[c].config]
           ELSE WithoutClient(s)
        /\ UNCHANGED spent
     \/ Spend("failures") /\ WithoutClient(s)
  /\ UNCHANGED <<clusterMode, cluster, lastCluster, clients, answering>>

StoreClient(s) ==
  /\ job[s].pc = "store"
  /\ clients' = [clients EXCEPT ![job[s].id] = job[s].config]
  /\ WithClient(s, job[s].config)
  /\ UNCHANGED <<clusterMode, cluster, lastCluster, answering, spent>>

\* CheckClusterConnection: the client, cached or new, asks the API server.
Probe(s) ==
  /\ job[s].pc = "probe"
  /\ WithStatus(s, IF job[s].config \in answering THEN "running" ELSE "error", job[s].config)
  /\ UNCHANGED <<clusterMode, cluster, lastCluster, clients, answering, spent>>

\* UpdateClusterStatus.  A creation that does not end running is rolled back.
MarkStatus(s) ==
  LET c == job[s].id
      After(ok) == IF job[s].op = "create" /\ ~(ok /\ job[s].pc = "running")
                   THEN Goto(s, "deleteRow") ELSE EndJob(s)
  IN
  /\ job[s].pc \in Statuses
  /\ \/ /\ HasRow(c)
        /\ cluster' = [cluster EXCEPT ![c].status = job[s].pc]
        /\ After(TRUE) /\ UNCHANGED spent
     \/ ~HasRow(c) /\ After(FALSE) /\ UNCHANGED <<cluster, spent>>
     \/ Spend("failures") /\ After(FALSE) /\ UNCHANGED cluster
  /\ UNCHANGED <<clusterMode, lastCluster, clients, answering>>

----
\* An API server stops or starts to answer.
ToggleAnswer(k) ==
  /\ k \notin Malformed /\ Spend("outages")
  /\ answering' = (answering \ {k}) \cup ({k} \ answering)
  /\ UNCHANGED <<clusterMode, cluster, lastCluster, clients, job>>

\* The process ends at any step; InitializeAllClusters runs before requests and checks are
\* served.  In a mode with failures, the list and every statement after it may fail.
RestartAndInitialize ==
  LET rows == {c \in ClusterIds : HasRow(c)}
      broken == {c \in rows : cluster[c].config \in Malformed}
      failing == clusterMode.failures > 0
  IN
  /\ Spend("restarts")
  /\ \E listed \in {rows} \cup (IF failing THEN {{}} ELSE {}) :
     \E failed \in {x \in SUBSET listed : broken \cap listed \subseteq x} :
     \E marked \in {x \in SUBSET failed : failing \/ x = failed} :
       /\ failing \/ failed = broken
       /\ clients' = [c \in ClusterIds |-> IF c \in listed \ failed THEN cluster[c].config ELSE NoClient]
       /\ cluster' = [c \in ClusterIds |-> IF c \in marked THEN [cluster[c] EXCEPT !.status = "error"]
                                           ELSE cluster[c]]
  /\ job' = [s \in Slots |-> NoJob]
  /\ UNCHANGED <<clusterMode, lastCluster, answering>>

JobStep ==
  \E s \in Slots :
    \/ RemoveClient(s) \/ DeleteRow(s) \/ LookUpClient(s) \/ ReadCluster(s)
    \/ StoreClient(s) \/ Probe(s) \/ MarkStatus(s)

ClusterNext ==
  \/ \E h \in clusterMode.handlers :
       \/ CreateCluster(h)
       \/ \E c \in ClusterIds :
            UpdateCluster(h, c) \/ DeleteCluster(h, c) \/ RefreshClusterStatus(h, c) \/ UseCluster(h, c)
  \/ CheckRound \/ JobStep \/ RestartAndInitialize
  \/ \E k \in Kubeconfigs : ToggleAnswer(k)

ClusterSafety == ClusterInit /\ [][ClusterNext]_clusterVars

\* A started job goes on, and the check comes round every K8sCheckInterval.
ClusterStep == CheckRound \/ JobStep
ClusterFairness == WF_clusterVars(ClusterStep)
ClusterSpec == ClusterSafety /\ ClusterFairness

----
\* Types of the variables.
ClusterTypeOK ==
  /\ clusterMode \in ClusterModes
  /\ cluster \in [ClusterIds -> ClusterRow \cup {NoCluster}]
  /\ lastCluster \in 0..MaxCluster
  /\ clients \in [ClusterIds -> (Kubeconfigs \ Malformed) \cup {NoClient}]
  /\ answering \subseteq Kubeconfigs \ Malformed
  /\ job \in [Slots -> Jobs]
  /\ spent \in [{"requests", "outages", "failures", "restarts"} -> Nat]

\* Requests and checks one at a time, with restarts and failing statements in between:
\* a cached client is one of the row's kubeconfig, whatever step the last one failed at, and
\* a cluster without a row has a client only when rolling its creation back left it.
ClientIsCurrent ==
  ~clusterMode.overlap /\ AllFree =>
    \A c \in ClusterIds : clients[c] # NoClient =>
      IF HasRow(c) THEN clients[c] = cluster[c].config ELSE spent.failures > 0

\* What the status of a cluster is about: the client in the map, or the row without one.
Reached(c) == IF clients[c] # NoClient THEN clients[c] ELSE cluster[c].config

\* When requests and outages end, the status of every cluster ends as what its client
\* meets: whatever requests overlapped with the checks, and although a check compares
\* with the status it listed and not with the one it overwrites.
StatusSettles ==
  <>[](\A c \in ClusterIds :
         HasRow(c) => (cluster[c].status = "running" <=> Reached(c) \in answering))
====

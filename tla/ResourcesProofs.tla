---- MODULE ResourcesProofs ----
(****************************************************************************)
(* The theorems of the cluster clients, and, at the end, of the modules of  *)
(* the resources together.  A cached client is one of its cluster's row     *)
(* whenever requests and checks take turns: for every set of handlers,      *)
(* clusters and kubeconfigs, whatever fails and restarts interrupt.         *)
(*                                                                          *)
(* ShapeInv, which needs no turns, is the types, that ids not given yet     *)
(* have neither row nor client, and what a job can be at each of its steps. *)
(* TurnInv adds what holds when they take turns: a handler in its request   *)
(* is alone, checks of one round are of clusters of their own, and each     *)
(* step of a job knows what the steps before it read.                       *)
(****************************************************************************)
EXTENDS MCResources, TreeNodeProofs, CloudSyncProofs, StreamProofs, TLAPS

\* Ids that were not given have no row and no client.
Unborn == \A c \in ClusterIds : c > lastCluster => ~HasRow(c) /\ clients[c] = NoClient

\* What a job in progress is: at which step, about which cluster.
JobOK(j, s) ==
  /\ j.id \in 1..lastCluster
  /\ s \in ClusterIds <=> j.op = "check"
  /\ s \in ClusterIds => j.id = s
  /\ j.pc = "remove" => j.op \in {"update", "delete"}
  /\ j.pc = "deleteRow" => j.op \in {"create", "delete"}
  /\ j.pc = "store" => j.config \in Kubeconfigs \ Malformed
  /\ j.pc = "probe" => j.op \in {"refresh", "check"}

ShapeInv ==
  /\ ClusterTypeOK
  /\ Unborn
  /\ \A s \in Slots : ~Free(s) => JobOK(job[s], s)

\* A handler in its request is alone.
OneAtATime == \A h \in Handlers, s \in Slots : ~Free(h) /\ ~Free(s) => s = h

\* What the earlier steps of a job found still holds.
UpToDate(s) ==
  LET c == job[s].id IN
  /\ job[s].pc = "read" => clients[c] = NoClient
  /\ job[s].pc = "store" => HasRow(c) /\ cluster[c].config = job[s].config
  /\ job[s].op = "create" => HasRow(c)
  /\ job[s].op = "create" /\ job[s].pc \in {"error", "deleteRow"} =>
       clients[c] = NoClient \/ spent.failures > 0
  /\ job[s].op = "delete" /\ job[s].pc = "deleteRow" => clients[c] = NoClient

\* The client of c, if there is one, is of its row.
Current(c) ==
  clients[c] # NoClient =>
    IF HasRow(c) THEN clients[c] = cluster[c].config ELSE spent.failures > 0

\* An update has written the row and not removed the client yet.
BeingReplaced(c) ==
  \E h \in Handlers : job[h].op = "update" /\ job[h].pc = "remove" /\ job[h].id = c

TurnInv ==
  ~clusterMode.overlap =>
    /\ OneAtATime
    /\ \A s \in Slots : ~Free(s) => UpToDate(s)
    /\ \A c \in ClusterIds : Current(c) \/ BeingReplaced(c)

----
\* A job that goes on has the operation and the cluster it had, and is at one of the steps pcs.
JobGoesOn(s, j, pcs) == j.pc \in pcs /\ j.op = job[s].op /\ j.id = job[s].id

\* Where a job goes on with a client.
Served(s) == IF job[s].op \in {"refresh", "check"} THEN {"probe"} ELSE {"running"}

\* The outcome of a step of the job at s: over, or at one of the steps pcs.
Outcome(s, pcs) ==
  \E j \in Jobs : /\ job' = [job EXCEPT ![s] = j]
                  /\ j = NoJob \/ JobGoesOn(s, j, pcs)

LEMMA NoJobTyped == NoJob \in Jobs /\ NoJob.pc = "idle"
BY MaxClusterAssumption DEF NoJob, Jobs, Statuses

\* The fields of a job.
LEMMA JobFields ==
  ASSUME ClusterTypeOK, NEW s \in Slots
  PROVE  /\ job[s] \in Jobs
         /\ job[s].op \in {"none", "create", "update", "delete", "refresh", "use", "check"}
         /\ job[s].id \in 0..MaxCluster
         /\ job[s].config \in Kubeconfigs \cup {NoClient}
         /\ job[s].listed \in Statuses
BY DEF ClusterTypeOK, Jobs

\* Moving a job to another step.
LEMMA GotoOutcome ==
  ASSUME ClusterTypeOK, NEW s \in Slots,
         NEW p \in {"deleteRow", "look", "read", "store", "probe", "running", "error"}, Goto(s, p)
  PROVE  Outcome(s, {p})
<1> DEFINE j == [job[s] EXCEPT !.pc = p]
<1>1. j \in Jobs BY JobFields DEF Jobs
<1>2. job' = [job EXCEPT ![s] = j] BY DEF Goto
<1>3. JobGoesOn(s, j, {p}) BY JobFields DEF JobGoesOn, Jobs
<1> QED BY <1>1, <1>2, <1>3 DEF Outcome

LEMMA EndOutcome ==
  ASSUME NEW s \in Slots, EndJob(s), NEW pcs
  PROVE  Outcome(s, pcs)
BY NoJobTyped DEF EndJob, Outcome

LEMMA StatusOutcome ==
  ASSUME ClusterTypeOK, NEW s \in Slots, NEW status \in Statuses,
         NEW k \in Kubeconfigs \cup {NoClient}, WithStatus(s, status, k)
  PROVE  Outcome(s, {status})
<1> DEFINE j == [job[s] EXCEPT !.pc = status, !.config = k]
<1>1. CASE WritesStatus(s, status)
  <2>1. j \in Jobs BY JobFields DEF Jobs, Statuses
  <2>2. job' = [job EXCEPT ![s] = j] BY <1>1 DEF WithStatus
  <2>3. JobGoesOn(s, j, {status}) BY JobFields DEF JobGoesOn, Jobs
  <2> QED BY <2>1, <2>2, <2>3 DEF Outcome
<1>2. CASE ~WritesStatus(s, status)
  BY <1>2, NoJobTyped DEF WithStatus, Outcome
<1> QED BY <1>1, <1>2

LEMMA ClientOutcome ==
  ASSUME ClusterTypeOK, NEW s \in Slots, NEW k \in Kubeconfigs \cup {NoClient}, WithClient(s, k)
  PROVE  Outcome(s, Served(s))
<1>1. CASE job[s].op \in {"create", "update"}
  <2>1. WithStatus(s, "running", k) BY <1>1 DEF WithClient
  <2> QED BY <1>1, <2>1, StatusOutcome DEF Statuses, Served
<1>2. CASE job[s].op \in {"refresh", "check"}
  <2> DEFINE j == [job[s] EXCEPT !.pc = "probe", !.config = k]
  <2>1. j \in Jobs BY JobFields DEF Jobs
  <2>2. job' = [job EXCEPT ![s] = j] BY <1>2 DEF WithClient
  <2>3. JobGoesOn(s, j, Served(s)) BY <1>2, JobFields DEF JobGoesOn, Jobs, Served
  <2> QED BY <2>1, <2>2, <2>3 DEF Outcome
<1>3. CASE job[s].op \notin {"create", "update", "refresh", "check"}
  BY <1>3, EndOutcome DEF WithClient
<1> QED BY <1>1, <1>2, <1>3

LEMMA NoClientOutcome ==
  ASSUME ClusterTypeOK, NEW s \in Slots, WithoutClient(s)
  PROVE  Outcome(s, {"error"})
BY EndOutcome, StatusOutcome DEF WithoutClient, Statuses

----
\* ShapeInv.

LEMMA ShapeHoldsAtStart == ClusterInit => ShapeInv
<1> SUFFICES ASSUME ClusterInit PROVE ShapeInv
  OBVIOUS
<1>1. ClusterTypeOK
  BY NoJobTyped, MaxClusterAssumption, ClusterModesAssumption DEF ClusterInit, ClusterTypeOK
<1>2. Unborn BY DEF ClusterInit, Unborn, HasRow, ClusterIds
<1>3. \A s \in Slots : Free(s) BY NoJobTyped DEF ClusterInit, Free
<1> QED BY <1>1, <1>2, <1>3 DEF ShapeInv

\* A step of one job that leaves the tables typed, and gives out no id.
LEMMA ShapeOfJob ==
  ASSUME ShapeInv, NEW s \in Slots, ~Free(s), NEW pcs, Outcome(s, pcs),
         "remove" \notin pcs,
         "deleteRow" \in pcs => job[s].op \in {"create", "delete"},
         "probe" \in pcs => job[s].op \in {"refresh", "check"},
         job'[s].pc = "store" => job'[s].config \in Kubeconfigs \ Malformed,
         clusterMode' = clusterMode, lastCluster' = lastCluster, answering' = answering,
         cluster' \in [ClusterIds -> ClusterRow \cup {NoCluster}],
         clients' \in [ClusterIds -> (Kubeconfigs \ Malformed) \cup {NoClient}],
         spent' \in [{"requests", "outages", "failures", "restarts"} -> Nat],
         \A c \in ClusterIds : c # job[s].id => cluster'[c] = cluster[c] /\ clients'[c] = clients[c]
  PROVE  ShapeInv'
<1>1. PICK j \in Jobs : job' = [job EXCEPT ![s] = j] /\ (j = NoJob \/ JobGoesOn(s, j, pcs))
  BY DEF Outcome
<1>2. job \in [Slots -> Jobs] BY DEF ShapeInv, ClusterTypeOK
<1>3. ClusterTypeOK' BY <1>1, <1>2 DEF ShapeInv, ClusterTypeOK
<1>4. JobOK(job[s], s) BY DEF ShapeInv
<1>5. Unborn'
  <2>1. \A c \in ClusterIds : c > lastCluster => c # job[s].id
    BY <1>4 DEF JobOK, ShapeInv, ClusterTypeOK, ClusterIds
  <2> QED BY <2>1 DEF Unborn, ShapeInv, HasRow
<1>6. ASSUME NEW t \in Slots, ~Free(t)' PROVE JobOK(job[t], t)'
  <2>1. CASE t = s
    <3>1. job'[s] = j BY <1>1, <1>2
    <3>2. JobGoesOn(s, j, pcs) BY <1>1, <1>6, <2>1, <3>1, NoJobTyped DEF Free
    <3> QED BY <1>4, <2>1, <3>1, <3>2 DEF JobOK, JobGoesOn
  <2>2. CASE t # s
    <3>1. job'[t] = job[t] BY <1>1, <1>2, <2>2
    <3>2. JobOK(job[t], t) BY <1>6, <3>1 DEF ShapeInv, Free
    <3> QED BY <3>1, <3>2 DEF JobOK
  <2> QED BY <2>1, <2>2
<1> QED BY <1>3, <1>5, <1>6 DEF ShapeInv

\* A job in progress is about a cluster that was given an id.
LEMMA JobKnown ==
  ASSUME ShapeInv, NEW s \in Slots, ~Free(s)
  PROVE  job[s].id \in ClusterIds /\ JobOK(job[s], s)
<1>1. JobOK(job[s], s) BY DEF ShapeInv
<1>2. lastCluster \in 0..MaxCluster BY DEF ShapeInv, ClusterTypeOK
<1> QED BY <1>1, <1>2, MaxClusterAssumption DEF JobOK, ClusterIds

\* A statement that fails is one more that failed.
LEMMA SpendTyped ==
  ASSUME ClusterTypeOK, NEW what \in {"requests", "outages", "failures", "restarts"}, Spend(what)
  PROVE  /\ spent' \in [{"requests", "outages", "failures", "restarts"} -> Nat]
         /\ spent'.failures >= spent.failures
         /\ what = "failures" => spent'.failures > 0
BY DEF Spend, ClusterTypeOK

\* The outcome of each step of a job.
LEMMA RemoveOutcome ==
  ASSUME ShapeInv, NEW s \in Slots, RemoveClient(s)
  PROVE  /\ ~Free(s)
         /\ Outcome(s, {IF job[s].op = "delete" THEN "deleteRow" ELSE "look"})
         /\ clients' \in [ClusterIds -> (Kubeconfigs \ Malformed) \cup {NoClient}]
<1>1. ClusterTypeOK BY DEF ShapeInv
<1> QED BY <1>1, GotoOutcome DEF RemoveClient, Free, ClusterTypeOK

LEMMA DeleteRowOutcome ==
  ASSUME ShapeInv, NEW s \in Slots, DeleteRow(s)
  PROVE  /\ ~Free(s)
         /\ Outcome(s, {})
         /\ cluster' \in [ClusterIds -> ClusterRow \cup {NoCluster}]
         /\ \A c \in ClusterIds : c # job[s].id => cluster'[c] = cluster[c]
         /\ spent' \in [{"requests", "outages", "failures", "restarts"} -> Nat]
<1>1. ClusterTypeOK BY DEF ShapeInv
<1>2. CASE cluster' = [cluster EXCEPT ![job[s].id] = NoCluster] /\ UNCHANGED spent
  BY <1>1, <1>2, EndOutcome DEF DeleteRow, Free, ClusterTypeOK
<1>3. CASE Spend("failures") /\ UNCHANGED cluster
  BY <1>1, <1>3, EndOutcome, SpendTyped DEF DeleteRow, Free, ClusterTypeOK
<1> QED BY <1>2, <1>3 DEF DeleteRow

\* A client found in the map is used; without one the row is read.
LEMMA LookUpOutcome ==
  ASSUME ShapeInv, NEW s \in Slots, LookUpClient(s)
  PROVE  /\ ~Free(s)
         /\ clients[job[s].id] # NoClient => Outcome(s, Served(s))
         /\ clients[job[s].id] = NoClient => Outcome(s, {"read"})
<1>1. ClusterTypeOK BY DEF ShapeInv
<1>2. ~Free(s) BY DEF LookUpClient, Free
<1>3. job[s].id \in ClusterIds
  BY <1>2, JobKnown
<1>4. CASE clients[job[s].id] # NoClient
  BY <1>1, <1>3, <1>4, ClientOutcome, <1>2 DEF LookUpClient, ClusterTypeOK
<1>5. CASE clients[job[s].id] = NoClient
  BY <1>1, <1>2, <1>5, GotoOutcome DEF LookUpClient
<1> QED BY <1>2, <1>4, <1>5

\* A client can be built from the row, or there is none for the job.
LEMMA ReadOutcome ==
  ASSUME ShapeInv, NEW s \in Slots, ReadCluster(s)
  PROVE  /\ ~Free(s)
         /\ Outcome(s, {"store", "error"})
         /\ job'[s].pc = "store" => /\ Buildable(job[s].id)
                                    /\ job'[s].config = cluster[job[s].id].config
                                    /\ job'[s].config \in Kubeconfigs \ Malformed
         /\ spent' \in [{"requests", "outages", "failures", "restarts"} -> Nat]
         /\ spent'.failures >= spent.failures
<1>1. ClusterTypeOK BY DEF ShapeInv
<1>2. ~Free(s) /\ job[s].pc = "read" BY DEF ReadCluster, Free
<1>3. job[s].id \in ClusterIds
  BY <1>2, JobKnown
<1>4. spent' \in [{"requests", "outages", "failures", "restarts"} -> Nat]
      /\ spent'.failures >= spent.failures
  BY <1>1, SpendTyped DEF ReadCluster, ClusterTypeOK
<1>5. CASE Buildable(job[s].id) /\ job' = [job EXCEPT ![s].pc = "store",
                                                     ![s].config = cluster[job[s].id].config]
  <2> DEFINE j == [job[s] EXCEPT !.pc = "store", !.config = cluster[job[s].id].config]
  <2>1. cluster[job[s].id].config \in Kubeconfigs \ Malformed
    BY <1>1, <1>3, <1>5 DEF Buildable, HasRow, ClusterTypeOK, ClusterRow
  <2>2. j \in Jobs BY <1>1, <2>1, JobFields DEF Jobs
  <2>3. job' = [job EXCEPT ![s] = j] BY <1>5
  <2>4. JobGoesOn(s, j, {"store", "error"}) BY <1>1, JobFields DEF JobGoesOn, Jobs
  <2>5. job'[s].config = cluster[job[s].id].config
    BY <1>1, <2>3, JobFields DEF ClusterTypeOK, Jobs
  <2> QED BY <1>2, <1>4, <1>5, <2>1, <2>2, <2>3, <2>4, <2>5 DEF Outcome
<1>6. CASE WithoutClient(s)
  <2>1. Outcome(s, {"error"}) BY <1>1, <1>6, NoClientOutcome
  <2>2. job'[s].pc # "store" BY <1>1, <2>1, NoJobTyped DEF Outcome, JobGoesOn, ClusterTypeOK
  <2> QED BY <1>2, <1>4, <2>1, <2>2 DEF Outcome, JobGoesOn
<1> QED BY <1>5, <1>6 DEF ReadCluster

\* What was built is stored.
LEMMA StoreOutcome ==
  ASSUME ShapeInv, NEW s \in Slots, StoreClient(s)
  PROVE  /\ ~Free(s)
         /\ Outcome(s, Served(s))
         /\ clients' \in [ClusterIds -> (Kubeconfigs \ Malformed) \cup {NoClient}]
         /\ \A c \in ClusterIds : c # job[s].id => clients'[c] = clients[c]
<1>1. ClusterTypeOK BY DEF ShapeInv
<1>2. ~Free(s) /\ job[s].pc = "store" BY DEF StoreClient, Free
<1>3. job[s].config \in Kubeconfigs \ Malformed BY <1>2 DEF ShapeInv, JobOK
<1>4. Outcome(s, Served(s)) BY <1>1, <1>3, ClientOutcome DEF StoreClient
<1> QED BY <1>1, <1>2, <1>3, <1>4 DEF StoreClient, ClusterTypeOK

LEMMA ProbeOutcome ==
  ASSUME ShapeInv, NEW s \in Slots, Probe(s)
  PROVE  /\ ~Free(s)
         /\ Outcome(s, Statuses)
         /\ job[s].op # "create" => job'[s].op # "create"
<1>1. ClusterTypeOK BY DEF ShapeInv
<1>2. PICK status \in Statuses : WithStatus(s, status, job[s].config) BY DEF Probe, Statuses
<1>3. Outcome(s, {status}) BY <1>1, <1>2, StatusOutcome, JobFields
<1>4. job[s].op # "create" => job'[s].op # "create"
  BY <1>1, <1>3 DEF Outcome, JobGoesOn, NoJob, ClusterTypeOK
<1> QED BY <1>3, <1>4 DEF Outcome, JobGoesOn, Probe, Free

\* The row keeps its kubeconfig; a creation that does not end running is rolled back.
LEMMA MarkOutcome ==
  ASSUME ShapeInv, NEW s \in Slots, MarkStatus(s)
  PROVE  /\ ~Free(s)
         /\ Outcome(s, IF job[s].op = "create" THEN {"deleteRow"} ELSE {})
         /\ cluster' \in [ClusterIds -> ClusterRow \cup {NoCluster}]
         /\ \A c \in ClusterIds : HasRow(c)' <=> HasRow(c)
         /\ \A c \in ClusterIds : HasRow(c) => cluster'[c].config = cluster[c].config
         /\ \A c \in ClusterIds : c # job[s].id => cluster'[c] = cluster[c]
         /\ spent' \in [{"requests", "outages", "failures", "restarts"} -> Nat]
         /\ spent'.failures >= spent.failures
         /\ ~Free(s)' => \/ job[s].pc = "error"
                         \/ spent'.failures > 0
                         \/ ~HasRow(job[s].id)
<1>1. ClusterTypeOK BY DEF ShapeInv
<1>2. ~Free(s) /\ job[s].id \in ClusterIds BY JobKnown DEF MarkStatus, Free, Statuses
<1>3. spent' \in [{"requests", "outages", "failures", "restarts"} -> Nat]
      /\ spent'.failures >= spent.failures
  BY <1>1, SpendTyped DEF MarkStatus, ClusterTypeOK
<1>4. /\ cluster' \in [ClusterIds -> ClusterRow \cup {NoCluster}]
      /\ \A c \in ClusterIds : HasRow(c)' <=> HasRow(c)
      /\ \A c \in ClusterIds : HasRow(c) => cluster'[c].config = cluster[c].config
      /\ \A c \in ClusterIds : c # job[s].id => cluster'[c] = cluster[c]
  <2>1. CASE UNCHANGED cluster BY <1>1, <2>1 DEF ClusterTypeOK, HasRow
  <2>2. CASE HasRow(job[s].id) /\ cluster' = [cluster EXCEPT ![job[s].id].status = job[s].pc]
    <3>1. job[s].pc \in Statuses BY DEF MarkStatus
    <3>2. cluster[job[s].id] \in ClusterRow BY <1>1, <1>2, <2>2 DEF ClusterTypeOK, HasRow
    <3>3. /\ [cluster[job[s].id] EXCEPT !.status = job[s].pc] \in ClusterRow
          /\ [cluster[job[s].id] EXCEPT !.status = job[s].pc].config = cluster[job[s].id].config
      BY <3>1, <3>2 DEF ClusterRow
    <3>4. /\ cluster'[job[s].id] = [cluster[job[s].id] EXCEPT !.status = job[s].pc]
          /\ \A c \in ClusterIds : c # job[s].id => cluster'[c] = cluster[c]
          /\ DOMAIN cluster' = ClusterIds
      BY <1>1, <1>2, <2>2 DEF ClusterTypeOK
    <3>5. cluster' \in [ClusterIds -> ClusterRow \cup {NoCluster}]
      BY <1>1, <1>2, <2>2, <3>3 DEF ClusterTypeOK
    <3> QED BY <2>2, <3>3, <3>4, <3>5, NoClusterAssumption DEF HasRow
  <2> QED BY <2>1, <2>2 DEF MarkStatus
<1>5. CASE EndJob(s)
  BY <1>1, <1>2, <1>3, <1>4, <1>5, EndOutcome, NoJobTyped DEF EndJob, Free, ClusterTypeOK
<1>6. CASE Goto(s, "deleteRow")
  <2>1. /\ job[s].op = "create"
        /\ job[s].pc = "error" \/ spent'.failures > 0 \/ ~HasRow(job[s].id)
    <3>1. job'[s].pc = "deleteRow" BY <1>1, <1>6 DEF Goto, ClusterTypeOK, Jobs
    <3>2. ~EndJob(s) BY <1>1, <3>1, NoJobTyped DEF EndJob, ClusterTypeOK
    <3> QED BY <1>1, <3>2, SpendTyped DEF MarkStatus, Statuses
  <2>2. Outcome(s, {"deleteRow"}) BY <1>1, <1>6, GotoOutcome
  <2> QED BY <1>2, <1>3, <1>4, <2>1, <2>2
<1> QED BY <1>5, <1>6 DEF MarkStatus

LEMMA JobStepKeepsShape ==
  ASSUME ShapeInv, NEW s \in Slots,
         \/ RemoveClient(s) \/ DeleteRow(s) \/ LookUpClient(s) \/ ReadCluster(s)
         \/ StoreClient(s) \/ Probe(s) \/ MarkStatus(s)
  PROVE  ShapeInv'
<1>1. /\ cluster \in [ClusterIds -> ClusterRow \cup {NoCluster}]
      /\ clients \in [ClusterIds -> (Kubeconfigs \ Malformed) \cup {NoClient}]
      /\ spent \in [{"requests", "outages", "failures", "restarts"} -> Nat]
      /\ job \in [Slots -> Jobs]
  BY DEF ShapeInv, ClusterTypeOK
<1>2. ASSUME NEW pcs, Outcome(s, pcs), "store" \notin pcs PROVE job'[s].pc # "store"
  BY <1>1, <1>2, NoJobTyped DEF Outcome, JobGoesOn
<1>3. CASE RemoveClient(s)
  <2>1. JobOK(job[s], s) BY <1>3, RemoveOutcome, JobKnown
  <2>2. job[s].op = "delete" => job[s].op \in {"create", "delete"} OBVIOUS
  <2>3. \A c \in ClusterIds : c # job[s].id => cluster'[c] = cluster[c] /\ clients'[c] = clients[c]
    BY <1>1, <1>3 DEF RemoveClient
  <2> QED BY <1>1, <1>2, <1>3, <2>2, <2>3, RemoveOutcome, ShapeOfJob DEF RemoveClient
<1>4. CASE DeleteRow(s)
  BY <1>1, <1>2, <1>4, DeleteRowOutcome, ShapeOfJob DEF DeleteRow
<1>5. CASE LookUpClient(s)
  BY <1>1, <1>2, <1>5, LookUpOutcome, ShapeOfJob DEF LookUpClient, Served
<1>6. CASE ReadCluster(s)
  BY <1>1, <1>6, ReadOutcome, ShapeOfJob DEF ReadCluster
<1>7. CASE StoreClient(s)
  BY <1>1, <1>2, <1>7, StoreOutcome, ShapeOfJob DEF StoreClient, Served
<1>8. CASE Probe(s)
  BY <1>1, <1>2, <1>8, ProbeOutcome, ShapeOfJob DEF Probe, Statuses
<1>9. CASE MarkStatus(s)
  BY <1>1, <1>2, <1>9, MarkOutcome, ShapeOfJob DEF MarkStatus
<1> QED BY <1>3, <1>4, <1>5, <1>6, <1>7, <1>8, <1>9

\* A request starts a job, about a cluster that was given an id.
LEMMA ShapeOfRequest ==
  ASSUME ShapeInv, NEW h \in Handlers, NEW c \in ClusterIds,
         NEW op \in {"create", "update", "delete", "refresh", "use"}, NEW pc \in {"remove", "look"},
         pc = "remove" => op \in {"update", "delete"},
         Request(h, op, c, pc),
         clusterMode' = clusterMode, answering' = answering, clients' = clients,
         lastCluster' \in {lastCluster, lastCluster + 1}, lastCluster' \in 0..MaxCluster,
         c <= lastCluster',
         cluster' \in [ClusterIds -> ClusterRow \cup {NoCluster}],
         \A d \in ClusterIds : d > lastCluster' => cluster'[d] = cluster[d]
  PROVE  /\ ShapeInv'
         /\ job'[h].op = op /\ job'[h].id = c /\ job'[h].pc = pc
         /\ \A t \in Slots : t # h => job'[t] = job[t]
<1> DEFINE j == [NoJob EXCEPT !.op = op, !.pc = pc, !.id = c]
<1>1. ClusterTypeOK /\ h \in Slots BY DEF ShapeInv, Slots
<1>2. j \in Jobs /\ j.op = op /\ j.id = c /\ j.pc = pc
  <2>1. c \in 0..MaxCluster BY MaxClusterAssumption DEF ClusterIds
  <2> QED BY <2>1, NoJobTyped DEF Jobs
<1>3. job' = [job EXCEPT ![h] = j] BY DEF Request
<1>4. job'[h] = j /\ \A t \in Slots : t # h => job'[t] = job[t] BY <1>1, <1>3 DEF ClusterTypeOK
<1>5. ClusterTypeOK'
  <2>1. spent' \in [{"requests", "outages", "failures", "restarts"} -> Nat]
    BY <1>1, SpendTyped DEF Request
  <2> QED BY <1>1, <1>2, <1>3, <2>1 DEF ClusterTypeOK
<1>6. Unborn'
  <2>1. ASSUME NEW d \in ClusterIds, d > lastCluster' PROVE d > lastCluster
    BY <1>1, <2>1, MaxClusterAssumption DEF ClusterTypeOK, ClusterIds
  <2> QED BY <2>1 DEF Unborn, HasRow, ShapeInv
<1>7. ASSUME NEW t \in Slots, ~Free(t)' PROVE JobOK(job[t], t)'
  <2>1. CASE t = h
    <3>1. t \notin ClusterIds BY <2>1, HandlersAssumption DEF ClusterIds
    <3>2. c \in 1..lastCluster'
      BY MaxClusterAssumption DEF ClusterIds
    <3>3. job'[t].op = op /\ job'[t].id = c /\ job'[t].pc = pc
      BY <1>2, <1>4, <2>1
    <3> QED BY <3>1, <3>2, <3>3 DEF JobOK
  <2>2. CASE t # h
    <3>1. job'[t] = job[t] BY <1>4, <2>2
    <3>2. JobOK(job[t], t) BY <1>7, <3>1 DEF ShapeInv, Free
    <3> QED BY <1>1, <1>5, <3>1, <3>2, MaxClusterAssumption DEF JobOK, ClusterTypeOK
  <2> QED BY <2>1, <2>2
<1> QED BY <1>2, <1>4, <1>5, <1>6, <1>7 DEF ShapeInv

\* What is written over a row is a row.
LEMMA WrittenTyped ==
  ASSUME ClusterTypeOK, NEW c \in ClusterIds, HasRow(c), NEW k \in Kubeconfigs \cup {KeepConfig}
  PROVE  WrittenOver(c, k) \in ClusterRow
BY DEF ClusterTypeOK, HasRow, WrittenOver, ClusterRow, Statuses

\* Each request, as a request of ShapeOfRequest.
LEMMA CreateShape ==
  ASSUME ShapeInv, NEW h \in Handlers, CreateCluster(h)
  PROVE  /\ ShapeInv'
         /\ lastCluster + 1 \in ClusterIds
         /\ job'[h].op = "create" /\ job'[h].id = lastCluster + 1 /\ job'[h].pc = "look"
         /\ \A t \in Slots : t # h => job'[t] = job[t]
         /\ cluster'[lastCluster + 1] # NoCluster
         /\ \A c \in ClusterIds : c # lastCluster + 1 => cluster'[c] = cluster[c]
<1>1. ClusterTypeOK BY DEF ShapeInv
<1>2. lastCluster' = lastCluster + 1 /\ lastCluster' \in 0..MaxCluster /\ lastCluster + 1 \in ClusterIds
  BY <1>1, MaxClusterAssumption, ClusterModesAssumption DEF CreateCluster, ClusterTypeOK, ClusterIds
<1>3. PICK k \in Kubeconfigs :
        cluster' = [cluster EXCEPT ![lastCluster + 1] = [config |-> k, status |-> "running"]]
  BY DEF CreateCluster
<1>4. [config |-> k, status |-> "running"] \in ClusterRow BY DEF ClusterRow, Statuses
<1>5. /\ cluster' \in [ClusterIds -> ClusterRow \cup {NoCluster}]
      /\ cluster'[lastCluster + 1] = [config |-> k, status |-> "running"]
      /\ \A c \in ClusterIds : c # lastCluster + 1 => cluster'[c] = cluster[c]
  BY <1>1, <1>2, <1>3, <1>4 DEF ClusterTypeOK
<1>6. cluster'[lastCluster + 1] # NoCluster BY <1>4, <1>5, NoClusterAssumption
<1>7. \A d \in ClusterIds : d > lastCluster' => cluster'[d] = cluster[d]
  BY <1>1, <1>2, <1>5, MaxClusterAssumption DEF ClusterIds, ClusterTypeOK
<1>8. Request(h, "create", lastCluster + 1, "look")
      /\ clusterMode' = clusterMode /\ answering' = answering /\ clients' = clients
  BY DEF CreateCluster
<1>9. lastCluster + 1 <= lastCluster' BY <1>1, <1>2, MaxClusterAssumption DEF ClusterTypeOK
<1> QED BY <1>2, <1>5, <1>6, <1>7, <1>8, <1>9, ShapeOfRequest

LEMMA UpdateShape ==
  ASSUME ShapeInv, NEW h \in Handlers, NEW c \in ClusterIds, UpdateCluster(h, c)
  PROVE  /\ ShapeInv'
         /\ job'[h].op = "update" /\ job'[h].id = c /\ job'[h].pc = "remove"
         /\ \A t \in Slots : t # h => job'[t] = job[t]
         /\ \A d \in ClusterIds : d # c => cluster'[d] = cluster[d]
<1>1. ClusterTypeOK /\ HasRow(c) BY DEF ShapeInv, UpdateCluster
<1>2. PICK k \in Kubeconfigs \cup {KeepConfig} : cluster' = [cluster EXCEPT ![c] = WrittenOver(c, k)]
  BY DEF UpdateCluster
<1>3. cluster' \in [ClusterIds -> ClusterRow \cup {NoCluster}]
      /\ \A d \in ClusterIds : d # c => cluster'[d] = cluster[d]
  BY <1>1, <1>2, WrittenTyped DEF ClusterTypeOK
<1>4. c <= lastCluster
  BY <1>1, MaxClusterAssumption DEF ShapeInv, Unborn, ClusterIds, ClusterTypeOK
<1>5. /\ lastCluster' = lastCluster /\ lastCluster' \in 0..MaxCluster
      /\ Request(h, "update", c, "remove")
      /\ clusterMode' = clusterMode /\ answering' = answering /\ clients' = clients
  BY <1>1 DEF UpdateCluster, ClusterTypeOK
<1>6. \A d \in ClusterIds : d > lastCluster' => cluster'[d] = cluster[d]
  BY <1>1, <1>3, <1>4, <1>5, MaxClusterAssumption DEF ClusterIds, ClusterTypeOK
<1> QED BY <1>3, <1>4, <1>5, <1>6, ShapeOfRequest

\* The other requests start without a change to the tables.
LEMMA QuietShape ==
  ASSUME ShapeInv, NEW h \in Handlers, NEW c \in ClusterIds,
         \/ DeleteCluster(h, c) \/ RefreshClusterStatus(h, c) \/ UseCluster(h, c)
  PROVE  /\ ShapeInv'
         /\ job'[h].op \in {"delete", "refresh", "use"} /\ job'[h].pc \in {"remove", "look"}
         /\ \A t \in Slots : t # h => job'[t] = job[t]
<1>1. ClusterTypeOK BY DEF ShapeInv
<1>2. c <= lastCluster
  BY <1>1, MaxClusterAssumption
  DEF DeleteCluster, RefreshClusterStatus, UseCluster, ShapeInv, Unborn, ClusterIds, ClusterTypeOK
<1>3. /\ lastCluster' = lastCluster /\ lastCluster' \in 0..MaxCluster
      /\ clusterMode' = clusterMode /\ answering' = answering /\ clients' = clients
      /\ cluster' = cluster /\ cluster' \in [ClusterIds -> ClusterRow \cup {NoCluster}]
  BY <1>1 DEF DeleteCluster, RefreshClusterStatus, UseCluster, ClusterTypeOK
<1>4. CASE DeleteCluster(h, c)
  <2>1. Request(h, "delete", c, "remove") BY <1>4 DEF DeleteCluster
  <2> QED BY <1>2, <1>3, <2>1, ShapeOfRequest
<1>5. CASE RefreshClusterStatus(h, c)
  <2>1. Request(h, "refresh", c, "look") BY <1>5 DEF RefreshClusterStatus
  <2> QED BY <1>2, <1>3, <2>1, ShapeOfRequest
<1>6. CASE UseCluster(h, c)
  <2>1. Request(h, "use", c, "look") BY <1>6 DEF UseCluster
  <2> QED BY <1>2, <1>3, <2>1, ShapeOfRequest
<1> QED BY <1>4, <1>5, <1>6

\* A round of checks starts a job of each cluster with a row, about that cluster.
LEMMA CheckRoundShape ==
  ASSUME ShapeInv, CheckRound
  PROVE  /\ ShapeInv'
         /\ \A s \in ClusterIds : ~Free(s)' => job'[s].op = "check" /\ job'[s].pc = "look"
         /\ \A h \in Handlers : job'[h] = job[h]
<1> DEFINE j(s) == [NoJob EXCEPT !.op = "check", !.pc = "look", !.id = s,
                                 !.listed = cluster[s].status]
<1>1. ClusterTypeOK BY DEF ShapeInv
<1>2. \A s \in Slots : job'[s] = IF s \in ClusterIds /\ HasRow(s) THEN j(s) ELSE job[s]
  BY DEF CheckRound
<1>3. ASSUME NEW s \in ClusterIds, HasRow(s) PROVE j(s) \in Jobs
  <2>2. cluster[s].status \in Statuses BY <1>1, <1>3 DEF ClusterTypeOK, HasRow, ClusterRow
  <2>3. s \in 0..MaxCluster BY MaxClusterAssumption DEF ClusterIds
  <2> QED BY <2>2, <2>3, NoJobTyped DEF Jobs
<1>4. job' \in [Slots -> Jobs]
  BY <1>1, <1>3 DEF CheckRound, ClusterTypeOK
<1>5. ClusterTypeOK' BY <1>1, <1>4 DEF CheckRound, ClusterTypeOK
<1>6. Unborn' BY DEF ShapeInv, Unborn, CheckRound, HasRow
<1>7. ASSUME NEW s \in Slots, ~Free(s)' PROVE JobOK(job[s], s)'
  <2>1. CASE s \in ClusterIds /\ HasRow(s)
    <3>1. s \in 1..lastCluster
      BY <1>1, <2>1, MaxClusterAssumption DEF ShapeInv, Unborn, ClusterIds, ClusterTypeOK
    <3> QED BY <1>2, <2>1, <3>1 DEF JobOK, NoJob, CheckRound
  <2>2. CASE ~(s \in ClusterIds /\ HasRow(s))
    <3>1. job'[s] = job[s] BY <1>2, <2>2
    <3>2. JobOK(job[s], s) BY <1>7, <3>1 DEF ShapeInv, Free
    <3> QED BY <3>1, <3>2 DEF JobOK, CheckRound
  <2> QED BY <2>1, <2>2
<1>8. ASSUME NEW s \in ClusterIds, ~Free(s)' PROVE job'[s].op = "check" /\ job'[s].pc = "look"
  <2>1. s \in Slots BY DEF Slots
  <2>2. Free(s) BY DEF CheckRound
  <2>3. HasRow(s) BY <1>2, <1>8, <2>1, <2>2 DEF Free
  <2> QED BY <1>2, <2>1, <2>3 DEF NoJob
<1>9. \A h \in Handlers : job'[h] = job[h]
  BY <1>2, HandlersAssumption DEF Slots, ClusterIds
<1> QED BY <1>5, <1>6, <1>7, <1>8, <1>9 DEF ShapeInv

\* The process starts again: the rows keep their kubeconfigs, and a client is of its row.
LEMMA RestartShape ==
  ASSUME ShapeInv, RestartAndInitialize
  PROVE  /\ ShapeInv'
         /\ \A s \in Slots : Free(s)'
         /\ \A c \in ClusterIds : clients'[c] # NoClient =>
              cluster'[c] # NoCluster /\ clients'[c] = cluster'[c].config
<1>1. ClusterTypeOK BY DEF ShapeInv
<1> DEFINE rows == {c \in ClusterIds : HasRow(c)}
           broken == {c \in rows : cluster[c].config \in Malformed}
<1>2. PICK listed \in SUBSET rows, failed \in SUBSET rows, marked \in SUBSET rows :
        /\ broken \cap listed \subseteq failed
        /\ clients' = [c \in ClusterIds |-> IF c \in listed \ failed THEN cluster[c].config
                                            ELSE NoClient]
        /\ cluster' = [c \in ClusterIds |-> IF c \in marked THEN [cluster[c] EXCEPT !.status = "error"]
                                            ELSE cluster[c]]
  <2> DEFINE Restarts(listed, failed, marked) ==
        /\ clusterMode.failures > 0 \/ failed = broken
        /\ clients' = [c \in ClusterIds |-> IF c \in listed \ failed THEN cluster[c].config
                                            ELSE NoClient]
        /\ cluster' = [c \in ClusterIds |-> IF c \in marked THEN [cluster[c] EXCEPT !.status = "error"]
                                            ELSE cluster[c]]
  <2>1. \E listed \in {rows} \cup (IF clusterMode.failures > 0 THEN {{}} ELSE {}) :
        \E failed \in {x \in SUBSET listed : broken \cap listed \subseteq x} :
        \E marked \in {x \in SUBSET failed : clusterMode.failures > 0 \/ x = failed} :
          Restarts(listed, failed, marked)
    BY DEF RestartAndInitialize
  <2> HIDE DEF Restarts
  <2>2. PICK listed \in SUBSET rows :
        \E failed \in {x \in SUBSET listed : broken \cap listed \subseteq x} :
        \E marked \in {x \in SUBSET failed : clusterMode.failures > 0 \/ x = failed} :
          Restarts(listed, failed, marked)
    BY <2>1
  <2>3. PICK failed \in SUBSET listed, marked \in SUBSET rows :
          broken \cap listed \subseteq failed /\ marked \subseteq failed /\ Restarts(listed, failed, marked)
    BY <2>2
  <2>4. failed \in SUBSET rows BY <2>3
  <2> QED BY <2>3, <2>4 DEF Restarts
<1>3. ASSUME NEW c \in ClusterIds, HasRow(c)
      PROVE  /\ cluster[c] \in ClusterRow
             /\ [cluster[c] EXCEPT !.status = "error"] \in ClusterRow
             /\ [cluster[c] EXCEPT !.status = "error"].config = cluster[c].config
  BY <1>1, <1>3 DEF ClusterTypeOK, HasRow, ClusterRow, Statuses
<1>4. cluster' \in [ClusterIds -> ClusterRow \cup {NoCluster}]
  BY <1>1, <1>2, <1>3 DEF ClusterTypeOK
<1>5. clients' \in [ClusterIds -> (Kubeconfigs \ Malformed) \cup {NoClient}]
  <2>1. ASSUME NEW c \in listed \ failed PROVE cluster[c].config \in Kubeconfigs \ Malformed
    BY <1>2, <1>3, <2>1 DEF ClusterRow
  <2> QED BY <1>2, <2>1
<1>6. job' = [s \in Slots |-> NoJob] /\ UNCHANGED <<clusterMode, lastCluster, answering>>
      /\ spent' \in [{"requests", "outages", "failures", "restarts"} -> Nat]
  BY <1>1, SpendTyped DEF RestartAndInitialize
<1>7. ClusterTypeOK' BY <1>1, <1>4, <1>5, <1>6, NoJobTyped DEF ClusterTypeOK
<1>8. ASSUME NEW c \in ClusterIds, clients'[c] # NoClient
      PROVE  cluster'[c] # NoCluster /\ clients'[c] = cluster'[c].config
  <2>1. c \in listed \ failed /\ HasRow(c) BY <1>2, <1>8
  <2> QED BY <1>2, <1>3, <2>1, NoClusterAssumption DEF HasRow
<1>9. Unborn'
  <2>1. ASSUME NEW c \in ClusterIds, c > lastCluster PROVE cluster'[c] = NoCluster
    <3>1. ~HasRow(c) BY <2>1 DEF ShapeInv, Unborn
    <3> QED BY <1>2, <3>1 DEF HasRow
  <2> QED BY <1>6, <1>8, <2>1 DEF Unborn, HasRow
<1>10. \A s \in Slots : Free(s)' BY <1>6, NoJobTyped DEF Free
<1> QED BY <1>7, <1>8, <1>9, <1>10 DEF ShapeInv

LEMMA ToggleShape ==
  ASSUME ShapeInv, NEW k \in Kubeconfigs, ToggleAnswer(k)
  PROVE  /\ ShapeInv'
         /\ UNCHANGED <<clusterMode, cluster, clients, job>>
         /\ spent'.failures >= spent.failures
<1>1. ClusterTypeOK BY DEF ShapeInv
<1>2. UNCHANGED <<clusterMode, cluster, lastCluster, clients, job>> BY DEF ToggleAnswer
<1>3. ClusterTypeOK' BY <1>1, <1>2, SpendTyped DEF ToggleAnswer, ClusterTypeOK
<1> QED BY <1>1, <1>2, <1>3, SpendTyped
        DEF ToggleAnswer, ShapeInv, Unborn, HasRow, Free, JobOK

THEOREM NextKeepsShape == ShapeInv /\ [ClusterNext]_clusterVars => ShapeInv'
<1> SUFFICES ASSUME ShapeInv, [ClusterNext]_clusterVars PROVE ShapeInv'
  OBVIOUS
<1>1. clusterMode.handlers \subseteq Handlers
  BY ClusterModesAssumption DEF ShapeInv, ClusterTypeOK
<1>2. ASSUME NEW h \in clusterMode.handlers, CreateCluster(h) PROVE ShapeInv'
  BY <1>1, <1>2, CreateShape
<1>3. ASSUME NEW h \in clusterMode.handlers, NEW c \in ClusterIds,
             UpdateCluster(h, c) \/ DeleteCluster(h, c) \/ RefreshClusterStatus(h, c)
               \/ UseCluster(h, c)
      PROVE ShapeInv'
  BY <1>1, <1>3, UpdateShape, QuietShape
<1>4. CASE CheckRound BY <1>4, CheckRoundShape
<1>5. CASE JobStep BY <1>5, JobStepKeepsShape DEF JobStep
<1>6. CASE RestartAndInitialize BY <1>6, RestartShape
<1>7. ASSUME NEW k \in Kubeconfigs, ToggleAnswer(k) PROVE ShapeInv' BY <1>7, ToggleShape
<1>8. CASE UNCHANGED clusterVars
  BY <1>8 DEF clusterVars, ShapeInv, ClusterTypeOK, Unborn, HasRow, Free, JobOK
<1> QED BY <1>2, <1>3, <1>4, <1>5, <1>6, <1>7, <1>8 DEF ClusterNext

THEOREM ShapeInvariant == ClusterSafety => []ShapeInv
<1> QED BY ShapeHoldsAtStart, NextKeepsShape, PTL DEF ClusterSafety

\* Every variable keeps its type, whatever overlaps.
THEOREM ClusterTypeCorrect == ClusterSafety => []ClusterTypeOK
<1>1. ShapeInv => ClusterTypeOK BY DEF ShapeInv
<1> QED BY <1>1, ShapeInvariant, PTL

----
\* TurnInv.

LEMMA TurnHoldsAtStart == ClusterInit => TurnInv
BY NoJobTyped DEF ClusterInit, TurnInv, OneAtATime, Free, Slots, Current

\* While no job is in progress no client is being replaced.
LEMMA NothingReplaced ==
  ASSUME TurnInv, ~clusterMode.overlap, AllFree
  PROVE  \A c \in ClusterIds : Current(c)
BY DEF TurnInv, AllFree, Free, BeingReplaced, Slots

\* A step of the job at s, that leaves the other clusters alone.
LEMMA TurnOfJob ==
  ASSUME ShapeInv, TurnInv, ~clusterMode.overlap,
         NEW s \in Slots, ~Free(s), NEW pcs, Outcome(s, pcs), "remove" \notin pcs,
         spent' \in [{"requests", "outages", "failures", "restarts"} -> Nat],
         spent'.failures >= spent.failures,
         \A c \in ClusterIds : c # job[s].id => cluster'[c] = cluster[c] /\ clients'[c] = clients[c],
         ~Free(s)' => UpToDate(s)',
         \A c \in ClusterIds : c = job[s].id => Current(c)'
  PROVE  TurnInv'
<1>1. PICK j \in Jobs : job' = [job EXCEPT ![s] = j] /\ (j = NoJob \/ JobGoesOn(s, j, pcs))
  BY DEF Outcome
<1>2. job \in [Slots -> Jobs] /\ spent.failures \in Nat /\ spent'.failures \in Nat
  BY DEF ShapeInv, ClusterTypeOK
<1>3. job'[s] = j /\ \A t \in Slots : t # s => job'[t] = job[t] BY <1>1, <1>2
<1>4. OneAtATime /\ (\A t \in Slots : ~Free(t) => UpToDate(t))
      /\ (\A c \in ClusterIds : Current(c) \/ BeingReplaced(c))
  BY DEF TurnInv
<1>5. \A t \in Slots : ~Free(t)' => ~Free(t) BY <1>3 DEF Free
<1>6. OneAtATime' BY <1>4, <1>5 DEF OneAtATime, Slots
<1>7. ASSUME NEW t \in Slots, ~Free(t)' PROVE UpToDate(t)'
  <2>1. CASE t = s BY <1>7, <2>1
  <2>2. CASE t # s
    <3>1. job'[t] = job[t] /\ ~Free(t) BY <1>3, <1>5, <1>7, <2>2
    <3>2. s \in ClusterIds /\ t \in ClusterIds
      BY <1>4, <2>2, <3>1 DEF OneAtATime, Slots
    <3>3. job[t].id = t /\ job[s].id = s BY <3>1, <3>2, JobKnown DEF JobOK
    <3>4. cluster'[t] = cluster[t] /\ clients'[t] = clients[t] BY <2>2, <3>2, <3>3
    <3>5. UpToDate(t) BY <1>4, <3>1
    <3> QED BY <1>2, <3>1, <3>3, <3>4, <3>5 DEF UpToDate, HasRow
  <2> QED BY <2>1, <2>2
<1>8. ASSUME NEW c \in ClusterIds PROVE Current(c)'
  <2>1. CASE c = job[s].id BY <2>1
  <2>2. CASE c # job[s].id
    <3>1. ASSUME BeingReplaced(c) PROVE FALSE
      <4>1. PICK h \in Handlers : job[h].pc = "remove" /\ job[h].id = c
        BY <3>1 DEF BeingReplaced
      <4>2. ~Free(h) BY <4>1 DEF Free
      <4> QED BY <1>4, <2>2, <4>1, <4>2 DEF OneAtATime
    <3>2. Current(c) BY <1>4, <3>1
    <3> QED BY <1>2, <2>2, <3>2 DEF Current, HasRow
  <2> QED BY <2>1, <2>2
<1> QED BY <1>6, <1>7, <1>8 DEF TurnInv

\* A step of a job that changes no client and no row's kubeconfig, and does not start a rollback.
LEMMA QuietTurn ==
  ASSUME ShapeInv, TurnInv, ~clusterMode.overlap,
         NEW s \in Slots, ~Free(s), job[s].pc # "remove",
         NEW pcs, Outcome(s, pcs), pcs \cap {"remove", "deleteRow"} = {},
         spent' \in [{"requests", "outages", "failures", "restarts"} -> Nat],
         spent'.failures >= spent.failures,
         UNCHANGED <<cluster, clients>>,
         "read" \in pcs \/ ("error" \in pcs /\ job[s].op = "create") => clients[job[s].id] = NoClient,
         job'[s].pc = "store" => /\ HasRow(job[s].id)
                                 /\ job'[s].config = cluster[job[s].id].config
  PROVE  TurnInv'
<1> DEFINE c == job[s].id
<1>1. PICK j \in Jobs : job' = [job EXCEPT ![s] = j] /\ (j = NoJob \/ JobGoesOn(s, j, pcs))
  BY DEF Outcome
<1>2. job \in [Slots -> Jobs] /\ spent.failures \in Nat /\ spent'.failures \in Nat
  BY DEF ShapeInv, ClusterTypeOK
<1>3. job'[s] = j BY <1>1, <1>2
<1>4. UpToDate(s) /\ c \in ClusterIds
  <2>1. UpToDate(s) BY DEF TurnInv
  <2>2. c \in ClusterIds BY JobKnown
  <2> QED BY <2>1, <2>2
<1>5. ~BeingReplaced(c)
  <2>1. ASSUME NEW h \in Handlers, job[h].pc = "remove" PROVE FALSE
    <3>1. ~Free(h) BY <2>1 DEF Free
    <3> QED BY <2>1, <3>1 DEF TurnInv, OneAtATime
  <2> QED BY <2>1 DEF BeingReplaced
<1>6. Current(c) BY <1>4, <1>5 DEF TurnInv
<1>7. ASSUME ~Free(s)' PROVE UpToDate(s)'
  <2>1. JobGoesOn(s, j, pcs) BY <1>1, <1>3, <1>7, NoJobTyped DEF Free
  <2>2. job'[s].id = c /\ job'[s].op = job[s].op /\ job'[s].pc \in pcs
    BY <1>3, <2>1 DEF JobGoesOn
  <2>4. job[s].op = "create" => HasRow(c) BY <1>4 DEF UpToDate
  <2>5. job'[s].pc # "deleteRow" BY <2>2
  <2>6. (job'[s].pc = "read" => clients[c] = NoClient)
        /\ (job'[s].pc = "error" /\ job[s].op = "create" => clients[c] = NoClient)
    BY <2>2
  <2> QED BY <2>2, <2>4, <2>5, <2>6 DEF UpToDate, HasRow
<1>8. \A d \in ClusterIds : d = job[s].id => Current(d)'
  BY <1>2, <1>6 DEF Current, HasRow
<1> QED BY <1>7, <1>8, TurnOfJob

\* A removed client is nobody's.
LEMMA TurnRemove ==
  ASSUME ShapeInv, TurnInv, ~clusterMode.overlap, NEW s \in Slots, RemoveClient(s)
  PROVE  TurnInv'
<1> DEFINE c == job[s].id
           pc == IF job[s].op = "delete" THEN "deleteRow" ELSE "look"
<1>1. ~Free(s) /\ Outcome(s, {pc}) BY RemoveOutcome
<1>2. c \in ClusterIds /\ JobOK(job[s], s) BY <1>1, JobKnown
<1>3. /\ clients'[c] = NoClient
      /\ \A d \in ClusterIds : d # c => cluster'[d] = cluster[d] /\ clients'[d] = clients[d]
      /\ job' = [job EXCEPT ![s].pc = pc]
      /\ UNCHANGED <<cluster, spent>>
  BY <1>2 DEF RemoveClient, ShapeInv, ClusterTypeOK, Goto
<1>4. /\ job'[s].pc \in {"deleteRow", "look"} /\ job'[s].id = c
      /\ job'[s].op \in {"update", "delete"}
  BY <1>2, <1>3 DEF ShapeInv, ClusterTypeOK, Jobs, JobOK, RemoveClient
<1>5. UpToDate(s)' BY <1>3, <1>4 DEF UpToDate
<1>6. \A d \in ClusterIds : d = c => Current(d)' BY <1>3 DEF Current
<1>7. spent' \in [{"requests", "outages", "failures", "restarts"} -> Nat]
      /\ spent'.failures >= spent.failures
  BY <1>3 DEF ShapeInv, ClusterTypeOK
<1>8. "remove" \notin {pc} OBVIOUS
<1> HIDE DEF pc
<1> QED BY <1>1, <1>3, <1>5, <1>6, <1>7, <1>8, TurnOfJob

\* A row goes when its client is gone, or a statement of its creation had failed.
LEMMA TurnDeleteRow ==
  ASSUME ShapeInv, TurnInv, ~clusterMode.overlap, NEW s \in Slots, DeleteRow(s)
  PROVE  TurnInv'
<1> DEFINE c == job[s].id
<1>1. ~Free(s) /\ Outcome(s, {}) BY DeleteRowOutcome
<1>2. c \in ClusterIds /\ JobOK(job[s], s) /\ job[s].pc = "deleteRow"
  BY <1>1, JobKnown DEF DeleteRow
<1>3. UpToDate(s) BY <1>1 DEF TurnInv
<1>4. clients[c] = NoClient \/ spent.failures > 0
  BY <1>2, <1>3 DEF UpToDate, JobOK
<1>5. ~BeingReplaced(c)
  <2>1. ASSUME NEW h \in Handlers, job[h].pc = "remove" PROVE FALSE
    <3>1. ~Free(h) BY <2>1 DEF Free
    <3> QED BY <1>1, <1>2, <2>1, <3>1 DEF TurnInv, OneAtATime
  <2> QED BY <2>1 DEF BeingReplaced
<1>6. Current(c) BY <1>2, <1>5 DEF TurnInv
<1>7. clients' = clients /\ ~(~Free(s)')
  BY <1>1, NoJobTyped DEF DeleteRow, EndJob, Free, ShapeInv, ClusterTypeOK
<1>8. spent' \in [{"requests", "outages", "failures", "restarts"} -> Nat]
      /\ spent'.failures >= spent.failures /\ spent.failures \in Nat
  BY SpendTyped DEF DeleteRow, ShapeInv, ClusterTypeOK
<1>9. Current(c)' \/ clients'[c] = NoClient \/ spent'.failures > 0
  BY <1>4, <1>7, <1>8
<1>10. \A d \in ClusterIds : d = c => Current(d)'
  <2>1. CASE UNCHANGED cluster BY <1>6, <1>7, <1>8, <2>1 DEF Current, HasRow
  <2>2. CASE cluster' = [cluster EXCEPT ![c] = NoCluster]
    <3>1. cluster'[c] = NoCluster BY <1>2, <2>2 DEF ShapeInv, ClusterTypeOK
    <3> QED BY <1>4, <1>7, <1>8, <3>1 DEF Current, HasRow
  <2> QED BY <2>1, <2>2 DEF DeleteRow
<1>11. \A d \in ClusterIds : d # c => cluster'[d] = cluster[d] /\ clients'[d] = clients[d]
  BY <1>7, DeleteRowOutcome
<1> QED BY <1>1, <1>7, <1>8, <1>10, <1>11, TurnOfJob

LEMMA TurnLookUp ==
  ASSUME ShapeInv, TurnInv, ~clusterMode.overlap, NEW s \in Slots, LookUpClient(s)
  PROVE  TurnInv'
<1>1. ~Free(s) /\ job[s].pc # "remove" BY DEF LookUpClient, Free
<1>2. /\ UNCHANGED <<cluster, clients>>
      /\ spent' \in [{"requests", "outages", "failures", "restarts"} -> Nat]
      /\ spent'.failures >= spent.failures
  BY DEF LookUpClient, ShapeInv, ClusterTypeOK
<1>3. ASSUME NEW pcs, Outcome(s, pcs), "store" \notin pcs PROVE job'[s].pc # "store"
  BY <1>3, NoJobTyped DEF Outcome, JobGoesOn, ShapeInv, ClusterTypeOK
<1>4. CASE clients[job[s].id] # NoClient
  <2>1. Outcome(s, Served(s)) BY <1>4, LookUpOutcome
  <2>2. job'[s].pc # "store" BY <1>3, <2>1 DEF Served
  <2> QED BY <1>1, <1>2, <2>1, <2>2, QuietTurn DEF Served
<1>5. CASE clients[job[s].id] = NoClient
  <2>1. Outcome(s, {"read"}) BY <1>5, LookUpOutcome
  <2>2. job'[s].pc # "store" BY <1>3, <2>1
  <2> QED BY <1>1, <1>2, <1>5, <2>1, <2>2, QuietTurn
<1> QED BY <1>4, <1>5

\* Nobody stored a client since the job found none.
LEMMA TurnRead ==
  ASSUME ShapeInv, TurnInv, ~clusterMode.overlap, NEW s \in Slots, ReadCluster(s)
  PROVE  TurnInv'
<1>1. ~Free(s) /\ job[s].pc = "read" BY DEF ReadCluster, Free
<1>2. UpToDate(s) BY <1>1 DEF TurnInv
<1>3. clients[job[s].id] = NoClient BY <1>1, <1>2 DEF UpToDate
<1>4. job'[s].pc = "store" => /\ HasRow(job[s].id)
                              /\ job'[s].config = cluster[job[s].id].config
  BY ReadOutcome DEF Buildable
<1>5. UNCHANGED <<cluster, clients>> BY DEF ReadCluster
<1>6. job[s].pc # "remove" BY <1>1
<1> QED BY <1>1, <1>3, <1>4, <1>5, <1>6, ReadOutcome, QuietTurn

\* The row is still the one the client was built from.
LEMMA TurnStore ==
  ASSUME ShapeInv, TurnInv, ~clusterMode.overlap, NEW s \in Slots, StoreClient(s)
  PROVE  TurnInv'
<1> DEFINE c == job[s].id
<1>1. ~Free(s) /\ Outcome(s, Served(s)) BY StoreOutcome
<1>2. c \in ClusterIds /\ job[s].pc = "store" BY <1>1, JobKnown DEF StoreClient
<1>3. UpToDate(s) BY <1>1 DEF TurnInv
<1>4. HasRow(c) /\ cluster[c].config = job[s].config BY <1>2, <1>3 DEF UpToDate
<1>5. clients'[c] = job[s].config /\ UNCHANGED <<cluster, spent>>
  BY <1>2 DEF StoreClient, ShapeInv, ClusterTypeOK
<1>6. \A d \in ClusterIds : d = c => Current(d)' BY <1>4, <1>5 DEF Current, HasRow
<1>7. ~Free(s)' => UpToDate(s)'
  <2>1. ASSUME ~Free(s)' PROVE job'[s].pc \in {"running", "probe"} /\ job'[s].id = c
    BY <1>1, <2>1, NoJobTyped DEF Outcome, JobGoesOn, Served, Free, ShapeInv, ClusterTypeOK
  <2> QED BY <1>4, <1>5, <2>1 DEF UpToDate, HasRow
<1>8. spent' \in [{"requests", "outages", "failures", "restarts"} -> Nat]
      /\ spent'.failures >= spent.failures
  BY <1>5 DEF ShapeInv, ClusterTypeOK
<1>9. \A d \in ClusterIds : d # c => cluster'[d] = cluster[d] /\ clients'[d] = clients[d]
  BY <1>5, StoreOutcome
<1>10. "remove" \notin Served(s) BY DEF Served
<1> QED BY <1>1, <1>6, <1>7, <1>8, <1>9, <1>10, TurnOfJob

\* Who probes did not create the cluster.
LEMMA TurnProbe ==
  ASSUME ShapeInv, TurnInv, ~clusterMode.overlap, NEW s \in Slots, Probe(s)
  PROVE  TurnInv'
<1>1. ~Free(s) /\ job[s].pc = "probe" BY DEF Probe, Free
<1>2. job[s].op \in {"refresh", "check"} BY <1>1, JobKnown DEF JobOK
<1>3. Outcome(s, Statuses) BY ProbeOutcome
<1>4. /\ UNCHANGED <<cluster, clients>>
      /\ spent' \in [{"requests", "outages", "failures", "restarts"} -> Nat]
      /\ spent'.failures >= spent.failures
  BY DEF Probe, ShapeInv, ClusterTypeOK
<1>5. job'[s].pc # "store"
  BY <1>3, NoJobTyped DEF Outcome, JobGoesOn, Statuses, ShapeInv, ClusterTypeOK
<1>6. Statuses \cap {"remove", "deleteRow"} = {} /\ "read" \notin Statuses BY DEF Statuses
<1> QED BY <1>1, <1>2, <1>3, <1>4, <1>5, <1>6, QuietTurn

\* The status is of the row, and a rollback starts without a client or after a failure.
LEMMA TurnMark ==
  ASSUME ShapeInv, TurnInv, ~clusterMode.overlap, NEW s \in Slots, MarkStatus(s)
  PROVE  TurnInv'
<1> DEFINE c == job[s].id
           pcs == IF job[s].op = "create" THEN {"deleteRow"} ELSE {}
<1>1. ~Free(s) /\ Outcome(s, pcs) BY MarkOutcome
<1>2. c \in ClusterIds /\ JobOK(job[s], s) /\ job[s].pc \in Statuses
  BY <1>1, JobKnown DEF MarkStatus
<1>3. UpToDate(s) BY <1>1 DEF TurnInv
<1>4. ~BeingReplaced(c)
  <2>1. ASSUME NEW h \in Handlers, job[h].pc = "remove" PROVE FALSE
    <3>1. ~Free(h) BY <2>1 DEF Free
    <3> QED BY <1>1, <1>2, <2>1, <3>1 DEF TurnInv, OneAtATime, Statuses
  <2> QED BY <2>1 DEF BeingReplaced
<1>5. Current(c) BY <1>2, <1>4 DEF TurnInv
<1>6. /\ clients' = clients /\ spent.failures \in Nat
      /\ spent' \in [{"requests", "outages", "failures", "restarts"} -> Nat]
      /\ spent'.failures >= spent.failures
      /\ \A d \in ClusterIds : d # c => cluster'[d] = cluster[d] /\ clients'[d] = clients[d]
      /\ (cluster'[c] # NoCluster) <=> HasRow(c)
      /\ HasRow(c) => cluster'[c].config = cluster[c].config
  <2>1. clients' = clients /\ spent.failures \in Nat
    BY DEF MarkStatus, ShapeInv, ClusterTypeOK
  <2>2. \A d \in ClusterIds : (cluster'[d] # NoCluster) <=> HasRow(d)
    BY MarkOutcome DEF HasRow
  <2> QED BY <1>2, <2>1, <2>2, MarkOutcome
<1>7. \A d \in ClusterIds : d = c => Current(d)' BY <1>5, <1>6 DEF Current, HasRow
<1>8. ASSUME ~Free(s)' PROVE UpToDate(s)'
  <2>1. job'[s].pc = "deleteRow" /\ job'[s].id = c /\ job[s].op = "create" /\ job'[s].op = "create"
    BY <1>1, <1>8, NoJobTyped DEF Outcome, JobGoesOn, Free, ShapeInv, ClusterTypeOK
  <2>2. HasRow(c) BY <1>3, <2>1 DEF UpToDate
  <2>3. job[s].pc = "error" \/ spent'.failures > 0 BY <1>8, <2>2, MarkOutcome
  <2>4. clients[c] = NoClient \/ spent'.failures > 0
    BY <1>3, <1>6, <2>1, <2>3 DEF UpToDate
  <2> QED BY <1>6, <2>1, <2>2, <2>4 DEF UpToDate, HasRow
<1>9. "remove" \notin pcs OBVIOUS
<1> HIDE DEF pcs
<1> QED BY <1>1, <1>6, <1>7, <1>8, <1>9, TurnOfJob

\* A request starts when no job is in progress.
LEMMA TurnOfRequest ==
  ASSUME ShapeInv, TurnInv, ~clusterMode.overlap, NEW h \in Handlers, NEW c \in ClusterIds,
         CreateCluster(h) \/ UpdateCluster(h, c) \/ DeleteCluster(h, c)
           \/ RefreshClusterStatus(h, c) \/ UseCluster(h, c)
  PROVE  TurnInv'
<1>1. AllFree
  BY DEF CreateCluster, UpdateCluster, DeleteCluster, RefreshClusterStatus, UseCluster, Request, MayStart
<1>2. \A d \in ClusterIds : Current(d) BY <1>1, NothingReplaced
<1>3. \A t \in Slots : t # h => job'[t] = job[t] BY CreateShape, UpdateShape, QuietShape
<1>4. \A t \in Slots : t # h => Free(t)' BY <1>1, <1>3 DEF AllFree, Free
<1>5. OneAtATime' BY <1>4 DEF OneAtATime, Slots
<1>6. spent'.failures = spent.failures /\ clients' = clients
  BY DEF CreateCluster, UpdateCluster, DeleteCluster, RefreshClusterStatus, UseCluster, Request,
         Spend, ShapeInv, ClusterTypeOK
<1>7. CASE CreateCluster(h)
  <2>1. /\ lastCluster + 1 \in ClusterIds
        /\ job'[h].op = "create" /\ job'[h].id = lastCluster + 1 /\ job'[h].pc = "look"
        /\ cluster'[lastCluster + 1] # NoCluster
        /\ \A d \in ClusterIds : d # lastCluster + 1 => cluster'[d] = cluster[d]
    BY <1>7, CreateShape
  <2>2. UpToDate(h)' BY <2>1 DEF UpToDate, HasRow
  <2>3. clients[lastCluster + 1] = NoClient
    BY <2>1 DEF ShapeInv, ClusterTypeOK, Unborn
  <2>4. \A d \in ClusterIds : Current(d)' BY <1>2, <1>6, <2>1, <2>3 DEF Current, HasRow
  <2> QED BY <1>4, <1>5, <2>2, <2>4 DEF TurnInv
<1>8. CASE UpdateCluster(h, c)
  <2>1. /\ job'[h].op = "update" /\ job'[h].id = c /\ job'[h].pc = "remove"
        /\ \A d \in ClusterIds : d # c => cluster'[d] = cluster[d]
    BY <1>8, UpdateShape
  <2>2. UpToDate(h)' BY <2>1 DEF UpToDate
  <2>3. BeingReplaced(c)' BY <2>1 DEF BeingReplaced
  <2>4. \A d \in ClusterIds : d # c => Current(d)' BY <1>2, <1>6, <2>1 DEF Current, HasRow
  <2> QED BY <1>4, <1>5, <2>2, <2>3, <2>4 DEF TurnInv
<1>9. CASE DeleteCluster(h, c) \/ RefreshClusterStatus(h, c) \/ UseCluster(h, c)
  <2>1. job'[h].op \in {"delete", "refresh", "use"} /\ job'[h].pc \in {"remove", "look"}
    BY <1>9, QuietShape
  <2>2. UpToDate(h)' BY <2>1 DEF UpToDate
  <2>3. cluster' = cluster BY <1>9 DEF DeleteCluster, RefreshClusterStatus, UseCluster
  <2>4. \A d \in ClusterIds : Current(d)' BY <1>2, <1>6, <2>3 DEF Current, HasRow
  <2> QED BY <1>4, <1>5, <2>2, <2>4 DEF TurnInv
<1> QED BY <1>7, <1>8, <1>9

\* So does a round of checks.
LEMMA TurnOfRound ==
  ASSUME ShapeInv, TurnInv, ~clusterMode.overlap, CheckRound
  PROVE  TurnInv'
<1>1. AllFree BY DEF CheckRound, MayStart
<1>2. \A d \in ClusterIds : Current(d) BY <1>1, NothingReplaced
<1>3. \A h \in Handlers : Free(h)' BY <1>1, CheckRoundShape DEF AllFree, Free, Slots
<1>4. OneAtATime' BY <1>3 DEF OneAtATime
<1>5. ASSUME NEW s \in Slots, ~Free(s)' PROVE UpToDate(s)'
  <2>1. s \in ClusterIds BY <1>3, <1>5 DEF Slots
  <2>2. job'[s].op = "check" /\ job'[s].pc = "look" BY <1>5, <2>1, CheckRoundShape
  <2> QED BY <2>2 DEF UpToDate
<1>6. \A d \in ClusterIds : Current(d)' BY <1>2 DEF Current, HasRow, CheckRound
<1> QED BY <1>4, <1>5, <1>6 DEF TurnInv

THEOREM NextKeepsTurns == ShapeInv /\ TurnInv /\ [ClusterNext]_clusterVars => TurnInv'
<1> SUFFICES ASSUME ShapeInv, TurnInv, [ClusterNext]_clusterVars PROVE TurnInv'
  OBVIOUS
<1>1. clusterMode' = clusterMode
  BY DEF ClusterNext, clusterVars, CreateCluster, UpdateCluster, DeleteCluster, RefreshClusterStatus,
         UseCluster, CheckRound, JobStep, RestartAndInitialize, ToggleAnswer, RemoveClient, DeleteRow,
         LookUpClient, ReadCluster, StoreClient, Probe, MarkStatus
<1>2. CASE clusterMode.overlap BY <1>1, <1>2 DEF TurnInv
<1>3. CASE ~clusterMode.overlap
  <2>1. clusterMode.handlers \subseteq Handlers
    BY ClusterModesAssumption DEF ShapeInv, ClusterTypeOK
  <2>2. ASSUME NEW h \in clusterMode.handlers, CreateCluster(h) PROVE TurnInv'
    BY <1>3, <2>1, <2>2, TurnOfRequest, CreateShape
  <2>3. ASSUME NEW h \in clusterMode.handlers, NEW c \in ClusterIds,
               UpdateCluster(h, c) \/ DeleteCluster(h, c) \/ RefreshClusterStatus(h, c)
                 \/ UseCluster(h, c)
        PROVE TurnInv'
    BY <1>3, <2>1, <2>3, TurnOfRequest
  <2>4. CASE CheckRound BY <1>3, <2>4, TurnOfRound
  <2>5. CASE JobStep
    <3>1. PICK s \in Slots :
            \/ RemoveClient(s) \/ DeleteRow(s) \/ LookUpClient(s) \/ ReadCluster(s)
            \/ StoreClient(s) \/ Probe(s) \/ MarkStatus(s)
      BY <2>5 DEF JobStep
    <3> QED BY <1>3, <3>1, TurnRemove, TurnDeleteRow, TurnLookUp, TurnRead, TurnStore, TurnProbe, TurnMark
  <2>6. CASE RestartAndInitialize
    <3>1. \A s \in Slots : Free(s)' BY <2>6, RestartShape
    <3>2. \A c \in ClusterIds : Current(c)' BY <2>6, RestartShape DEF Current, HasRow
    <3> QED BY <3>1, <3>2 DEF TurnInv, OneAtATime, Slots
  <2>7. ASSUME NEW k \in Kubeconfigs, ToggleAnswer(k) PROVE TurnInv'
    <3>1. /\ UNCHANGED <<clusterMode, cluster, clients, job>>
          /\ spent.failures \in Nat /\ spent'.failures \in Nat /\ spent'.failures >= spent.failures
      BY <2>7, ToggleShape DEF ShapeInv, ClusterTypeOK
    <3> QED BY <3>1 DEF TurnInv, OneAtATime, UpToDate, Current, BeingReplaced, HasRow, Free
  <2>8. CASE UNCHANGED clusterVars
    BY <2>8 DEF clusterVars, TurnInv, OneAtATime, UpToDate, Current, BeingReplaced, HasRow, Free
  <2> QED BY <2>2, <2>3, <2>4, <2>5, <2>6, <2>7, <2>8 DEF ClusterNext
<1> QED BY <1>2, <1>3

\* When requests and checks take turns, a cached client is one of the row's kubeconfig between any two
\* of them, and a cluster without a row has one only after a statement failed.
THEOREM ClientsCurrent == ClusterSafety => []ClientIsCurrent
<1>1. ShapeInv /\ TurnInv => ClientIsCurrent
  BY NothingReplaced DEF ClientIsCurrent, Current
<1>2. ClusterSafety => []TurnInv
  BY TurnHoldsAtStart, NextKeepsTurns, ShapeInvariant, PTL DEF ClusterSafety
<1> QED BY <1>1, <1>2, ShapeInvariant, PTL

----
(****************************************************************************)
(* The composition.                                                         *)
(****************************************************************************)
\* What the composition does is, for each of its components, a behaviour of that component:
\* what is proved of one holds in it (the tree, the cloud accounts, the clusters and the two
\* streams share no state).  Fairness apart, which the theorems do not use.
THEOREM ResourcesCompose ==
  ResourcesSpec => TreeSpec /\ CloudSpec /\ ClusterSafety /\ LogSafety /\ TerminalSafety
<1>1. ResourcesInit => TreeInit /\ CloudInit /\ ClusterInit /\ LogInit /\ TerminalInit
  BY DEF ResourcesInit
<1>2. [ResourcesNext]_resourcesVars =>
        /\ [TreeNext]_treeVars /\ [CloudNext]_cloudVars /\ [ClusterNext]_clusterVars
        /\ [LogNext]_logVars /\ [TerminalNext]_terminalVars
  BY DEF ResourcesNext, resourcesVars, TreeMoves, CloudMoves, ClusterMoves, LogMoves, TerminalMoves
<1> QED
  BY <1>1, <1>2, PTL DEF ResourcesSpec, TreeSpec, CloudSpec, ClusterSafety, LogSafety, TerminalSafety

\* The five components keep their types.
THEOREM ResourcesTypeCorrect == ResourcesSpec => []ResourcesTypeOK
<1>1. LogInv /\ TerminalInv => LogTypeOK /\ TerminalTypeOK BY DEF LogInv, TerminalInv
<1> QED
  BY <1>1, ResourcesCompose, TreeTypeCorrect, CloudTypeCorrect, ClusterTypeCorrect, LogInvariant,
     TerminalInvariant, PTL DEF ResourcesTypeOK
====

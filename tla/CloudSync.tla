---- MODULE CloudSync ----
(***************************************************************************)
(* One cloud account: its regions, the copy of its instances in            *)
(* cl_tree_cloud_resource, and the synchronisation with the cloud.          *)
(* Handlers are cut at their statements, none of which share a transaction. *)
(*                                                                         *)
(*   sync     fetch -> [list -> delete*] -> (lookup -> save)*  per region   *)
(*            -> report                                                     *)
(*   create   exists [-> clear] -> insert                                   *)
(*   update   clear -> setDefault                                           *)
(*   delete   count -> remove [-> pick -> setDefault]                       *)
(*   account  removeAccount                                                 *)
(*                                                                         *)
(* What the cloud answers is arbitrary at every fetch, which covers a       *)
(* request that names instances.  Which requests overlap is part of a       *)
(* behaviour (cloudMode).                                                   *)
(***************************************************************************)
EXTENDS Integers

CONSTANTS
  Regions,     \* region names; a unique index allows one row each
  NoRegion,
  Instances,   \* instances the cloud may report
  Home,        \* the region of an instance
  Callers,     \* goroutines serving the API
  CloudModes,  \* the modes a behaviour can have
  MaxResource  \* bound on the rows of resources

CloudKinds == {"sync", "region", "account", "resource"}
Pair(a, b) == {a, b}

ASSUME NoRegionAssumption == NoRegion \notin Regions
ASSUME InstancesAssumption == Instances # {}
ASSUME HomeAssumption == Home \in [Instances -> Regions]
ASSUME MaxResourceAssumption == MaxResource \in Nat
ASSUME CloudModesAssumption ==
  CloudModes \subseteq [overlap : SUBSET {Pair(a, b) : a, b \in CloudKinds}, faults : BOOLEAN, requests : Nat]

Ids == 1..MaxResource

VARIABLES
  cloudMode,     \* which requests overlap, whether statements fail, how many requests
  account,       \* status of the account
  region,        \* the rows of its regions
  resource,      \* the rows of its instances, by id
  lastResource,  \* auto-increment
  request,       \* each goroutine: its handler and what it has read
  cloudRequests

cloudVars == <<cloudMode, account, region, resource, lastResource, request, cloudRequests>>

NoRow == [life |-> "absent", inst |-> CHOOSE i \in Instances : TRUE]

SyncSteps == {"fetch", "list", "delete", "lookup", "save", "report"}
RegionSteps == {"exists", "clear", "insert", "setDefault", "count", "remove", "pick"}
CloudRequests ==
  [pc : {"idle", "removeAccount"} \cup SyncSteps \cup RegionSteps, kind : CloudKinds, full : BOOLEAN,
   todo : SUBSET Regions, at : Regions \cup {NoRegion}, default : Regions \cup {NoRegion},
   items : SUBSET Instances, gone : SUBSET Ids, inst : Instances, row : Nat, failed : BOOLEAN,
   fetched : SUBSET Instances, handled : SUBSET Regions, before : SUBSET Ids]

\* What a handler holds between two statements: the regions still to do and the
\* one at hand; the default it was asked for; instances fetched and rows missing
\* among them; the instance at hand and its row (0 for none).  What a sync has
\* got and done so far is kept to its end (fetched, handled, failed), and
\* before is history: the rows that were there when it began.
NoCloudRequest ==
  [pc |-> "idle", kind |-> "sync", full |-> FALSE, todo |-> {}, at |-> NoRegion, default |-> NoRegion,
   items |-> {}, gone |-> {}, inst |-> CHOOSE i \in Instances : TRUE, row |-> 0,
   failed |-> FALSE, fetched |-> {}, handled |-> {}, before |-> {}]

\* CreateCloudAccount: the account, its regions and the one default, in a transaction.
CloudInit ==
  /\ cloudMode \in CloudModes
  /\ account = "enabled"
  /\ \E R \in SUBSET Regions, d \in Regions :
       /\ d \in R
       /\ region = [r \in Regions |-> [life |-> IF r \in R THEN "live" ELSE "absent", default |-> r = d]]
  /\ resource = [i \in Ids |-> NoRow] /\ lastResource = 0
  /\ request = [c \in Callers |-> NoCloudRequest]
  /\ cloudRequests = 0

Live(r) == r \in Regions /\ region[r].life = "live"
Stored(i) == resource[i].life = "live"
RowsIn(r) == {i \in Ids : Stored(i) /\ Home[resource[i].inst] = r}
RowsOf(x) == {i \in Ids : Stored(i) /\ resource[i].inst = x}

(***************************************************************************)
(* Requests.                                                                *)
(***************************************************************************)
MayOverlap(kind) ==
  \A c \in Callers : request[c].pc = "idle" \/ Pair(kind, request[c].kind) \in cloudMode.overlap

Accept(kind) ==
  /\ MayOverlap(kind)
  /\ cloudRequests < cloudMode.requests /\ cloudRequests' = cloudRequests + 1

Serve(c, q) ==
  /\ request[c].pc = "idle"
  /\ Accept(q.kind)
  /\ request' = [request EXCEPT ![c] = q]

At(c, pc) == request[c].pc = pc /\ UNCHANGED <<cloudMode, cloudRequests>>
Becomes(c, q) == request' = [request EXCEPT ![c] = q]
Ends(c) == Becomes(c, NoCloudRequest)
Fails == cloudMode.faults
Table == <<region, resource, lastResource>>

(***************************************************************************)
(* The synchronisation.                                                     *)
(***************************************************************************)
\* The regions a request names, or those that are enabled: any.
SyncResources(c, full, R) ==
  /\ account = "enabled"
  /\ R # {} /\ \A r \in R : Live(r)
  /\ Serve(c, [NoCloudRequest EXCEPT !.pc = "fetch", !.full = full, !.todo = R,
                                     !.before = {i \in Ids : Stored(i)}])
  /\ UNCHANGED <<cloudMode, account, Table>>

\* What is left to do in the region at hand, then in the next one.
Onward(q) ==
  [q EXCEPT !.pc = IF q.gone # {} THEN "delete"
                   ELSE IF q.items # {} THEN "lookup"
                   ELSE IF q.todo # {} THEN "fetch" ELSE "report"]

\* Trouble with a region is only logged; the next one follows.
Fetch(c) ==
  LET q == request[c] IN
  /\ At(c, "fetch")
  /\ \E r \in q.todo :
       \/ \E got \in SUBSET {x \in Instances : Home[x] = r} :
            LET has == [q EXCEPT !.todo = @ \ {r}, !.at = r, !.items = got,
                                 !.fetched = @ \cup got, !.handled = @ \cup {r}]
            IN Becomes(c, IF q.full THEN [has EXCEPT !.pc = "list"] ELSE Onward(has))
       \/ Fails /\ Becomes(c, Onward([q EXCEPT !.todo = @ \ {r}]))
  /\ UNCHANGED <<account, Table>>

ListAll(c) ==   \* mutant: every row of the region is deleted and created again
  LET q == request[c] IN
  /\ At(c, "list")
  /\ \/ Becomes(c, Onward([q EXCEPT !.gone = RowsIn(q.at)]))
     \/ Fails /\ Becomes(c, Onward([q EXCEPT !.items = {}, !.handled = @ \ {q.at},
                                             !.fetched = @ \ q.items]))
  /\ UNCHANGED <<account, Table>>

\* A full synchronisation looks for the rows the cloud did not report.
ListExisting(c) ==
  LET q == request[c] IN
  /\ At(c, "list")
  /\ \/ Becomes(c, Onward([q EXCEPT !.gone = {i \in RowsIn(q.at) : resource[i].inst \notin q.items}]))
     \/ Fails /\ Becomes(c, Onward([q EXCEPT !.items = {}, !.handled = @ \ {q.at},
                                             !.fetched = @ \ q.items]))
  /\ UNCHANGED <<account, Table>>

\* Deleting what is deleted already changes no row and is no error.
DeleteMissing(c) ==
  LET q == request[c] IN
  /\ At(c, "delete")
  /\ \E i \in q.gone :
       \/ /\ resource' = [resource EXCEPT ![i].life = "deleted"]
          /\ Becomes(c, Onward([q EXCEPT !.gone = @ \ {i}]))
       \/ /\ Fails
          /\ Becomes(c, Onward([q EXCEPT !.gone = @ \ {i}, !.failed = TRUE]))
          /\ UNCHANGED resource
  /\ UNCHANGED <<account, region, lastResource>>

\* GetByRegionAndInstanceID: First orders by id.
LookUp(c) ==
  LET q == request[c] IN
  /\ At(c, "lookup")
  /\ \E x \in q.items :
       LET q1 == [q EXCEPT !.items = @ \ {x}] IN
       \/ /\ RowsOf(x) = {}
          /\ Becomes(c, [q1 EXCEPT !.pc = "save", !.inst = x, !.row = 0])
       \/ \E i \in RowsOf(x) :
            /\ \A j \in RowsOf(x) : i <= j
            /\ Becomes(c, [q1 EXCEPT !.pc = "save", !.inst = x, !.row = i])
       \/ Fails /\ Becomes(c, Onward([q1 EXCEPT !.failed = TRUE]))
  /\ UNCHANGED <<account, Table>>

\* Update writes columns that are not modelled, or no row when it is gone.
Save(c) ==
  LET q == request[c] IN
  /\ At(c, "save")
  /\ \/ q.row # 0 /\ Becomes(c, Onward(q)) /\ UNCHANGED Table
     \/ /\ q.row = 0 /\ lastResource < MaxResource
        /\ lastResource' = lastResource + 1
        /\ resource' = [resource EXCEPT ![lastResource + 1] = [life |-> "live", inst |-> q.inst]]
        /\ Becomes(c, Onward(q)) /\ UNCHANGED region
     \/ Fails /\ Becomes(c, Onward([q EXCEPT !.failed = TRUE])) /\ UNCHANGED Table
  /\ UNCHANGED account

\* The history says "success" if nothing was counted as failed, else "partial".
ReportSync(c) ==
  /\ At(c, "report")
  /\ Ends(c)
  /\ UNCHANGED <<account, Table>>

(***************************************************************************)
(* Regions, of CreateCloudAccountRegion (one) and its batch (several), of   *)
(* an update that asks for the default (any other changes no flag), and of  *)
(* the deletion.                                                            *)
(***************************************************************************)
CreateRegions(c, R, d) ==
  /\ account # "deleted"
  /\ R # {} /\ d \in R \cup {NoRegion}
  /\ Serve(c, [NoCloudRequest EXCEPT !.pc = "exists", !.kind = "region", !.todo = R, !.default = d])
  /\ UNCHANGED <<cloudMode, account, Table>>

\* One SELECT per region, taken as one: the index refuses at the insert what they miss.
RefuseKnown(c) ==
  LET q == request[c] IN
  /\ At(c, "exists")
  /\ IF \E r \in q.todo : Live(r) THEN Ends(c)
     ELSE Becomes(c, [q EXCEPT !.pc = IF q.default = NoRegion THEN "insert" ELSE "clear"])
  /\ UNCHANGED <<account, Table>>

ClearNone(c) ==   \* mutant: the old default stays
  LET q == request[c] IN
  /\ At(c, "clear")
  /\ Becomes(c, [q EXCEPT !.pc = IF q.todo = {} THEN "setDefault" ELSE "insert"])
  /\ UNCHANGED <<account, Table>>

ClearDefault(c) ==
  LET q == request[c] IN
  /\ At(c, "clear")
  /\ region' = [r \in Regions |-> IF Live(r) THEN [region[r] EXCEPT !.default = FALSE] ELSE region[r]]
  /\ Becomes(c, [q EXCEPT !.pc = IF q.todo = {} THEN "setDefault" ELSE "insert"])
  /\ UNCHANGED <<account, resource, lastResource>>

\* One INSERT.  A deleted region still holds its place in the unique index.
InsertRegions(c) ==
  LET q == request[c] IN
  /\ At(c, "insert")
  /\ region' = IF \A r \in q.todo : region[r].life = "absent"
               THEN [r \in Regions |-> IF r \in q.todo THEN [life |-> "live", default |-> r = q.default]
                                       ELSE region[r]]
               ELSE region
  /\ Ends(c)
  /\ UNCHANGED <<account, resource, lastResource>>

MakeDefault(c, r) ==
  /\ Live(r)
  /\ Serve(c, [NoCloudRequest EXCEPT !.pc = "clear", !.kind = "region", !.at = r])
  /\ UNCHANGED <<cloudMode, account, Table>>

SetDefault(c) ==
  LET q == request[c] IN
  /\ At(c, "setDefault")
  /\ region' = IF Live(q.at) THEN [region EXCEPT ![q.at].default = TRUE] ELSE region
  /\ Ends(c)
  /\ UNCHANGED <<account, resource, lastResource>>

DeleteRegion(c, r) ==
  /\ Live(r)
  /\ Serve(c, [NoCloudRequest EXCEPT !.pc = "count", !.kind = "region", !.at = r,
                                     !.default = IF region[r].default THEN r ELSE NoRegion])
  /\ UNCHANGED <<cloudMode, account, Table>>

CountIgnored(c) ==   \* mutant: the count is not looked at
  /\ At(c, "count")
  /\ Becomes(c, [request[c] EXCEPT !.pc = "remove"])
  /\ UNCHANGED <<account, Table>>

CountResources(c) ==
  /\ At(c, "count")
  /\ IF RowsIn(request[c].at) # {} THEN Ends(c)
     ELSE Becomes(c, [request[c] EXCEPT !.pc = "remove"])
  /\ UNCHANGED <<account, Table>>

RemoveRegion(c) ==
  LET q == request[c] IN
  /\ At(c, "remove")
  /\ region' = [region EXCEPT ![q.at].life = "deleted"]
  /\ IF q.default = NoRegion THEN Ends(c) ELSE Becomes(c, [q EXCEPT !.pc = "pick"])
  /\ UNCHANGED <<account, resource, lastResource>>

\* The first of the regions, defaults first, then by age.
PickDefault(c) ==
  LET q == request[c]
      live == {r \in Regions : Live(r)}
      first == {r \in live : region[r].default}
  IN
  /\ At(c, "pick")
  /\ \/ live = {} /\ Ends(c)
     \/ \E r \in IF first # {} THEN first ELSE live : Becomes(c, [q EXCEPT !.pc = "setDefault", !.at = r])
  /\ UNCHANGED <<account, Table>>

(***************************************************************************)
(* The account, and the deletion of one resource by its id.                 *)
(***************************************************************************)
UpdateAccountStatus(status) ==
  /\ account # "deleted"
  /\ Accept("account")
  /\ account' = status
  /\ UNCHANGED <<cloudMode, Table, request>>

DeleteAccount(c) ==
  /\ account # "deleted" /\ \A i \in Ids : ~Stored(i)
  /\ Serve(c, [NoCloudRequest EXCEPT !.pc = "removeAccount", !.kind = "account"])
  /\ UNCHANGED <<cloudMode, account, Table>>

RemoveAccount(c) ==
  /\ At(c, "removeAccount")
  /\ account' = "deleted"
  /\ Ends(c)
  /\ UNCHANGED Table

DeleteResource(i) ==
  /\ Stored(i)
  /\ Accept("resource")
  /\ resource' = [resource EXCEPT ![i].life = "deleted"]
  /\ UNCHANGED <<cloudMode, account, region, lastResource, request>>

\* A failing statement ends a handler other than the synchronisation, a crash any.
AbandonRequest(c) ==
  /\ Fails /\ request[c].pc # "idle"
  /\ Ends(c)
  /\ UNCHANGED <<cloudMode, account, Table, cloudRequests>>

CloudStep(c) ==
  \/ Fetch(c) \/ ListExisting(c) \/ DeleteMissing(c) \/ LookUp(c) \/ Save(c) \/ ReportSync(c)
  \/ RefuseKnown(c) \/ ClearDefault(c) \/ InsertRegions(c) \/ SetDefault(c)
  \/ CountResources(c) \/ RemoveRegion(c) \/ PickDefault(c)
  \/ RemoveAccount(c) \/ AbandonRequest(c)

CloudNext ==
  \/ \E c \in Callers :
       \/ \E full \in BOOLEAN, R \in SUBSET Regions : SyncResources(c, full, R)
       \/ \E R \in SUBSET Regions, d \in Regions \cup {NoRegion} : CreateRegions(c, R, d)
       \/ \E r \in Regions : MakeDefault(c, r) \/ DeleteRegion(c, r)
       \/ DeleteAccount(c)
       \/ CloudStep(c)
  \/ \E status \in {"enabled", "disabled"} : UpdateAccountStatus(status)
  \/ \E i \in Ids : DeleteResource(i)

CloudSpec == CloudInit /\ [][CloudNext]_cloudVars

(***************************************************************************)
(* Properties.                                                              *)
(***************************************************************************)
Separate(a, b) == Pair(a, b) \notin cloudMode.overlap

\* Type invariant of accounts, regions and resources (tree_cloud_dao.go,
\* cloud_account_region_dao.go, and the handlers).
CloudTypeOK ==
  /\ cloudMode \in CloudModes
  /\ account \in {"enabled", "disabled", "deleted"}
  /\ region \in [Regions -> [life : {"absent", "live", "deleted"}, default : BOOLEAN]]
  /\ resource \in [Ids -> [life : {"absent", "live", "deleted"}, inst : Instances]]
  /\ lastResource \in 0..MaxResource
  /\ request \in [Callers -> CloudRequests]
  /\ cloudRequests \in Nat

\* An account has at most one default region as long as requests on regions do
\* not overlap, whichever statement of them fails: the old default is cleared in
\* one statement and the new one set in another (cloud_account_region_service.go).
OneDefault ==
  Separate("region", "region") =>
    \A r, s \in Regions : Live(r) /\ Live(s) /\ region[r].default /\ region[s].default => r = s

\* No resource is left under a deleted region or a deleted account as long as
\* synchronisations overlap no change of regions and no deletion of the account:
\* both count the resources before they delete.
NoStrayResource ==
  Separate("sync", "region") /\ Separate("sync", "account") =>
    \A i \in Ids : Stored(i) => Live(Home[resource[i].inst]) /\ account # "deleted"

\* A synchronisation about to report success has, in the regions it could fetch,
\* one row for every instance fetched, and a full one no other row.  A row that was
\* there before is still there, with its bindings to the service tree and its login
\* data, unless a full synchronisation fetched its region without it.
SyncMirrors ==
  Separate("sync", "sync") /\ Separate("sync", "resource") =>
    \A c \in Callers :
      LET q == request[c]
          rows == {i \in Ids : Stored(i) /\ Home[resource[i].inst] \in q.handled}
      IN q.pc = "report" /\ ~q.failed =>
           /\ \A x \in q.fetched : \E i \in rows : resource[i].inst = x
           /\ q.full => \A i \in rows : resource[i].inst \in q.fetched
           /\ \A i, j \in rows : resource[i].inst = resource[j].inst => i = j
           /\ \A i \in q.before :
                ~Stored(i) => /\ q.full /\ Home[resource[i].inst] \in q.handled
                              /\ resource[i].inst \notin q.fetched

\* "全量同步：先删除该区域下的所有ECS资源，再重新创建" (tree_cloud_service.go:516), a full
\* synchronisation first deletes all ECS resources of the region and then creates them
\* anew: when it reports success, no row it found in the regions it fetched is left.
FullSyncRecreates ==
  \A c \in Callers :
    LET q == request[c] IN
    q.pc = "report" /\ q.full /\ ~q.failed =>
      \A i \in q.before : Home[resource[i].inst] \in q.handled => ~Stored(i)
====

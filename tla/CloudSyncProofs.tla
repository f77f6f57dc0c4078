---- MODULE CloudSyncProofs ----
(****************************************************************************)
(* For any regions, instances, goroutines and bounds: one default region,   *)
(* and no resource under what is deleted, for the overlaps each allows.     *)
(****************************************************************************)
EXTENDS CloudSync, TLAPS

\* What a goroutine is at tells which request it serves.
KindInv ==
  \A c \in Callers :
    /\ request[c].pc \in SyncSteps => request[c].kind = "sync"
    /\ request[c].pc \in RegionSteps => request[c].kind = "region"
    /\ request[c].pc = "removeAccount" => request[c].kind = "account"

\* Two goroutines are busy only with requests that may overlap.
OverlapInv ==
  \A c, d \in Callers :
    c # d /\ request[c].pc # "idle" /\ request[d].pc # "idle" =>
      Pair(request[c].kind, request[d].kind) \in cloudMode.overlap

BusyInv == CloudTypeOK /\ KindInv /\ OverlapInv

\* The next place of a synchronisation; nothing else of the request changes.
LEMMA OnwardMoves ==
  ASSUME NEW q \in CloudRequests
  PROVE  /\ Onward(q) \in CloudRequests
         /\ Onward(q).pc \in {"delete", "lookup", "fetch", "report"}
         /\ Onward(q).kind = q.kind /\ Onward(q).todo = q.todo /\ Onward(q).items = q.items
         /\ Onward(q).inst = q.inst /\ Onward(q).at = q.at
BY DEF Onward, CloudRequests, SyncSteps, RegionSteps

LEMMA IdleRequest == NoCloudRequest \in CloudRequests
<1>1. (CHOOSE i \in Instances : TRUE) \in Instances
  BY InstancesAssumption
<1> QED BY <1>1 DEF NoCloudRequest, CloudRequests, CloudKinds, SyncSteps, RegionSteps

\* Holds initially.
LEMMA InitIsBusyInv == CloudInit => BusyInv
<1> SUFFICES ASSUME CloudInit PROVE BusyInv
  OBVIOUS
<1>1. (CHOOSE i \in Instances : TRUE) \in Instances
  BY InstancesAssumption
<1>2. resource \in [Ids -> [life : {"absent", "live", "deleted"}, inst : Instances]]
  BY <1>1 DEF CloudInit, NoRow
<1>3. region \in [Regions -> [life : {"absent", "live", "deleted"}, default : BOOLEAN]]
  BY DEF CloudInit
<1>4. request \in [Callers -> CloudRequests] /\ \A c \in Callers : request[c].pc = "idle"
  BY IdleRequest DEF CloudInit, NoCloudRequest
<1>5. lastResource \in 0..MaxResource
  BY MaxResourceAssumption DEF CloudInit
<1>6. CloudTypeOK
  BY <1>2, <1>3, <1>4, <1>5 DEF CloudInit, CloudTypeOK
<1> QED BY <1>4, <1>6 DEF BusyInv, KindInv, OverlapInv, SyncSteps, RegionSteps

\* A goroutine that serves its request, or ends it, keeps who is busy with what.
LEMMA BecomesKeeps ==
  ASSUME BusyInv, NEW c \in Callers, NEW q \in CloudRequests, Becomes(c, q), UNCHANGED cloudMode,
         request[c].pc # "idle",
         q.kind = request[c].kind \/ q.pc = "idle",
         q.pc \in SyncSteps => q.kind = "sync",
         q.pc \in RegionSteps => q.kind = "region",
         q.pc = "removeAccount" => q.kind = "account"
  PROVE  request' \in [Callers -> CloudRequests] /\ KindInv' /\ OverlapInv'
<1> USE DEF BusyInv, CloudTypeOK
<1>1. /\ request' \in [Callers -> CloudRequests]
      /\ request'[c] = q /\ \A d \in Callers \ {c} : request'[d] = request[d]
  BY DEF Becomes
<1>2. KindInv'
  BY <1>1 DEF KindInv
<1>3. OverlapInv'
  <2> SUFFICES ASSUME NEW d \in Callers, NEW e \in Callers, d # e,
                      request'[d].pc # "idle", request'[e].pc # "idle"
               PROVE  Pair(request'[d].kind, request'[e].kind) \in cloudMode'.overlap
    BY DEF OverlapInv
  <2>1. request[d].pc # "idle" /\ request[e].pc # "idle"
    BY <1>1
  <2>2. request'[d].kind = request[d].kind /\ request'[e].kind = request[e].kind
    BY <1>1
  <2> QED BY <2>1, <2>2 DEF OverlapInv
<1> QED BY <1>1, <1>2, <1>3

\* A goroutine that accepts a request keeps it.
LEMMA ServeKeeps ==
  ASSUME BusyInv, NEW c \in Callers, NEW q \in CloudRequests, Serve(c, q), UNCHANGED cloudMode,
         q.pc \in SyncSteps => q.kind = "sync",
         q.pc \in RegionSteps => q.kind = "region",
         q.pc = "removeAccount" => q.kind = "account"
  PROVE  request' \in [Callers -> CloudRequests] /\ cloudRequests' \in Nat /\ KindInv' /\ OverlapInv'
<1> USE DEF BusyInv, CloudTypeOK
<1>1. /\ request' \in [Callers -> CloudRequests]
      /\ request'[c] = q /\ \A d \in Callers \ {c} : request'[d] = request[d]
  BY DEF Serve
<1>2. KindInv'
  BY <1>1 DEF KindInv
<1>3. OverlapInv'
  <2> SUFFICES ASSUME NEW d \in Callers, NEW e \in Callers, d # e,
                      request'[d].pc # "idle", request'[e].pc # "idle"
               PROVE  Pair(request'[d].kind, request'[e].kind) \in cloudMode'.overlap
    BY DEF OverlapInv
  <2>1. CASE d # c /\ e # c
    BY <1>1, <2>1 DEF OverlapInv
  <2>2. CASE d = c
    BY <1>1, <2>2 DEF Serve, Accept, MayOverlap, Pair
  <2>3. CASE e = c
    <3>1. Pair(q.kind, request[d].kind) \in cloudMode.overlap
      BY <1>1, <2>3 DEF Serve, Accept, MayOverlap
    <3>2. Pair(q.kind, request[d].kind) = Pair(request[d].kind, q.kind)
      BY DEF Pair
    <3> QED BY <1>1, <2>3, <3>1, <3>2
  <2> QED BY <2>1, <2>2, <2>3
<1>4. cloudRequests' \in Nat
  BY DEF Serve, Accept
<1> QED BY <1>1, <1>2, <1>3, <1>4

\* Every request keeps types, places and overlaps, from its first statement ...
LEMMA RequestsKeepBusy ==
  ASSUME BusyInv, NEW c \in Callers,
         NEW full \in BOOLEAN, NEW R \in SUBSET Regions, NEW d \in Regions \cup {NoRegion}, NEW r \in Regions,
         \/ SyncResources(c, full, R) \/ CreateRegions(c, R, d)
         \/ MakeDefault(c, r) \/ DeleteRegion(c, r) \/ DeleteAccount(c)
  PROVE  BusyInv'
<1> USE IdleRequest DEF BusyInv, CloudTypeOK, Table, CloudRequests, NoCloudRequest, SyncSteps, RegionSteps, CloudKinds
<1>1. CASE SyncResources(c, full, R)
  <2> DEFINE q == [NoCloudRequest EXCEPT !.pc = "fetch", !.full = full, !.todo = R,
                                         !.before = {i \in Ids : Stored(i)}]
  <2>1. q \in CloudRequests /\ q.pc = "fetch" /\ q.kind = "sync"
    OBVIOUS
  <2> QED BY <1>1, <2>1, ServeKeeps DEF SyncResources
<1>2. CASE CreateRegions(c, R, d)
  <2> DEFINE q == [NoCloudRequest EXCEPT !.pc = "exists", !.kind = "region", !.todo = R, !.default = d]
  <2>1. q \in CloudRequests /\ q.pc = "exists" /\ q.kind = "region"
    OBVIOUS
  <2> QED BY <1>2, <2>1, ServeKeeps DEF CreateRegions
<1>3. CASE MakeDefault(c, r)
  <2> DEFINE q == [NoCloudRequest EXCEPT !.pc = "clear", !.kind = "region", !.at = r]
  <2>1. q \in CloudRequests /\ q.pc = "clear" /\ q.kind = "region"
    OBVIOUS
  <2> QED BY <1>3, <2>1, ServeKeeps DEF MakeDefault
<1>4. CASE DeleteRegion(c, r)
  <2> DEFINE q == [NoCloudRequest EXCEPT !.pc = "count", !.kind = "region", !.at = r,
                                         !.default = IF region[r].default THEN r ELSE NoRegion]
  <2>1. q \in CloudRequests /\ q.pc = "count" /\ q.kind = "region"
    OBVIOUS
  <2>2. Serve(c, q) /\ UNCHANGED <<cloudMode, account, region, resource, lastResource>>
    BY <1>4 DEF DeleteRegion
  <2> HIDE DEF q
  <2> QED BY <2>1, <2>2, ServeKeeps
<1>5. CASE DeleteAccount(c)
  <2> DEFINE q == [NoCloudRequest EXCEPT !.pc = "removeAccount", !.kind = "account"]
  <2>1. q \in CloudRequests /\ q.pc = "removeAccount" /\ q.kind = "account"
    OBVIOUS
  <2> QED BY <1>5, <2>1, ServeKeeps DEF DeleteAccount
<1> QED BY <1>1, <1>2, <1>3, <1>4, <1>5

\* A synchronisation holds no region and no instance but of those it still had to do, ...
Ahead(q, p) ==
  /\ p \in CloudRequests /\ p.kind = "sync"
  /\ p.todo \subseteq q.todo
  /\ \A x \in p.items : x \in q.items \/ Home[x] \in q.todo

GoesOn(q, p) == Ahead(q, p) /\ p.pc \in SyncSteps /\ (p.pc = "save" => p.inst \in q.items)

LEMMA SyncGoesOn ==
  ASSUME BusyInv, NEW c \in Callers,
         Fetch(c) \/ ListExisting(c) \/ DeleteMissing(c) \/ LookUp(c) \/ Save(c)
  PROVE  \E p : Becomes(c, p) /\ GoesOn(request[c], p)
<1> DEFINE q == request[c]
<1>a. q \in CloudRequests /\ q.kind = "sync" /\ q.pc # "idle"
  BY DEF BusyInv, CloudTypeOK, KindInv, SyncSteps, Fetch, ListExisting, DeleteMissing, LookUp, Save, At
<1> USE <1>a
<1>1. ASSUME NEW p, Ahead(q, p)
      PROVE  GoesOn(q, Onward(p))
  BY <1>1, OnwardMoves DEF GoesOn, Ahead, SyncSteps
<1>2. CASE Fetch(c)
  <2>1. PICK r \in q.todo :
          \/ \E got \in SUBSET {x \in Instances : Home[x] = r} :
               LET has == [q EXCEPT !.todo = @ \ {r}, !.at = r, !.items = got,
                                    !.fetched = @ \cup got, !.handled = @ \cup {r}]
               IN Becomes(c, IF q.full THEN [has EXCEPT !.pc = "list"] ELSE Onward(has))
          \/ Becomes(c, Onward([q EXCEPT !.todo = @ \ {r}]))
    BY <1>2 DEF Fetch
  <2>2. CASE Becomes(c, Onward([q EXCEPT !.todo = @ \ {r}]))
    <3>1. Ahead(q, [q EXCEPT !.todo = @ \ {r}])
      BY DEF Ahead, CloudRequests
    <3> QED BY <1>1, <2>2, <3>1
  <2>3. ASSUME NEW got \in SUBSET {x \in Instances : Home[x] = r},
               Becomes(c, IF q.full THEN [[q EXCEPT !.todo = @ \ {r}, !.at = r, !.items = got,
                                    !.fetched = @ \cup got, !.handled = @ \cup {r}] EXCEPT !.pc = "list"]
                          ELSE Onward([q EXCEPT !.todo = @ \ {r}, !.at = r, !.items = got,
                                    !.fetched = @ \cup got, !.handled = @ \cup {r}]))
        PROVE  \E p : Becomes(c, p) /\ GoesOn(q, p)
    <3> DEFINE has == [q EXCEPT !.todo = @ \ {r}, !.at = r, !.items = got,
                                !.fetched = @ \cup got, !.handled = @ \cup {r}]
    <3>1. Ahead(q, has)
      BY DEF Ahead, CloudRequests
    <3> HIDE DEF has
    <3>2. GoesOn(q, [has EXCEPT !.pc = "list"])
      BY <3>1 DEF GoesOn, Ahead, CloudRequests, SyncSteps, RegionSteps
    <3>3. GoesOn(q, Onward(has))
      BY <1>1, <3>1
    <3>4. Becomes(c, IF q.full THEN [has EXCEPT !.pc = "list"] ELSE Onward(has))
      BY <2>3 DEF has
    <3> QED BY <3>2, <3>3, <3>4
  <2> QED BY <2>1, <2>2, <2>3
<1>3. CASE ListExisting(c)
  <2> DEFINE p1 == [q EXCEPT !.gone = {i \in RowsIn(q.at) : resource[i].inst \notin q.items}]
             p2 == [q EXCEPT !.items = {}, !.handled = @ \ {q.at}, !.fetched = @ \ q.items]
  <2>1. Ahead(q, p1) /\ Ahead(q, p2)
    BY DEF Ahead, CloudRequests, RowsIn
  <2>2. Becomes(c, Onward(p1)) \/ Becomes(c, Onward(p2))
    BY <1>3 DEF ListExisting
  <2> HIDE DEF p1, p2
  <2> QED BY <1>1, <2>1, <2>2
<1>4. CASE DeleteMissing(c)
  <2>1. PICK i \in q.gone : \/ Becomes(c, Onward([q EXCEPT !.gone = @ \ {i}]))
                            \/ Becomes(c, Onward([q EXCEPT !.gone = @ \ {i}, !.failed = TRUE]))
    BY <1>4 DEF DeleteMissing
  <2> DEFINE p1 == [q EXCEPT !.gone = @ \ {i}]
             p2 == [q EXCEPT !.gone = @ \ {i}, !.failed = TRUE]
  <2>2. Ahead(q, p1) /\ Ahead(q, p2)
    BY DEF Ahead, CloudRequests
  <2>3. Becomes(c, Onward(p1)) \/ Becomes(c, Onward(p2))
    BY <2>1
  <2> HIDE DEF p1, p2
  <2> QED BY <1>1, <2>2, <2>3
<1>5. CASE LookUp(c)
  <2>1. PICK x \in q.items :
          \/ \E i \in Ids \cup {0} :
               Becomes(c, [[q EXCEPT !.items = @ \ {x}] EXCEPT !.pc = "save", !.inst = x, !.row = i])
          \/ Becomes(c, Onward([[q EXCEPT !.items = @ \ {x}] EXCEPT !.failed = TRUE]))
    BY <1>5 DEF LookUp, RowsOf
  <2> DEFINE p1 == [[q EXCEPT !.items = @ \ {x}] EXCEPT !.failed = TRUE]
  <2>2. Ahead(q, p1)
    BY DEF Ahead, CloudRequests
  <2>3. CASE Becomes(c, Onward(p1))
    <3> HIDE DEF p1
    <3> QED BY <1>1, <2>2, <2>3
  <2>4. ASSUME NEW i \in Ids \cup {0},
               Becomes(c, [[q EXCEPT !.items = @ \ {x}] EXCEPT !.pc = "save", !.inst = x, !.row = i])
        PROVE  \E p : Becomes(c, p) /\ GoesOn(q, p)
    <3> DEFINE p2 == [[q EXCEPT !.items = @ \ {x}] EXCEPT !.pc = "save", !.inst = x, !.row = i]
    <3>1. i \in Nat /\ x \in Instances /\ q.items \ {x} \in SUBSET Instances
      BY MaxResourceAssumption DEF CloudRequests, Ids
    <3>2. GoesOn(q, p2)
      BY <3>1 DEF GoesOn, Ahead, CloudRequests, SyncSteps, RegionSteps
    <3> QED BY <2>4, <3>2
  <2> QED BY <2>1, <2>3, <2>4
<1>6. CASE Save(c)
  <2> DEFINE p1 == [q EXCEPT !.failed = TRUE]
  <2>1. Ahead(q, q) /\ Ahead(q, p1)
    BY DEF Ahead, CloudRequests
  <2>2. Becomes(c, Onward(q)) \/ Becomes(c, Onward(p1))
    BY <1>6 DEF Save
  <2> HIDE DEF p1
  <2> QED BY <1>1, <2>1, <2>2
<1> QED BY <1>2, <1>3, <1>4, <1>5, <1>6

\* ... adds a row, or marks rows deleted, and keeps types, places and overlaps ...
LEMMA SyncKeepsBusy ==
  ASSUME BusyInv, NEW c \in Callers,
         Fetch(c) \/ ListExisting(c) \/ DeleteMissing(c) \/ LookUp(c) \/ Save(c)
  PROVE  BusyInv'
<1> DEFINE q == request[c]
<1>a. q \in CloudRequests /\ q.kind = "sync" /\ q.pc # "idle"
  BY DEF BusyInv, CloudTypeOK, KindInv, SyncSteps, Fetch, ListExisting, DeleteMissing, LookUp, Save, At
<1>b. UNCHANGED <<cloudMode, cloudRequests, account, region>>
  BY DEF Fetch, ListExisting, DeleteMissing, LookUp, Save, At, Table
<1>1. /\ resource' \in [Ids -> [life : {"absent", "live", "deleted"}, inst : Instances]]
      /\ lastResource' \in 0..MaxResource
  <2>1. CASE Fetch(c) \/ ListExisting(c) \/ LookUp(c)
    BY <2>1 DEF Fetch, ListExisting, LookUp, Table, BusyInv, CloudTypeOK
  <2>2. CASE DeleteMissing(c)
    BY <2>2 DEF DeleteMissing, BusyInv, CloudTypeOK
  <2>3. CASE Save(c)
    BY <1>a, <2>3, MaxResourceAssumption DEF Save, Table, BusyInv, CloudTypeOK, CloudRequests, Ids
  <2> QED BY <2>1, <2>2, <2>3
<1>2. PICK p : Becomes(c, p) /\ p \in CloudRequests /\ p.kind = "sync" /\ p.pc \in SyncSteps
  BY SyncGoesOn DEF GoesOn, Ahead
<1>3. request' \in [Callers -> CloudRequests] /\ KindInv' /\ OverlapInv'
  <2>1. ~(p.pc \in RegionSteps) /\ p.pc # "removeAccount"
    BY <1>2 DEF SyncSteps, RegionSteps
  <2> QED BY <1>a, <1>b, <1>2, <2>1, BecomesKeeps
<1> QED BY <1>b, <1>1, <1>3 DEF BusyInv, CloudTypeOK

\* ... a change of regions through its own, which go on in RegionSteps or end ...
LEMMA RegionsKeepBusy ==
  ASSUME BusyInv, NEW c \in Callers,
         \/ RefuseKnown(c) \/ ClearDefault(c) \/ InsertRegions(c) \/ SetDefault(c)
         \/ CountResources(c) \/ RemoveRegion(c) \/ PickDefault(c)
  PROVE  BusyInv'
<1> DEFINE q == request[c]
<1>a. q \in CloudRequests /\ q.kind = "region" /\ q.pc # "idle"
  BY DEF BusyInv, CloudTypeOK, KindInv, RegionSteps, RefuseKnown, ClearDefault, InsertRegions, SetDefault,
         CountResources, RemoveRegion, PickDefault, At
<1>b. UNCHANGED <<cloudMode, cloudRequests, account, resource, lastResource>>
  BY DEF RefuseKnown, ClearDefault, InsertRegions, SetDefault, CountResources, RemoveRegion, PickDefault, At, Table
<1>1. region' \in [Regions -> [life : {"absent", "live", "deleted"}, default : BOOLEAN]]
  <2> USE DEF BusyInv, CloudTypeOK
  <2>1. CASE RefuseKnown(c) \/ CountResources(c) \/ PickDefault(c)
    BY <2>1 DEF RefuseKnown, CountResources, PickDefault, Table
  <2>2. CASE ClearDefault(c)
    BY <2>2 DEF ClearDefault
  <2>3. CASE InsertRegions(c)
    BY <2>3 DEF InsertRegions
  <2>4. CASE SetDefault(c)
    BY <2>4 DEF SetDefault
  <2>5. CASE RemoveRegion(c)
    BY <2>5 DEF RemoveRegion
  <2> QED BY <2>1, <2>2, <2>3, <2>4, <2>5
<1>2. \E p \in CloudRequests : Becomes(c, p) /\ ((p.kind = "region" /\ p.pc \in RegionSteps) \/ p.pc = "idle")
  <2>1. ASSUME NEW s \in RegionSteps
        PROVE  /\ [q EXCEPT !.pc = s] \in CloudRequests
               /\ [q EXCEPT !.pc = s].kind = "region" /\ [q EXCEPT !.pc = s].pc = s
    BY <1>a DEF CloudRequests
  <2>2. NoCloudRequest \in CloudRequests /\ NoCloudRequest.pc = "idle"
    BY IdleRequest DEF NoCloudRequest
  <2>3. ASSUME NEW r \in Regions
        PROVE  LET p == [q EXCEPT !.pc = "setDefault", !.at = r]
               IN p \in CloudRequests /\ p.kind = "region" /\ p.pc \in RegionSteps
    BY <1>a DEF CloudRequests, RegionSteps, SyncSteps
  <2>4. \/ Becomes(c, NoCloudRequest)
        \/ \E s \in RegionSteps : Becomes(c, [q EXCEPT !.pc = s])
        \/ \E r \in Regions : Becomes(c, [q EXCEPT !.pc = "setDefault", !.at = r])
    <3>1. CASE RefuseKnown(c)
      <4>1. \/ Becomes(c, NoCloudRequest) \/ Becomes(c, [q EXCEPT !.pc = "insert"])
            \/ Becomes(c, [q EXCEPT !.pc = "clear"])
        BY <3>1 DEF RefuseKnown, Ends
      <4> QED BY <4>1 DEF RegionSteps
    <3>2. CASE ClearDefault(c)
      <4>1. Becomes(c, [q EXCEPT !.pc = "setDefault"]) \/ Becomes(c, [q EXCEPT !.pc = "insert"])
        BY <3>2 DEF ClearDefault
      <4> QED BY <4>1 DEF RegionSteps
    <3>3. CASE InsertRegions(c)
      BY <3>3 DEF InsertRegions, Ends
    <3>4. CASE SetDefault(c)
      BY <3>4 DEF SetDefault, Ends
    <3>5. CASE CountResources(c)
      <4>1. Becomes(c, NoCloudRequest) \/ Becomes(c, [q EXCEPT !.pc = "remove"])
        BY <3>5 DEF CountResources, Ends
      <4> QED BY <4>1 DEF RegionSteps
    <3>6. CASE RemoveRegion(c)
      <4>1. Becomes(c, NoCloudRequest) \/ Becomes(c, [q EXCEPT !.pc = "pick"])
        BY <3>6 DEF RemoveRegion, Ends
      <4> QED BY <4>1 DEF RegionSteps
    <3>7. CASE PickDefault(c)
      <4>1. \/ Becomes(c, NoCloudRequest)
            \/ \E r \in Regions : Becomes(c, [q EXCEPT !.pc = "setDefault", !.at = r])
        BY <3>7 DEF PickDefault, Ends
      <4> QED BY <4>1
    <3> QED BY <3>1, <3>2, <3>3, <3>4, <3>5, <3>6, <3>7
  <2> HIDE DEF q
  <2>5. CASE Becomes(c, NoCloudRequest)
    BY <2>2, <2>5
  <2>6. CASE \E s \in RegionSteps : Becomes(c, [q EXCEPT !.pc = s])
    BY <2>1, <2>6
  <2>7. CASE \E r \in Regions : Becomes(c, [q EXCEPT !.pc = "setDefault", !.at = r])
    BY <2>3, <2>7
  <2> QED BY <2>4, <2>5, <2>6, <2>7
<1>3. PICK p \in CloudRequests : Becomes(c, p) /\ ((p.kind = "region" /\ p.pc \in RegionSteps) \/ p.pc = "idle")
  BY <1>2
<1>4. request' \in [Callers -> CloudRequests] /\ KindInv' /\ OverlapInv'
  <2>1. p.pc \notin SyncSteps /\ p.pc # "removeAccount"
    BY <1>3 DEF SyncSteps, RegionSteps
  <2>2. p.pc \in RegionSteps => p.kind = "region"
    BY <1>3 DEF RegionSteps
  <2> QED BY <1>a, <1>b, <1>3, <2>1, <2>2, BecomesKeeps
<1> QED BY <1>b, <1>1, <1>4 DEF BusyInv, CloudTypeOK

\* ... and every request when it ends, by itself or not.
LEMMA EndsKeepBusy ==
  ASSUME BusyInv, NEW c \in Callers, ReportSync(c) \/ RemoveAccount(c) \/ AbandonRequest(c)
  PROVE  BusyInv'
<1>1. /\ Becomes(c, NoCloudRequest) /\ request[c].pc # "idle"
      /\ UNCHANGED <<cloudMode, region, resource, lastResource, cloudRequests>>
      /\ account' = account \/ account' = "deleted"
  BY DEF ReportSync, RemoveAccount, AbandonRequest, Ends, At, Table
<1>2. NoCloudRequest \in CloudRequests /\ NoCloudRequest.pc = "idle"
  BY IdleRequest DEF NoCloudRequest
<1>3. request' \in [Callers -> CloudRequests] /\ KindInv' /\ OverlapInv'
  BY <1>1, <1>2, BecomesKeeps DEF SyncSteps, RegionSteps
<1> QED BY <1>1, <1>3 DEF BusyInv, CloudTypeOK

\* Requests of one statement change no goroutine.
LEMMA StatementsKeepBusy ==
  ASSUME BusyInv,
         \/ \E status \in {"enabled", "disabled"} : UpdateAccountStatus(status)
         \/ \E i \in Ids : DeleteResource(i)
  PROVE  BusyInv'
<1>1. CASE \E status \in {"enabled", "disabled"} : UpdateAccountStatus(status)
  BY <1>1 DEF UpdateAccountStatus, Accept, Table, BusyInv, CloudTypeOK, KindInv, OverlapInv
<1>2. CASE \E i \in Ids : DeleteResource(i)
  BY <1>2 DEF DeleteResource, Accept, BusyInv, CloudTypeOK, KindInv, OverlapInv
<1> QED BY <1>1, <1>2

\* Types, places and overlaps: the invariant of every behaviour.
THEOREM CloudBusy == CloudSpec => []BusyInv
<1>1. CloudInit => BusyInv
  BY InitIsBusyInv
<1>2. BusyInv /\ [CloudNext]_cloudVars => BusyInv'
  <2> SUFFICES ASSUME BusyInv, [CloudNext]_cloudVars PROVE BusyInv'
    OBVIOUS
  <2>1. CASE UNCHANGED cloudVars
    BY <2>1 DEF cloudVars, BusyInv, CloudTypeOK, KindInv, OverlapInv
  <2>2. ASSUME NEW c \in Callers, CloudStep(c) PROVE BusyInv'
    BY <2>2, SyncKeepsBusy, RegionsKeepBusy, EndsKeepBusy DEF CloudStep
  <2>3. ASSUME NEW c \in Callers,
               \/ \E full \in BOOLEAN, R \in SUBSET Regions : SyncResources(c, full, R)
               \/ \E R \in SUBSET Regions, d \in Regions \cup {NoRegion} : CreateRegions(c, R, d)
               \/ \E r \in Regions : MakeDefault(c, r) \/ DeleteRegion(c, r)
               \/ DeleteAccount(c)
        PROVE  BusyInv'
    <3>1. CASE \E full \in BOOLEAN, R \in SUBSET Regions : SyncResources(c, full, R)
      <4>1. PICK full \in BOOLEAN, R \in SUBSET Regions : SyncResources(c, full, R)
        BY <3>1
      <4>2. PICK r \in Regions : r \in R
        BY <4>1 DEF SyncResources
      <4> QED BY <4>1, <4>2, RequestsKeepBusy
    <3>2. CASE \E R \in SUBSET Regions, d \in Regions \cup {NoRegion} : CreateRegions(c, R, d)
      <4>1. PICK R \in SUBSET Regions, d \in Regions \cup {NoRegion} : CreateRegions(c, R, d)
        BY <3>2
      <4>2. PICK r \in Regions : r \in R
        BY <4>1 DEF CreateRegions
      <4> QED BY <4>1, <4>2, RequestsKeepBusy
    <3>3. CASE \E r \in Regions : MakeDefault(c, r) \/ DeleteRegion(c, r)
      BY <3>3, RequestsKeepBusy
    <3>4. CASE DeleteAccount(c)
      <4>1. PICK i \in Instances : TRUE
        BY InstancesAssumption
      <4>2. Home[i] \in Regions
        BY <4>1, HomeAssumption
      <4> QED BY <3>4, <4>2, RequestsKeepBusy
    <3> QED BY <2>3, <3>1, <3>2, <3>3, <3>4
  <2>4. CASE CloudNext
    BY <2>2, <2>3, <2>4, StatementsKeepBusy DEF CloudNext
  <2> QED BY <2>1, <2>4
<1> QED BY <1>1, <1>2, PTL DEF CloudSpec

\* CloudTypeOK: types of accounts, regions, resources and goroutines.
THEOREM CloudTypeCorrect == CloudSpec => []CloudTypeOK
<1>1. BusyInv => CloudTypeOK
  BY DEF BusyInv
<1> QED BY <1>1, CloudBusy, PTL

(***************************************************************************)
(* One default region.                                                      *)
(***************************************************************************)
IsDefault(r) == Live(r) /\ region[r].default

\* What makes OneDefault inductive: the default is cleared before an insertion that
\* brings one, and a region about to become the default has no rival.
DefaultInv ==
  Separate("region", "region") =>
    /\ \A r, s \in Regions : IsDefault(r) /\ IsDefault(s) => r = s
    /\ \A c \in Callers, r \in Regions :
         IsDefault(r) => /\ request[c].pc = "insert" => request[c].default = NoRegion
                         /\ request[c].pc = "setDefault" => r = request[c].at

\* Steps that leave the regions alone and bring no goroutine to such a place.
LEMMA RestKeepsDefault ==
  ASSUME DefaultInv, UNCHANGED <<cloudMode, region>>,
         \A d \in Callers : request'[d] = request[d] \/ request'[d].pc \notin {"insert", "setDefault"}
  PROVE  DefaultInv'
BY DEF DefaultInv, Separate, IsDefault, Live

\* While changes of regions do not overlap, one goroutine at most is at one.
LEMMA AloneWithRegions ==
  ASSUME BusyInv, Separate("region", "region"), NEW c \in Callers, request[c].pc \in RegionSteps,
         NEW d \in Callers, d # c
  PROVE  request[d].pc \notin RegionSteps
BY DEF BusyInv, KindInv, OverlapInv, Separate, RegionSteps

\* Each statement of a change of regions keeps it.
LEMMA RegionsKeepDefault ==
  ASSUME BusyInv, DefaultInv, NEW c \in Callers,
         \/ RefuseKnown(c) \/ ClearDefault(c) \/ InsertRegions(c) \/ SetDefault(c)
         \/ CountResources(c) \/ RemoveRegion(c) \/ PickDefault(c)
  PROVE  DefaultInv'
<1> DEFINE q == request[c]
<1>a. q \in CloudRequests /\ q.pc \in RegionSteps /\ UNCHANGED cloudMode
  BY DEF BusyInv, CloudTypeOK, RegionSteps, RefuseKnown, ClearDefault, InsertRegions, SetDefault,
         CountResources, RemoveRegion, PickDefault, At
<1> SUFFICES ASSUME Separate("region", "region") PROVE DefaultInv'
  BY <1>a DEF DefaultInv, Separate
<1>b. \A d \in Callers \ {c} : request[d].pc \notin {"insert", "setDefault"} /\ request'[d] = request[d]
  <2>1. \A d \in Callers \ {c} : request'[d] = request[d]
    BY DEF BusyInv, CloudTypeOK, Becomes, Ends, RefuseKnown, ClearDefault, InsertRegions, SetDefault,
           CountResources, RemoveRegion, PickDefault
  <2> QED BY <1>a, <2>1, AloneWithRegions DEF RegionSteps
<1>c. ASSUME NEW p, Becomes(c, p)
      PROVE  request'[c] = p
  BY <1>c DEF Becomes, BusyInv, CloudTypeOK
<1>d. region \in [Regions -> [life : {"absent", "live", "deleted"}, default : BOOLEAN]]
  BY DEF BusyInv, CloudTypeOK
<1>e. NoCloudRequest.pc = "idle"
  BY DEF NoCloudRequest
<1> USE DEF DefaultInv, IsDefault, Live
<1>1. CASE RefuseKnown(c)
  <2>1. UNCHANGED region
    BY <1>1 DEF RefuseKnown, Table
  <2>2. request'[c].pc # "setDefault" /\ (request'[c].pc = "insert" => request'[c].default = NoRegion)
    BY <1>1, <1>a, <1>c, <1>e DEF RefuseKnown, Ends, CloudRequests
  <2> QED BY <1>b, <2>1, <2>2
<1>2. CASE ClearDefault(c)
  <2>1. \A r \in Regions : ~IsDefault(r)'
    BY <1>2, <1>d DEF ClearDefault
  <2> QED BY <2>1
<1>3. CASE InsertRegions(c)
  <2>1. request'[c].pc = "idle"
    BY <1>3, <1>c, <1>e DEF InsertRegions, Ends
  <2>2. \A r, s \in Regions : IsDefault(r)' /\ IsDefault(s)' => r = s
    <3>1. q.pc = "insert" /\ q.default \in Regions \cup {NoRegion}
      BY <1>3, <1>a DEF InsertRegions, At, CloudRequests
    <3>2. CASE region' = region
      BY <3>2
    <3>3. CASE region' = [r \in Regions |-> IF r \in q.todo THEN [life |-> "live", default |-> r = q.default]
                                            ELSE region[r]]
      <4>1. \A r \in Regions : IsDefault(r)' => r = q.default \/ IsDefault(r)
        BY <1>d, <3>3
      <4>2. \A r \in Regions : IsDefault(r) => q.default = NoRegion
        BY <3>1
      <4> QED BY <3>1, <4>1, <4>2, NoRegionAssumption
    <3> QED BY <1>3, <3>2, <3>3 DEF InsertRegions
  <2> QED BY <1>b, <2>1, <2>2
<1>4. CASE SetDefault(c)
  <2>1. request'[c].pc = "idle"
    BY <1>4, <1>c, <1>e DEF SetDefault, Ends
  <2>2. \A r \in Regions : IsDefault(r)' => r = q.at
    <3>1. \A r \in Regions : IsDefault(r) => r = q.at
      BY <1>4 DEF SetDefault, At
    <3> QED BY <1>4, <1>d, <3>1 DEF SetDefault
  <2> QED BY <1>b, <2>1, <2>2
<1>5. CASE CountResources(c)
  <2>1. UNCHANGED region
    BY <1>5 DEF CountResources, Table
  <2>2. request'[c].pc \notin {"insert", "setDefault"}
    BY <1>5, <1>a, <1>c, <1>e DEF CountResources, Ends, CloudRequests
  <2> QED BY <1>b, <2>1, <2>2
<1>6. CASE RemoveRegion(c)
  <2>1. \A r \in Regions : IsDefault(r)' => IsDefault(r)
    BY <1>6, <1>d DEF RemoveRegion
  <2>2. request'[c].pc \notin {"insert", "setDefault"}
    BY <1>6, <1>a, <1>c, <1>e DEF RemoveRegion, Ends, CloudRequests
  <2> QED BY <1>b, <2>1, <2>2
<1>7. CASE PickDefault(c)
  <2>1. UNCHANGED region
    BY <1>7 DEF PickDefault, Table
  <2>2. \/ request'[c].pc = "idle"
        \/ \E r \in Regions : request'[c] = [q EXCEPT !.pc = "setDefault", !.at = r]
                              /\ \A s \in Regions : IsDefault(s) => s = r
    <3>1. CASE Ends(c)
      BY <3>1, <1>c, <1>e DEF Ends
    <3>2. ASSUME NEW r \in IF {s \in Regions : IsDefault(s)} # {} THEN {s \in Regions : IsDefault(s)}
                           ELSE {s \in Regions : Live(s)},
                 Becomes(c, [q EXCEPT !.pc = "setDefault", !.at = r])
          PROVE  \E s \in Regions : request'[c] = [q EXCEPT !.pc = "setDefault", !.at = s]
                                    /\ \A t \in Regions : IsDefault(t) => t = s
      BY <3>2, <1>c
    <3>3. {s \in {r \in Regions : Live(r)} : region[s].default} = {s \in Regions : IsDefault(s)}
      OBVIOUS
    <3> QED BY <1>7, <3>1, <3>2, <3>3 DEF PickDefault
  <2>3. request'[c].pc # "insert" /\ (request'[c].pc = "setDefault" =>
                                        \A s \in Regions : IsDefault(s) => s = request'[c].at)
    BY <2>2, <1>a DEF CloudRequests
  <2> QED BY <1>b, <2>1, <2>3
<1> QED BY <1>1, <1>2, <1>3, <1>4, <1>5, <1>6, <1>7

\* A request begins with none of the writes: it reads first, or clears.
LEMMA RequestsBegin ==
  ASSUME BusyInv, NEW c \in Callers,
         \/ \E full \in BOOLEAN, R \in SUBSET Regions : SyncResources(c, full, R)
         \/ \E R \in SUBSET Regions, d \in Regions \cup {NoRegion} : CreateRegions(c, R, d)
         \/ \E r \in Regions : MakeDefault(c, r) \/ DeleteRegion(c, r)
         \/ DeleteAccount(c)
  PROVE  /\ UNCHANGED <<cloudMode, account, region, resource, lastResource>>
         /\ request[c].pc = "idle" /\ MayOverlap(request'[c].kind)
         /\ \A d \in Callers \ {c} : request'[d] = request[d]
         /\ \/ /\ request'[c].pc = "fetch" /\ request'[c].kind = "sync" /\ request'[c].items = {}
               /\ request'[c].gone = {} /\ request'[c].fetched = {} /\ request'[c].handled = {}
               /\ request'[c].before = {i \in Ids : Stored(i)}
               /\ account = "enabled" /\ \A r \in request'[c].todo : Live(r)
            \/ request'[c].pc \in {"exists", "clear", "count"}
            \/ request'[c].pc = "removeAccount" /\ \A i \in Ids : ~Stored(i)
<1>a. ASSUME NEW q, Serve(c, q)
      PROVE  /\ request[c].pc = "idle" /\ request'[c] = q /\ MayOverlap(q.kind)
             /\ \A d \in Callers \ {c} : request'[d] = request[d]
  BY <1>a DEF Serve, Accept, BusyInv, CloudTypeOK
<1>1. CASE \E full \in BOOLEAN, R \in SUBSET Regions : SyncResources(c, full, R)
  <2>1. PICK full \in BOOLEAN, R \in SUBSET Regions : SyncResources(c, full, R)
    BY <1>1
  <2> DEFINE q == [NoCloudRequest EXCEPT !.pc = "fetch", !.full = full, !.todo = R,
                                         !.before = {i \in Ids : Stored(i)}]
  <2>2. /\ q.pc = "fetch" /\ q.kind = "sync" /\ q.items = {} /\ q.todo = R
        /\ q.gone = {} /\ q.fetched = {} /\ q.handled = {} /\ q.before = {i \in Ids : Stored(i)}
    BY DEF NoCloudRequest
  <2>3. /\ Serve(c, q) /\ account = "enabled" /\ \A r \in R : Live(r)
        /\ UNCHANGED <<cloudMode, account, region, resource, lastResource>>
    BY <2>1 DEF SyncResources, Table
  <2> HIDE DEF q
  <2> QED BY <1>a, <2>2, <2>3
<1>2. CASE \E R \in SUBSET Regions, d \in Regions \cup {NoRegion} : CreateRegions(c, R, d)
  <2>1. PICK R \in SUBSET Regions, d \in Regions \cup {NoRegion} : CreateRegions(c, R, d)
    BY <1>2
  <2> DEFINE q == [NoCloudRequest EXCEPT !.pc = "exists", !.kind = "region", !.todo = R, !.default = d]
  <2>2. q.pc = "exists"
    BY DEF NoCloudRequest
  <2>3. Serve(c, q) /\ UNCHANGED <<cloudMode, account, region, resource, lastResource>>
    BY <2>1 DEF CreateRegions, Table
  <2> HIDE DEF q
  <2> QED BY <1>a, <2>2, <2>3
<1>3. CASE \E r \in Regions : MakeDefault(c, r)
  <2>1. PICK r \in Regions : MakeDefault(c, r)
    BY <1>3
  <2> DEFINE q == [NoCloudRequest EXCEPT !.pc = "clear", !.kind = "region", !.at = r]
  <2>2. q.pc = "clear"
    BY DEF NoCloudRequest
  <2>3. Serve(c, q) /\ UNCHANGED <<cloudMode, account, region, resource, lastResource>>
    BY <2>1 DEF MakeDefault, Table
  <2> HIDE DEF q
  <2> QED BY <1>a, <2>2, <2>3
<1>4. CASE \E r \in Regions : DeleteRegion(c, r)
  <2>1. PICK r \in Regions : DeleteRegion(c, r)
    BY <1>4
  <2> DEFINE q == [NoCloudRequest EXCEPT !.pc = "count", !.kind = "region", !.at = r,
                                         !.default = IF region[r].default THEN r ELSE NoRegion]
  <2>2. q.pc = "count"
    BY DEF NoCloudRequest
  <2>3. Serve(c, q) /\ UNCHANGED <<cloudMode, account, region, resource, lastResource>>
    BY <2>1 DEF DeleteRegion, Table
  <2> HIDE DEF q
  <2> QED BY <1>a, <2>2, <2>3
<1>5. CASE DeleteAccount(c)
  <2> DEFINE q == [NoCloudRequest EXCEPT !.pc = "removeAccount", !.kind = "account"]
  <2>1. q.pc = "removeAccount"
    BY DEF NoCloudRequest
  <2>2. /\ Serve(c, q) /\ \A i \in Ids : ~Stored(i)
        /\ UNCHANGED <<cloudMode, account, region, resource, lastResource>>
    BY <1>5 DEF DeleteAccount, Table
  <2> HIDE DEF q
  <2> QED BY <1>a, <2>1, <2>2
<1> QED BY <1>1, <1>2, <1>3, <1>4, <1>5

\* A synchronisation leaves the other goroutines alone.
LEMMA SyncStepsAlone ==
  ASSUME BusyInv, NEW c \in Callers,
         Fetch(c) \/ ListExisting(c) \/ DeleteMissing(c) \/ LookUp(c) \/ Save(c)
  PROVE  /\ request[c].pc \in SyncSteps /\ GoesOn(request[c], request'[c])
         /\ \A d \in Callers \ {c} : request'[d] = request[d]
         /\ UNCHANGED <<cloudMode, account, region>>
<1>1. request[c].pc \in SyncSteps /\ UNCHANGED <<cloudMode, account, region>>
  BY DEF Fetch, ListExisting, DeleteMissing, LookUp, Save, At, Table, SyncSteps
<1>2. PICK p : Becomes(c, p) /\ GoesOn(request[c], p)
  BY SyncGoesOn
<1>3. request'[c] = p /\ \A d \in Callers \ {c} : request'[d] = request[d]
  BY <1>2 DEF Becomes, BusyInv, CloudTypeOK
<1> QED BY <1>1, <1>2, <1>3

\* A request that ends leaves nothing but the account changed.
LEMMA RequestsEnd ==
  ASSUME BusyInv, NEW c \in Callers, ReportSync(c) \/ RemoveAccount(c) \/ AbandonRequest(c)
  PROVE  /\ request'[c].pc = "idle" /\ \A d \in Callers \ {c} : request'[d] = request[d]
         /\ UNCHANGED <<cloudMode, region, resource, lastResource>>
<1>1. Becomes(c, NoCloudRequest) /\ UNCHANGED <<cloudMode, region, resource, lastResource>>
  BY DEF ReportSync, RemoveAccount, AbandonRequest, Ends, At, Table
<1>2. NoCloudRequest.pc = "idle"
  BY DEF NoCloudRequest
<1> QED BY <1>1, <1>2 DEF Becomes, BusyInv, CloudTypeOK

\* OneDefault: one default region at most while changes of regions do not overlap,
\* whatever statement of them fails (cloud_account_region_service.go).
THEOREM CloudOneDefault == CloudSpec => []OneDefault
<1>1. CloudInit => DefaultInv
  <2> SUFFICES ASSUME CloudInit PROVE DefaultInv
    OBVIOUS
  <2>1. \A r, s \in Regions : IsDefault(r) /\ IsDefault(s) => r = s
    <3>1. PICK R \in SUBSET Regions, d \in Regions :
            region = [r \in Regions |-> [life |-> IF r \in R THEN "live" ELSE "absent", default |-> r = d]]
      BY DEF CloudInit
    <3>2. \A r \in Regions : region[r].default <=> r = d
      BY <3>1
    <3> QED BY <3>2 DEF IsDefault
  <2>2. NoCloudRequest.pc = "idle"
    BY DEF NoCloudRequest
  <2>3. \A c \in Callers : request[c].pc = "idle"
    BY <2>2 DEF CloudInit
  <2> QED BY <2>1, <2>3 DEF DefaultInv
<1>2. BusyInv /\ DefaultInv /\ [CloudNext]_cloudVars => DefaultInv'
  <2> SUFFICES ASSUME BusyInv, DefaultInv, [CloudNext]_cloudVars PROVE DefaultInv'
    OBVIOUS
  <2>1. CASE UNCHANGED cloudVars
    BY <2>1 DEF cloudVars, DefaultInv, Separate, IsDefault, Live
  <2>2. ASSUME NEW c \in Callers, CloudStep(c) PROVE DefaultInv'
    <3>1. CASE Fetch(c) \/ ListExisting(c) \/ DeleteMissing(c) \/ LookUp(c) \/ Save(c)
      BY <3>1, SyncStepsAlone, RestKeepsDefault DEF GoesOn, SyncSteps
    <3>2. CASE ReportSync(c) \/ RemoveAccount(c) \/ AbandonRequest(c)
      BY <3>2, RequestsEnd, RestKeepsDefault
    <3> QED BY <2>2, <3>1, <3>2, RegionsKeepDefault DEF CloudStep
  <2>3. ASSUME NEW c \in Callers,
               \/ \E full \in BOOLEAN, R \in SUBSET Regions : SyncResources(c, full, R)
               \/ \E R \in SUBSET Regions, d \in Regions \cup {NoRegion} : CreateRegions(c, R, d)
               \/ \E r \in Regions : MakeDefault(c, r) \/ DeleteRegion(c, r)
               \/ DeleteAccount(c)
        PROVE  DefaultInv'
    BY <2>3, RequestsBegin, RestKeepsDefault
  <2>4. CASE \/ \E status \in {"enabled", "disabled"} : UpdateAccountStatus(status)
             \/ \E i \in Ids : DeleteResource(i)
    BY <2>4, RestKeepsDefault DEF UpdateAccountStatus, DeleteResource, Table
  <2>5. CASE CloudNext
    BY <2>2, <2>3, <2>4, <2>5 DEF CloudNext
  <2> QED BY <2>1, <2>5
<1>3. DefaultInv => OneDefault
  BY DEF DefaultInv, OneDefault, IsDefault
<1> QED BY <1>1, <1>2, <1>3, CloudBusy, PTL DEF CloudSpec

(***************************************************************************)
(* No resource under what is deleted.                                       *)
(***************************************************************************)
LiveRegions == {r \in Regions : Live(r)}

\* What makes NoStrayResource inductive: a synchronisation only holds regions that are
\* there, and what is about to be deleted has no resource.
StrayInv ==
  Separate("sync", "region") /\ Separate("sync", "account") =>
    /\ \A i \in Ids : Stored(i) => Home[resource[i].inst] \in LiveRegions /\ account # "deleted"
    /\ \A c \in Callers :
         /\ request[c].pc \in SyncSteps =>
              /\ account # "deleted"
              /\ request[c].todo \subseteq LiveRegions
              /\ \A x \in request[c].items : Home[x] \in LiveRegions
         /\ request[c].pc = "save" => Home[request[c].inst] \in LiveRegions
         /\ request[c].pc = "remove" => \A i \in Ids : Stored(i) => Home[resource[i].inst] # request[c].at
         /\ request[c].pc = "removeAccount" => \A i \in Ids : ~Stored(i)

\* While a synchronisation overlaps neither changes of regions nor the deletion of the
\* account, nobody is at one of those.
LEMMA AloneWithSync ==
  ASSUME BusyInv, Separate("sync", "region"), Separate("sync", "account"),
         NEW c \in Callers, request[c].pc \in SyncSteps,
         NEW d \in Callers
  PROVE  request[d].pc \notin RegionSteps /\ request[d].pc # "removeAccount"
<1>1. c # d => /\ request[d].kind = "region" => request[d].pc = "idle"
               /\ request[d].kind = "account" => request[d].pc = "idle"
  BY DEF BusyInv, KindInv, OverlapInv, Separate, SyncSteps
<1> QED BY <1>1 DEF BusyInv, KindInv, RegionSteps, SyncSteps

\* Every row that is there after a step was there before it: only a synchronisation adds one.
Fewer == \A i \in Ids : Stored(i)' => Stored(i) /\ resource'[i].inst = resource[i].inst

\* Steps that take no region away and bring no goroutine to such a place.
LEMMA RestKeepsStray ==
  ASSUME StrayInv, UNCHANGED <<cloudMode, account>>, Fewer, LiveRegions \subseteq LiveRegions',
         \A d \in Callers : request'[d] = request[d]
                            \/ request'[d].pc \notin SyncSteps \cup {"remove", "removeAccount"}
  PROVE  StrayInv'
BY DEF StrayInv, Separate, Fewer, SyncSteps

\* A synchronisation keeps it.
LEMMA SyncKeepsStray ==
  ASSUME BusyInv, StrayInv, NEW c \in Callers,
         Fetch(c) \/ ListExisting(c) \/ DeleteMissing(c) \/ LookUp(c) \/ Save(c)
  PROVE  StrayInv'
<1>a. /\ request[c].pc \in SyncSteps /\ GoesOn(request[c], request'[c])
      /\ \A d \in Callers \ {c} : request'[d] = request[d]
      /\ UNCHANGED <<cloudMode, account, region>>
  BY SyncStepsAlone
<1>c. LiveRegions' = LiveRegions
  BY <1>a DEF LiveRegions, Live
<1> SUFFICES ASSUME Separate("sync", "region"), Separate("sync", "account") PROVE StrayInv'
  BY <1>a DEF StrayInv, Separate
<1>b. \A d \in Callers : request[d].pc \notin {"remove", "removeAccount"}
  BY <1>a, AloneWithSync DEF RegionSteps
<1>d. /\ account # "deleted" /\ request[c].todo \subseteq LiveRegions
      /\ \A x \in request[c].items : Home[x] \in LiveRegions
      /\ request[c].pc = "save" => Home[request[c].inst] \in LiveRegions
  BY <1>a DEF StrayInv
<1>1. \A i \in Ids : Stored(i)' => Home[resource'[i].inst] \in LiveRegions /\ account' # "deleted"
  <2>1. CASE Fetch(c) \/ ListExisting(c) \/ LookUp(c)
    <3>1. UNCHANGED resource
      BY <2>1 DEF Fetch, ListExisting, LookUp, Table
    <3> QED BY <3>1, <1>a, <1>d DEF StrayInv, Stored
  <2>2. CASE DeleteMissing(c)
    <3>1. \A i \in Ids : Stored(i)' => Stored(i) /\ resource'[i].inst = resource[i].inst
      BY <2>2 DEF DeleteMissing, Stored, BusyInv, CloudTypeOK
    <3> QED BY <3>1, <1>a, <1>d DEF StrayInv
  <2>3. CASE Save(c)
    <3>1. \A i \in Ids : Stored(i)' => \/ Stored(i) /\ resource'[i].inst = resource[i].inst
                                    \/ resource'[i].inst = request[c].inst
      BY <2>3 DEF Save, Table, Stored, BusyInv, CloudTypeOK
    <3>2. request[c].pc = "save"
      BY <2>3 DEF Save, At
    <3> QED BY <3>1, <3>2, <1>a, <1>d DEF StrayInv
  <2> QED BY <2>1, <2>2, <2>3
<1>2. /\ request'[c].pc \in SyncSteps
      /\ request'[c].todo \subseteq LiveRegions
      /\ \A x \in request'[c].items : Home[x] \in LiveRegions
      /\ request'[c].pc = "save" => Home[request'[c].inst] \in LiveRegions
  BY <1>a, <1>d DEF GoesOn, Ahead
<1>3. request'[c].pc \notin {"remove", "removeAccount"}
  BY <1>2 DEF SyncSteps
<1>4. ASSUME NEW d \in Callers
      PROVE  /\ request'[d].pc \in SyncSteps =>
                  /\ account' # "deleted"
                  /\ request'[d].todo \subseteq LiveRegions'
                  /\ \A x \in request'[d].items : Home[x] \in LiveRegions'
             /\ request'[d].pc = "save" => Home[request'[d].inst] \in LiveRegions'
             /\ request'[d].pc \notin {"remove", "removeAccount"}
  <2>1. CASE d = c
    BY <2>1, <1>a, <1>c, <1>d, <1>2, <1>3
  <2>2. CASE d # c
    BY <2>2, <1>a, <1>b, <1>c DEF StrayInv
  <2> QED BY <2>1, <2>2
<1> QED BY <1>c, <1>1, <1>4 DEF StrayInv

\* So does a change of regions: what it deletes was counted while nobody could add to it.
LEMMA RegionsKeepStray ==
  ASSUME BusyInv, StrayInv, NEW c \in Callers,
         \/ RefuseKnown(c) \/ ClearDefault(c) \/ InsertRegions(c) \/ SetDefault(c)
         \/ CountResources(c) \/ RemoveRegion(c) \/ PickDefault(c)
  PROVE  StrayInv'
<1> DEFINE q == request[c]
<1>a. /\ q \in CloudRequests /\ q.pc \in RegionSteps
      /\ UNCHANGED <<cloudMode, account, resource, lastResource>>
  BY DEF BusyInv, CloudTypeOK, RegionSteps, RefuseKnown, ClearDefault, InsertRegions, SetDefault,
         CountResources, RemoveRegion, PickDefault, At, Table
<1>b. \A d \in Callers \ {c} : request'[d] = request[d]
  BY DEF BusyInv, CloudTypeOK, Becomes, Ends, RefuseKnown, ClearDefault, InsertRegions, SetDefault,
         CountResources, RemoveRegion, PickDefault
<1>c. ASSUME NEW p, Becomes(c, p)
      PROVE  request'[c] = p
  BY <1>c DEF Becomes, BusyInv, CloudTypeOK
<1>d. Fewer
  BY <1>a DEF Fewer, Stored
<1>e. NoCloudRequest.pc = "idle"
  BY DEF NoCloudRequest
<1>f. region \in [Regions -> [life : {"absent", "live", "deleted"}, default : BOOLEAN]]
  BY DEF BusyInv, CloudTypeOK
<1>1. CASE RefuseKnown(c) \/ ClearDefault(c) \/ InsertRegions(c) \/ SetDefault(c) \/ PickDefault(c)
  <2>1. LiveRegions \subseteq LiveRegions'
    <3>1. CASE RefuseKnown(c) \/ PickDefault(c)
      BY <3>1 DEF RefuseKnown, PickDefault, Table, LiveRegions, Live
    <3>2. CASE ClearDefault(c)
      BY <3>2, <1>f DEF ClearDefault, LiveRegions, Live
    <3>3. CASE InsertRegions(c)
      BY <3>3, <1>f DEF InsertRegions, LiveRegions, Live
    <3>4. CASE SetDefault(c)
      BY <3>4, <1>f DEF SetDefault, LiveRegions, Live
    <3> QED BY <1>1, <3>1, <3>2, <3>3, <3>4
  <2>2. request'[c].pc \in {"idle", "clear", "insert", "setDefault"}
    <3>1. CASE RefuseKnown(c)
      BY <3>1, <1>a, <1>c, <1>e DEF RefuseKnown, Ends, CloudRequests
    <3>2. CASE ClearDefault(c)
      BY <3>2, <1>a, <1>c, <1>e DEF ClearDefault, CloudRequests
    <3>3. CASE InsertRegions(c) \/ SetDefault(c)
      BY <3>3, <1>c, <1>e DEF InsertRegions, SetDefault, Ends
    <3>4. CASE PickDefault(c)
      <4>1. Ends(c) \/ \E r \in Regions : Becomes(c, [q EXCEPT !.pc = "setDefault", !.at = r])
        BY <3>4 DEF PickDefault
      <4> QED BY <4>1, <1>a, <1>c, <1>e DEF Ends, CloudRequests
    <3> QED BY <1>1, <3>1, <3>2, <3>3, <3>4
  <2> QED BY <1>a, <1>b, <1>d, <2>1, <2>2, RestKeepsStray DEF SyncSteps
<1>2. CASE CountResources(c)
  <2>1. LiveRegions' = LiveRegions
    BY <1>2 DEF CountResources, Table, LiveRegions, Live
  <2>2. CASE Ends(c)
    <3>1. request'[c].pc = "idle"
      BY <2>2, <1>c, <1>e DEF Ends
    <3> QED BY <1>a, <1>b, <1>d, <2>1, <3>1, RestKeepsStray DEF SyncSteps
  <2>3. CASE RowsIn(q.at) = {} /\ Becomes(c, [q EXCEPT !.pc = "remove"])
    <3>1. request'[c].pc = "remove" /\ request'[c].at = q.at
      BY <2>3, <1>a, <1>c DEF CloudRequests
    <3>2. \A i \in Ids : Stored(i)' => Home[resource'[i].inst] # request'[c].at
      BY <2>3, <3>1, <1>a DEF RowsIn, Stored
    <3>3. Separate("sync", "region") /\ Separate("sync", "account")
          <=> (Separate("sync", "region") /\ Separate("sync", "account"))'
      BY <1>a DEF Separate
    <3>4. request'[c].pc \notin SyncSteps \cup {"removeAccount"}
      BY <3>1 DEF SyncSteps
    <3>5. \A i \in Ids : Stored(i)' <=> Stored(i)
      BY <1>a DEF Stored
    <3> QED BY <1>a, <1>b, <2>1, <3>1, <3>2, <3>3, <3>4, <3>5 DEF StrayInv, SyncSteps
  <2> QED BY <1>2, <2>2, <2>3 DEF CountResources
<1>3. CASE RemoveRegion(c)
  <2> SUFFICES ASSUME Separate("sync", "region"), Separate("sync", "account") PROVE StrayInv'
    BY <1>a DEF StrayInv, Separate
  <2>1. \A r \in LiveRegions : r # q.at => r \in LiveRegions'
    BY <1>3, <1>f DEF RemoveRegion, LiveRegions, Live
  <2>2. \A i \in Ids : Stored(i) => Home[resource[i].inst] # q.at
    BY <1>3 DEF RemoveRegion, At, StrayInv
  <2>3. request'[c].pc \in {"idle", "pick"}
    BY <1>3, <1>a, <1>c, <1>e DEF RemoveRegion, Ends, CloudRequests
  <2>4. \A d \in Callers : request[d].pc \notin SyncSteps
    BY <1>a, AloneWithSync
  <2>5. \A d \in Callers : request'[d].pc \notin SyncSteps
    BY <1>b, <2>3, <2>4 DEF SyncSteps
  <2>6. \A d \in Callers : request'[d].pc \in {"remove", "removeAccount"} => request'[d] = request[d]
    BY <1>b, <2>3
  <2>7. \A i \in Ids : Stored(i)' <=> Stored(i)
    BY <1>a DEF Stored
  <2> QED BY <1>a, <2>1, <2>2, <2>5, <2>6, <2>7 DEF StrayInv, SyncSteps
<1> QED BY <1>1, <1>2, <1>3

\* NoStrayResource: no resource under a deleted region or account while synchronisations
\* overlap neither (cloud_account_region_service.go, cloud_account_service.go).
THEOREM CloudNoStray == CloudSpec => []NoStrayResource
<1>1. CloudInit => StrayInv
  <2> SUFFICES ASSUME CloudInit PROVE StrayInv
    OBVIOUS
  <2>1. NoCloudRequest.pc = "idle" /\ NoRow.life = "absent"
    BY DEF NoCloudRequest, NoRow
  <2>2. \A i \in Ids : ~Stored(i)
    BY <2>1 DEF CloudInit, Stored
  <2>3. \A c \in Callers : request[c].pc = "idle"
    BY <2>1 DEF CloudInit
  <2> QED BY <2>2, <2>3 DEF StrayInv, SyncSteps
<1>2. BusyInv /\ StrayInv /\ [CloudNext]_cloudVars => StrayInv'
  <2> SUFFICES ASSUME BusyInv, StrayInv, [CloudNext]_cloudVars PROVE StrayInv'
    OBVIOUS
  <2>1. CASE UNCHANGED cloudVars
    BY <2>1 DEF cloudVars, StrayInv, Separate, LiveRegions, Live, Stored
  <2>2. ASSUME NEW c \in Callers, CloudStep(c) PROVE StrayInv'
    <3>1. CASE ReportSync(c) \/ AbandonRequest(c)
      <4>1. UNCHANGED account
        BY <3>1 DEF ReportSync, AbandonRequest
      <4>2. /\ request'[c].pc = "idle" /\ \A d \in Callers \ {c} : request'[d] = request[d]
            /\ UNCHANGED <<cloudMode, region, resource, lastResource>>
        BY <3>1, RequestsEnd
      <4>3. Fewer /\ LiveRegions \subseteq LiveRegions'
        BY <4>2 DEF Fewer, Stored, LiveRegions, Live
      <4> QED BY <4>1, <4>2, <4>3, RestKeepsStray DEF SyncSteps
    <3>2. CASE RemoveAccount(c)
      <4> SUFFICES ASSUME Separate("sync", "region"), Separate("sync", "account") PROVE StrayInv'
        BY <3>2 DEF StrayInv, Separate, RemoveAccount, At
      <4>1. /\ request'[c].pc = "idle" /\ \A d \in Callers \ {c} : request'[d] = request[d]
            /\ UNCHANGED <<cloudMode, region, resource, lastResource>>
        BY <3>2, RequestsEnd
      <4>2. request[c].pc = "removeAccount"
        BY <3>2 DEF RemoveAccount, At
      <4>3. \A i \in Ids : ~Stored(i)'
        BY <4>1, <4>2 DEF StrayInv, Stored
      <4>4. \A d \in Callers : request[d].pc \notin SyncSteps
        BY <4>2, AloneWithSync
      <4>5. \A d \in Callers : request'[d].pc \notin SyncSteps
        BY <4>1, <4>4 DEF SyncSteps
      <4> QED BY <4>3, <4>5 DEF StrayInv, SyncSteps
    <3> QED BY <2>2, <3>1, <3>2, SyncKeepsStray, RegionsKeepStray DEF CloudStep
  <2>3. ASSUME NEW c \in Callers,
               \/ \E full \in BOOLEAN, R \in SUBSET Regions : SyncResources(c, full, R)
               \/ \E R \in SUBSET Regions, d \in Regions \cup {NoRegion} : CreateRegions(c, R, d)
               \/ \E r \in Regions : MakeDefault(c, r) \/ DeleteRegion(c, r)
               \/ DeleteAccount(c)
        PROVE  StrayInv'
    <3>1. /\ UNCHANGED <<cloudMode, account, region, resource, lastResource>>
          /\ \A d \in Callers \ {c} : request'[d] = request[d]
          /\ \/ /\ request'[c].pc = "fetch" /\ request'[c].items = {}
                /\ account = "enabled" /\ \A r \in request'[c].todo : Live(r)
             \/ request'[c].pc \in {"exists", "clear", "count"}
             \/ request'[c].pc = "removeAccount" /\ \A i \in Ids : ~Stored(i)
      BY <2>3, RequestsBegin
    <3>2. Fewer /\ LiveRegions' = LiveRegions /\ \A i \in Ids : Stored(i)' <=> Stored(i)
      BY <3>1 DEF Fewer, Stored, LiveRegions, Live
    <3>3. CASE request'[c].pc \in {"exists", "clear", "count"}
      BY <3>1, <3>2, <3>3, RestKeepsStray DEF SyncSteps
    <3>4. Separate("sync", "region") /\ Separate("sync", "account")
          <=> (Separate("sync", "region") /\ Separate("sync", "account"))'
      BY <3>1 DEF Separate
    <3>5. CASE request'[c].pc = "fetch" /\ request'[c].items = {}
               /\ account = "enabled" /\ \A r \in request'[c].todo : Live(r)
      <4>1. request'[c].todo \subseteq LiveRegions
        BY <3>5 DEF LiveRegions, Live
      <4> QED BY <3>1, <3>2, <3>4, <3>5, <4>1 DEF StrayInv
    <3>6. CASE request'[c].pc = "removeAccount" /\ \A i \in Ids : ~Stored(i)
      BY <3>1, <3>2, <3>4, <3>6 DEF StrayInv, SyncSteps
    <3> QED BY <3>1, <3>3, <3>5, <3>6
  <2>4. CASE \E status \in {"enabled", "disabled"} : UpdateAccountStatus(status)
    <3>1. account # "deleted" /\ account' # "deleted" /\ UNCHANGED <<cloudMode, region, resource, request>>
      BY <2>4 DEF UpdateAccountStatus, Table
    <3>2. LiveRegions' = LiveRegions /\ \A i \in Ids : Stored(i)' <=> Stored(i)
      BY <3>1 DEF Stored, LiveRegions, Live
    <3>3. Separate("sync", "region") /\ Separate("sync", "account")
          <=> (Separate("sync", "region") /\ Separate("sync", "account"))'
      BY <3>1 DEF Separate
    <3> QED BY <3>1, <3>2, <3>3 DEF StrayInv
  <2>5. CASE \E i \in Ids : DeleteResource(i)
    <3>1. Fewer /\ LiveRegions' = LiveRegions /\ UNCHANGED <<cloudMode, account, request>>
      BY <2>5 DEF DeleteResource, Fewer, Stored, LiveRegions, Live, BusyInv, CloudTypeOK
    <3> QED BY <3>1, RestKeepsStray
  <2>6. CASE CloudNext
    BY <2>2, <2>3, <2>4, <2>5, <2>6 DEF CloudNext
  <2> QED BY <2>1, <2>6
<1>3. StrayInv => NoStrayResource
  BY DEF StrayInv, NoStrayResource, LiveRegions
<1> QED BY <1>1, <1>2, <1>3, CloudBusy, PTL DEF CloudSpec

(***************************************************************************)
(* A synchronisation that succeeds mirrors the cloud.                       *)
(***************************************************************************)
MirrorsHeld == Separate("sync", "sync") /\ Separate("sync", "resource")

OneRow == \A i, j \in Ids : Stored(i) /\ Stored(j) /\ resource[i].inst = resource[j].inst => i = j
Unused == \A i \in Ids : i > lastResource => resource[i].life = "absent"

Place(i) == Home[resource[i].inst]

\* What a synchronisation has got between two regions' statements: the regions handled are
\* not those still to do, ...
GotOK(q) ==
  /\ q.gone # {} => q.full
  /\ q.handled \cap q.todo = {}
  /\ \A x \in q.fetched : Home[x] \in q.handled
  /\ \A x \in q.items : x \in q.fetched /\ Home[x] = q.at

\* ... the rows it will delete were not fetched, and those that were there before are still
\* there unless they were not fetched either.
HeldOK(q) ==
  /\ \A i \in q.gone : /\ resource[i].life # "absent"
                       /\ Place(i) \in q.handled /\ resource[i].inst \notin q.fetched
  /\ \A i \in q.before :
       /\ resource[i].life # "absent"
       /\ Stored(i) \/ (q.full /\ Place(i) \in q.handled /\ resource[i].inst \notin q.fetched)

\* If nothing failed, what was fetched has a row, or will get one; in a full synchronisation
\* every row of a region handled was fetched, or will go.
DoneOK(q) ==
  ~q.failed =>
    /\ \A x \in q.fetched : x \in q.items \/ RowsOf(x) # {}
    /\ q.full => \A i \in Ids : Stored(i) /\ Place(i) \in q.handled =>
                                  resource[i].inst \in q.fetched \/ i \in q.gone

\* The same before the rows of the region at hand are listed, ...
Listing(q) ==
  /\ q.full /\ q.gone = {} /\ q.at \in q.handled
  /\ \A x \in q.fetched : Home[x] = q.at => x \in q.items
  /\ \A i \in q.before : Place(i) = q.at => Stored(i)
  /\ ~q.failed =>
       /\ \A x \in q.fetched : x \in q.items \/ RowsOf(x) # {}
       /\ \A i \in Ids : Stored(i) /\ Place(i) \in q.handled =>
                           resource[i].inst \in q.fetched \/ Place(i) = q.at

\* ... and while the row of an instance is written.
Saving(q) ==
  /\ q.gone = {} /\ q.inst \in q.fetched
  /\ q.row = 0 <=> RowsOf(q.inst) = {}
  /\ ~q.failed =>
       /\ \A x \in q.fetched : x \in q.items \/ x = q.inst \/ RowsOf(x) # {}
       /\ q.full => \A i \in Ids : Stored(i) /\ Place(i) \in q.handled => resource[i].inst \in q.fetched

SyncOK(q) ==
  /\ GotOK(q) /\ HeldOK(q)
  /\ q.pc \in {"fetch", "lookup", "report"} => q.gone = {}
  /\ q.pc \in {"fetch", "report"} => q.items = {}
  /\ q.pc \in {"fetch", "lookup", "report", "delete"} => DoneOK(q)
  /\ q.pc = "list" => Listing(q)
  /\ q.pc = "save" => Saving(q)

MirrorInv ==
  MirrorsHeld =>
    /\ OneRow /\ Unused
    /\ \A c \in Callers : request[c].pc \in SyncSteps => SyncOK(request[c])

\* Whatever comes next: the facts that hold between two statements are those of the next place.
LEMMA OnwardOK ==
  ASSUME NEW p \in CloudRequests, (GotOK(p) /\ HeldOK(p) /\ DoneOK(p))'
  PROVE  SyncOK(Onward(p))'
<1>1. PICK o : o = Onward(p)
  OBVIOUS
<1>2. /\ o.pc = IF p.gone # {} THEN "delete" ELSE IF p.items # {} THEN "lookup"
               ELSE IF p.todo # {} THEN "fetch" ELSE "report"
      /\ o.full = p.full /\ o.todo = p.todo /\ o.at = p.at /\ o.items = p.items /\ o.gone = p.gone
      /\ o.inst = p.inst /\ o.row = p.row /\ o.failed = p.failed /\ o.fetched = p.fetched
      /\ o.handled = p.handled /\ o.before = p.before
  BY <1>1 DEF Onward, CloudRequests
<1>3. GotOK(o)' /\ HeldOK(o)' /\ DoneOK(o)'
  BY <1>2 DEF GotOK, HeldOK, DoneOK
<1>4. SyncOK(o)'
  BY <1>2, <1>3 DEF SyncOK
<1> QED BY <1>1, <1>4

\* While synchronisations do not overlap, one goroutine at most is at one; ...
LEMMA OnlySync ==
  ASSUME BusyInv, MirrorsHeld, NEW c \in Callers, request[c].pc \in SyncSteps, NEW d \in Callers, d # c
  PROVE  request[d].pc \notin SyncSteps
BY DEF BusyInv, KindInv, OverlapInv, MirrorsHeld, Separate, SyncSteps

\* ... so that its own facts are all there is to show of a step, ...
LEMMA MirrorStep ==
  ASSUME BusyInv, MirrorInv, UNCHANGED cloudMode, NEW c \in Callers, NEW p, request'[c] = p,
         \A d \in Callers \ {c} : request'[d] = request[d],
         MirrorsHeld => \A d \in Callers \ {c} : request[d].pc \notin SyncSteps,
         MirrorsHeld => OneRow' /\ Unused' /\ (p.pc \in SyncSteps => SyncOK(p)')
  PROVE  MirrorInv'
<1> SUFFICES ASSUME MirrorsHeld
             PROVE  /\ OneRow' /\ Unused'
                    /\ \A d \in Callers : request'[d].pc \in SyncSteps => SyncOK(request[d])'
  BY DEF MirrorInv, MirrorsHeld, Separate
<1>1. ASSUME NEW d \in Callers, request'[d].pc \in SyncSteps PROVE SyncOK(request[d])'
  <2>1. d = c
    BY <1>1
  <2>2. SyncOK(p)'
    BY <1>1, <2>1
  <2> QED BY <2>1, <2>2 DEF SyncOK, GotOK, HeldOK, DoneOK, Listing, Saving
<1> QED BY <1>1

\* ... and nothing of a step that writes no row and is none of a synchronisation.
LEMMA RestKeepsMirror ==
  ASSUME BusyInv, MirrorInv, UNCHANGED <<cloudMode, resource, lastResource>>,
         \A d \in Callers : request'[d] = request[d] \/ request'[d].pc \notin SyncSteps
  PROVE  MirrorInv'
<1> SUFFICES ASSUME MirrorsHeld
             PROVE  /\ OneRow' /\ Unused'
                    /\ \A d \in Callers : request'[d].pc \in SyncSteps => SyncOK(request[d])'
  BY DEF MirrorInv, MirrorsHeld, Separate
<1>1. OneRow' /\ Unused'
  BY DEF MirrorInv, OneRow, Unused, Stored
<1>2. ASSUME NEW d \in Callers, request'[d].pc \in SyncSteps PROVE SyncOK(request[d])'
  <2>1. PICK q : q = request[d] /\ q = request'[d]
    BY <1>2
  <2>2. SyncOK(q)
    BY <1>2, <2>1 DEF MirrorInv
  <2>3. SyncOK(q)'
    BY <2>2 DEF SyncOK, GotOK, HeldOK, DoneOK, Listing, Saving, Place, Stored, RowsOf
  <2> QED BY <2>1, <2>3 DEF SyncOK, GotOK, HeldOK, DoneOK, Listing, Saving
<1> QED BY <1>1, <1>2

\* A request starts with nothing fetched, and with the rows it has to keep.
LEMMA BeginMirror ==
  ASSUME BusyInv, MirrorInv, NEW c \in Callers,
         \/ \E full \in BOOLEAN, R \in SUBSET Regions : SyncResources(c, full, R)
         \/ \E R \in SUBSET Regions, d \in Regions \cup {NoRegion} : CreateRegions(c, R, d)
         \/ \E r \in Regions : MakeDefault(c, r) \/ DeleteRegion(c, r)
         \/ DeleteAccount(c)
  PROVE  MirrorInv'
<1>1. PICK p : p = request'[c]
  OBVIOUS
<1>2. /\ UNCHANGED <<cloudMode, resource, lastResource>> /\ MayOverlap(p.kind)
      /\ \A d \in Callers \ {c} : request'[d] = request[d]
      /\ \/ /\ p.pc = "fetch" /\ p.kind = "sync" /\ p.items = {}
            /\ p.gone = {} /\ p.fetched = {} /\ p.handled = {} /\ p.before = {i \in Ids : Stored(i)}
         \/ p.pc \notin SyncSteps
  BY <1>1, RequestsBegin DEF SyncSteps
<1>3. CASE p.pc \notin SyncSteps
  BY <1>1, <1>2, <1>3, RestKeepsMirror
<1>4. CASE p.pc = "fetch" /\ p.kind = "sync" /\ p.items = {} /\ p.gone = {} /\ p.fetched = {} /\ p.handled = {}
           /\ p.before = {i \in Ids : Stored(i)}
  <2>1. MirrorsHeld => \A d \in Callers \ {c} : request[d].pc \notin SyncSteps
    BY <1>2, <1>4 DEF MayOverlap, BusyInv, KindInv, MirrorsHeld, Separate, SyncSteps
  <2>2. MirrorsHeld => OneRow' /\ Unused'
    BY <1>2 DEF MirrorInv, OneRow, Unused, Stored
  <2>3. GotOK(p)' /\ HeldOK(p)' /\ DoneOK(p)'
    BY <1>2, <1>4 DEF GotOK, HeldOK, DoneOK, Stored
  <2>4. SyncOK(p)'
    BY <1>4, <2>3 DEF SyncOK
  <2> QED BY <1>1, <1>2, <2>1, <2>2, <2>4, MirrorStep
<1> QED BY <1>2, <1>3, <1>4

\* A region is fetched, or cannot be.
LEMMA FetchMirror ==
  ASSUME BusyInv, MirrorInv, NEW c \in Callers, Fetch(c)
  PROVE  MirrorInv'
<1>1. PICK q \in CloudRequests : q = request[c]
  BY DEF BusyInv, CloudTypeOK
<1>2. q.pc = "fetch" /\ UNCHANGED <<cloudMode, resource, lastResource>>
  BY <1>1 DEF Fetch, At, Table
<1>3. PICK r \in q.todo :
        \/ \E got \in SUBSET {x \in Instances : Home[x] = r} :
             LET has == [q EXCEPT !.todo = @ \ {r}, !.at = r, !.items = got,
                                  !.fetched = @ \cup got, !.handled = @ \cup {r}]
             IN Becomes(c, IF q.full THEN [has EXCEPT !.pc = "list"] ELSE Onward(has))
        \/ Becomes(c, Onward([q EXCEPT !.todo = @ \ {r}]))
  BY <1>1 DEF Fetch
<1>4. MirrorsHeld => \A d \in Callers \ {c} : request[d].pc \notin SyncSteps
  BY <1>1, <1>2, OnlySync DEF SyncSteps
<1>5. MirrorsHeld => SyncOK(q) /\ OneRow' /\ Unused'
  BY <1>1, <1>2 DEF MirrorInv, SyncSteps, OneRow, Unused, Stored
<1>6. ASSUME NEW p, Becomes(c, p), MirrorsHeld => SyncOK(p)'
      PROVE  MirrorInv'
  <2>1. request'[c] = p /\ \A d \in Callers \ {c} : request'[d] = request[d]
    BY <1>6 DEF Becomes, BusyInv, CloudTypeOK
  <2> QED BY <1>2, <1>4, <1>5, <1>6, <2>1, MirrorStep
<1>7. r \in Regions
  BY DEF CloudRequests
<1>8. CASE Becomes(c, Onward([q EXCEPT !.todo = @ \ {r}]))
  <2>1. PICK p : p = [q EXCEPT !.todo = @ \ {r}]
    OBVIOUS
  <2>2. /\ p.full = q.full /\ p.todo = q.todo \ {r} /\ p.at = q.at /\ p.items = q.items /\ p.gone = q.gone
        /\ p.failed = q.failed /\ p.fetched = q.fetched /\ p.handled = q.handled /\ p.before = q.before
        /\ p \in CloudRequests
    BY <2>1 DEF CloudRequests
  <2>3. MirrorsHeld => (GotOK(p) /\ HeldOK(p) /\ DoneOK(p))'
    BY <1>2, <1>5, <2>2 DEF SyncOK, GotOK, HeldOK, DoneOK, Place, Stored, RowsOf
  <2>4. PICK o : o = Onward(p)
    OBVIOUS
  <2>5. MirrorsHeld => SyncOK(o)'
    BY <2>2, <2>3, <2>4, OnwardOK
  <2>6. Becomes(c, o)
    BY <1>8, <2>1, <2>4
  <2> QED BY <1>6, <2>5, <2>6
<1>9. ASSUME NEW got \in SUBSET {x \in Instances : Home[x] = r},
             Becomes(c, IF q.full THEN [[q EXCEPT !.todo = @ \ {r}, !.at = r, !.items = got,
                                  !.fetched = @ \cup got, !.handled = @ \cup {r}] EXCEPT !.pc = "list"]
                        ELSE Onward([q EXCEPT !.todo = @ \ {r}, !.at = r, !.items = got,
                                  !.fetched = @ \cup got, !.handled = @ \cup {r}]))
      PROVE  MirrorInv'
  <2>1. PICK p : p = [q EXCEPT !.todo = @ \ {r}, !.at = r, !.items = got,
                               !.fetched = @ \cup got, !.handled = @ \cup {r}]
    OBVIOUS
  <2>2. /\ p.full = q.full /\ p.todo = q.todo \ {r} /\ p.at = r /\ p.items = got /\ p.gone = q.gone
        /\ p.failed = q.failed /\ p.fetched = q.fetched \cup got /\ p.handled = q.handled \cup {r}
        /\ p.before = q.before /\ p \in CloudRequests
    BY <1>7, <2>1 DEF CloudRequests
  <2>3. MirrorsHeld => /\ GotOK(q) /\ HeldOK(q) /\ DoneOK(q) /\ q.gone = {} /\ q.items = {} /\ r \notin q.handled
    BY <1>2, <1>5 DEF SyncOK, GotOK
  <2>4. MirrorsHeld => GotOK(p)' /\ HeldOK(p)'
    <3>1. MirrorsHeld => GotOK(p)'
      BY <2>2, <2>3 DEF GotOK
    <3>2. \A x \in got : Home[x] = r
      OBVIOUS
    <3>3. MirrorsHeld => HeldOK(p)'
      BY <1>2, <2>2, <2>3, <3>2 DEF HeldOK, Place, Stored
    <3> QED BY <3>1, <3>3
  <2>5. CASE q.full
    <3>1. PICK l : l = [p EXCEPT !.pc = "list"]
      OBVIOUS
    <3>2. /\ l.full = p.full /\ l.todo = p.todo /\ l.at = r /\ l.items = got /\ l.gone = p.gone
          /\ l.failed = p.failed /\ l.fetched = p.fetched /\ l.handled = p.handled
          /\ l.before = p.before /\ l.pc = "list"
      BY <2>2, <3>1 DEF CloudRequests
    <3>3. MirrorsHeld => GotOK(l)' /\ HeldOK(l)'
      <4>1. MirrorsHeld => GotOK(l)'
        BY <2>2, <2>3, <3>2 DEF GotOK
      <4>2. \A x \in got : Home[x] = r
        OBVIOUS
      <4>3. MirrorsHeld => HeldOK(l)'
        BY <1>2, <2>2, <2>3, <3>2, <4>2 DEF HeldOK, Place, Stored
      <4> QED BY <4>1, <4>3
    <3>4. MirrorsHeld => Listing(l)'
      BY <1>2, <2>2, <2>3, <2>5, <3>2 DEF GotOK, HeldOK, DoneOK, Listing, Place, Stored, RowsOf
    <3>5. MirrorsHeld => SyncOK(l)'
      BY <3>2, <3>3, <3>4 DEF SyncOK
    <3> QED BY <1>6, <1>9, <2>1, <2>5, <3>1, <3>5
  <2>6. CASE ~q.full
    <3>1. MirrorsHeld => DoneOK(p)'
      BY <1>2, <2>2, <2>3, <2>6 DEF DoneOK, Stored, RowsOf
    <3>2. MirrorsHeld => SyncOK(Onward(p))'
      BY <2>2, <2>4, <3>1, OnwardOK
    <3> QED BY <1>6, <1>9, <2>1, <2>6, <3>2
  <2> QED BY <2>5, <2>6
<1> QED BY <1>3, <1>8, <1>9

\* The rows of the region at hand are listed, or cannot be: then nothing of it counts as fetched.
LEMMA ListMirror ==
  ASSUME BusyInv, MirrorInv, NEW c \in Callers, ListExisting(c)
  PROVE  MirrorInv'
<1>1. PICK q \in CloudRequests : q = request[c]
  BY DEF BusyInv, CloudTypeOK
<1>2. q.pc = "list" /\ UNCHANGED <<cloudMode, resource, lastResource>>
  BY <1>1 DEF ListExisting, At, Table
<1>3. \/ Becomes(c, Onward([q EXCEPT !.gone = {i \in RowsIn(q.at) : resource[i].inst \notin q.items}]))
      \/ Becomes(c, Onward([q EXCEPT !.items = {}, !.handled = @ \ {q.at}, !.fetched = @ \ q.items]))
  BY <1>1 DEF ListExisting
<1>4. MirrorsHeld => \A d \in Callers \ {c} : request[d].pc \notin SyncSteps
  BY <1>1, <1>2, OnlySync DEF SyncSteps
<1>5. MirrorsHeld => GotOK(q) /\ HeldOK(q) /\ Listing(q) /\ OneRow' /\ Unused'
  BY <1>1, <1>2 DEF MirrorInv, SyncOK, SyncSteps, OneRow, Unused, Stored
<1>6. ASSUME NEW p, Becomes(c, Onward(p)), p \in CloudRequests, MirrorsHeld => (GotOK(p) /\ HeldOK(p) /\ DoneOK(p))'
      PROVE  MirrorInv'
  <2>1. PICK o : o = Onward(p)
    OBVIOUS
  <2>2. request'[c] = o /\ \A d \in Callers \ {c} : request'[d] = request[d]
    BY <1>6, <2>1 DEF Becomes, BusyInv, CloudTypeOK
  <2>3. MirrorsHeld => SyncOK(o)'
    BY <1>6, <2>1, OnwardOK
  <2> QED BY <1>2, <1>4, <1>5, <2>2, <2>3, MirrorStep
<1>7. CASE Becomes(c, Onward([q EXCEPT !.gone = {i \in RowsIn(q.at) : resource[i].inst \notin q.items}]))
  <2>1. PICK p : p = [q EXCEPT !.gone = {i \in RowsIn(q.at) : resource[i].inst \notin q.items}]
    OBVIOUS
  <2>2. /\ p.full = q.full /\ p.todo = q.todo /\ p.at = q.at /\ p.items = q.items
        /\ p.gone = {i \in Ids : Stored(i) /\ Place(i) = q.at /\ resource[i].inst \notin q.items}
        /\ p.failed = q.failed /\ p.fetched = q.fetched /\ p.handled = q.handled /\ p.before = q.before
        /\ p \in CloudRequests
    BY <2>1 DEF CloudRequests, RowsIn, Place
  <2>3. MirrorsHeld => GotOK(p)'
    BY <1>5, <2>2 DEF GotOK, Listing
  <2>4. MirrorsHeld => HeldOK(p)'
    BY <1>2, <1>5, <2>2 DEF HeldOK, Listing, Place, Stored
  <2>5. MirrorsHeld => DoneOK(p)'
    BY <1>2, <1>5, <2>2 DEF GotOK, DoneOK, Listing, Place, Stored, RowsOf
  <2> QED BY <1>6, <1>7, <2>1, <2>2, <2>3, <2>4, <2>5
<1>8. CASE Becomes(c, Onward([q EXCEPT !.items = {}, !.handled = @ \ {q.at}, !.fetched = @ \ q.items]))
  <2>1. PICK p : p = [q EXCEPT !.items = {}, !.handled = @ \ {q.at}, !.fetched = @ \ q.items]
    OBVIOUS
  <2>2. /\ p.full = q.full /\ p.todo = q.todo /\ p.at = q.at /\ p.items = {} /\ p.gone = q.gone
        /\ p.failed = q.failed /\ p.fetched = q.fetched \ q.items /\ p.handled = q.handled \ {q.at}
        /\ p.before = q.before /\ p \in CloudRequests
    BY <2>1 DEF CloudRequests
  <2>3. MirrorsHeld => GotOK(p)'
    BY <1>5, <2>2 DEF GotOK, Listing
  <2>4. MirrorsHeld => HeldOK(p)'
    BY <1>2, <1>5, <2>2 DEF HeldOK, Listing, Place, Stored
  <2>5. MirrorsHeld => DoneOK(p)'
    BY <1>2, <1>5, <2>2 DEF GotOK, DoneOK, Listing, Place, Stored, RowsOf
  <2> QED BY <1>6, <1>8, <2>1, <2>2, <2>3, <2>4, <2>5
<1> QED BY <1>3, <1>7, <1>8

\* A row that was not fetched is deleted, or counted as failed.
LEMMA DeleteMirror ==
  ASSUME BusyInv, MirrorInv, NEW c \in Callers, DeleteMissing(c)
  PROVE  MirrorInv'
<1>1. PICK q \in CloudRequests : q = request[c]
  BY DEF BusyInv, CloudTypeOK
<1>2. q.pc = "delete" /\ UNCHANGED <<cloudMode, lastResource>>
  BY <1>1 DEF DeleteMissing, At
<1>3. PICK k \in q.gone :
        \/ /\ resource' = [resource EXCEPT ![k].life = "deleted"]
           /\ Becomes(c, Onward([q EXCEPT !.gone = @ \ {k}]))
        \/ /\ Becomes(c, Onward([q EXCEPT !.gone = @ \ {k}, !.failed = TRUE]))
           /\ UNCHANGED resource
  BY <1>1 DEF DeleteMissing
<1>4. MirrorsHeld => \A d \in Callers \ {c} : request[d].pc \notin SyncSteps
  BY <1>1, <1>2, OnlySync DEF SyncSteps
<1>5. MirrorsHeld => GotOK(q) /\ HeldOK(q) /\ DoneOK(q) /\ OneRow /\ Unused
  BY <1>1, <1>2 DEF MirrorInv, SyncOK, SyncSteps
<1>6. ASSUME NEW p, Becomes(c, Onward(p)), p \in CloudRequests,
             MirrorsHeld => OneRow' /\ Unused' /\ (GotOK(p) /\ HeldOK(p) /\ DoneOK(p))'
      PROVE  MirrorInv'
  <2>1. PICK o : o = Onward(p)
    OBVIOUS
  <2>2. request'[c] = o /\ \A d \in Callers \ {c} : request'[d] = request[d]
    BY <1>6, <2>1 DEF Becomes, BusyInv, CloudTypeOK
  <2>3. MirrorsHeld => SyncOK(o)'
    BY <1>6, <2>1, OnwardOK
  <2> QED BY <1>2, <1>4, <1>6, <2>2, <2>3, MirrorStep
<1>7. k \in Ids
  BY DEF CloudRequests
<1>8. CASE resource' = [resource EXCEPT ![k].life = "deleted"] /\ Becomes(c, Onward([q EXCEPT !.gone = @ \ {k}]))
  <2>1. PICK p : p = [q EXCEPT !.gone = @ \ {k}]
    OBVIOUS
  <2>2. /\ p.full = q.full /\ p.todo = q.todo /\ p.at = q.at /\ p.items = q.items /\ p.gone = q.gone \ {k}
        /\ p.failed = q.failed /\ p.fetched = q.fetched /\ p.handled = q.handled /\ p.before = q.before
        /\ p \in CloudRequests
    BY <2>1 DEF CloudRequests
  <2>3. \A i \in Ids : /\ resource'[i].inst = resource[i].inst
                       /\ resource'[i].life = IF i = k THEN "deleted" ELSE resource[i].life
    BY <1>7, <1>8 DEF BusyInv, CloudTypeOK
  <2>4. MirrorsHeld => OneRow' /\ Unused'
    BY <1>2, <1>5, <2>3 DEF OneRow, Unused, Stored, HeldOK
  <2>5. MirrorsHeld => GotOK(p)'
    BY <1>5, <2>2 DEF GotOK
  <2>6. MirrorsHeld => resource[k].inst \notin q.fetched /\ Place(k) \in q.handled /\ q.full
    BY <1>5 DEF GotOK, HeldOK
  <2>7. q.gone \subseteq Ids /\ q.before \subseteq Ids
    BY DEF CloudRequests
  <2>8. MirrorsHeld => HeldOK(p)'
    BY <1>5, <2>2, <2>3, <2>6, <2>7 DEF HeldOK, Place, Stored
  <2>9. MirrorsHeld => DoneOK(p)'
    <3> SUFFICES ASSUME MirrorsHeld, ~q.failed
                 PROVE  /\ \A x \in q.fetched : x \in q.items \/ RowsOf(x)' # {}
                        /\ q.full => \A i \in Ids : Stored(i)' /\ Place(i)' \in q.handled =>
                                                      resource'[i].inst \in q.fetched \/ i \in q.gone \ {k}
      BY <2>2 DEF DoneOK
    <3>1. ASSUME NEW x \in q.fetched, x \notin q.items PROVE RowsOf(x)' # {}
      <4>1. PICK i \in Ids : Stored(i) /\ resource[i].inst = x
        BY <1>5, <3>1 DEF DoneOK, RowsOf
      <4>2. i # k
        BY <2>6, <4>1
      <4> QED BY <2>3, <4>1, <4>2 DEF RowsOf, Stored
    <3>2. q.full => \A i \in Ids : Stored(i)' /\ Place(i)' \in q.handled =>
                                                      resource'[i].inst \in q.fetched \/ i \in q.gone \ {k}
      BY <1>5, <2>3 DEF DoneOK, Place, Stored
    <3> QED BY <3>1, <3>2
  <2> QED BY <1>6, <1>8, <2>1, <2>2, <2>4, <2>5, <2>8, <2>9
<1>9. CASE Becomes(c, Onward([q EXCEPT !.gone = @ \ {k}, !.failed = TRUE])) /\ UNCHANGED resource
  <2>1. PICK p : p = [q EXCEPT !.gone = @ \ {k}, !.failed = TRUE]
    OBVIOUS
  <2>2. /\ p.full = q.full /\ p.todo = q.todo /\ p.at = q.at /\ p.items = q.items /\ p.gone = q.gone \ {k}
        /\ p.failed /\ p.fetched = q.fetched /\ p.handled = q.handled /\ p.before = q.before
        /\ p \in CloudRequests
    BY <2>1 DEF CloudRequests
  <2>3. MirrorsHeld => OneRow' /\ Unused'
    BY <1>2, <1>5, <1>9 DEF OneRow, Unused, Stored
  <2>4. MirrorsHeld => (GotOK(p) /\ HeldOK(p) /\ DoneOK(p))'
    BY <1>5, <1>9, <2>2 DEF GotOK, HeldOK, DoneOK, Place, Stored
  <2> QED BY <1>6, <1>9, <2>1, <2>2, <2>3, <2>4
<1> QED BY <1>3, <1>8, <1>9

\* The row of an instance is looked up, ...
LEMMA LookUpMirror ==
  ASSUME BusyInv, MirrorInv, NEW c \in Callers, LookUp(c)
  PROVE  MirrorInv'
<1>1. PICK q \in CloudRequests : q = request[c]
  BY DEF BusyInv, CloudTypeOK
<1>2. q.pc = "lookup" /\ UNCHANGED <<cloudMode, resource, lastResource>>
  BY <1>1 DEF LookUp, At, Table
<1>3. PICK x \in q.items :
        \/ \E i \in Ids \cup {0} :
             /\ i = 0 <=> RowsOf(x) = {}
             /\ Becomes(c, [[q EXCEPT !.items = @ \ {x}] EXCEPT !.pc = "save", !.inst = x, !.row = i])
        \/ Becomes(c, Onward([[q EXCEPT !.items = @ \ {x}] EXCEPT !.failed = TRUE]))
  <2>1. 0 \notin Ids
    BY MaxResourceAssumption DEF Ids
  <2>2. PICK x \in q.items :
          \/ /\ RowsOf(x) = {}
             /\ Becomes(c, [[q EXCEPT !.items = @ \ {x}] EXCEPT !.pc = "save", !.inst = x, !.row = 0])
          \/ \E i \in RowsOf(x) :
               Becomes(c, [[q EXCEPT !.items = @ \ {x}] EXCEPT !.pc = "save", !.inst = x, !.row = i])
          \/ Becomes(c, Onward([[q EXCEPT !.items = @ \ {x}] EXCEPT !.failed = TRUE]))
    BY <1>1 DEF LookUp
  <2>3. RowsOf(x) \subseteq Ids
    BY DEF RowsOf
  <2>4. CASE \E i \in RowsOf(x) :
               Becomes(c, [[q EXCEPT !.items = @ \ {x}] EXCEPT !.pc = "save", !.inst = x, !.row = i])
    <3>1. PICK i \in RowsOf(x) :
               Becomes(c, [[q EXCEPT !.items = @ \ {x}] EXCEPT !.pc = "save", !.inst = x, !.row = i])
      BY <2>4
    <3>2. i \in Ids \cup {0} /\ (i = 0 <=> RowsOf(x) = {})
      BY <2>1, <2>3
    <3> QED BY <3>1, <3>2
  <2>5. CASE RowsOf(x) = {} /\ Becomes(c, [[q EXCEPT !.items = @ \ {x}] EXCEPT !.pc = "save", !.inst = x, !.row = 0])
    BY <2>5
  <2> QED BY <2>2, <2>4, <2>5
<1>4. MirrorsHeld => \A d \in Callers \ {c} : request[d].pc \notin SyncSteps
  BY <1>1, <1>2, OnlySync DEF SyncSteps
<1>5. MirrorsHeld => GotOK(q) /\ HeldOK(q) /\ DoneOK(q) /\ q.gone = {} /\ OneRow' /\ Unused'
  BY <1>1, <1>2 DEF MirrorInv, SyncOK, SyncSteps, OneRow, Unused, Stored
<1>6. ASSUME NEW p, Becomes(c, p), MirrorsHeld => SyncOK(p)'
      PROVE  MirrorInv'
  <2>1. request'[c] = p /\ \A d \in Callers \ {c} : request'[d] = request[d]
    BY <1>6 DEF Becomes, BusyInv, CloudTypeOK
  <2> QED BY <1>2, <1>4, <1>5, <1>6, <2>1, MirrorStep
<1>7. ASSUME NEW i \in Ids \cup {0}, i = 0 <=> RowsOf(x) = {},
             Becomes(c, [[q EXCEPT !.items = @ \ {x}] EXCEPT !.pc = "save", !.inst = x, !.row = i])
      PROVE  MirrorInv'
  <2>1. PICK p : p = [[q EXCEPT !.items = @ \ {x}] EXCEPT !.pc = "save", !.inst = x, !.row = i]
    OBVIOUS
  <2>2. /\ p.full = q.full /\ p.todo = q.todo /\ p.at = q.at /\ p.items = q.items \ {x} /\ p.gone = q.gone
        /\ p.failed = q.failed /\ p.fetched = q.fetched /\ p.handled = q.handled /\ p.before = q.before
        /\ p.pc = "save" /\ p.inst = x /\ p.row = i
    BY <2>1 DEF CloudRequests
  <2>3. MirrorsHeld => GotOK(p)' /\ HeldOK(p)'
    BY <1>2, <1>5, <2>2 DEF GotOK, HeldOK, Place, Stored
  <2>4. MirrorsHeld => Saving(p)'
    BY <1>2, <1>5, <1>7, <2>2 DEF GotOK, DoneOK, Saving, Place, Stored, RowsOf
  <2>5. MirrorsHeld => SyncOK(p)'
    BY <2>2, <2>3, <2>4 DEF SyncOK
  <2> QED BY <1>6, <1>7, <2>1, <2>5
<1>8. CASE Becomes(c, Onward([[q EXCEPT !.items = @ \ {x}] EXCEPT !.failed = TRUE]))
  <2>1. PICK p : p = [[q EXCEPT !.items = @ \ {x}] EXCEPT !.failed = TRUE]
    OBVIOUS
  <2>2. /\ p.full = q.full /\ p.todo = q.todo /\ p.at = q.at /\ p.items = q.items \ {x} /\ p.gone = q.gone
        /\ p.failed /\ p.fetched = q.fetched /\ p.handled = q.handled /\ p.before = q.before
        /\ p \in CloudRequests
    BY <2>1 DEF CloudRequests
  <2>3. MirrorsHeld => (GotOK(p) /\ HeldOK(p) /\ DoneOK(p))'
    BY <1>2, <1>5, <2>2 DEF GotOK, HeldOK, DoneOK, Place, Stored
  <2>4. PICK o : o = Onward(p)
    OBVIOUS
  <2>5. MirrorsHeld => SyncOK(o)'
    BY <2>2, <2>3, <2>4, OnwardOK
  <2>6. Becomes(c, o)
    BY <1>8, <2>1, <2>4
  <2> QED BY <1>6, <2>5, <2>6
<1> QED BY <1>3, <1>7, <1>8

\* ... and written, or added under the next id.
LEMMA SaveMirror ==
  ASSUME BusyInv, MirrorInv, NEW c \in Callers, Save(c)
  PROVE  MirrorInv'
<1>1. PICK q \in CloudRequests : q = request[c]
  BY DEF BusyInv, CloudTypeOK
<1>2. q.pc = "save" /\ UNCHANGED cloudMode
  BY <1>1 DEF Save, At
<1>4. MirrorsHeld => \A d \in Callers \ {c} : request[d].pc \notin SyncSteps
  BY <1>1, <1>2, OnlySync DEF SyncSteps
<1>5. MirrorsHeld => GotOK(q) /\ HeldOK(q) /\ Saving(q) /\ OneRow /\ Unused
  BY <1>1, <1>2 DEF MirrorInv, SyncOK, SyncSteps
<1>6. ASSUME NEW p, Becomes(c, Onward(p)), p \in CloudRequests,
             MirrorsHeld => OneRow' /\ Unused' /\ (GotOK(p) /\ HeldOK(p) /\ DoneOK(p))'
      PROVE  MirrorInv'
  <2>1. PICK o : o = Onward(p)
    OBVIOUS
  <2>2. request'[c] = o /\ \A d \in Callers \ {c} : request'[d] = request[d]
    BY <1>6, <2>1 DEF Becomes, BusyInv, CloudTypeOK
  <2>3. MirrorsHeld => SyncOK(o)'
    BY <1>6, <2>1, OnwardOK
  <2> QED BY <1>2, <1>4, <1>6, <2>2, <2>3, MirrorStep
<1>7. CASE q.row # 0 /\ Becomes(c, Onward(q)) /\ UNCHANGED <<resource, lastResource>>
  <2>1. MirrorsHeld => OneRow' /\ Unused'
    BY <1>5, <1>7 DEF OneRow, Unused, Stored
  <2>2. MirrorsHeld => GotOK(q)' /\ HeldOK(q)'
    BY <1>5, <1>7 DEF GotOK, HeldOK, Place, Stored
  <2>3. MirrorsHeld => DoneOK(q)'
    BY <1>5, <1>7 DEF DoneOK, Saving, Place, Stored, RowsOf
  <2> QED BY <1>6, <1>7, <2>1, <2>2, <2>3
<1>8. CASE /\ q.row = 0 /\ lastResource < MaxResource
           /\ lastResource' = lastResource + 1
           /\ resource' = [resource EXCEPT ![lastResource + 1] = [life |-> "live", inst |-> q.inst]]
           /\ Becomes(c, Onward(q))
  <2>1. PICK k \in Ids : k = lastResource + 1
    BY <1>8, MaxResourceAssumption DEF BusyInv, CloudTypeOK, Ids
  <2>2. resource'[k].life = "live" /\ resource'[k].inst = q.inst /\ \A i \in Ids : i # k => resource'[i] = resource[i]
    BY <1>8, <2>1 DEF BusyInv, CloudTypeOK
  <2>3. MirrorsHeld => resource[k].life = "absent" /\ RowsOf(q.inst) = {}
    <3>1. lastResource \in Nat /\ k > lastResource
      BY <2>1, MaxResourceAssumption DEF BusyInv, CloudTypeOK
    <3> QED BY <1>5, <1>8, <3>1 DEF Unused, Saving
  <2>4. MirrorsHeld => OneRow' /\ Unused'
    <3>1. lastResource \in Nat /\ \A i \in Ids : i \in Nat
      BY MaxResourceAssumption DEF BusyInv, CloudTypeOK, Ids
    <3>2. MirrorsHeld => Unused'
      BY <1>5, <1>8, <2>1, <2>2, <3>1 DEF Unused
    <3>3. MirrorsHeld => OneRow'
      BY <1>5, <2>2, <2>3 DEF OneRow, Stored, RowsOf
    <3> QED BY <3>2, <3>3
  <2>5. MirrorsHeld => GotOK(q)'
    BY <1>5 DEF GotOK
  <2>6. q.gone \subseteq Ids /\ q.before \subseteq Ids
    BY DEF CloudRequests
  <2>7. MirrorsHeld => HeldOK(q)'
    BY <1>5, <2>2, <2>3, <2>6 DEF HeldOK, Place, Stored
  <2>8. MirrorsHeld => DoneOK(q)'
    <3> SUFFICES ASSUME MirrorsHeld, ~q.failed
                 PROVE  /\ \A x \in q.fetched : x \in q.items \/ RowsOf(x)' # {}
                        /\ q.full => \A i \in Ids : Stored(i)' /\ Place(i)' \in q.handled =>
                                                      resource'[i].inst \in q.fetched \/ i \in q.gone
      BY DEF DoneOK
    <3>1. k \in RowsOf(q.inst)'
      BY <2>2 DEF RowsOf, Stored
    <3>2. ASSUME NEW x, RowsOf(x) # {} PROVE RowsOf(x)' # {}
      <4>1. PICK i \in Ids : Stored(i) /\ resource[i].inst = x
        BY <3>2 DEF RowsOf
      <4>2. i # k
        BY <2>3, <4>1 DEF Stored
      <4> QED BY <2>2, <4>1, <4>2 DEF RowsOf, Stored
    <3>3. \A x \in q.fetched : x \in q.items \/ RowsOf(x)' # {}
      BY <1>5, <3>1, <3>2 DEF Saving
    <3>4. q.full => \A i \in Ids : Stored(i)' /\ Place(i)' \in q.handled =>
                                                      resource'[i].inst \in q.fetched \/ i \in q.gone
      BY <1>5, <2>2 DEF Saving, Place, Stored
    <3> QED BY <3>3, <3>4
  <2> QED BY <1>6, <1>8, <2>4, <2>5, <2>7, <2>8
<1>9. CASE Becomes(c, Onward([q EXCEPT !.failed = TRUE])) /\ UNCHANGED <<resource, lastResource>>
  <2>1. PICK p : p = [q EXCEPT !.failed = TRUE]
    OBVIOUS
  <2>2. /\ p.full = q.full /\ p.todo = q.todo /\ p.at = q.at /\ p.items = q.items /\ p.gone = q.gone
        /\ p.failed /\ p.fetched = q.fetched /\ p.handled = q.handled /\ p.before = q.before
        /\ p \in CloudRequests
    BY <2>1 DEF CloudRequests
  <2>3. MirrorsHeld => OneRow' /\ Unused'
    BY <1>5, <1>9 DEF OneRow, Unused, Stored
  <2>4. MirrorsHeld => (GotOK(p) /\ HeldOK(p) /\ DoneOK(p))'
    BY <1>5, <1>9, <2>2 DEF GotOK, HeldOK, DoneOK, Place, Stored
  <2> QED BY <1>6, <1>9, <2>1, <2>2, <2>3, <2>4
<1> QED BY <1>1, <1>7, <1>8, <1>9 DEF Save, Table

\* A change of regions never becomes a synchronisation.
LEMMA RegionsStay ==
  ASSUME BusyInv, NEW c \in Callers,
         \/ RefuseKnown(c) \/ ClearDefault(c) \/ InsertRegions(c) \/ SetDefault(c)
         \/ CountResources(c) \/ RemoveRegion(c) \/ PickDefault(c)
  PROVE  request'[c].pc \notin SyncSteps
<1>1. PICK q \in CloudRequests : q = request[c]
  BY DEF BusyInv, CloudTypeOK
<1>2. ASSUME NEW p, Becomes(c, p), p.pc \notin SyncSteps
      PROVE  request'[c].pc \notin SyncSteps
  BY <1>2 DEF Becomes, BusyInv, CloudTypeOK
<1>3. NoCloudRequest.pc \notin SyncSteps
  BY DEF NoCloudRequest, SyncSteps
<1>4. \A pc \in {"insert", "clear", "setDefault", "remove", "pick"} : [q EXCEPT !.pc = pc].pc \notin SyncSteps
  BY DEF CloudRequests, SyncSteps
<1>5. \A r \in Regions : [q EXCEPT !.pc = "setDefault", !.at = r].pc \notin SyncSteps
  BY DEF CloudRequests, SyncSteps
<1>6. \/ Becomes(c, NoCloudRequest)
      \/ \E pc \in {"insert", "clear", "setDefault", "remove", "pick"} : Becomes(c, [q EXCEPT !.pc = pc])
      \/ \E r \in Regions : Becomes(c, [q EXCEPT !.pc = "setDefault", !.at = r])
  <2>1. CASE RefuseKnown(c)
    <3>1. \/ Becomes(c, NoCloudRequest) \/ Becomes(c, [q EXCEPT !.pc = "insert"])
          \/ Becomes(c, [q EXCEPT !.pc = "clear"])
      BY <1>1, <2>1 DEF RefuseKnown, Ends
    <3> QED BY <3>1
  <2>2. CASE ClearDefault(c)
    <3>1. Becomes(c, [q EXCEPT !.pc = "setDefault"]) \/ Becomes(c, [q EXCEPT !.pc = "insert"])
      BY <1>1, <2>2 DEF ClearDefault
    <3> QED BY <3>1
  <2>3. CASE InsertRegions(c) \/ SetDefault(c)
    BY <2>3 DEF InsertRegions, SetDefault, Ends
  <2>4. CASE CountResources(c)
    <3>1. Becomes(c, NoCloudRequest) \/ Becomes(c, [q EXCEPT !.pc = "remove"])
      BY <1>1, <2>4 DEF CountResources, Ends
    <3> QED BY <3>1
  <2>5. CASE RemoveRegion(c)
    <3>1. Becomes(c, NoCloudRequest) \/ Becomes(c, [q EXCEPT !.pc = "pick"])
      BY <1>1, <2>5 DEF RemoveRegion, Ends
    <3> QED BY <3>1
  <2>6. CASE PickDefault(c)
    <3>1. \/ Becomes(c, NoCloudRequest)
          \/ \E r \in Regions : Becomes(c, [q EXCEPT !.pc = "setDefault", !.at = r])
      BY <1>1, <2>6 DEF PickDefault, Ends
    <3> QED BY <3>1
  <2> QED BY <2>1, <2>2, <2>3, <2>4, <2>5, <2>6
<1>7. CASE Becomes(c, NoCloudRequest)
  BY <1>2, <1>3, <1>7
<1>8. CASE \E pc \in {"insert", "clear", "setDefault", "remove", "pick"} : Becomes(c, [q EXCEPT !.pc = pc])
  <2>1. PICK pc \in {"insert", "clear", "setDefault", "remove", "pick"} : Becomes(c, [q EXCEPT !.pc = pc])
    BY <1>8
  <2> QED BY <1>2, <1>4, <2>1
<1>9. CASE \E r \in Regions : Becomes(c, [q EXCEPT !.pc = "setDefault", !.at = r])
  <2>1. PICK r \in Regions : Becomes(c, [q EXCEPT !.pc = "setDefault", !.at = r])
    BY <1>9
  <2> QED BY <1>2, <1>5, <2>1
<1> QED BY <1>6, <1>7, <1>8, <1>9

\* MirrorInv holds in every reachable state.
LEMMA CloudMirror == CloudSpec => []MirrorInv
<1>1. CloudInit => MirrorInv
  <2> SUFFICES ASSUME CloudInit PROVE MirrorInv
    OBVIOUS
  <2>1. NoCloudRequest.pc = "idle" /\ NoRow.life = "absent"
    BY DEF NoCloudRequest, NoRow
  <2>2. \A i \in Ids : resource[i].life = "absent"
    BY <2>1 DEF CloudInit
  <2>3. \A c \in Callers : request[c].pc = "idle"
    BY <2>1 DEF CloudInit
  <2> QED BY <2>2, <2>3 DEF MirrorInv, OneRow, Unused, Stored, SyncSteps
<1>2. BusyInv /\ MirrorInv /\ [CloudNext]_cloudVars => MirrorInv'
  <2> SUFFICES ASSUME BusyInv, MirrorInv, [CloudNext]_cloudVars PROVE MirrorInv'
    OBVIOUS
  <2>1. CASE UNCHANGED cloudVars
    BY <2>1, RestKeepsMirror DEF cloudVars
  <2>2. ASSUME NEW c \in Callers, CloudStep(c) PROVE MirrorInv'
    <3>1. CASE Fetch(c) \/ ListExisting(c) \/ DeleteMissing(c) \/ LookUp(c) \/ Save(c)
      BY <3>1, FetchMirror, ListMirror, DeleteMirror, LookUpMirror, SaveMirror
    <3>2. CASE ReportSync(c) \/ RemoveAccount(c) \/ AbandonRequest(c)
      BY <3>2, RequestsEnd, RestKeepsMirror DEF SyncSteps
    <3>3. CASE \/ RefuseKnown(c) \/ ClearDefault(c) \/ InsertRegions(c) \/ SetDefault(c)
               \/ CountResources(c) \/ RemoveRegion(c) \/ PickDefault(c)
      <4>1. UNCHANGED <<cloudMode, resource, lastResource>>
        BY <3>3 DEF RefuseKnown, ClearDefault, InsertRegions, SetDefault, CountResources, RemoveRegion,
                    PickDefault, At, Table
      <4>2. \A d \in Callers \ {c} : request'[d] = request[d]
        BY <3>3 DEF BusyInv, CloudTypeOK, Becomes, Ends, RefuseKnown, ClearDefault, InsertRegions, SetDefault,
                    CountResources, RemoveRegion, PickDefault
      <4>3. request'[c].pc \notin SyncSteps
        BY <3>3, RegionsStay
      <4> QED BY <4>1, <4>2, <4>3, RestKeepsMirror
    <3> QED BY <2>2, <3>1, <3>2, <3>3 DEF CloudStep
  <2>3. ASSUME NEW c \in Callers,
               \/ \E full \in BOOLEAN, R \in SUBSET Regions : SyncResources(c, full, R)
               \/ \E R \in SUBSET Regions, d \in Regions \cup {NoRegion} : CreateRegions(c, R, d)
               \/ \E r \in Regions : MakeDefault(c, r) \/ DeleteRegion(c, r)
               \/ DeleteAccount(c)
        PROVE  MirrorInv'
    BY <2>3, BeginMirror
  <2>4. CASE \E status \in {"enabled", "disabled"} : UpdateAccountStatus(status)
    BY <2>4, RestKeepsMirror DEF UpdateAccountStatus, Table
  <2>5. CASE \E i \in Ids : DeleteResource(i)
    <3>1. PICK k \in Ids : DeleteResource(k)
      BY <2>5
    <3> SUFFICES ASSUME MirrorsHeld
                 PROVE  OneRow' /\ Unused' /\ \A d \in Callers : request'[d].pc \notin SyncSteps
      BY <3>1 DEF MirrorInv, MirrorsHeld, Separate, DeleteResource
    <3>2. \A i \in Ids : /\ resource'[i].inst = resource[i].inst
                         /\ resource'[i].life = IF i = k THEN "deleted" ELSE resource[i].life
      BY <3>1 DEF DeleteResource, BusyInv, CloudTypeOK
    <3>3. OneRow' /\ Unused'
      BY <3>1, <3>2 DEF DeleteResource, MirrorInv, OneRow, Unused, Stored
    <3>4. \A d \in Callers : request'[d].pc \notin SyncSteps
      BY <3>1 DEF DeleteResource, Accept, MayOverlap, BusyInv, KindInv, MirrorsHeld, Separate, Pair, SyncSteps
    <3> QED BY <3>3, <3>4
  <2>6. CASE CloudNext
    BY <2>2, <2>3, <2>4, <2>5, <2>6 DEF CloudNext
  <2> QED BY <2>1, <2>6
<1> QED BY <1>1, <1>2, CloudBusy, PTL DEF CloudSpec

\* SyncMirrors: as long as synchronisations overlap neither each other nor the deletion of a
\* resource, one that reports success has one row for each instance fetched and, if full, no other,
\* and kept every row that was there before it unless a full one fetched its region without it,
\* whatever the regions, the instances and what the cloud answers (tree_cloud_service.go).
THEOREM CloudMirrors == CloudSpec => []SyncMirrors
<1>1. MirrorInv => SyncMirrors
  <2> SUFFICES ASSUME MirrorInv, MirrorsHeld, NEW c \in Callers, NEW q, q = request[c], q.pc = "report", ~q.failed
               PROVE  LET rows == {i \in Ids : Stored(i) /\ Home[resource[i].inst] \in q.handled}
                      IN /\ \A x \in q.fetched : \E i \in rows : resource[i].inst = x
                         /\ q.full => \A i \in rows : resource[i].inst \in q.fetched
                         /\ \A i, j \in rows : resource[i].inst = resource[j].inst => i = j
                         /\ \A i \in q.before :
                              ~Stored(i) => /\ q.full /\ Home[resource[i].inst] \in q.handled
                                            /\ resource[i].inst \notin q.fetched
    BY DEF SyncMirrors, MirrorsHeld
  <2>1. GotOK(q) /\ HeldOK(q) /\ DoneOK(q) /\ q.gone = {} /\ q.items = {} /\ OneRow
    BY DEF MirrorInv, SyncOK, SyncSteps
  <2>2. \A x \in q.fetched : \E i \in Ids : Stored(i) /\ resource[i].inst = x /\ Home[resource[i].inst] \in q.handled
    BY <2>1 DEF GotOK, DoneOK, RowsOf
  <2>3. q.full => \A i \in Ids : Stored(i) /\ Home[resource[i].inst] \in q.handled => resource[i].inst \in q.fetched
    BY <2>1 DEF DoneOK, Place
  <2> QED BY <2>1, <2>2, <2>3 DEF OneRow, HeldOK, Place
<1> QED BY <1>1, CloudMirror, PTL
====

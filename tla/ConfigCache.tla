---- MODULE ConfigCache ----
(*********************************************************************************)
(* The configurations of the monitoring instances: generated from the pools      *)
(* and their parts (scrape jobs, rules, send groups), served from Redis and      *)
(* kept in a table.  A pool whose hash is the one stored in Redis is not         *)
(* generated again.  Every change of a pool or a part starts a refresh, and      *)
(* a timer does: refreshes may run at the same time.                             *)
(*                                                                               *)
(*   list -> (check -> generate -> store -> hash)* -> lookup -> create -> update *)
(*                                                                               *)
(* The four caches are one algorithm.  They differ in what a pool's hash and     *)
(* configuration depend on, in which pools they leave out, and in which of a     *)
(* pool's instances get a configuration:                                         *)
(*   main     Prometheus and Alertmanager: the hash is of the pool's fields;     *)
(*            a pool with fields that are no good, or without parts, is left;    *)
(*   rules    alert rules: the same hash; only pools with support_alert; each    *)
(*            rule goes to one instance, and one without any gets nothing;       *)
(*   records  record rules: the hash is of the rules; only pools with            *)
(*            support_record; without rules, an empty configuration.             *)
(* A pool's fields are the columns its configuration and its hash depend on.     *)
(* Not so the order of its instances and RuleFilePath: they are left out.  A     *)
(* list of instances with a blank one among them is refused like an empty one    *)
(* (validateInstanceIPs), and stands for it.                                     *)
(*********************************************************************************)
EXTENDS Integers, Sequences

CONSTANTS
  Pools,        \* names of pools
  Ips,          \* of Prometheus instances
  Versions,     \* values of a pool's own fields
  Unfit,        \* those CreateBaseConfig refuses (main), or with support_alert or
                \* support_record off (rules, records)
  Contents,     \* values of its parts
  NoParts,      \* no job or rule: a value of the parts
  Allotted(_, _), \* the instances, of those given, that get some of these alert rules
  Absent,       \* no key, no hash, no pool
  Refreshers,   \* goroutines that refresh: 1, 2, ...
  MaxId,        \* bound: pools ever created
  ConfigModes   \* the modes a behaviour can have

ASSUME NoPartsAssumption == NoParts \notin Contents
ASSUME AbsentAssumption == Absent \notin Versions
ASSUME UnfitAssumption == Unfit \subseteq Versions
ASSUME AllottedAssumption ==
  \A ips \in SUBSET Ips, content \in Contents \cup {NoParts} : Allotted(ips, content) \subseteq ips
ASSUME RefreshersAssumption == Refreshers \subseteq Nat
ASSUME MaxIdAssumption == MaxId \in Nat
ASSUME ConfigModesAssumption ==
  ConfigModes \subseteq [cache : {"main", "rules", "records"},
                         versions : SUBSET Versions, \* values its pools' fields take
                         overlap : BOOLEAN,   \* refreshes run at the same time
                         faults : BOOLEAN,    \* queries and writes to Redis fail
                         changes : Nat]       \* bound on the changes of pools and parts

VARIABLES
  configMode,
  pool,      \* the table of pools
  parts,     \* the tables of jobs, rules and send groups: those of each pool, by id
  lastId,    \* ids given to pools so far
  served,    \* Redis: the configuration of each instance
  members,   \* Redis: the instances each pool, by id, was last generated for
  hash,      \* Redis: the hash of each pool, by name
  saved,     \* the table of configurations: the rows of each instance
  refresh,   \* each refresher: its step, the pools it has read, what it will save
  changes,   \* bound
  torn,      \* history: pools whose hash is not of the parts last generated
  contested, \* history: instances given to a pool before the refresh that takes them from
             \* another one
  reused     \* history: names used before, whose hash in Redis may not be of the pool that
             \* has the name now, or of what it was last generated under another name

configVars == <<configMode, pool, parts, lastId, served, members, hash, saved, refresh, changes, torn,
                contested, reused>>

Ids == 1..MaxId
AnyParts == Contents \cup {NoParts}
PoolRow == [id : Ids, ips : SUBSET Ips, fields : Versions]
NoPool == [id |-> 0, ips |-> {}, fields |-> Absent]
NoConfig == [fields |-> Absent, parts |-> NoParts, ips |-> {}]
NoHash == NoConfig
Config == [fields : Versions \cup {Absent}, parts : AnyParts, ips : (SUBSET Ips) \ {{}}]

Caching(cache) == configMode.cache = cache
Fit(row) == row.fields \notin Unfit

\* The rules of either kind do not depend on the pool's own fields.
ConfigOf(row, content) ==
  [fields |-> IF Caching("main") THEN row.fields ELSE Absent, parts |-> content, ips |-> row.ips]

HashOfIps(row, content) ==   \* mutant: the fields left out
  [fields |-> Absent, parts |-> NoParts, ips |-> row.ips]

\* CalculatePromHash, CalculateAlertHash: the pool's own columns.  The hash of the
\* record rules: the instances and the rules.
Hash(row, content) ==
  [fields |-> IF Caching("records") THEN Absent ELSE row.fields, ips |-> row.ips,
   parts |-> IF Caching("records") THEN content ELSE NoParts]

\* The instances that get a configuration.
Share(row, content) == IF Caching("rules") THEN Allotted(row.ips, content) ELSE row.ips

Listed(p) == pool[p] # NoPool
Nothing == [ip \in Ips |-> NoConfig]
Resting == [pc |-> "idle", todo |-> {}, list |-> [p \in Pools |-> NoPool],
            at |-> Absent, hash |-> NoHash, parts |-> NoParts, save |-> Nothing, create |-> {}, update |-> {}]

ConfigInit ==
  /\ configMode \in ConfigModes
  /\ pool = [p \in Pools |-> NoPool]
  /\ parts = [i \in Ids |-> NoParts]
  /\ lastId = 0
  /\ served = Nothing
  /\ members = [i \in Ids |-> {}]
  /\ hash = [p \in Pools |-> NoHash]
  /\ saved = [ip \in Ips |-> <<>>]
  /\ refresh = [r \in Refreshers |-> Resting]
  /\ changes = 0
  /\ torn = {} /\ contested = {} /\ reused = {}

(***************************************************************************)
(* Pools and their parts.                                                  *)
(***************************************************************************)
Change == changes < configMode.changes /\ changes' = changes + 1

\* CheckPoolIpExists
FreeFor(p, ips) == \A q \in Pools \ {p} : ips \cap pool[q].ips = {}

\* Instances another pool, or a refresh that read one, still has.
StillOf(id, ips) ==
  {ip \in ips : \/ \E i \in Ids \ {id} : ip \in members[i]
                \/ \E r \in Refreshers, p \in Pools :
                     refresh[r].list[p].id # id /\ ip \in refresh[r].list[p].ips}
UsedBefore(p) == hash[p] # NoHash \/ \E r \in Refreshers : refresh[r].list[p] # NoPool

\* The table of pools, after p was written.
SetPools(new, p) ==
  /\ Change
  /\ pool' = new
  /\ contested' = contested \cup StillOf(new[p].id, new[p].ips)
  /\ reused' = IF ~Listed(p) /\ UsedBefore(p) THEN reused \cup {p} ELSE reused
  /\ UNCHANGED <<configMode, served, members, hash, saved, refresh, torn>>

\* CreateMonitorScrapePool: the new id has no set of instances yet.  No instances, and an
\* URL that is no good, are let through.
CreatePool(p, ips, v) ==
  /\ ~Listed(p) /\ FreeFor(p, ips)
  /\ lastId < MaxId /\ lastId' = lastId + 1
  /\ SetPools([pool EXCEPT ![p] = [id |-> lastId', ips |-> ips, fields |-> v]], p)
  /\ UNCHANGED parts

\* UpdateMonitorScrapePool: q is the new name.  Nothing else of the request is checked.
UpdatePool(p, q, ips, v) ==
  /\ Listed(p) /\ FreeFor(p, ips)
  /\ q = p \/ ~Listed(q)
  /\ SetPools([pool EXCEPT ![p] = NoPool, ![q] = [pool[p] EXCEPT !.ips = ips, !.fields = v]], q)
  /\ UNCHANGED <<parts, lastId>>

\* DeleteMonitorScrapePool: no jobs are left; rules may be.  Its keys stay in Redis.
DeletePool(p) ==
  /\ Listed(p) /\ (Caching("main") => parts[pool[p].id] = NoParts)
  /\ SetPools([pool EXCEPT ![p] = NoPool], p)
  /\ UNCHANGED <<parts, lastId>>

\* Create, update and delete of a scrape job, a rule or a send group.  Not all of them
\* look whether there is such a pool.
SetParts(i, content) ==
  /\ parts[i] # content
  /\ Change
  /\ parts' = [parts EXCEPT ![i] = content]
  /\ UNCHANGED <<configMode, pool, lastId, served, members, hash, saved, refresh, torn, contested, reused>>

(***************************************************************************)
(* GenerateMainConfig.                                                     *)
(***************************************************************************)
ConfigSame == UNCHANGED <<configMode, pool, parts, lastId, changes, contested>>
RefreshTo(r, rec) == refresh' = [refresh EXCEPT ![r] = rec]

\* After every change, and by the timer.  (Which goroutine it is does not matter.)
BeginRefresh(r) ==
  /\ refresh[r].pc = "idle"
  /\ \A s \in Refreshers : s < r => configMode.overlap /\ refresh[s].pc # "idle"
  /\ configMode.overlap \/ \A s \in Refreshers : refresh[s].pc = "idle"
  /\ LET listed == {p \in Pools : Listed(p) /\ (Caching("main") \/ Fit(pool[p]))} IN
     RefreshTo(r, [Resting EXCEPT !.pc = "check", !.todo = listed,
                                  !.list = [p \in Pools |-> IF p \in listed THEN pool[p] ELSE NoPool]])
  /\ ConfigSame /\ UNCHANGED <<served, members, hash, saved, torn, reused>>

\* A pool without instances is passed over (validateInstanceIPs), and so is one with the
\* hash it had; the rules in the hash count as none when reading them fails.
CheckPool(r, p) ==
  LET c == refresh[r] IN
  /\ c.pc = "check" /\ p \in c.todo
  /\ \E content \in {parts[c.list[p].id]} \cup IF configMode.faults THEN {NoParts} ELSE {} :
       LET new == Hash(c.list[p], content) IN
       RefreshTo(r, IF c.list[p].ips = {} \/ hash[p] = new THEN [c EXCEPT !.todo = @ \ {p}]
                    ELSE [c EXCEPT !.todo = @ \ {p}, !.pc = "generate", !.at = p, !.hash = new])
  /\ ConfigSame /\ UNCHANGED <<served, members, hash, saved, torn, reused>>

\* A pool whose fields CreateBaseConfig refuses is left alone.  The parts are read again: so
\* is a pool without any, unless it is the record rules that are generated, and one whose
\* parts cannot be read.
GeneratePool(r) ==
  LET c == refresh[r]
      content == parts[c.list[c.at].id]
      Skip == RefreshTo(r, [c EXCEPT !.pc = "check", !.at = Absent, !.hash = NoHash])
  IN
  /\ c.pc = "generate"
  /\ IF ~Fit(c.list[c.at]) \/ (content = NoParts /\ ~Caching("records")) THEN Skip
     ELSE \/ RefreshTo(r, [c EXCEPT !.pc = "store", !.parts = content])
          \/ configMode.faults /\ Skip
  /\ ConfigSame /\ UNCHANGED <<served, members, hash, saved, torn, reused>>

\* Set and SAdd of every instance with a configuration; one whose Set failed counts as
\* stale, like those the pool no longer has or has no rule for: Del and SRem.
StorePool(r) ==
  LET c == refresh[r]
      row == c.list[c.at]
      share == Share(row, c.parts)
      config == ConfigOf(row, c.parts)
  IN
  /\ c.pc = "store"
  /\ \E failed \in IF configMode.faults THEN SUBSET share ELSE {{}} :
       LET done == share \ failed
           stale == members[row.id] \ done
       IN /\ served' = [ip \in Ips |-> IF ip \in done THEN config
                                       ELSE IF ip \in stale THEN NoConfig ELSE served[ip]]
          /\ members' = [members EXCEPT ![row.id] = done]
  /\ RefreshTo(r, [c EXCEPT !.pc = "hash",
                            !.save = [ip \in Ips |-> IF ip \in share THEN config ELSE c.save[ip]]])
  /\ ConfigSame /\ UNCHANGED <<hash, saved, torn, reused>>

\* Also when storing a configuration failed.
StoreHash(r) ==
  LET c == refresh[r] IN
  /\ c.pc = "hash"
  /\ hash' = [hash EXCEPT ![c.at] = c.hash]
  /\ torn' = IF c.hash = Hash(c.list[c.at], c.parts) THEN torn \ {c.at}
             ELSE torn \cup {c.at}
  /\ reused' = IF pool[c.at].id = c.list[c.at].id THEN reused \ {c.at} ELSE reused
  /\ RefreshTo(r, [c EXCEPT !.pc = "check", !.at = Absent, !.hash = NoHash, !.parts = NoParts])
  /\ ConfigSame /\ UNCHANGED <<served, members, saved>>

ToSave(c) == {ip \in Ips : c.save[ip] # NoConfig}

\* BatchSaveConfigs: an instance with rows has its last one updated, if the content differs.
Lookup(r) ==
  LET c == refresh[r]
      Stored(ip) == saved[ip] # <<>>
      LastRow(ip) == saved[ip][Len(saved[ip])]
  IN
  /\ c.pc = "check" /\ c.todo = {}
  /\ RefreshTo(r, IF ToSave(c) = {} THEN Resting
                  ELSE [c EXCEPT !.pc = "create",
                                 !.create = {ip \in ToSave(c) : ~Stored(ip)},
                                 !.update = {<<ip, Len(saved[ip])>> : ip \in
                                               {i \in ToSave(c) : Stored(i) /\ LastRow(i) # c.save[i]}}])
  /\ ConfigSame /\ UNCHANGED <<served, members, hash, saved, torn, reused>>

CreateRowsOfAll(r) ==   \* mutant: a row for every configuration
  LET c == refresh[r] IN
  /\ c.pc = "create"
  /\ saved' = [ip \in Ips |-> IF ip \in ToSave(c) THEN Append(saved[ip], c.save[ip]) ELSE saved[ip]]
  /\ RefreshTo(r, [c EXCEPT !.pc = "update"])
  /\ ConfigSame /\ UNCHANGED <<served, members, hash, torn, reused>>

\* Nothing makes the row of an instance unique.
CreateRows(r) ==
  LET c == refresh[r] IN
  /\ c.pc = "create"
  /\ saved' = [ip \in Ips |-> IF ip \in c.create THEN Append(saved[ip], c.save[ip]) ELSE saved[ip]]
  /\ RefreshTo(r, [c EXCEPT !.pc = "update"])
  /\ ConfigSame /\ UNCHANGED <<served, members, hash, torn, reused>>

UpdateRows(r) ==
  LET c == refresh[r] IN
  /\ c.pc = "update"
  /\ saved' = [ip \in Ips |-> [k \in DOMAIN saved[ip] |->
                  IF <<ip, k>> \in c.update THEN c.save[ip] ELSE saved[ip][k]]]
  /\ RefreshTo(r, Resting)
  /\ ConfigSame /\ UNCHANGED <<served, members, hash, torn, reused>>

\* The list or the save fails: the refresh ends.
FailRefresh(r) ==
  /\ configMode.faults /\ refresh[r].pc \in {"check", "create", "update"}
  /\ RefreshTo(r, Resting)
  /\ ConfigSame /\ UNCHANGED <<served, members, hash, saved, torn, reused>>

RefreshStep(r) ==
  \/ \E p \in Pools : CheckPool(r, p)
  \/ GeneratePool(r) \/ StorePool(r) \/ StoreHash(r) \/ Lookup(r) \/ CreateRows(r) \/ UpdateRows(r)

ConfigNext ==
  \/ \E p \in Pools, ips \in SUBSET Ips, v \in configMode.versions :
       CreatePool(p, ips, v) \/ \E q \in Pools : UpdatePool(p, q, ips, v)
  \/ \E p \in Pools : DeletePool(p)
  \/ \E i \in Ids, content \in AnyParts : SetParts(i, content)
  \/ \E r \in Refreshers : BeginRefresh(r) \/ RefreshStep(r) \/ FailRefresh(r)

ConfigSpec == ConfigInit /\ [][ConfigNext]_configVars

\* The timer begins refreshes for ever, and they go on.
ConfigStep == \E r \in Refreshers : BeginRefresh(r) \/ RefreshStep(r)
ConfigFairness == WF_configVars(ConfigStep)

(***************************************************************************)
(* Properties.                                                             *)
(***************************************************************************)
\* Type invariant of the configuration caches (Redis keys, tables and refreshes).
ConfigTypeOK ==
  /\ pool \in [Pools -> PoolRow \cup {NoPool}] /\ parts \in [Ids -> AnyParts]
  /\ served \in [Ips -> Config \cup {NoConfig}]
  /\ members \in [Ids -> SUBSET Ips]
  /\ \A ip \in Ips : saved[ip] \in Seq(Config)
  /\ \A r \in Refreshers :
       /\ refresh[r].pc \in {"idle", "check", "generate", "store", "hash", "create", "update"}
       /\ refresh[r].pc \in {"generate", "store", "hash"} =>
            refresh[r].at \in Pools /\ refresh[r].list[refresh[r].at] # NoPool
  /\ torn \subseteq Pools /\ contested \subseteq Ips /\ reused \subseteq Pools

AtRest == \A r \in Refreshers : refresh[r].pc = "idle"
Orderly == ~configMode.overlap /\ ~configMode.faults
PartsOf(p) == IF Listed(p) THEN parts[pool[p].id] ELSE NoParts

\* Every instance of the pool has what one generation of it gives, whichever the parts were:
\* those it has now, where the hash covers them.
ServedWhole(p) ==
  \E content \in AnyParts :
    /\ Caching("records") => content = PartsOf(p)
    /\ \A ip \in pool[p].ips \ contested :
         served[ip] = IF ip \in Share(pool[p], content) THEN ConfigOf(pool[p], content) ELSE NoConfig

\* Pools that every refresh generates, unless they have their hash.
Generated(p) == Fit(pool[p]) /\ (PartsOf(p) # NoParts \/ Caching("records"))

\* While refreshes do not overlap and nothing fails, every instance of a pool is served
\* what the pool asks for once the changes stop: the hash skips no pool it should not,
\* and cleaning up after one pool takes nothing from another (GenerateMainConfig).  Not so
\* a pool whose name was used before, by another or by itself: it may be skipped for ever
\* on the hash of that time.
EventuallyServed ==
  Orderly ~> \A p \in Pools \ (torn \cup reused) : Generated(p) => ServedWhole(p)

\* Between refreshes that do not overlap and do not fail, the table of configurations
\* has one row per instance that is served one, with the same content (BatchSaveConfigs).
SavedIsServed ==
  Orderly /\ AtRest =>
    \A ip \in Ips \ contested : served[ip] # NoConfig => saved[ip] = <<served[ip]>>

\* A pool's hash in Redis says that it was generated: while refreshes do not overlap and
\* nothing fails, the instances of a pool that the next refresh skips are served what one
\* generation from its fields gives, and from its parts where the hash covers them.  (Not a
\* name used before, until its hash is stored anew; not a torn pool: rules added and removed
\* again around the two reads of a refresh stay served under the hash of having none.)
HashTellsTruth ==
  Orderly /\ AtRest =>
    \A p \in Pools \ (torn \cup reused) : hash[p] = Hash(pool[p], PartsOf(p)) => ServedWhole(p)

\* Redis, its hashes and the table tell one story between refreshes.
StoresAgree == SavedIsServed /\ HashTellsTruth

\* What the refresh after a change of a job, a rule or a send group is for: the
\* configuration that is served has the parts the pool has now.
PartsAreServed ==
  Orderly ~>
    \A p \in Pools \ reused : \A ip \in pool[p].ips \ contested :
      PartsOf(p) = NoParts \/ served[ip].parts = PartsOf(p)
====

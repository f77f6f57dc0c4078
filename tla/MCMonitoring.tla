---- MODULE MCMonitoring ----
(****************************************************************************)
(* The instance of the monitoring components: the configuration caches, the *)
(* rota and the alert webhook.  They share no variable, so every behaviour  *)
(* explores one of them while the others rest in an initial state.          *)
(****************************************************************************)
EXTENDS AlertEvent, OnDuty, ConfigCache

CONSTANTS f1, f2, m1, m2, m3

VARIABLE part   \* the component the behaviour explores
monitoringVars == <<part, eventVars, dutyVars, configVars>>

Alert(f, s) == [fp |-> f, status |-> s]
mcMessages ==
  {<<Alert(f1, "firing")>>, <<Alert(f1, "resolved")>>, <<Alert(f1, "firing"), Alert(f2, "firing")>>}

EventMode(some, ops, messages, requests) ==
  [ops |-> ops, messages |-> messages, requests |-> requests,
   overlap |-> "overlap" \in some, faults |-> "faults" \in some,
   upgrades |-> "upgrades" \in some, staffed |-> "staffed" \in some]
mcEventModes ==
  {EventMode({"upgrades", "staffed"}, {}, 4, 0),
   EventMode({"upgrades", "staffed"}, Operations, 1, 3),
   EventMode({"overlap", "upgrades", "staffed"}, Operations, 2, 1),
   EventMode({"overlap", "upgrades", "staffed"}, Operations, 1, 2),
   EventMode({"overlap", "faults", "upgrades", "staffed"}, {"silence", "claim"}, 1, 2),
   EventMode({"overlap", "faults"}, {"claim"}, 1, 1)}

mcRosters == {<<m1, m2, m3>>, <<m1, m3>>}
DutyMode(shiftDays, days, some) ==
  [shiftDays |-> shiftDays, days |-> days, gaps |-> "gaps" \in some, edits |-> "edits" \in some,
   overlap |-> "overlap" \in some, midnight |-> "midnight" \in some, changes |-> "changes" \in some]
mcDutyModes ==
  {DutyMode(n, MaxDays, {}) : n \in 1..3} \cup
  {DutyMode(1, 2, {"changes"}), DutyMode(1, 1, {"changes", "overlap"}), DutyMode(1, 1, {"changes", "edits"}),
   DutyMode(2, 4, {"overlap", "midnight"}), DutyMode(2, 3, {"gaps", "edits"})}

\* One rule for one instance, or rules for all.
mcAllotted(ips, content) == IF content = 1 THEN {ip \in ips : ip = CHOOSE i \in ips : TRUE} ELSE ips
ConfigMode(cache, some, versions, n) ==
  [cache |-> cache, versions |-> versions, changes |-> n,
   overlap |-> "overlap" \in some, faults |-> "faults" \in some]
mcConfigModes ==
  {ConfigMode("main", {}, Versions, 3), ConfigMode("main", {}, {1}, 4),
   ConfigMode("rules", {}, {1, 3}, 3), ConfigMode("records", {}, {1}, 3),
   ConfigMode("records", {"overlap"}, {1}, 1), ConfigMode("main", {"faults"}, Versions, 2)}

Rests(mode, modes) == mode = CHOOSE m \in modes : TRUE

MonitoringInit ==
  /\ part \in {"event", "duty", "config"}
  /\ EventInit /\ DutyInit /\ ConfigInit
  /\ part # "event" => Rests(eventMode, EventModes)
  /\ part # "duty" => Rests(dutyMode, DutyModes) /\ Rests(group.members, Rosters)
  /\ part # "config" => Rests(configMode, ConfigModes)

EventMoves == part = "event" /\ UNCHANGED <<part, dutyVars, configVars>>
DutyMoves == part = "duty" /\ UNCHANGED <<part, eventVars, configVars>>
ConfigMoves == part = "config" /\ UNCHANGED <<part, eventVars, dutyVars>>

MonitoringNext ==
  \/ EventMoves /\ EventNext
  \/ DutyMoves /\ DutyNext
  \/ ConfigMoves /\ ConfigNext

\* EventFairness, DutyFairness and ConfigFairness, each for its component.
MonitoringSpec ==
  /\ MonitoringInit /\ [][MonitoringNext]_monitoringVars
  /\ WF_monitoringVars(\/ EventMoves /\ DispatchSome
                       \/ DutyMoves /\ DutyStep
                       \/ ConfigMoves /\ ConfigStep)
  /\ \A t \in Tasks : WF_monitoringVars(EventMoves /\ TaskStep(t))

\* Type invariants of the three components.
MonitoringTypeOK == EventTypeOK /\ DutyTypeOK /\ ConfigTypeOK
====

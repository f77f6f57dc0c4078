---- MODULE MCConfigCache ----
\* The smallest instance of the configuration caches whose hash leaves the parts out.
EXTENDS ConfigCache

\* Not the alert rules: every instance.
mcAllotted(ips, content) == ips
mcConfigModes ==
  {[cache |-> "main", versions |-> Versions, overlap |-> FALSE, faults |-> FALSE, changes |-> 3]}
ConfigFairSpec == ConfigSpec /\ ConfigFairness
====

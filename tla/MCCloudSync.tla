---- MODULE MCCloudSync ----
\* The smallest instance of the synchronisation: one account, one region, one instance,
\* requests that follow one another.
EXTENDS CloudSync

CONSTANTS ra, i1

mcHome == [i \in {i1} |-> ra]
mcCloudModes == {[overlap |-> {}, faults |-> FALSE, requests |-> 2]}
====

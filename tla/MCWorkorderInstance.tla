---- MODULE MCWorkorderInstance ----
(***************************************************************************)
(* Small processes and requests for WorkorderInstance.                      *)
(***************************************************************************)
EXTENDS WorkorderInstance, TLC

CONSTANTS u1, u2, u3   \* u3 is a user who was removed

mcStep(id, type, assigneeType, ids, actions) ==
  [id |-> id, type |-> type, assigneeType |-> assigneeType,
   assigneeIds |-> ids, actions |-> actions]

mcLink(a, b) == [from |-> a, to |-> b]

\* Approval by u1, then a task for whoever is assigned, then the end.
mcLinear ==
  [steps |-> <<mcStep("s", "start", "", {}, {}),
               mcStep("a", "approval", "user", {u1}, {"return", "complete"}),
               mcStep("t", "task", "user", {}, {}),
               mcStep("e", "end", "system", {}, {"cancel"})>>,
   connections |-> <<mcLink("s", "a"), mcLink("a", "t"), mcLink("t", "e")>>]

\* The end comes first in the list, the approval can fall back to the start,
\* nothing connects the task, which names only a removed user.
mcLoop ==
  [steps |-> <<mcStep("e", "end", "user", {}, {"submit"}),
               mcStep("t", "task", "user", {u3}, {}),
               mcStep("s", "start", "user", {}, {}),
               mcStep("a", "approval", "user", {}, {"complete"})>>,
   connections |-> <<mcLink("s", "a"), mcLink("a", "s"), mcLink("e", "t"), mcLink("e", "a")>>]

mcBoth   == {mcLinear, mcLoop}
mcOnlyLinear == {mcLinear}
mcOnlyLoop   == {mcLoop}

mcKeepStatus == {[status |-> Unset, completed |-> FALSE]}
mcOpenEdit   == [status : {"Pending", Unset}, completed : {FALSE}]

mcNotCompleted == Statuses \ {"Completed"}
mcFresh        == {"Draft", "Pending"}

\* Which goroutine serves which request makes no difference.
mcSymmetry == Permutations(Workers)

====

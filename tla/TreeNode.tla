---- MODULE TreeNode ----
(***************************************************************************)
(* The service tree: rows of cl_tree_node with a parent, a level and a leaf *)
(* flag.  Handlers are cut at their queries; only DeleteNode opens a        *)
(* transaction.                                                             *)
(*                                                                         *)
(*   create   [level] -> insert [-> mark]                                   *)
(*   update   write | [parent -> walk* -> level ->] write                   *)
(*                              [-> countOld -> flagOld] [-> mark]          *)
(*   delete   children -> count -> commit                                   *)
(*                                                                         *)
(* Which kinds of requests may overlap is part of a behaviour (mode), so    *)
(* that a property can say which overlaps it survives.                      *)
(***************************************************************************)
EXTENDS Integers

CONSTANTS
  Nodes,       \* ids
  Root,        \* parent_id 0
  Servers,     \* goroutines serving the API
  Modes,       \* the modes a behaviour can have
  SentFlags,   \* is_leaf of a request; "zero" is a request without it
  MaxRequests  \* bound on a behaviour

LeafFlags == {"zero", "yes", "no"}   \* is_leaf: 0, IsLeafYes, IsLeafNo
Kinds == {"create", "update", "delete"}
Overlap(a, b) == {a, b}
AllOverlaps == {Overlap(a, b) : a, b \in Kinds}

ASSUME RootAssumption == Root \notin Nodes
ASSUME FlagsAssumption == SentFlags \subseteq LeafFlags
ASSUME ModesAssumption == Modes \subseteq [overlap : SUBSET AllOverlaps, faults : BOOLEAN]

VARIABLES
  mode,       \* which requests overlap, and whether queries fail
  node,       \* the table
  call,       \* each goroutine: its handler, what it has read
  requests,
  moved,      \* history: nodes whose parent got another level after they were placed
  requested   \* history: nodes whose leaf flag was last written from a request

treeVars == <<mode, node, call, requests, moved, requested>>

Parents == Nodes \cup {Root}

NoNode == [life |-> "absent", parent |-> Root, level |-> 0, leaf |-> "zero"]
NoRequest == [pc |-> "idle", kind |-> "create", node |-> Root, to |-> Root, from |-> Root,
              cur |-> Root, level |-> 1, leaf |-> "zero", empty |-> FALSE]

TreeInit ==
  /\ mode \in Modes
  /\ node = [n \in Nodes |-> NoNode]
  /\ call = [s \in Servers |-> NoRequest]
  /\ requests = 0
  /\ moved = {} /\ requested = {}

Exists(n) == n \in Nodes /\ node[n].life = "live"
Children(p) == {n \in Nodes : node[n].life = "live" /\ node[n].parent = p}

\* What "SELECT parent_id WHERE id = n" leaves in a variable that was zero.
ParentOf(n) == IF Exists(n) THEN node[n].parent ELSE Root

\* Update("is_leaf", ...): no row matches when the node is gone.
FlagWrite(n, leaf) ==
  IF Exists(n)
  THEN /\ node' = [node EXCEPT ![n].leaf = leaf]
       /\ requested' = requested \ {n}
  ELSE UNCHANGED <<node, requested>>

(***************************************************************************)
(* Requests.                                                                *)
(***************************************************************************)
Begin(s, c) ==
  /\ call[s].pc = "idle"
  /\ \A t \in Servers : call[t].pc = "idle" \/ Overlap(c.kind, call[t].kind) \in mode.overlap
  /\ call' = [call EXCEPT ![s] = c]
  /\ requests < MaxRequests /\ requests' = requests + 1

Done(s) == call' = [call EXCEPT ![s] = NoRequest]
GoTo(s, pc) == call' = [call EXCEPT ![s].pc = pc]

Reads == UNCHANGED <<mode, node, moved, requested>>

\* CreateNode: the parent exists.
CreateNode(s, p, leaf) ==
  /\ p = Root \/ Exists(p)
  /\ Begin(s, [NoRequest EXCEPT !.pc = IF p = Root THEN "insert" ELSE "level", !.to = p,
                                !.leaf = IF leaf = "zero" THEN "yes" ELSE leaf])
  /\ Reads

\* The level of the parent, of CreateNode and of a move.
ReadLevel(s) ==
  /\ call[s].pc = "level"
  /\ LET parentLevel == IF Exists(call[s].to) THEN node[call[s].to].level ELSE 0
         next == IF call[s].kind = "create" THEN "insert" ELSE "write"
     IN call' = [call EXCEPT ![s] = [@ EXCEPT !.pc = next, !.level = parentLevel + 1]]
  /\ Reads /\ UNCHANGED requests

Insert(s) ==
  /\ call[s].pc = "insert"
  /\ \E n \in Nodes :
       /\ node[n].life = "absent"
       /\ node' = [node EXCEPT ![n] = [life |-> "live", parent |-> call[s].to,
                                       level |-> call[s].level, leaf |-> call[s].leaf]]
       /\ requested' = IF call[s].leaf = "no" THEN requested \cup {n} ELSE requested
  /\ IF call[s].to = Root THEN Done(s) ELSE GoTo(s, "mark")
  /\ UNCHANGED <<mode, requests, moved>>

\* The (new) parent is no leaf any more.
MarkParent(s) ==
  /\ call[s].pc = "mark"
  /\ FlagWrite(call[s].to, "no")
  /\ Done(s)
  /\ UNCHANGED <<mode, requests, moved>>

\* UpdateNode, also on behalf of MoveNode (which sends no leaf flag): the node
\* is read; nothing more is checked when its parent stays.
UpdateNode(s, n, p, leaf) ==
  /\ Exists(n)
  /\ LET stays == p = node[n].parent IN
     Begin(s, [NoRequest EXCEPT !.kind = "update", !.node = n, !.to = p, !.leaf = leaf,
                 !.from = node[n].parent,
                 !.level = IF stays THEN node[n].level ELSE 1,
                 !.pc = IF stays \/ p = Root THEN "write" ELSE "parent"])
  /\ Reads

CheckParentOnly(s) ==   \* mutant: no walk towards the root
  LET c == call[s] IN
  /\ c.pc = "parent"
  /\ IF Exists(c.to) /\ c.to # c.node
     THEN call' = [call EXCEPT ![s] = [c EXCEPT !.pc = "level", !.cur = Root]]
     ELSE Done(s)
  /\ Reads /\ UNCHANGED requests

\* The new parent exists and is not the node itself.
CheckParent(s) ==
  LET c == call[s] IN
  /\ c.pc = "parent"
  /\ IF Exists(c.to) /\ c.to # c.node
     THEN call' = [call EXCEPT ![s] = [c EXCEPT !.pc = "walk", !.cur = c.to]]
     ELSE Done(s)
  /\ Reads /\ UNCHANGED requests

\* One turn of the loop that looks for the node among the ancestors of its new parent.
Walk(s) ==
  LET c == call[s]
      up == ParentOf(c.cur)
  IN
  /\ c.pc = "walk"
  /\ IF up = c.node THEN Done(s)
     ELSE call' = [call EXCEPT ![s] = [c EXCEPT !.cur = up,
                                                !.pc = IF up = Root THEN "level" ELSE "walk"]]
  /\ Reads /\ UNCHANGED requests

AfterMove(c) == IF c.to # Root THEN "mark" ELSE "done"

AfterWrite(c) ==
  IF c.to = c.from THEN "done" ELSE IF c.from # Root THEN "countOld" ELSE AfterMove(c)

Continue(s, pc) == IF pc = "done" THEN Done(s) ELSE GoTo(s, pc)

\* Updates with a map: every column, zero or not.
Write(s) ==
  LET c == call[s] IN
  /\ c.pc = "write"
  /\ IF Exists(c.node)
     THEN /\ node' = [node EXCEPT ![c.node] = [@ EXCEPT !.parent = c.to, !.level = c.level,
                                                         !.leaf = c.leaf]]
          /\ requested' = requested \cup {c.node}
          /\ moved' = (moved \ (IF c.to # c.from THEN {c.node} ELSE {})) \cup
                        (IF c.level # node[c.node].level THEN Children(c.node) ELSE {})
     ELSE UNCHANGED <<node, requested, moved>>
  /\ Continue(s, AfterWrite(c))
  /\ UNCHANGED <<mode, requests>>

\* The children the old parent has left.
CountOld(s) ==
  LET c == call[s] IN
  /\ c.pc = "countOld"
  /\ \/ call' = [call EXCEPT ![s] = [c EXCEPT !.pc = "flagOld", !.empty = Children(c.from) = {}]]
     \/ mode.faults /\ Continue(s, AfterMove(c))
  /\ Reads /\ UNCHANGED requests

FlagOldNo(s) ==   \* mutant: the flag of the old parent is cleared whatever was counted
  /\ call[s].pc = "flagOld"
  /\ FlagWrite(call[s].from, "no")
  /\ Continue(s, AfterMove(call[s]))
  /\ UNCHANGED <<mode, requests, moved>>

FlagOld(s) ==
  /\ call[s].pc = "flagOld"
  /\ FlagWrite(call[s].from, IF call[s].empty THEN "yes" ELSE "no")
  /\ Continue(s, AfterMove(call[s]))
  /\ UNCHANGED <<mode, requests, moved>>

DeleteNode(s, n) ==
  /\ Exists(n)
  /\ Begin(s, [NoRequest EXCEPT !.kind = "delete", !.node = n, !.from = node[n].parent,
                                !.pc = "children"])
  /\ Reads

CheckChildrenNot(s) ==   \* mutant: a node with children is deleted too
  /\ call[s].pc = "children"
  /\ GoTo(s, "count")
  /\ Reads /\ UNCHANGED requests

\* Before the transaction: a node with children is not deleted.
CheckChildren(s) ==
  /\ call[s].pc = "children"
  /\ IF Children(call[s].node) = {} THEN GoTo(s, "count") ELSE Done(s)
  /\ Reads /\ UNCHANGED requests

\* In the transaction: what the parent has left once the node is gone.
CountRemaining(s) ==
  LET c == call[s] IN
  /\ c.pc = "count"
  /\ call' = [call EXCEPT ![s] = [c EXCEPT !.pc = "commit",
                                           !.empty = Children(c.from) \subseteq {c.node}]]
  /\ Reads /\ UNCHANGED requests

CommitDelete(s) ==
  LET c == call[s] IN
  /\ c.pc = "commit"
  /\ node' = [n \in Nodes |->
                CASE n = c.node -> [node[n] EXCEPT !.life = "deleted"]
                  [] n = c.from /\ n # c.node /\ Exists(n) ->
                       [node[n] EXCEPT !.leaf = IF c.empty THEN "yes" ELSE "no"]
                  [] OTHER -> node[n]]
  /\ requested' = requested \ {c.from}
  /\ Done(s)
  /\ UNCHANGED <<mode, requests, moved>>

\* A query fails, or the client goes away.
AbortRequest(s) ==
  /\ mode.faults /\ call[s].pc # "idle"
  /\ Done(s)
  /\ Reads /\ UNCHANGED requests

ServeStep(s) ==
  \/ ReadLevel(s) \/ Insert(s) \/ MarkParent(s)
  \/ CheckParent(s) \/ Walk(s) \/ Write(s) \/ CountOld(s) \/ FlagOld(s)
  \/ CheckChildren(s) \/ CountRemaining(s) \/ CommitDelete(s)

TreeNext ==
  \E s \in Servers :
    \/ \E p \in Parents, leaf \in SentFlags : CreateNode(s, p, leaf)
    \/ \E n \in Nodes, p \in Parents, leaf \in SentFlags : UpdateNode(s, n, p, leaf)
    \/ \E n \in Nodes : DeleteNode(s, n)
    \/ ServeStep(s) \/ AbortRequest(s)

TreeSpec == TreeInit /\ [][TreeNext]_treeVars

(***************************************************************************)
(* Properties.                                                              *)
(***************************************************************************)
Apart(a, b) == Overlap(a, b) \notin mode.overlap

\* Type invariant of the service tree (tree_node_dao.go, rows and handlers).
TreeTypeOK ==
  /\ node \in [Nodes -> [life : {"absent", "live", "deleted"}, parent : Parents,
                         level : Nat, leaf : LeafFlags]]
  /\ \A s \in Servers :
       /\ call[s].pc \in {"idle", "level", "insert", "mark", "parent", "walk", "write", "countOld",
                         "flagOld", "children", "count", "commit"}
       /\ call[s].kind \in Kinds /\ call[s].level \in Nat
       /\ {call[s].node, call[s].to, call[s].from, call[s].cur} \subseteq Parents
  /\ moved \subseteq Nodes /\ requested \subseteq Nodes

\* Moves never close a cycle as long as no two updates overlap, whatever creates
\* and deletes do meanwhile: every set of nodes has one whose parent is outside.
\* (UpdateNode's check against its own descendants reads one row at a time.)
Forest ==
  Apart("update", "update") =>
    \A S \in SUBSET Nodes : S # {} => \E n \in S : ParentOf(n) \notin S

\* No node hangs under a deleted one as long as deletes overlap neither creates
\* nor updates: DeleteNode counts the children long before it deletes, CreateNode
\* and UpdateNode look at the parent long before they write.
NoOrphans ==
  Apart("create", "delete") /\ Apart("update", "delete") =>
    \A n \in Nodes : Exists(n) /\ node[n].parent # Root => Exists(node[n].parent)

\* The level of a node is one more than its parent's, except under a node that a
\* move gave another level: UpdateNode does not go down to the descendants.
LevelFollowsParent ==
  Apart("create", "update") /\ Apart("update", "update")
  /\ Apart("create", "delete") /\ Apart("update", "delete") =>
    \A n \in Nodes \ moved :
      Exists(n) => node[n].level = IF node[n].parent = Root THEN 1
                                   ELSE node[node[n].parent].level + 1

\* Between requests the leaf flag of a node says whether it has children, unless
\* the last to write it was a request about the node itself: the two parents of a
\* move, and the parent of a deletion, are put right.
LeafFlagAgrees ==
  (/\ mode.overlap \subseteq {Overlap("create", "create")} /\ ~mode.faults
   /\ \A s \in Servers : call[s].pc = "idle")
  => \A n \in Nodes \ requested :
       Exists(n) => node[n].leaf = IF Children(n) = {} THEN "yes" ELSE "no"

\* The two columns computed from the shape of the tree agree with it.
ColumnsAgree == LevelFollowsParent /\ LeafFlagAgrees
====

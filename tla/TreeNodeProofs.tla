---- MODULE TreeNodeProofs ----
(***************************************************************************)
(* Theorems of TreeNode, for any nodes, goroutines and modes: no cycle when *)
(* updates do not overlap, no orphan when deletes overlap neither creates   *)
(* nor updates.  The inductive invariant says of each request in progress   *)
(* what it has found out and why that still holds when it writes.           *)
(***************************************************************************)
EXTENDS TreeNode, TLAPS

Pcs == {"idle", "level", "insert", "mark", "parent", "walk", "write", "countOld",
        "flagOld", "children", "count", "commit"}
NodeType == [life : {"absent", "live", "deleted"}, parent : Parents, level : Nat, leaf : LeafFlags]
CallType == [pc : Pcs, kind : Kinds, node : Parents, to : Parents, from : Parents,
             cur : Parents, level : Nat, leaf : LeafFlags, empty : BOOLEAN]

Types ==
  /\ mode \in Modes
  /\ node \in [Nodes -> NodeType]
  /\ call \in [Servers -> CallType]
  /\ moved \subseteq Nodes /\ requested \subseteq Nodes

\* Requests in progress overlap only as the mode says.
Exclusive ==
  \A s, t \in Servers :
    s # t /\ call[s].pc # "idle" /\ call[t].pc # "idle"
    => Overlap(call[s].kind, call[t].kind) \in mode.overlap

Known(n) == n = Root \/ node[n].life # "absent"

ParentsKnown == \A n \in Nodes : Known(node[n].parent)

UpdatesApart == Apart("update", "update")
DeletesApart == Apart("create", "delete") /\ Apart("update", "delete")

\* What the walk has covered: nodes that exist, none of them the moved one, whose
\* parents are covered too, are the node to read next, or are the root.
Covered(c, P) ==
  /\ c.node \notin P /\ c.cur # c.node
  /\ c.to \in P \cup {c.cur}
  /\ Known(c.cur)
  /\ \A x \in P : node[x].life # "absent" /\ ParentOf(x) \in P \cup {c.cur, Root}

KindOK(c) ==
  /\ c.pc \in {"parent", "walk", "write", "countOld", "flagOld"} => c.kind = "update"
  /\ c.pc \in {"children", "count", "commit"} => c.kind = "delete"
  /\ c.pc = "insert" => c.kind = "create"
  /\ c.pc = "level" => c.kind # "delete"
  /\ c.pc \in {"level", "write"} => c.cur = Root
  /\ c.pc \in {"parent", "walk", "write"} => c.node \in Nodes
  /\ c.pc = "level" /\ c.kind = "update" => c.node \in Nodes
  /\ c.pc \in {"mark", "level", "parent", "walk"} => c.to \in Nodes
  /\ c.pc \in {"countOld", "flagOld"} => c.from \in Nodes
  /\ c.pc \in {"children", "count", "commit"} => c.node \in Nodes

Moving(c) == c.kind = "update" /\ c.pc \in {"parent", "walk", "level", "write"}
Placing(c) == c.kind # "delete" /\ c.pc \in {"walk", "level", "insert", "write"}

ToKnown(c) == Placing(c) => Known(c.to)

\* While no other update runs, the moved node stays where it was.
FromHolds(c) ==
  UpdatesApart /\ Moving(c) => node[c.node].life # "absent" /\ node[c.node].parent = c.from

Walked(c) ==
  UpdatesApart /\ Moving(c) /\ c.pc # "parent" /\ c.to # Root /\ c.to # c.from
  => \E P \in SUBSET Nodes : Covered(c, P)

ToExists(c) == DeletesApart /\ Placing(c) /\ c.to # Root => Exists(c.to)

Childless(c) == DeletesApart /\ c.pc \in {"count", "commit"} => Children(c.node) = {}

CallOK(c) ==
  KindOK(c) /\ ToKnown(c) /\ FromHolds(c) /\ Walked(c) /\ ToExists(c) /\ Childless(c)

TreeInv ==
  /\ Types /\ Exclusive /\ ParentsKnown
  /\ \A s \in Servers : CallOK(call[s])
  /\ Forest /\ NoOrphans

(***************************************************************************)
(* Small facts.                                                             *)
(***************************************************************************)
LEMMA OverlapSymmetric == \A a, b : Overlap(a, b) = Overlap(b, a)
  BY DEF Overlap

LEMMA NoRequestType == NoRequest \in CallType /\ NoRequest.pc = "idle"
  BY DEF NoRequest, CallType, Pcs, Kinds, Parents, LeafFlags

LEMMA IdleOK ==
  ASSUME NEW c, c.pc = "idle"
  PROVE  CallOK(c)
  BY DEF CallOK, KindOK, ToKnown, FromHolds, Walked, ToExists, Childless, Moving, Placing

LEMMA ParentOfType ==
  ASSUME Types, NEW n \in Parents
  PROVE  ParentOf(n) \in Parents
  BY DEF Types, NodeType, ParentOf, Exists, Parents

LEMMA ParentOfKnown ==
  ASSUME Types, ParentsKnown, NEW n \in Parents
  PROVE  Known(ParentOf(n))
  BY DEF Types, ParentsKnown, ParentOf, Exists, Known

\* Nothing the invariant says of a request depends on levels and flags.
SameShape ==
  \A n \in Nodes : node'[n].life = node[n].life /\ node'[n].parent = node[n].parent

LEMMA ShapeKept ==
  ASSUME Types, Types', SameShape, mode' = mode
  PROVE  /\ \A n \in Parents : ParentOf(n)' = ParentOf(n) /\ (Exists(n)' <=> Exists(n))
         /\ \A n \in Parents : Known(n)' <=> Known(n)
         /\ \A n \in Parents : Children(n)' = Children(n)
  BY RootAssumption DEF Types, SameShape, ParentOf, Exists, Known, Children, Parents

LEMMA InitInv == TreeInit => TreeInv
  <1> SUFFICES ASSUME TreeInit PROVE TreeInv
    OBVIOUS
  <1>1. NoNode \in NodeType /\ NoNode.life = "absent" /\ NoNode.parent = Root
    BY DEF NoNode, NodeType, Parents, LeafFlags
  <1>2. Types
    BY <1>1, NoRequestType DEF TreeInit, Types
  <1>3. Exclusive
    BY NoRequestType DEF TreeInit, Exclusive
  <1>4. ParentsKnown
    BY <1>1 DEF TreeInit, ParentsKnown, Known
  <1>5. \A s \in Servers : CallOK(call[s])
    BY NoRequestType, IdleOK DEF TreeInit
  <1>6. Forest
    BY <1>1, RootAssumption DEF TreeInit, Forest, ParentOf, Exists
  <1>7. NoOrphans
    BY <1>1 DEF TreeInit, NoOrphans, Exists
  <1> QED
    BY <1>2, <1>3, <1>4, <1>5, <1>6, <1>7 DEF TreeInv

(***************************************************************************)
(* Steps that leave the shape of the tree alone.                            *)
(***************************************************************************)
LEMMA CallKept ==
  ASSUME Types, Types', SameShape, mode' = mode, NEW c \in CallType, CallOK(c)
  PROVE  CallOK(c)'
  <1>1. /\ \A n \in Parents : ParentOf(n)' = ParentOf(n) /\ (Exists(n)' <=> Exists(n))
        /\ \A n \in Parents : Known(n)' <=> Known(n)
        /\ \A n \in Parents : Children(n)' = Children(n)
    BY ShapeKept
  <1>2. c.node \in Parents /\ c.to \in Parents /\ c.cur \in Parents /\ c.from \in Parents
    BY DEF CallType
  <1>3. (UpdatesApart' <=> UpdatesApart) /\ (DeletesApart' <=> DeletesApart)
    BY DEF UpdatesApart, DeletesApart, Apart
  <1>4. KindOK(c)'
    BY DEF CallOK, KindOK
  <1>5. ToKnown(c)'
    BY <1>1, <1>2 DEF CallOK, ToKnown, Placing
  <1>6. FromHolds(c)'
    BY <1>3, RootAssumption DEF CallOK, FromHolds, Moving, SameShape, KindOK
  <1>7. Walked(c)'
    <2> SUFFICES ASSUME UpdatesApart, Moving(c), c.pc # "parent", c.to # Root, c.to # c.from
                 PROVE  \E P \in SUBSET Nodes : Covered(c, P)'
      BY <1>3 DEF Walked, Moving
    <2>1. PICK P \in SUBSET Nodes : Covered(c, P)
      BY DEF CallOK, Walked
    <2>2. \A x \in P : x \in Parents /\ x \in Nodes
      BY DEF Parents
    <2>3. Covered(c, P)'
      BY <1>1, <1>2, <2>1, <2>2 DEF Covered, SameShape
    <2> QED
      BY <2>3
  <1>8. ToExists(c)'
    BY <1>1, <1>2, <1>3 DEF CallOK, ToExists, Placing
  <1>9. Childless(c)'
    BY <1>1, <1>2, <1>3 DEF CallOK, Childless
  <1> QED
    BY <1>4, <1>5, <1>6, <1>7, <1>8, <1>9 DEF CallOK

LEMMA TreeKept ==
  ASSUME TreeInv, Types', SameShape, mode' = mode
  PROVE  ParentsKnown' /\ Forest' /\ NoOrphans'
  <1>1. Types
    BY DEF TreeInv
  <1>2. /\ \A n \in Parents : ParentOf(n)' = ParentOf(n) /\ (Exists(n)' <=> Exists(n))
        /\ \A n \in Parents : Known(n)' <=> Known(n)
    BY <1>1, ShapeKept
  <1>3. \A n \in Nodes : n \in Parents /\ node[n].parent \in Parents
    BY <1>1 DEF Types, NodeType, Parents
  <1>4. ParentsKnown'
    BY <1>2, <1>3 DEF TreeInv, ParentsKnown, SameShape
  <1>5. Forest'
    BY <1>2, <1>3 DEF TreeInv, Forest, Apart
  <1>6. NoOrphans'
    BY <1>2, <1>3 DEF TreeInv, NoOrphans, Apart, SameShape
  <1> QED
    BY <1>4, <1>5, <1>6

\* The goroutine ends its request or goes on with it.
LEMMA ExclusiveKept ==
  ASSUME TreeInv, NEW s \in Servers, NEW d \in CallType, call' = [call EXCEPT ![s] = d],
         mode' = mode, d.pc = "idle" \/ (call[s].pc # "idle" /\ d.kind = call[s].kind)
  PROVE  Exclusive'
  <1>1. \A t \in Servers : call'[t] = IF t = s THEN d ELSE call[t]
    BY DEF TreeInv, Types
  <1> QED
    BY <1>1 DEF TreeInv, Exclusive

LEMMA QuietStep ==
  ASSUME TreeInv, NEW s \in Servers, NEW d \in CallType, call' = [call EXCEPT ![s] = d],
         mode' = mode, node' \in [Nodes -> NodeType], SameShape,
         moved' \subseteq Nodes, requested' \subseteq Nodes,
         CallOK(d), Exclusive'
  PROVE  TreeInv'
  <1>1. Types /\ Types'
    BY DEF TreeInv, Types
  <1>2. \A t \in Servers : call'[t] = IF t = s THEN d ELSE call[t]
    BY <1>1 DEF Types
  <1>3. ASSUME NEW t \in Servers PROVE CallOK(call[t])'
    <2>1. PICK c \in CallType : c = call'[t]
      BY <1>1 DEF Types
    <2>2. CallOK(c)
      BY <1>2, <2>1 DEF TreeInv
    <2>3. CallOK(c)'
      BY <1>1, <2>2, CallKept
    <2> QED
      BY <2>1, <2>3 DEF CallOK, KindOK, ToKnown, FromHolds, Walked, ToExists, Childless,
                        Moving, Placing, Covered
  <1>4. ParentsKnown' /\ Forest' /\ NoOrphans'
    BY <1>1, TreeKept
  <1> QED
    BY <1>1, <1>3, <1>4 DEF TreeInv

LEMMA DoneStep ==
  ASSUME TreeInv, NEW s \in Servers, Done(s), mode' = mode, node' \in [Nodes -> NodeType],
         SameShape, moved' \subseteq Nodes, requested' \subseteq Nodes
  PROVE  TreeInv'
  <1>1. call' = [call EXCEPT ![s] = NoRequest]
    BY DEF Done
  <1>2. NoRequest \in CallType /\ NoRequest.pc = "idle" /\ CallOK(NoRequest)
    BY NoRequestType, IdleOK
  <1>3. Exclusive'
    BY <1>1, <1>2, ExclusiveKept
  <1> QED
    BY <1>1, <1>2, <1>3, QuietStep

\* The fields a request keeps when only its place changes.
SameRequest(c, d) ==
  /\ d.kind = c.kind /\ d.node = c.node /\ d.to = c.to /\ d.from = c.from /\ d.cur = c.cur
  /\ d.level = c.level /\ d.leaf = c.leaf /\ d.empty = c.empty

LEMMA GoToRecord ==
  ASSUME Types, NEW s \in Servers, NEW pc \in Pcs, GoTo(s, pc)
  PROVE  \E d \in CallType :
           call' = [call EXCEPT ![s] = d] /\ d.pc = pc /\ SameRequest(call[s], d)
  <1> DEFINE d == [call[s] EXCEPT !.pc = pc]
  <1>1. call[s] \in CallType
    BY DEF Types
  <1>2. call' = [call EXCEPT ![s] = d]
    BY <1>1 DEF GoTo, Types
  <1>3. d \in CallType /\ d.pc = pc /\ SameRequest(call[s], d)
    BY <1>1 DEF CallType, SameRequest
  <1> HIDE DEF d
  <1> QED
    BY <1>2, <1>3

LEMMA ReadsShape ==
  ASSUME TreeInv, Reads
  PROVE  /\ mode' = mode /\ node' \in [Nodes -> NodeType] /\ SameShape
         /\ moved' \subseteq Nodes /\ requested' \subseteq Nodes
  BY DEF TreeInv, Types, Reads, SameShape

LEMMA FlagWriteShape ==
  ASSUME TreeInv, NEW n \in Nodes, NEW leaf \in LeafFlags, FlagWrite(n, leaf)
  PROVE  node' \in [Nodes -> NodeType] /\ SameShape /\ requested' \subseteq Nodes
  <1>1. CASE Exists(n)
    <2> DEFINE r == [node[n] EXCEPT !.leaf = leaf]
    <2>1. node[n] \in NodeType
      BY DEF TreeInv, Types
    <2>2. node' = [node EXCEPT ![n] = r]
      BY <1>1, <2>1 DEF FlagWrite, TreeInv, Types
    <2>3. r \in NodeType /\ r.life = node[n].life /\ r.parent = node[n].parent
      BY <2>1 DEF NodeType
    <2>4. requested' \subseteq Nodes
      BY <1>1 DEF FlagWrite, TreeInv, Types
    <2> HIDE DEF r
    <2> QED
      BY <2>2, <2>3, <2>4 DEF TreeInv, Types, SameShape
  <1>2. CASE ~Exists(n)
    BY <1>2 DEF FlagWrite, TreeInv, Types, SameShape
  <1> QED
    BY <1>1, <1>2

(***************************************************************************)
(* A request begins.                                                        *)
(***************************************************************************)
LEMMA BeginStep ==
  ASSUME TreeInv, NEW s \in Servers, NEW d \in CallType, Begin(s, d), Reads, CallOK(d)
  PROVE  TreeInv'
  <1>1. call' = [call EXCEPT ![s] = d]
    BY DEF Begin
  <1>2. \A t \in Servers : call'[t] = IF t = s THEN d ELSE call[t]
    BY <1>1 DEF TreeInv, Types
  <1>3. \A t \in Servers : call[t].pc = "idle" \/ Overlap(d.kind, call[t].kind) \in mode.overlap
    BY DEF Begin
  <1>4. Exclusive'
    <2> SUFFICES ASSUME NEW t \in Servers, NEW u \in Servers, t # u,
                        call'[t].pc # "idle", call'[u].pc # "idle"
                 PROVE  Overlap(call'[t].kind, call'[u].kind) \in mode'.overlap
      BY DEF Exclusive
    <2>1. mode' = mode
      BY DEF Reads
    <2>2. CASE t = s
      BY <1>2, <1>3, <2>1, <2>2
    <2>3. CASE u = s
      BY <1>2, <1>3, <2>1, <2>3, OverlapSymmetric
    <2>4. CASE t # s /\ u # s
      BY <1>2, <2>1, <2>4 DEF TreeInv, Exclusive
    <2> QED
      BY <2>2, <2>3, <2>4
  <1> QED
    BY <1>1, <1>4, ReadsShape, QuietStep DEF Begin

LEMMA CreateKeeps ==
  ASSUME TreeInv, NEW s \in Servers, NEW p \in Parents, NEW leaf \in LeafFlags,
         CreateNode(s, p, leaf)
  PROVE  TreeInv'
  <1> DEFINE d == [NoRequest EXCEPT !.pc = IF p = Root THEN "insert" ELSE "level", !.to = p,
                                    !.leaf = IF leaf = "zero" THEN "yes" ELSE leaf]
  <1>1. Begin(s, d) /\ Reads
    BY DEF CreateNode
  <1>2. /\ d.pc = IF p = Root THEN "insert" ELSE "level"
        /\ d.to = p /\ d.kind = "create" /\ d.cur = Root
    BY DEF NoRequest
  <1>3. d \in CallType
    BY DEF NoRequest, CallType, Pcs, Kinds, Parents, LeafFlags
  <1>4. p = Root \/ Exists(p)
    BY DEF CreateNode
  <1> HIDE DEF d
  <1>5. CallOK(d)
    BY <1>2, <1>4, RootAssumption
       DEF CallOK, KindOK, ToKnown, FromHolds, Walked, ToExists, Childless, Moving, Placing,
           Known, Exists, Parents
  <1> QED
    BY <1>1, <1>3, <1>5, BeginStep

LEMMA UpdateKeeps ==
  ASSUME TreeInv, NEW s \in Servers, NEW n \in Nodes, NEW p \in Parents, NEW leaf \in LeafFlags,
         UpdateNode(s, n, p, leaf)
  PROVE  TreeInv'
  <1> DEFINE stays == p = node[n].parent
             d == [NoRequest EXCEPT !.kind = "update", !.node = n, !.to = p, !.leaf = leaf,
                     !.from = node[n].parent,
                     !.level = IF stays THEN node[n].level ELSE 1,
                     !.pc = IF stays \/ p = Root THEN "write" ELSE "parent"]
  <1>0. PICK c : c = d
    OBVIOUS
  <1>1. Begin(s, c) /\ Reads
    BY <1>0 DEF UpdateNode
  <1>2. /\ c.pc = IF stays \/ p = Root THEN "write" ELSE "parent"
        /\ c.to = p /\ c.kind = "update" /\ c.cur = Root /\ c.from = node[n].parent
        /\ c.node = n
    BY <1>0 DEF NoRequest
  <1>3. node[n] \in NodeType
    BY DEF TreeInv, Types
  <1>4. c \in CallType
    BY <1>0, <1>3 DEF NoRequest, NodeType, CallType, Pcs, Kinds, Parents, LeafFlags
  <1>5. Exists(n)
    BY DEF UpdateNode
  <1> HIDE DEF d
  <1>6. KindOK(c)
    BY <1>2, RootAssumption DEF KindOK, Parents
  <1>7. ToKnown(c)
    BY <1>2, <1>3 DEF ToKnown, Placing, TreeInv, ParentsKnown, Known
  <1>8. FromHolds(c)
    BY <1>2, <1>5 DEF FromHolds, Exists
  <1>9. Walked(c)
    BY <1>2 DEF Walked, Moving
  <1>10. ToExists(c)
    BY <1>2, <1>5 DEF ToExists, Placing, TreeInv, NoOrphans, DeletesApart
  <1>11. Childless(c)
    BY <1>2 DEF Childless
  <1>12. CallOK(c)
    BY <1>6, <1>7, <1>8, <1>9, <1>10, <1>11 DEF CallOK
  <1> QED
    BY <1>1, <1>4, <1>12, BeginStep

LEMMA DeleteKeeps ==
  ASSUME TreeInv, NEW s \in Servers, NEW n \in Nodes, DeleteNode(s, n)
  PROVE  TreeInv'
  <1> DEFINE d == [NoRequest EXCEPT !.kind = "delete", !.node = n, !.from = node[n].parent,
                                    !.pc = "children"]
  <1>0. PICK c : c = d
    OBVIOUS
  <1>1. Begin(s, c) /\ Reads
    BY <1>0 DEF DeleteNode
  <1>2. c.pc = "children" /\ c.kind = "delete" /\ c.node = n
    BY <1>0 DEF NoRequest
  <1>3. node[n] \in NodeType
    BY DEF TreeInv, Types
  <1>4. c \in CallType
    BY <1>0, <1>3 DEF NoRequest, NodeType, CallType, Pcs, Kinds, Parents, LeafFlags
  <1> HIDE DEF d
  <1>5. CallOK(c)
    BY <1>2 DEF CallOK, KindOK, ToKnown, FromHolds, Walked, ToExists, Childless, Moving, Placing
  <1> QED
    BY <1>1, <1>4, <1>5, BeginStep

(***************************************************************************)
(* Reads inside a handler.                                                  *)
(***************************************************************************)
LEMMA ReadStep ==
  ASSUME TreeInv, NEW s \in Servers, NEW d \in CallType, call' = [call EXCEPT ![s] = d],
         call[s].pc # "idle", d.kind = call[s].kind, Reads, CallOK(d)
  PROVE  TreeInv'
  BY ReadsShape, ExclusiveKept, QuietStep

LEMMA CallFacts ==
  ASSUME TreeInv, NEW s \in Servers
  PROVE  call[s] \in CallType /\ CallOK(call[s])
  BY DEF TreeInv, Types

LEMMA ReadLevelKeeps ==
  ASSUME TreeInv, NEW s \in Servers, ReadLevel(s)
  PROVE  TreeInv'
  <1> DEFINE c == call[s]
             parentLevel == IF Exists(c.to) THEN node[c.to].level ELSE 0
             next == IF c.kind = "create" THEN "insert" ELSE "write"
             d == [c EXCEPT !.pc = next, !.level = parentLevel + 1]
  <1>1. c \in CallType /\ CallOK(c)
    BY CallFacts
  <1>2. call' = [call EXCEPT ![s] = d]
    BY <1>1 DEF ReadLevel, TreeInv, Types
  <1>3. next \in Pcs /\ parentLevel + 1 \in Nat
    BY DEF TreeInv, Types, NodeType, Exists, Pcs
  <1> HIDE DEF parentLevel, next
  <1>4. /\ d \in CallType /\ d.pc = next /\ d.kind = c.kind /\ d.node = c.node
        /\ d.to = c.to /\ d.from = c.from /\ d.cur = c.cur
    BY <1>1, <1>3 DEF CallType
  <1> HIDE DEF d
  <1>5. CallOK(d)
    <2>1. c.pc = "level"
      BY DEF ReadLevel
    <2> USE DEF next
    <2>2. KindOK(d)
      BY <1>1, <1>4, <2>1 DEF CallOK, KindOK, CallType, Kinds
    <2>3. ToKnown(d) /\ ToExists(d)
      BY <1>1, <1>4, <2>1 DEF CallOK, KindOK, ToKnown, ToExists, Placing
    <2>4. FromHolds(d)
      BY <1>1, <1>4, <2>1 DEF CallOK, FromHolds, Moving
    <2>5. Walked(d)
      BY <1>1, <1>4, <2>1 DEF CallOK, Walked, Moving, Covered
    <2>6. Childless(d)
      BY <1>4 DEF Childless
    <2> QED
      BY <2>2, <2>3, <2>4, <2>5, <2>6 DEF CallOK
  <1>6. call[s].pc # "idle" /\ Reads
    BY DEF ReadLevel
  <1> QED
    BY <1>2, <1>4, <1>5, <1>6, ReadStep

LEMMA CheckParentKeeps ==
  ASSUME TreeInv, NEW s \in Servers, CheckParent(s)
  PROVE  TreeInv'
  <1> DEFINE c == call[s]
             d == [c EXCEPT !.pc = "walk", !.cur = c.to]
  <1>1. c \in CallType /\ CallOK(c)
    BY CallFacts
  <1>2. CASE Exists(c.to) /\ c.to # c.node
    <2>1. call' = [call EXCEPT ![s] = d]
      BY <1>2 DEF CheckParent
    <2>2. /\ d \in CallType /\ d.pc = "walk" /\ d.kind = c.kind /\ d.node = c.node
          /\ d.to = c.to /\ d.from = c.from /\ d.cur = c.to
      BY <1>1 DEF CallType, Pcs
    <2> HIDE DEF d
    <2>3. c.pc = "parent" /\ c.kind = "update"
      BY <1>1 DEF CheckParent, CallOK, KindOK
    <2>4. KindOK(d) /\ ToKnown(d) /\ ToExists(d) /\ Childless(d)
      BY <1>1, <1>2, <2>2, <2>3
         DEF CallOK, KindOK, ToKnown, ToExists, Childless, Placing, Known, Exists
    <2>5. FromHolds(d)
      BY <1>1, <2>2, <2>3 DEF CallOK, FromHolds, Moving
    <2>6. Walked(d)
      <3>1. Covered(d, {})
        BY <1>2, <2>2 DEF Covered, Known, Exists
      <3> QED
        BY <3>1 DEF Walked
    <2>7. CallOK(d)
      BY <2>4, <2>5, <2>6 DEF CallOK
    <2> QED
      BY <2>1, <2>2, <2>3, <2>7, ReadStep DEF CheckParent
  <1>3. CASE ~(Exists(c.to) /\ c.to # c.node)
    BY <1>3, DoneStep, ReadsShape DEF CheckParent
  <1> QED
    BY <1>2, <1>3

LEMMA WalkKeeps ==
  ASSUME TreeInv, NEW s \in Servers, Walk(s)
  PROVE  TreeInv'
  <1> DEFINE c == call[s]
             d == [c EXCEPT !.cur = ParentOf(c.cur),
                            !.pc = IF ParentOf(c.cur) = Root THEN "level" ELSE "walk"]
  <1>1. c \in CallType /\ CallOK(c) /\ c.cur \in Parents
    BY CallFacts DEF CallType
  <1>0. PICK up \in Parents : up = ParentOf(c.cur)
    BY <1>1, ParentOfType DEF TreeInv
  <1>2. CASE up # c.node
    <2>1. call' = [call EXCEPT ![s] = d]
      BY <1>0, <1>2 DEF Walk
    <2>2. /\ d \in CallType /\ d.pc = (IF up = Root THEN "level" ELSE "walk") /\ d.kind = c.kind
          /\ d.node = c.node /\ d.to = c.to /\ d.from = c.from /\ d.cur = up
      BY <1>0, <1>1 DEF CallType, Pcs
    <2> HIDE DEF d
    <2>3. c.pc = "walk" /\ c.kind = "update"
      BY <1>1 DEF Walk, CallOK, KindOK
    <2>4. KindOK(d) /\ ToKnown(d) /\ ToExists(d) /\ Childless(d)
      BY <1>1, <2>2, <2>3 DEF CallOK, KindOK, ToKnown, ToExists, Childless, Placing
    <2>5. FromHolds(d)
      BY <1>1, <2>2, <2>3 DEF CallOK, FromHolds, Moving
    <2>6. Walked(d)
      <3> SUFFICES ASSUME UpdatesApart, c.to # Root, c.to # c.from
                   PROVE  \E P \in SUBSET Nodes : Covered(d, P)
        BY <2>2 DEF Walked
      <3>1. PICK P \in SUBSET Nodes : Covered(c, P)
        BY <1>1, <2>3 DEF CallOK, Walked, Moving
      <3> DEFINE Q == (P \cup {c.cur}) \ {Root}
      <3>2. Q \in SUBSET Nodes
        BY <1>1 DEF Parents
      <3>3. d.node \notin Q /\ d.cur # d.node /\ d.to \in Q \cup {d.cur}
        BY <1>2, <2>2, <3>1 DEF Covered
      <3>4. Known(d.cur)
        BY <1>0, <1>1, <2>2, ParentOfKnown DEF TreeInv
      <3>5. \A x \in Q : node[x].life # "absent" /\ ParentOf(x) \in Q \cup {d.cur, Root}
        BY <1>0, <2>2, <3>1 DEF Covered, Known
      <3>6. Covered(d, Q)
        BY <3>3, <3>4, <3>5 DEF Covered
      <3> QED
        BY <3>2, <3>6
    <2>7. CallOK(d)
      BY <2>4, <2>5, <2>6 DEF CallOK
    <2> QED
      BY <2>1, <2>2, <2>3, <2>7, ReadStep DEF Walk
  <1>3. CASE up = c.node
    BY <1>0, <1>3, DoneStep, ReadsShape DEF Walk
  <1> QED
    BY <1>2, <1>3

\* The steps after the write: nothing is said of them but what they flag.
LEMMA ContinueStep ==
  ASSUME TreeInv, NEW s \in Servers, NEW pc \in {"mark", "countOld", "flagOld", "done"},
         Continue(s, pc), call[s].kind = "update",
         pc = "mark" => call[s].to \in Nodes,
         pc \in {"countOld", "flagOld"} => call[s].from \in Nodes,
         call[s].pc # "idle", mode' = mode, node' \in [Nodes -> NodeType],
         SameShape, moved' \subseteq Nodes, requested' \subseteq Nodes
  PROVE  TreeInv'
  <1>1. CASE pc = "done"
    BY <1>1, DoneStep DEF Continue
  <1>2. CASE pc # "done"
    <2>1. pc \in Pcs /\ GoTo(s, pc)
      BY <1>2 DEF Continue, Pcs
    <2>2. PICK d \in CallType :
            call' = [call EXCEPT ![s] = d] /\ d.pc = pc /\ SameRequest(call[s], d)
      BY <2>1, GoToRecord DEF TreeInv
    <2>3. CallOK(d)
      BY <1>2, <2>2 DEF SameRequest, CallOK, KindOK, ToKnown, FromHolds, Walked, ToExists,
                        Childless, Moving, Placing
    <2>4. Exclusive'
      BY <2>2, ExclusiveKept DEF SameRequest
    <2> QED
      BY <2>2, <2>3, <2>4, QuietStep
  <1> QED
    BY <1>1, <1>2

LEMMA AfterMovePc ==
  ASSUME NEW c \in CallType
  PROVE  /\ AfterMove(c) \in {"mark", "done"}
         /\ AfterMove(c) = "mark" => c.to \in Nodes
  BY DEF AfterMove, CallType, Parents

LEMMA CountOldKeeps ==
  ASSUME TreeInv, NEW s \in Servers, CountOld(s)
  PROVE  TreeInv'
  <1> DEFINE c == call[s]
             d == [c EXCEPT !.pc = "flagOld", !.empty = Children(c.from) = {}]
  <1>1. c \in CallType /\ CallOK(c) /\ c.pc = "countOld" /\ c.kind = "update" /\ c.from \in Nodes
    BY CallFacts DEF CountOld, CallOK, KindOK
  <1>2. CASE call' = [call EXCEPT ![s] = d]
    <2>1. d \in CallType /\ d.pc = "flagOld" /\ d.kind = c.kind /\ d.from = c.from
      BY <1>1 DEF CallType, Pcs
    <2> HIDE DEF d
    <2>2. CallOK(d)
      BY <1>1, <2>1 DEF CallOK, KindOK, ToKnown, FromHolds, Walked, ToExists,
                        Childless, Moving, Placing
    <2> QED
      BY <1>1, <1>2, <2>1, <2>2, ReadStep DEF CountOld
  <1>3. CASE Continue(s, AfterMove(c))
    BY <1>1, <1>3, AfterMovePc, ContinueStep, ReadsShape DEF CountOld
  <1> QED
    BY <1>2, <1>3 DEF CountOld

LEMMA FlagOldKeeps ==
  ASSUME TreeInv, NEW s \in Servers, FlagOld(s)
  PROVE  TreeInv'
  <1>1. /\ call[s] \in CallType /\ CallOK(call[s]) /\ call[s].pc = "flagOld"
        /\ call[s].kind = "update" /\ call[s].from \in Nodes
    BY CallFacts DEF FlagOld, CallOK, KindOK
  <1>2. PICK leaf \in LeafFlags : FlagWrite(call[s].from, leaf)
    BY DEF FlagOld, LeafFlags
  <1>3. node' \in [Nodes -> NodeType] /\ SameShape /\ requested' \subseteq Nodes
    BY <1>1, <1>2, FlagWriteShape
  <1>4. mode' = mode /\ moved' \subseteq Nodes
    BY DEF FlagOld, TreeInv, Types
  <1> QED
    BY <1>1, <1>3, <1>4, AfterMovePc, ContinueStep DEF FlagOld

LEMMA MarkKeeps ==
  ASSUME TreeInv, NEW s \in Servers, MarkParent(s)
  PROVE  TreeInv'
  <1>1. call[s].to \in Nodes
    BY CallFacts DEF MarkParent, CallOK, KindOK
  <1>2. node' \in [Nodes -> NodeType] /\ SameShape /\ requested' \subseteq Nodes
    BY <1>1, FlagWriteShape DEF MarkParent, LeafFlags
  <1>3. mode' = mode /\ moved' \subseteq Nodes
    BY DEF MarkParent, TreeInv, Types
  <1> QED
    BY <1>2, <1>3, DoneStep DEF MarkParent

LEMMA CheckChildrenKeeps ==
  ASSUME TreeInv, NEW s \in Servers, CheckChildren(s)
  PROVE  TreeInv'
  <1>1. CASE Children(call[s].node) # {}
    BY <1>1, DoneStep, ReadsShape DEF CheckChildren
  <1>2. CASE Children(call[s].node) = {}
    <2>1. "count" \in Pcs /\ GoTo(s, "count")
      BY <1>2 DEF CheckChildren, Pcs
    <2>2. PICK d \in CallType :
            call' = [call EXCEPT ![s] = d] /\ d.pc = "count" /\ SameRequest(call[s], d)
      BY <2>1, GoToRecord DEF TreeInv
    <2>3. call[s].kind = "delete" /\ call[s].node \in Nodes /\ call[s].pc = "children"
      BY CallFacts DEF CheckChildren, CallOK, KindOK
    <2>4. CallOK(d)
      BY <1>2, <2>2, <2>3 DEF SameRequest, CallOK, KindOK, ToKnown, FromHolds, Walked, ToExists,
                        Childless, Moving, Placing
    <2> QED
      BY <2>2, <2>3, <2>4, ReadStep DEF CheckChildren, SameRequest
  <1> QED
    BY <1>1, <1>2

LEMMA CountRemainingKeeps ==
  ASSUME TreeInv, NEW s \in Servers, CountRemaining(s)
  PROVE  TreeInv'
  <1> DEFINE c == call[s]
             d == [c EXCEPT !.pc = "commit", !.empty = Children(c.from) \subseteq {c.node}]
  <1>1. c \in CallType /\ CallOK(c) /\ c.pc = "count"
    BY CallFacts DEF CountRemaining
  <1>2. d \in CallType /\ d.pc = "commit" /\ d.kind = c.kind /\ d.node = c.node
    BY <1>1 DEF CallType, Pcs
  <1>3. call' = [call EXCEPT ![s] = d]
    BY DEF CountRemaining
  <1> HIDE DEF d
  <1>4. CallOK(d)
    BY <1>1, <1>2 DEF CallOK, KindOK, ToKnown, FromHolds, Walked, ToExists,
                      Childless, Moving, Placing
  <1> QED
    BY <1>1, <1>2, <1>3, <1>4, ReadStep DEF CountRemaining

LEMMA AbortKeeps ==
  ASSUME TreeInv, NEW s \in Servers, AbortRequest(s)
  PROVE  TreeInv'
  BY DoneStep, ReadsShape DEF AbortRequest

(***************************************************************************)
(* Steps that change the shape of the tree.                                 *)
(***************************************************************************)
LEMMA ShapeStep ==
  ASSUME TreeInv, NEW s \in Servers, NEW d \in CallType, call' = [call EXCEPT ![s] = d],
         d.pc = "idle" \/ (call[s].pc # "idle" /\ d.kind = call[s].kind),
         mode' = mode, node' \in [Nodes -> NodeType],
         moved' \subseteq Nodes, requested' \subseteq Nodes,
         KindOK(d), ~Moving(d), ~Placing(d), d.pc \notin {"count", "commit"},
         \A k \in CallType : (\E t \in Servers : t # s /\ k = call[t]) => CallOK(k)',
         ParentsKnown', Forest', NoOrphans'
  PROVE  TreeInv'
  <1>1. Types'
    BY DEF TreeInv, Types
  <1>2. Exclusive'
    BY ExclusiveKept
  <1>3. ASSUME NEW t \in Servers PROVE CallOK(call[t])'
    <2>1. PICK k \in CallType : k = call'[t]
      BY <1>1 DEF Types
    <2>2. CASE t = s
      <3>1. k = d
        BY <2>1, <2>2 DEF TreeInv, Types
      <3>2. CallOK(k)'
        BY <3>1 DEF CallOK, KindOK, ToKnown, FromHolds, Walked, ToExists, Childless,
                    Moving, Placing
      <3> QED
        BY <2>1, <3>2 DEF CallOK, KindOK, ToKnown, FromHolds, Walked, ToExists, Childless,
                          Moving, Placing, Covered
    <2>3. CASE t # s
      <3>1. k = call[t]
        BY <2>1, <2>3 DEF TreeInv, Types
      <3>2. CallOK(k)'
        BY <2>3, <3>1
      <3> QED
        BY <2>1, <3>2 DEF CallOK, KindOK, ToKnown, FromHolds, Walked, ToExists, Childless,
                          Moving, Placing, Covered
    <2> QED
      BY <2>2, <2>3
  <1> QED
    BY <1>1, <1>2, <1>3 DEF TreeInv

LEMMA InsertKeeps ==
  ASSUME TreeInv, NEW s \in Servers, Insert(s)
  PROVE  TreeInv'
  <1>1. PICK c \in CallType : c = call[s]
    BY CallFacts
  <1>2. c.pc = "insert" /\ CallOK(c) /\ c.kind = "create"
    BY <1>1, CallFacts DEF Insert, CallOK, KindOK
  <1>3. PICK n \in Nodes :
          /\ node[n].life = "absent"
          /\ node' = [node EXCEPT ![n] = [life |-> "live", parent |-> c.to,
                                          level |-> c.level, leaf |-> c.leaf]]
          /\ requested' = IF c.leaf = "no" THEN requested \cup {n} ELSE requested
    BY <1>1 DEF Insert
  <1>4. /\ node' \in [Nodes -> NodeType]
        /\ node'[n].life = "live" /\ node'[n].parent = c.to
        /\ \A x \in Nodes \ {n} : node'[x] = node[x]
    BY <1>1, <1>3 DEF TreeInv, Types, NodeType, CallType
  <1>5. Known(c.to) /\ c.to # n
    BY <1>2, <1>3, RootAssumption DEF CallOK, ToKnown, Placing, Known
  <1>6. /\ \A x \in Parents : (Known(x) => Known(x)') /\ (Exists(x) => Exists(x)')
        /\ \A x \in Parents \ {n} : ParentOf(x)' = ParentOf(x)
        /\ ParentOf(n)' = c.to
    BY <1>3, <1>4, RootAssumption DEF Known, Exists, ParentOf, Parents
  <1>7. ParentsKnown'
    <2>1. c.to \in Parents /\ \A x \in Nodes : node[x].parent \in Parents
      BY DEF CallType, TreeInv, Types, NodeType
    <2> QED
      BY <1>4, <1>5, <1>6, <2>1 DEF TreeInv, ParentsKnown
  <1>8. Forest'
    <2> SUFFICES ASSUME Apart("update", "update"), NEW S \in SUBSET Nodes, S # {}
                 PROVE  \E x \in S : ParentOf(x)' \notin S
      BY <1>3 DEF Forest, Apart, Insert
    <2>1. CASE S \subseteq {n}
      BY <1>5, <1>6, <2>1
    <2>2. CASE ~(S \subseteq {n})
      <3>1. PICK x \in S \ {n} : ParentOf(x) \notin S \ {n}
        BY <2>2 DEF TreeInv, Forest
      <3>2. ParentOf(x) # n
        BY <1>3, RootAssumption, ParentOfKnown DEF TreeInv, Known, Parents
      <3> QED
        BY <1>6, <3>1, <3>2 DEF Parents
    <2> QED
      BY <2>1, <2>2
  <1>9. NoOrphans'
    <2> SUFFICES ASSUME DeletesApart, NEW x \in Nodes, Exists(x)', node'[x].parent # Root
                 PROVE  Exists(node[x].parent)'
      BY DEF NoOrphans, DeletesApart, Apart, Insert
    <2>1. CASE x = n
      <3>1. Exists(c.to)
        BY <1>2, <1>4, <2>1 DEF CallOK, ToExists, Placing
      <3>2. c.to \in Parents
        BY DEF CallType
      <3>3. Exists(c.to)'
        BY <1>6, <3>1, <3>2
      <3> QED
        BY <1>4, <2>1, <3>3 DEF Exists
    <2>2. CASE x # n
      <3>1. Exists(x) /\ node[x].parent = node'[x].parent /\ node[x].parent \in Parents
        BY <1>4, <2>2 DEF Exists, TreeInv, Types, NodeType
      <3>2. Exists(node[x].parent)
        BY <3>1 DEF TreeInv, NoOrphans, DeletesApart
      <3>3. Exists(node[x].parent)'
        BY <1>4, <1>6, <2>2, <3>1, <3>2 DEF Exists
      <3> QED
        BY <3>3
    <2> QED
      BY <2>1, <2>2
  <1>10. ASSUME NEW k \in CallType, NEW t \in Servers, t # s, k = call[t]
         PROVE  CallOK(k)'
    <2>1. CallOK(k)
      BY <1>10, CallFacts
    <2>2. k.node \in Parents /\ k.to \in Parents /\ k.cur \in Parents
      BY DEF CallType
    <2>3. KindOK(k)'
      BY <2>1 DEF CallOK, KindOK
    <2>4. ToKnown(k)' /\ ToExists(k)'
      BY <1>6, <2>1, <2>2 DEF CallOK, ToKnown, ToExists, Placing, DeletesApart, Apart, Insert
    <2>5. FromHolds(k)'
      BY <1>3, <1>4, <2>1
         DEF CallOK, KindOK, FromHolds, Moving, UpdatesApart, Apart, Insert
    <2>6. Walked(k)'
      <3> SUFFICES ASSUME UpdatesApart, Moving(k), k.pc # "parent", k.to # Root, k.to # k.from
                   PROVE  \E P \in SUBSET Nodes : Covered(k, P)'
        BY DEF Walked, Moving, UpdatesApart, Apart, Insert
      <3>1. PICK P \in SUBSET Nodes : Covered(k, P)
        BY <2>1 DEF CallOK, Walked
      <3>2. n \notin P /\ \A x \in P : x \in Parents
        BY <1>3, <3>1 DEF Covered, Parents
      <3>3. Covered(k, P)'
        BY <1>4, <1>6, <2>2, <3>1, <3>2 DEF Covered
      <3> QED
        BY <3>3
    <2>7. Childless(k)'
      <3>1. DeletesApart => k.pc \notin {"count", "commit"}
        BY <1>1, <1>2, <1>10, <2>1 DEF TreeInv, Exclusive, DeletesApart, Apart, CallOK, KindOK
      <3> QED
        BY <3>1 DEF Childless, DeletesApart, Apart, Insert
    <2> QED
      BY <2>3, <2>4, <2>5, <2>6, <2>7 DEF CallOK
  <1>11. \E d \in CallType :
           /\ call' = [call EXCEPT ![s] = d]
           /\ d.pc = "idle" \/ (d.pc = "mark" /\ d.kind = "create" /\ d.to \in Nodes)
    <2>1. CASE c.to = Root
      <3>1. Done(s)
        BY <1>1, <2>1 DEF Insert
      <3> QED
        BY <3>1, NoRequestType DEF Done
    <2>2. CASE c.to # Root
      <3>1. GoTo(s, "mark") /\ "mark" \in Pcs
        BY <1>1, <2>2 DEF Insert, Pcs
      <3>2. PICK d \in CallType :
              call' = [call EXCEPT ![s] = d] /\ d.pc = "mark" /\ SameRequest(call[s], d)
        BY <3>1, GoToRecord DEF TreeInv
      <3>3. c.to \in Nodes
        BY <2>2 DEF CallType, Parents
      <3> QED
        BY <1>1, <1>2, <3>2, <3>3 DEF SameRequest
    <2> QED
      BY <2>1, <2>2
  <1>12. PICK d \in CallType :
           /\ call' = [call EXCEPT ![s] = d]
           /\ d.pc = "idle" \/ (d.pc = "mark" /\ d.kind = "create" /\ d.to \in Nodes)
    BY <1>11
  <1>13. KindOK(d) /\ ~Moving(d) /\ ~Placing(d) /\ d.pc \notin {"count", "commit"}
    BY <1>12 DEF KindOK, Moving, Placing
  <1>14. mode' = mode /\ moved' \subseteq Nodes /\ requested' \subseteq Nodes
    BY <1>3 DEF Insert, TreeInv, Types
  <1> QED
    BY <1>1, <1>2, <1>4, <1>7, <1>8, <1>9, <1>10, <1>12, <1>13, <1>14, ShapeStep

LEMMA AfterWritePc ==
  ASSUME NEW c \in CallType
  PROVE  /\ AfterWrite(c) \in {"mark", "countOld", "done"}
         /\ AfterWrite(c) = "mark" => c.to \in Nodes
         /\ AfterWrite(c) = "countOld" => c.from \in Nodes
  BY AfterMovePc DEF AfterWrite, CallType, Parents

LEMMA ContinueRecord ==
  ASSUME TreeInv, NEW s \in Servers, NEW pc \in {"mark", "countOld", "done"}, Continue(s, pc)
  PROVE  \E d \in CallType :
           /\ call' = [call EXCEPT ![s] = d]
           /\ d.pc = "idle" \/ (d.pc = pc /\ d.pc \in {"mark", "countOld"}
                                /\ SameRequest(call[s], d))
  <1>1. CASE pc = "done"
    BY <1>1, NoRequestType DEF Continue, Done
  <1>2. CASE pc # "done"
    <2>1. pc \in Pcs /\ GoTo(s, pc)
      BY <1>2 DEF Continue, Pcs
    <2> QED
      BY <1>2, <2>1, GoToRecord DEF TreeInv
  <1> QED
    BY <1>1, <1>2

LEMMA WriteKeeps ==
  ASSUME TreeInv, NEW s \in Servers, Write(s)
  PROVE  TreeInv'
  <1>1. PICK c \in CallType : c = call[s]
    BY CallFacts
  <1>2. /\ c.pc = "write" /\ CallOK(c) /\ c.kind = "update" /\ c.node \in Nodes /\ c.cur = Root
        /\ Continue(s, AfterWrite(c)) /\ mode' = mode
    BY <1>1, CallFacts DEF Write, CallOK, KindOK
  <1>3. CASE ~Exists(c.node)
    <2>1. node' \in [Nodes -> NodeType] /\ SameShape /\ moved' \subseteq Nodes
          /\ requested' \subseteq Nodes
      BY <1>1, <1>3 DEF Write, TreeInv, Types, SameShape
    <2> QED
      BY <1>1, <1>2, <2>1, AfterWritePc, ContinueStep
  <1>4. CASE Exists(c.node)
    <2> DEFINE r == [node[c.node] EXCEPT !.parent = c.to, !.level = c.level, !.leaf = c.leaf]
    <2>1. PICK n \in Nodes : n = c.node
      BY <1>2
    <2>2. node[n] \in NodeType /\ node[n].life = "live"
      BY <1>4, <2>1 DEF TreeInv, Types, Exists
    <2>3. node' = [node EXCEPT ![n] = r]
      BY <1>1, <1>4, <2>1 DEF Write
    <2>4. r \in NodeType /\ r.life = "live" /\ r.parent = c.to
      BY <2>1, <2>2 DEF NodeType, CallType
    <2> HIDE DEF r
    <2>5. /\ node' \in [Nodes -> NodeType]
          /\ node'[n].life = "live" /\ node'[n].parent = c.to
          /\ \A x \in Nodes \ {n} : node'[x] = node[x]
      BY <2>3, <2>4 DEF TreeInv, Types
    <2>6. moved' \subseteq Nodes /\ requested' \subseteq Nodes
      BY <1>1, <1>2, <1>4 DEF Write, TreeInv, Types, Children
    <2>7. /\ \A x \in Parents : (Known(x)' <=> Known(x)) /\ (Exists(x)' <=> Exists(x))
          /\ \A x \in Parents \ {n} : ParentOf(x)' = ParentOf(x)
          /\ ParentOf(n)' = c.to
      BY <2>2, <2>5, RootAssumption DEF Known, Exists, ParentOf, Parents
    <2>8. c.to \in Parents /\ \A x \in Nodes : node[x].parent \in Parents /\ x \in Parents
      BY DEF CallType, TreeInv, Types, NodeType, Parents
    <2>9. ParentsKnown'
      <3>1. Known(c.to)
        BY <1>2 DEF CallOK, ToKnown, Placing
      <3> QED
        BY <2>5, <2>7, <2>8, <3>1 DEF TreeInv, ParentsKnown
    <2>10. Forest'
      <3> SUFFICES ASSUME UpdatesApart, NEW S \in SUBSET Nodes, S # {}
                   PROVE  \E x \in S : ParentOf(x)' \notin S
        BY <1>2 DEF Forest, Apart, UpdatesApart
      <3>1. PICK y \in S : ParentOf(y) \notin S
        BY DEF TreeInv, Forest, UpdatesApart
      <3>2. CASE n \notin S
        BY <2>7, <2>8, <3>1, <3>2
      <3>3. CASE c.to = Root /\ n \in S
        BY <2>7, <3>3, RootAssumption
      <3>4. CASE c.to = c.from
        <4>1. ParentOf(n) = c.to
          BY <1>2, <1>4, <2>1, <3>4 DEF CallOK, FromHolds, Moving, ParentOf
        <4> QED
          BY <2>7, <2>8, <3>1, <4>1
      <3>5. CASE n \in S /\ c.to # Root /\ c.to # c.from
        <4>1. PICK P \in SUBSET Nodes : Covered(c, P)
          BY <1>2, <3>5 DEF CallOK, Walked, Moving
        <4>2. n \notin P /\ c.to \in P /\ \A x \in P : ParentOf(x) \in P \cup {Root}
          BY <1>2, <2>1, <3>5, <4>1 DEF Covered
        <4>3. CASE S \cap P = {}
          BY <2>7, <3>5, <4>2, <4>3
        <4>4. CASE S \cap P # {}
          <5>1. PICK x \in S \cap P : ParentOf(x) \notin S \cap P
            BY <4>4 DEF TreeInv, Forest, UpdatesApart
          <5>2. ParentOf(x) \notin S /\ x # n
            BY <4>2, <5>1, RootAssumption
          <5> QED
            BY <2>7, <2>8, <5>1, <5>2
        <4> QED
          BY <4>3, <4>4
      <3> QED
        BY <3>2, <3>3, <3>4, <3>5
    <2>11. NoOrphans'
      <3> SUFFICES ASSUME DeletesApart, NEW x \in Nodes, Exists(x)', node'[x].parent # Root
                   PROVE  Exists(node[x].parent)'
        BY <1>2 DEF NoOrphans, DeletesApart, Apart
      <3>1. CASE x = n
        <4>1. Exists(c.to)'
          BY <1>2, <2>5, <2>7, <2>8, <3>1 DEF CallOK, ToExists, Placing
        <4> QED
          BY <2>5, <3>1, <4>1 DEF Exists
      <3>2. CASE x # n
        <4>1. Exists(x) /\ node[x].parent = node'[x].parent
          BY <2>5, <2>7, <2>8, <3>2
        <4>2. Exists(node[x].parent)
          BY <4>1 DEF TreeInv, NoOrphans, DeletesApart
        <4> QED
          BY <2>5, <2>7, <2>8, <3>2, <4>1, <4>2 DEF Exists
      <3> QED
        BY <3>1, <3>2
    <2>12. ASSUME NEW k \in CallType, NEW t \in Servers, t # s, k = call[t]
           PROVE  CallOK(k)'
      <3>1. CallOK(k)
        BY <2>12, CallFacts
      <3>2. k.node \in Parents /\ k.to \in Parents /\ k.cur \in Parents
        BY DEF CallType
      <3>3. KindOK(k)'
        BY <3>1 DEF CallOK, KindOK
      <3>4. ToKnown(k)' /\ ToExists(k)'
        BY <1>2, <2>7, <3>1, <3>2 DEF CallOK, ToKnown, ToExists, Placing, DeletesApart, Apart
      <3>5. UpdatesApart => ~Moving(k)
        BY <1>1, <1>2, <2>12 DEF TreeInv, Exclusive, UpdatesApart, Apart, Moving
      <3>6. DeletesApart => k.pc \notin {"count", "commit"}
        BY <1>1, <1>2, <2>12, <3>1, OverlapSymmetric
           DEF TreeInv, Exclusive, DeletesApart, Apart, CallOK, KindOK
      <3>7. FromHolds(k)' /\ Walked(k)' /\ Childless(k)'
        BY <1>2, <3>5, <3>6
           DEF FromHolds, Walked, Childless, Moving, UpdatesApart, DeletesApart, Apart
      <3> QED
        BY <3>3, <3>4, <3>7 DEF CallOK
    <2>13. PICK d \in CallType :
             /\ call' = [call EXCEPT ![s] = d]
             /\ \/ d.pc = "idle"
                \/ /\ d.pc = AfterWrite(c) /\ d.pc \in {"mark", "countOld"}
                   /\ SameRequest(c, d)
      BY <1>1, <1>2, AfterWritePc, ContinueRecord
    <2>14. /\ KindOK(d) /\ ~Moving(d) /\ ~Placing(d) /\ d.pc \notin {"count", "commit"}
           /\ d.pc = "idle" \/ d.kind = c.kind
      BY <1>2, <2>13, AfterWritePc DEF KindOK, Moving, Placing, SameRequest
    <2> QED
      BY <1>1, <1>2, <2>5, <2>6, <2>9, <2>10, <2>11, <2>12, <2>13, <2>14, ShapeStep
  <1> QED
    BY <1>3, <1>4

LEMMA CommitKeeps ==
  ASSUME TreeInv, NEW s \in Servers, CommitDelete(s)
  PROVE  TreeInv'
  <1>1. PICK c \in CallType : c = call[s]
    BY CallFacts
  <1>2. /\ c.pc = "commit" /\ CallOK(c) /\ c.kind = "delete" /\ c.node \in Nodes
        /\ Done(s) /\ mode' = mode
    BY <1>1, CallFacts DEF CommitDelete, CallOK, KindOK
  <1>3. PICK n \in Nodes : n = c.node
    BY <1>2
  <1>4. /\ node' \in [Nodes -> NodeType]
        /\ node'[n].life = "deleted"
        /\ \A x \in Nodes \ {n} : node'[x].life = node[x].life
        /\ \A x \in Nodes : node'[x].parent = node[x].parent
    <2> DEFINE left(x) == [node[x] EXCEPT !.leaf = IF c.empty THEN "yes" ELSE "no"]
               gone(x) == [node[x] EXCEPT !.life = "deleted"]
    <2>1. \A x \in Nodes : node[x] \in NodeType
      BY DEF TreeInv, Types
    <2>2. \A x \in Nodes :
            /\ left(x) \in NodeType /\ left(x).life = node[x].life
            /\ left(x).parent = node[x].parent
      BY <2>1 DEF NodeType, LeafFlags
    <2>3. \A x \in Nodes :
            gone(x) \in NodeType /\ gone(x).life = "deleted" /\ gone(x).parent = node[x].parent
      BY <2>1 DEF NodeType
    <2>4. node' = [x \in Nodes |->
                     CASE x = c.node -> gone(x)
                       [] x = c.from /\ x # c.node /\ Exists(x) -> left(x)
                       [] OTHER -> node[x]]
      BY <1>1 DEF CommitDelete
    <2> HIDE DEF left, gone
    <2> QED
      BY <1>3, <2>1, <2>2, <2>3, <2>4
  <1>5. moved' \subseteq Nodes /\ requested' \subseteq Nodes
    BY DEF CommitDelete, TreeInv, Types
  <1>6. /\ \A x \in Parents : Known(x) => Known(x)'
        /\ \A x \in Parents : Exists(x)' <=> (Exists(x) /\ x # n)
        /\ \A x \in Parents : ParentOf(x)' \in {Root, ParentOf(x)}
        /\ \A x \in Parents : Children(x)' \subseteq Children(x)
    BY <1>4, RootAssumption DEF Known, Exists, ParentOf, Parents, Children
  <1>7. \A x \in Nodes : node[x].parent \in Parents /\ x \in Parents
    BY DEF TreeInv, Types, NodeType, Parents
  <1>8. ParentsKnown'
    BY <1>4, <1>6, <1>7 DEF TreeInv, ParentsKnown
  <1>9. Forest'
    <2> SUFFICES ASSUME UpdatesApart, NEW S \in SUBSET Nodes, S # {}
                 PROVE  \E x \in S : ParentOf(x)' \notin S
      BY <1>2 DEF Forest, Apart, UpdatesApart
    <2>1. PICK y \in S : ParentOf(y) \notin S
      BY DEF TreeInv, Forest, UpdatesApart
    <2> QED
      BY <1>6, <1>7, <2>1, RootAssumption
  <1>10. NoOrphans'
    <2> SUFFICES ASSUME DeletesApart, NEW x \in Nodes, Exists(x)', node'[x].parent # Root
                 PROVE  Exists(node[x].parent)'
      BY <1>2 DEF NoOrphans, DeletesApart, Apart
    <2>1. PICK p \in Parents : p = node[x].parent
      BY <1>7
    <2>2. Exists(x) /\ node'[x].parent = p
      BY <1>4, <1>6, <1>7, <2>1
    <2>3. Exists(p) /\ p # n
      <3>1. Exists(p)
        BY <2>1, <2>2 DEF TreeInv, NoOrphans, DeletesApart
      <3>2. Children(n) = {}
        BY <1>2, <1>3 DEF CallOK, Childless
      <3> QED
        BY <2>1, <2>2, <3>1, <3>2 DEF Children, Exists
    <2>4. Exists(p)'
      BY <1>6, <2>3
    <2> QED
      BY <2>2, <2>4 DEF Exists
  <1>11. ASSUME NEW k \in CallType, NEW t \in Servers, t # s, k = call[t]
         PROVE  CallOK(k)'
    <2>1. CallOK(k)
      BY <1>11, CallFacts
    <2>2. k.node \in Parents /\ k.to \in Parents /\ k.cur \in Parents
      BY DEF CallType
    <2>3. KindOK(k)'
      BY <2>1 DEF CallOK, KindOK
    <2>4. ToKnown(k)'
      BY <1>6, <2>1, <2>2 DEF CallOK, ToKnown, Placing
    <2>5. FromHolds(k)'
      BY <1>2, <1>4, <2>1 DEF CallOK, KindOK, FromHolds, Moving, UpdatesApart, Apart
    <2>6. Walked(k)'
      <3> SUFFICES ASSUME UpdatesApart, Moving(k), k.pc # "parent", k.to # Root, k.to # k.from
                   PROVE  \E P \in SUBSET Nodes : Covered(k, P)'
        BY <1>2 DEF Walked, Moving, UpdatesApart, Apart
      <3>1. PICK P \in SUBSET Nodes : Covered(k, P)
        BY <2>1 DEF CallOK, Walked
      <3>2. \A x \in P : x \in Parents /\ x \in Nodes
        BY <1>7
      <3>3. Covered(k, P)'
        BY <1>4, <1>6, <2>2, <3>1, <3>2 DEF Covered
      <3> QED
        BY <3>3
    <2>7. DeletesApart => ~Placing(k)
      BY <1>1, <1>2, <1>11, OverlapSymmetric, CallFacts
         DEF TreeInv, Exclusive, DeletesApart, Apart, Placing, CallType, Kinds
    <2>8. ToExists(k)'
      BY <1>2, <2>7 DEF ToExists, Placing, DeletesApart, Apart
    <2>9. Childless(k)'
      BY <1>2, <1>6, <2>1, <2>2 DEF CallOK, Childless, DeletesApart, Apart
    <2> QED
      BY <2>3, <2>4, <2>5, <2>6, <2>8, <2>9 DEF CallOK
  <1>12. call' = [call EXCEPT ![s] = NoRequest]
    BY <1>2 DEF Done
  <1>13. /\ KindOK(NoRequest) /\ ~Moving(NoRequest) /\ ~Placing(NoRequest)
         /\ NoRequest.pc \notin {"count", "commit"}
    BY NoRequestType DEF KindOK, Moving, Placing
  <1> QED
    BY <1>2, <1>4, <1>5, <1>8, <1>9, <1>10, <1>11, <1>12, <1>13, NoRequestType, ShapeStep

(***************************************************************************)
(* Every step, and the theorems.                                            *)
(***************************************************************************)
LEMMA TreeServeKeeps ==
  ASSUME TreeInv, NEW s \in Servers, ServeStep(s)
  PROVE  TreeInv'
  BY ReadLevelKeeps, InsertKeeps, MarkKeeps, CheckParentKeeps, WalkKeeps, WriteKeeps,
     CountOldKeeps, FlagOldKeeps, CheckChildrenKeeps, CountRemainingKeeps, CommitKeeps
     DEF ServeStep

LEMMA NextKeeps == TreeInv /\ [TreeNext]_treeVars => TreeInv'
  <1> SUFFICES ASSUME TreeInv, [TreeNext]_treeVars PROVE TreeInv'
    OBVIOUS
  <1>1. CASE UNCHANGED treeVars
    BY <1>1 DEF treeVars, TreeInv, Types, Exclusive, ParentsKnown, Known, CallOK, KindOK, ToKnown,
                FromHolds, Walked, ToExists, Childless, Moving, Placing, Covered, ParentOf, Exists,
                Children, UpdatesApart, DeletesApart, Apart, Forest, NoOrphans
  <1>2. CASE TreeNext
    <2>1. PICK s \in Servers :
            \/ \E p \in Parents, leaf \in SentFlags : CreateNode(s, p, leaf)
            \/ \E n \in Nodes, p \in Parents, leaf \in SentFlags : UpdateNode(s, n, p, leaf)
            \/ \E n \in Nodes : DeleteNode(s, n)
            \/ ServeStep(s) \/ AbortRequest(s)
      BY <1>2 DEF TreeNext
    <2> QED
      BY <2>1, FlagsAssumption, CreateKeeps, UpdateKeeps, DeleteKeeps, TreeServeKeeps, AbortKeeps
  <1> QED
    BY <1>1, <1>2

LEMMA AlwaysInv == TreeSpec => []TreeInv
  BY InitInv, NextKeeps, PTL DEF TreeSpec

\* Whatever the nodes, the goroutines and the overlaps: rows and handlers keep their types.
THEOREM TreeTypeCorrect == TreeSpec => []TreeTypeOK
  <1>1. TreeInv => TreeTypeOK
    BY DEF TreeInv, Types, TreeTypeOK, NodeType, CallType, Pcs
  <1> QED
    BY <1>1, AlwaysInv, PTL

\* The walk towards the root keeps cycles out as long as no two updates overlap.
THEOREM TreeForest == TreeSpec => []Forest
  <1>1. TreeInv => Forest
    BY DEF TreeInv
  <1> QED
    BY <1>1, AlwaysInv, PTL

\* No node loses its parent as long as deletes overlap neither creates nor updates.
THEOREM TreeNoOrphans == TreeSpec => []NoOrphans
  <1>1. TreeInv => NoOrphans
    BY DEF TreeInv
  <1> QED
    BY <1>1, AlwaysInv, PTL

(***************************************************************************)
(* The level of a node.                                                     *)
(***************************************************************************)
LevelsHeld ==
  /\ Apart("create", "update") /\ Apart("update", "update")
  /\ Apart("create", "delete") /\ Apart("update", "delete")

LevelUnder(p) == IF p = Root THEN 1 ELSE node[p].level + 1

LevelRow(n) == n \notin moved /\ Exists(n) => node[n].level = LevelUnder(node[n].parent)

\* The level a request writes is still the one its new parent asks for, and a parent it only
\* keeps leaves the level alone; the new parent of a move is neither the node nor its old parent.
LevelCall(c) ==
  /\ c.pc = "insert" => c.level = LevelUnder(c.to)
  /\ c.kind = "update" /\ c.pc \in {"parent", "walk", "level"} => c.to # c.from
  /\ c.kind = "update" /\ c.pc \in {"walk", "level"} => c.to # c.node
  /\ c.pc = "write" =>
       IF c.to = c.from THEN c.level = node[c.node].level
       ELSE c.to # c.node /\ c.level = LevelUnder(c.to)

LevelInv ==
  LevelsHeld => /\ \A n \in Nodes : LevelRow(n)
                /\ \A s \in Servers : LevelCall(call[s])

\* Places of a request that ask nothing of the levels.
NoLevelPcs == Pcs \ {"insert", "parent", "walk", "level", "write"}

LEMMA NoLevelCall ==
  ASSUME NEW c, c.pc \in NoLevelPcs
  PROVE  LevelCall(c)
  BY DEF LevelCall, NoLevelPcs

LEMMA LevelInit == TreeInit => LevelInv
  <1> SUFFICES ASSUME TreeInit PROVE LevelInv
    OBVIOUS
  <1>1. \A s \in Servers : call[s].pc = "idle"
    BY NoRequestType DEF TreeInit
  <1>2. \A n \in Nodes : ~Exists(n)
    BY DEF TreeInit, Exists, NoNode
  <1> QED
    BY <1>1, <1>2, NoLevelCall DEF LevelInv, LevelRow, NoLevelPcs, Pcs

\* A step of one goroutine that places and moves no node.
SameLevels ==
  /\ \A n \in Nodes : /\ node'[n].level = node[n].level /\ node'[n].parent = node[n].parent
                      /\ Exists(n)' => Exists(n)
  /\ moved' = moved

LEMMA LevelStep ==
  ASSUME TreeInv, TreeInv', LevelInv, NEW s \in Servers, NEW d, d = call'[s], LevelsHeld => LevelCall(d),
         \A t \in Servers : t # s => call'[t] = call[t], mode' = mode, SameLevels
  PROVE  LevelInv'
  <1> SUFFICES ASSUME LevelsHeld PROVE (\A n \in Nodes : LevelRow(n)') /\ \A t \in Servers : LevelCall(call[t])'
    BY DEF LevelInv, LevelsHeld, Apart
  <1>1. \A n \in Nodes : node[n].parent \in Parents
    BY DEF TreeInv, Types, NodeType
  <1>2. \A p \in Parents : LevelUnder(p)' = LevelUnder(p)
    BY DEF LevelUnder, SameLevels, Parents
  <1>3. ASSUME NEW n \in Nodes PROVE LevelRow(n)'
    <2>1. PICK p \in Parents : p = node[n].parent
      BY <1>1
    <2> QED
      BY <1>2, <2>1 DEF LevelInv, LevelRow, LevelUnder, SameLevels
  <1>4. ASSUME NEW t \in Servers PROVE LevelCall(call[t])'
    <2>1. PICK k \in CallType : k = call'[t]
      BY DEF TreeInv, Types
    <2>2. LevelCall(k) /\ KindOK(k)
      <3>1. CASE t = s
        BY <2>1, <3>1 DEF TreeInv, CallOK, KindOK
      <3>2. CASE t # s
        BY <2>1, <3>2 DEF LevelInv, TreeInv, CallOK
      <3> QED
        BY <3>1, <3>2
    <2>3. k.to \in Parents /\ (k.pc = "write" => k.node \in Nodes)
      BY <2>2 DEF CallType, KindOK
    <2>4. LevelCall(k)'
      BY <1>2, <2>2, <2>3 DEF LevelCall, SameLevels, LevelUnder
    <2> QED
      BY <2>1, <2>4 DEF LevelCall, LevelUnder
  <1> QED
    BY <1>3, <1>4

LEMMA ReadsLevels ==
  ASSUME Reads
  PROVE  SameLevels /\ mode' = mode
  BY DEF Reads, SameLevels, Exists

LEMMA FlagWriteLevels ==
  ASSUME TreeInv, NEW n \in Nodes, NEW leaf \in LeafFlags, FlagWrite(n, leaf), moved' = moved
  PROVE  SameLevels
  <1>1. CASE Exists(n)
    <2>1. node[n] \in NodeType /\ node \in [Nodes -> NodeType]
      BY DEF TreeInv, Types
    <2>2. node' = [node EXCEPT ![n].leaf = leaf]
      BY <1>1 DEF FlagWrite
    <2>3. node'[n].level = node[n].level /\ node'[n].parent = node[n].parent /\ node'[n].life = node[n].life
      BY <2>1, <2>2 DEF NodeType
    <2>4. \A x \in Nodes : x # n => node'[x] = node[x]
      BY <2>1, <2>2
    <2> QED
      BY <2>3, <2>4 DEF SameLevels, Exists
  <1>2. CASE ~Exists(n)
    BY <1>2 DEF FlagWrite, SameLevels, Exists
  <1> QED
    BY <1>1, <1>2

\* The goroutine that makes a step, and the others, which rest.
LEMMA OnlyCaller ==
  ASSUME TreeInv, NEW s \in Servers, NEW d, call' = [call EXCEPT ![s] = d]
  PROVE  call'[s] = d /\ \A t \in Servers : t # s => call'[t] = call[t]
  BY DEF TreeInv, Types

LEMMA CreateLevel ==
  ASSUME TreeInv, TreeInv', LevelInv, NEW s \in Servers, NEW p \in Parents, NEW leaf \in LeafFlags,
         CreateNode(s, p, leaf)
  PROVE  LevelInv'
  <1>1. PICK d : d = [NoRequest EXCEPT !.pc = IF p = Root THEN "insert" ELSE "level", !.to = p,
                                       !.leaf = IF leaf = "zero" THEN "yes" ELSE leaf]
    OBVIOUS
  <1>2. call' = [call EXCEPT ![s] = d] /\ Reads
    BY <1>1 DEF CreateNode, Begin
  <1>3. d.pc = (IF p = Root THEN "insert" ELSE "level") /\ d.to = p /\ d.kind = "create" /\ d.level = 1
    BY <1>1 DEF NoRequest
  <1>4. LevelCall(d)
    BY <1>3 DEF LevelCall, LevelUnder
  <1> QED
    BY <1>2, <1>4, OnlyCaller, ReadsLevels, LevelStep

LEMMA UpdateLevel ==
  ASSUME TreeInv, TreeInv', LevelInv, NEW s \in Servers, NEW n \in Nodes, NEW p \in Parents,
         NEW leaf \in LeafFlags, UpdateNode(s, n, p, leaf)
  PROVE  LevelInv'
  <1> DEFINE stays == p = node[n].parent
  <1>1. PICK d : d = [NoRequest EXCEPT !.kind = "update", !.node = n, !.to = p, !.leaf = leaf,
                        !.from = node[n].parent,
                        !.level = IF stays THEN node[n].level ELSE 1,
                        !.pc = IF stays \/ p = Root THEN "write" ELSE "parent"]
    OBVIOUS
  <1>2. call' = [call EXCEPT ![s] = d] /\ Reads
    BY <1>1 DEF UpdateNode, Begin
  <1>3. /\ d.pc = IF stays \/ p = Root THEN "write" ELSE "parent"
        /\ d.to = p /\ d.node = n /\ d.from = node[n].parent
        /\ d.level = IF stays THEN node[n].level ELSE 1
    BY <1>1 DEF NoRequest
  <1>4. LevelCall(d)
    BY <1>3, RootAssumption DEF LevelCall, LevelUnder
  <1> QED
    BY <1>2, <1>4, OnlyCaller, ReadsLevels, LevelStep

LEMMA ReadLevelLevel ==
  ASSUME TreeInv, TreeInv', LevelInv, NEW s \in Servers, ReadLevel(s)
  PROVE  LevelInv'
  <1>1. PICK c \in CallType : c = call[s]
    BY CallFacts
  <1>2. c.pc = "level" /\ CallOK(c) /\ c.to \in Nodes /\ c.kind # "delete"
    BY <1>1, CallFacts DEF ReadLevel, CallOK, KindOK
  <1>3. PICK d : d = [c EXCEPT !.pc = IF c.kind = "create" THEN "insert" ELSE "write",
                               !.level = (IF Exists(c.to) THEN node[c.to].level ELSE 0) + 1]
    OBVIOUS
  <1>4. call' = [call EXCEPT ![s] = d] /\ Reads
    BY <1>1, <1>3 DEF ReadLevel
  <1>5. /\ d.pc = IF c.kind = "create" THEN "insert" ELSE "write"
        /\ d.to = c.to /\ d.from = c.from /\ d.node = c.node /\ d.kind = c.kind
        /\ d.level = (IF Exists(c.to) THEN node[c.to].level ELSE 0) + 1
    BY <1>3 DEF CallType
  <1>6. ASSUME LevelsHeld PROVE LevelCall(d)
    <2>1. Exists(c.to) /\ c.to # Root
      BY <1>2, <1>6, RootAssumption DEF CallOK, ToExists, LevelsHeld, DeletesApart, Placing
    <2>2. d.level = LevelUnder(d.to)
      BY <1>5, <2>1 DEF LevelUnder
    <2>3. c.kind = "update" => c.to # c.from /\ c.to # c.node
      BY <1>1, <1>2, <1>6 DEF LevelInv, LevelCall
    <2>4. c.kind \in {"create", "update"}
      BY <1>2 DEF CallType, Kinds
    <2> QED
      BY <1>5, <2>2, <2>3, <2>4 DEF LevelCall
  <1> QED
    BY <1>4, <1>6, OnlyCaller, ReadsLevels, LevelStep

LEMMA CheckParentLevel ==
  ASSUME TreeInv, TreeInv', LevelInv, NEW s \in Servers, CheckParent(s) \/ Walk(s)
  PROVE  LevelInv'
  <1>1. PICK c \in CallType : c = call[s]
    BY CallFacts
  <1>2. Reads /\ c.kind = "update" /\ c.pc \in {"parent", "walk"}
    BY <1>1, CallFacts DEF CheckParent, Walk, CallOK, KindOK
  <1>3. PICK d \in CallType : /\ call' = [call EXCEPT ![s] = d]
                              /\ \/ d.pc = "idle"
                                 \/ /\ d.pc \in {"walk", "level"} /\ d.kind = "update"
                                    /\ d.to = c.to /\ d.from = c.from /\ d.node = c.node
                                    /\ c.pc = "parent" => c.to # c.node
    <2>1. CASE Done(s)
      BY <2>1, NoRequestType DEF Done
    <2>2. CASE c.to # c.node /\ call' = [call EXCEPT ![s] = [c EXCEPT !.pc = "walk", !.cur = c.to]]
      <3>1. PICK d : d = [c EXCEPT !.pc = "walk", !.cur = c.to]
        OBVIOUS
      <3>2. d \in CallType /\ d.pc = "walk" /\ d.kind = c.kind /\ d.to = c.to /\ d.from = c.from /\ d.node = c.node
        BY <3>1 DEF CallType, Pcs
      <3> QED
        BY <1>2, <2>2, <3>1, <3>2
    <2>3. CASE c.pc = "walk" /\ \E pc \in {"walk", "level"} :
                 call' = [call EXCEPT ![s] = [c EXCEPT !.cur = ParentOf(c.cur), !.pc = pc]]
      <3>1. PICK pc \in {"walk", "level"} :
              call' = [call EXCEPT ![s] = [c EXCEPT !.cur = ParentOf(c.cur), !.pc = pc]]
        BY <2>3
      <3>2. PICK d : d = [c EXCEPT !.cur = ParentOf(c.cur), !.pc = pc]
        OBVIOUS
      <3>3. ParentOf(c.cur) \in Parents
        BY ParentOfType DEF CallType, TreeInv
      <3>4. d \in CallType /\ d.pc = pc /\ d.kind = c.kind /\ d.to = c.to /\ d.from = c.from /\ d.node = c.node
        BY <3>2, <3>3 DEF CallType, Pcs
      <3> QED
        BY <1>2, <2>3, <3>1, <3>2, <3>4
    <2> QED
      BY <1>1, <2>1, <2>2, <2>3 DEF CheckParent, Walk
  <1>4. ASSUME LevelsHeld PROVE LevelCall(d)
    <2>1. LevelCall(c)
      BY <1>1, <1>4 DEF LevelInv
    <2> QED
      BY <1>2, <1>3, <2>1 DEF LevelCall
  <1> QED
    BY <1>2, <1>3, <1>4, OnlyCaller, ReadsLevels, LevelStep

\* What a step leaves of the request of its goroutine: nothing, or the request at another place.
IsAt(c, d, pc) == d.pc = pc /\ SameRequest(c, d)

LEMMA DoneCall ==
  ASSUME TreeInv, NEW s \in Servers, Done(s)
  PROVE  /\ call'[s].pc = "idle" /\ call'[s] = NoRequest
         /\ \A t \in Servers : t # s => call'[t] = call[t]
  BY NoRequestType DEF Done, TreeInv, Types

LEMMA GoToCall ==
  ASSUME TreeInv, NEW s \in Servers, NEW pc \in Pcs, GoTo(s, pc)
  PROVE  /\ IsAt(call[s], call'[s], pc) /\ call'[s] \in CallType
         /\ \A t \in Servers : t # s => call'[t] = call[t]
  <1>1. PICK d \in CallType : call' = [call EXCEPT ![s] = d] /\ d.pc = pc /\ SameRequest(call[s], d)
    BY GoToRecord DEF TreeInv
  <1> QED
    BY <1>1, OnlyCaller DEF IsAt

LEMMA ContinueCall ==
  ASSUME TreeInv, NEW s \in Servers, NEW pc \in {"mark", "countOld", "done"}, Continue(s, pc)
  PROVE  /\ \/ pc = "done" /\ call'[s].pc = "idle"
            \/ pc # "done" /\ IsAt(call[s], call'[s], pc)
         /\ \A t \in Servers : t # s => call'[t] = call[t]
  BY DoneCall, GoToCall DEF Continue, Pcs

\* The row that Insert creates.
LEMMA InsertRow ==
  ASSUME TreeInv, NEW s \in Servers, Insert(s)
  PROVE  \E n \in Nodes :
           /\ node[n].life = "absent" /\ node'[n].life = "live"
           /\ node'[n].parent = call[s].to /\ node'[n].level = call[s].level /\ node'[n].leaf = call[s].leaf
           /\ \A x \in Nodes : x # n => node'[x] = node[x]
           /\ requested' = IF call[s].leaf = "no" THEN requested \cup {n} ELSE requested
  <1>1. PICK n \in Nodes :
          /\ node[n].life = "absent"
          /\ node' = [node EXCEPT ![n] = [life |-> "live", parent |-> call[s].to,
                                          level |-> call[s].level, leaf |-> call[s].leaf]]
          /\ requested' = IF call[s].leaf = "no" THEN requested \cup {n} ELSE requested
    BY DEF Insert
  <1> QED
    BY <1>1 DEF TreeInv, Types

LEMMA InsertCall ==
  ASSUME TreeInv, NEW s \in Servers, Insert(s)
  PROVE  /\ \/ call[s].to = Root /\ call'[s].pc = "idle"
            \/ call[s].to # Root /\ IsAt(call[s], call'[s], "mark")
         /\ \A t \in Servers : t # s => call'[t] = call[t]
         /\ call[s].pc = "insert" /\ call[s].kind = "create" /\ mode' = mode /\ moved' = moved
  BY DoneCall, GoToCall, CallFacts DEF Insert, Pcs, CallOK, KindOK

\* The row that Write changes.
LEMMA WriteRow ==
  ASSUME TreeInv, NEW s \in Servers, Write(s), Exists(call[s].node)
  PROVE  \E n \in Nodes :
           /\ n = call[s].node /\ node[n].life = "live" /\ node'[n].life = "live"
           /\ node'[n].parent = call[s].to /\ node'[n].level = call[s].level
           /\ \A x \in Nodes : x # n => node'[x] = node[x]
  <1>1. PICK n \in Nodes : n = call[s].node
    BY DEF Exists
  <1>2. node[n].life = "live" /\ node[n] \in NodeType /\ node \in [Nodes -> NodeType]
    BY <1>1 DEF Exists, TreeInv, Types
  <1>3. node' = [node EXCEPT ![n] = [node[n] EXCEPT !.parent = call[s].to, !.level = call[s].level,
                                                     !.leaf = call[s].leaf]]
    BY <1>1 DEF Write
  <1>4. node'[n].life = "live" /\ node'[n].parent = call[s].to /\ node'[n].level = call[s].level
    BY <1>2, <1>3 DEF NodeType
  <1> QED
    BY <1>1, <1>2, <1>3, <1>4

LEMMA WriteCall ==
  ASSUME TreeInv, NEW s \in Servers, Write(s)
  PROVE  /\ LET pc == AfterWrite(call[s]) IN
            /\ pc \in {"mark", "countOld", "done"}
            /\ \/ pc = "done" /\ call'[s].pc = "idle"
               \/ pc # "done" /\ IsAt(call[s], call'[s], pc)
         /\ \A t \in Servers : t # s => call'[t] = call[t]
         /\ call[s].pc = "write" /\ call[s].kind = "update" /\ mode' = mode
  <1>1. call[s] \in CallType /\ call[s].kind = "update" /\ call[s].pc = "write"
    BY CallFacts DEF Write, CallOK, KindOK
  <1>2. AfterWrite(call[s]) \in {"mark", "countOld", "done"} /\ Continue(s, AfterWrite(call[s]))
    BY <1>1, AfterWritePc DEF Write
  <1> QED
    BY <1>1, <1>2, ContinueCall DEF Write

LEMMA InsertLevel ==
  ASSUME TreeInv, TreeInv', LevelInv, NEW s \in Servers, Insert(s)
  PROVE  LevelInv'
  <1> SUFFICES ASSUME LevelsHeld PROVE (\A n \in Nodes : LevelRow(n)') /\ \A t \in Servers : LevelCall(call[t])'
    BY InsertCall DEF LevelInv, LevelsHeld, Apart
  <1>1. PICK n \in Nodes :
           /\ node[n].life = "absent" /\ node'[n].life = "live"
           /\ node'[n].parent = call[s].to /\ node'[n].level = call[s].level
           /\ \A x \in Nodes : x # n => node'[x] = node[x]
    BY InsertRow
  <1>2. \A p \in Parents : (p = Root \/ Exists(p)) => LevelUnder(p)' = LevelUnder(p)
    BY <1>1 DEF Exists, LevelUnder
  <1>3. ASSUME NEW x \in Nodes PROVE LevelRow(x)'
    <2> SUFFICES ASSUME x \notin moved', Exists(x)' PROVE (node[x].level = LevelUnder(node[x].parent))'
      BY DEF LevelRow
    <2>1. CASE x = n
      <3>1. PICK c \in CallType : c = call[s]
        BY CallFacts
      <3>2. c.level = LevelUnder(c.to) /\ (c.to = Root \/ Exists(c.to)) /\ c.to \in Parents
        BY <3>1, CallFacts, InsertCall
           DEF LevelInv, LevelCall, CallOK, ToExists, LevelsHeld, DeletesApart, Placing, CallType
      <3>3. c.level = LevelUnder(c.to)'
        BY <3>2, <1>2
      <3> QED
        BY <1>1, <2>1, <3>1, <3>3 DEF LevelUnder
    <2>2. CASE x # n
      <3>1. PICK p \in Parents : p = node[x].parent
        BY DEF TreeInv, Types, NodeType
      <3>2. Exists(x) /\ x \notin moved /\ node'[x] = node[x]
        BY <1>1, <2>2, InsertCall DEF Exists
      <3>3. p = Root \/ Exists(p)
        BY <3>1, <3>2 DEF TreeInv, NoOrphans, LevelsHeld
      <3>4. node[x].level = LevelUnder(p)
        BY <3>1, <3>2 DEF LevelInv, LevelRow
      <3>5. node'[x].level = LevelUnder(p)'
        BY <3>2, <3>3, <3>4, <1>2
      <3> QED
        BY <3>1, <3>2, <3>5 DEF LevelUnder
    <2> QED
      BY <2>1, <2>2
  <1>4. ASSUME NEW t \in Servers PROVE LevelCall(call[t])'
    <2>1. PICK k \in CallType : k = call'[t]
      BY DEF TreeInv, Types
    <2>2. CASE t = s
      <3>1. k.pc \in {"idle", "mark"}
        BY <2>1, <2>2, InsertCall DEF IsAt
      <3> QED
        BY <2>1, <3>1 DEF LevelCall
    <2>3. CASE t # s
      <3>1. k = call[t] /\ CallOK(k) /\ LevelCall(k)
        BY <2>1, <2>3, InsertCall, CallFacts DEF LevelInv
      <3>2. k.pc = "idle" \/ k.kind # "update"
        BY <2>3, <3>1, InsertCall DEF TreeInv, Exclusive, LevelsHeld, Apart
      <3>3. k.pc \notin {"parent", "walk", "write"} /\ (k.pc = "level" => k.kind # "update")
        BY <3>1, <3>2 DEF CallOK, KindOK
      <3>4. k.pc = "insert" => (k.to = Root \/ Exists(k.to)) /\ k.to \in Parents
        BY <3>1 DEF CallOK, KindOK, ToExists, LevelsHeld, DeletesApart, Placing, CallType
      <3>5. k.pc = "insert" => k.level = LevelUnder(k.to)'
        BY <3>1, <3>4, <1>2 DEF LevelCall
      <3> QED
        BY <2>1, <3>3, <3>5 DEF LevelCall, LevelUnder
    <2> QED
      BY <2>2, <2>3
  <1> QED
    BY <1>3, <1>4

LEMMA WriteLevel ==
  ASSUME TreeInv, TreeInv', LevelInv, NEW s \in Servers, Write(s)
  PROVE  LevelInv'
  <1>1. PICK c \in CallType : c = call[s]
    BY CallFacts
  <1>2. PICK d \in CallType : d = call'[s]
    BY DEF TreeInv, Types
  <1>3. d.pc \in NoLevelPcs
    BY <1>2, WriteCall DEF IsAt, NoLevelPcs, Pcs
  <1>4. CASE ~Exists(c.node)
    <2>1. SameLevels
      BY <1>1, <1>4 DEF Write, SameLevels, Exists
    <2> QED
      BY <2>1, <1>2, <1>3, NoLevelCall, WriteCall, LevelStep
  <1>5. CASE Exists(c.node)
    <2> SUFFICES ASSUME LevelsHeld PROVE (\A n \in Nodes : LevelRow(n)') /\ \A t \in Servers : LevelCall(call[t])'
      BY WriteCall DEF LevelInv, LevelsHeld, Apart
    <2>1. PICK n \in Nodes :
           /\ n = c.node /\ node[n].life = "live"
           /\ node'[n].parent = c.to /\ node'[n].level = c.level
           /\ \A x \in Nodes : x # n => node'[x] = node[x]
      BY <1>1, <1>5, WriteRow
    <2>2. moved' = (moved \ (IF c.to # c.from THEN {n} ELSE {})) \cup
                     (IF c.level # node[n].level THEN Children(n) ELSE {})
      BY <1>1, <1>5, <2>1 DEF Write
    <2>3. IF c.to = c.from THEN c.level = node[n].level
          ELSE c.to # n /\ c.level = LevelUnder(c.to)
      BY <1>1, <2>1, WriteCall DEF LevelInv, LevelCall
    <2>4. node[n].parent = c.from
      BY <1>1, <2>1, CallFacts, WriteCall DEF CallOK, FromHolds, Moving, LevelsHeld, UpdatesApart
    <2>5. \A p \in Parents : p # n \/ c.level = node[n].level => LevelUnder(p)' = LevelUnder(p)
      BY <2>1 DEF LevelUnder, Parents
    <2>6. c.to \in Parents /\ \A x \in Nodes : node[x].parent \in Parents
      BY DEF CallType, TreeInv, Types, NodeType
    <2>7. ASSUME NEW x \in Nodes PROVE LevelRow(x)'
      <3> SUFFICES ASSUME x \notin moved', Exists(x)' PROVE (node[x].level = LevelUnder(node[x].parent))'
        BY DEF LevelRow
      <3>1. CASE x = n /\ c.to # c.from
        <4>1. c.level = LevelUnder(c.to)'
          BY <2>3, <2>5, <2>6, <3>1
        <4> QED
          BY <2>1, <3>1, <4>1 DEF LevelUnder
      <3>2. CASE x = n /\ c.to = c.from
        <4>1. n \notin moved /\ Exists(n)
          BY <1>5, <2>1, <2>2, <3>2
        <4>2. node[n].level = LevelUnder(c.to)
          BY <2>4, <3>2, <4>1 DEF LevelInv, LevelRow
        <4>3. c.level = LevelUnder(c.to)'
          BY <2>3, <2>5, <2>6, <3>2, <4>2
        <4> QED
          BY <2>1, <3>2, <4>3 DEF LevelUnder
      <3>3. CASE x # n
        <4>1. node'[x] = node[x] /\ Exists(x) /\ x \notin moved
          BY <2>1, <2>2, <3>3 DEF Exists
        <4>2. PICK p \in Parents : p = node[x].parent
          BY <2>6
        <4>3. node[x].level = LevelUnder(p)
          BY <4>1, <4>2 DEF LevelInv, LevelRow
        <4>4. p # n \/ c.level = node[n].level
          BY <2>2, <4>1, <4>2 DEF Children, Exists
        <4>5. node'[x].level = LevelUnder(p)'
          BY <2>5, <4>1, <4>3, <4>4
        <4> QED
          BY <4>1, <4>2, <4>5 DEF LevelUnder
      <3> QED
        BY <3>1, <3>2, <3>3
    <2>8. ASSUME NEW t \in Servers PROVE LevelCall(call[t])'
      <3>1. CASE t = s
        BY <1>2, <1>3, <3>1 DEF LevelCall, NoLevelPcs
      <3>2. CASE t # s
        <4>1. call'[t] = call[t] /\ call[t] \in CallType
          BY <3>2, WriteCall, CallFacts
        <4>2. call[t].pc = "idle"
          BY <3>2, <4>1, WriteCall, OverlapSymmetric DEF TreeInv, Exclusive, LevelsHeld, Apart, CallType, Kinds
        <4> QED
          BY <4>1, <4>2 DEF LevelCall
      <3> QED
        BY <3>1, <3>2
    <2> QED
      BY <2>7, <2>8
  <1> QED
    BY <1>4, <1>5

\* The rows that CommitDelete changes: the node is gone, and its parent gets a flag.
LEMMA CommitRow ==
  ASSUME TreeInv, NEW s \in Servers, CommitDelete(s)
  PROVE  \E n \in Nodes :
           /\ n = call[s].node /\ node'[n].life = "deleted"
           /\ \A x \in Nodes : /\ node'[x].parent = node[x].parent /\ node'[x].level = node[x].level
                               /\ x # n => node'[x].life = node[x].life
           /\ \A x \in Nodes : x # n /\ x # call[s].from => node'[x].leaf = node[x].leaf
           /\ \A x \in Nodes : x # n /\ x = call[s].from /\ Exists(x) =>
                node'[x].leaf = IF call[s].empty THEN "yes" ELSE "no"
  <1>1. PICK c \in CallType : c = call[s]
    BY CallFacts
  <1>2. PICK n \in Nodes : n = c.node
    BY <1>1, CallFacts DEF CommitDelete, CallOK, KindOK
  <1> DEFINE left(x) == [node[x] EXCEPT !.leaf = IF c.empty THEN "yes" ELSE "no"]
             gone(x) == [node[x] EXCEPT !.life = "deleted"]
  <1>3. \A x \in Nodes : node[x] \in NodeType
    BY DEF TreeInv, Types
  <1>4. \A x \in Nodes :
          /\ left(x).life = node[x].life /\ left(x).parent = node[x].parent /\ left(x).level = node[x].level
          /\ left(x).leaf = IF c.empty THEN "yes" ELSE "no"
    BY <1>3 DEF NodeType
  <1>5. \A x \in Nodes :
          /\ gone(x).life = "deleted" /\ gone(x).parent = node[x].parent /\ gone(x).level = node[x].level
          /\ gone(x).leaf = node[x].leaf
    BY <1>3 DEF NodeType
  <1>6. node' = [x \in Nodes |->
                   CASE x = c.node -> gone(x)
                     [] x = c.from /\ x # c.node /\ Exists(x) -> left(x)
                     [] OTHER -> node[x]]
    BY <1>1 DEF CommitDelete
  <1> HIDE DEF left, gone
  <1>7. node'[n] = gone(n)
    BY <1>2, <1>6
  <1>8. \A x \in Nodes : x # n => node'[x] = IF x = c.from /\ Exists(x) THEN left(x) ELSE node[x]
    BY <1>2, <1>6
  <1> QED
    BY <1>1, <1>2, <1>4, <1>5, <1>7, <1>8

LEMMA CommitCall ==
  ASSUME TreeInv, NEW s \in Servers, CommitDelete(s)
  PROVE  /\ call'[s].pc = "idle" /\ \A t \in Servers : t # s => call'[t] = call[t]
         /\ call[s].pc = "commit" /\ call[s].kind = "delete" /\ mode' = mode /\ moved' = moved
         /\ requested' = requested \ {call[s].from}
  BY DoneCall, CallFacts DEF CommitDelete, CallOK, KindOK

\* The steps that write no level.
LEMMA OtherLevel ==
  ASSUME TreeInv, TreeInv', LevelInv, NEW s \in Servers,
         \/ MarkParent(s) \/ CountOld(s) \/ FlagOld(s) \/ CheckChildren(s) \/ CountRemaining(s)
         \/ CommitDelete(s) \/ AbortRequest(s) \/ \E n \in Nodes : DeleteNode(s, n)
  PROVE  LevelInv'
  <1>1. PICK c \in CallType : c = call[s]
    BY CallFacts
  <1>2. AfterMove(c) \in {"mark", "done"} /\ KindOK(c)
    BY <1>1, AfterMovePc, CallFacts DEF CallOK
  <1>3. PICK d \in CallType : d = call'[s]
    BY DEF TreeInv, Types
  <1>4. CASE MarkParent(s)
    <2>1. d.pc = "idle" /\ (\A t \in Servers : t # s => call'[t] = call[t]) /\ mode' = mode
      BY <1>3, <1>4, DoneCall DEF MarkParent
    <2>2. SameLevels
      BY <1>1, <1>2, <1>4, FlagWriteLevels DEF MarkParent, KindOK, LeafFlags
    <2> QED
      BY <1>3, <2>1, <2>2, NoLevelCall, LevelStep DEF NoLevelPcs, Pcs
  <1>5. CASE CountOld(s)
    <2>1. d.pc \in {"flagOld", "mark", "idle"} /\ \A t \in Servers : t # s => call'[t] = call[t]
      <3>1. CASE Continue(s, AfterMove(c))
        BY <1>2, <1>3, <3>1, ContinueCall DEF IsAt
      <3>2. CASE call' = [call EXCEPT ![s] = [c EXCEPT !.pc = "flagOld", !.empty = Children(c.from) = {}]]
        <4>1. call'[s] = [c EXCEPT !.pc = "flagOld", !.empty = Children(c.from) = {}]
              /\ \A t \in Servers : t # s => call'[t] = call[t]
          BY <3>2 DEF TreeInv, Types
        <4>2. d.pc = "flagOld"
          BY <1>3, <4>1 DEF CallType
        <4> QED
          BY <4>1, <4>2
      <3> QED
        BY <1>1, <1>5, <3>1, <3>2 DEF CountOld
    <2> QED
      BY <1>3, <1>5, <2>1, ReadsLevels, NoLevelCall, LevelStep DEF CountOld, NoLevelPcs, Pcs
  <1>6. CASE FlagOld(s)
    <2>1. d.pc \in {"mark", "idle"} /\ (\A t \in Servers : t # s => call'[t] = call[t]) /\ mode' = mode
      BY <1>1, <1>2, <1>3, <1>6, ContinueCall DEF FlagOld, IsAt
    <2>2. c.from \in Nodes
      BY <1>1, <1>2, <1>6 DEF FlagOld, KindOK
    <2>3. FlagWrite(c.from, IF c.empty THEN "yes" ELSE "no") /\ moved' = moved
      BY <1>1, <1>6 DEF FlagOld
    <2>4. SameLevels
      BY <2>2, <2>3, FlagWriteLevels DEF LeafFlags
    <2> QED
      BY <1>3, <2>1, <2>4, NoLevelCall, LevelStep DEF NoLevelPcs, Pcs
  <1>7. CASE CheckChildren(s)
    <2>1. d.pc \in {"count", "idle"} /\ \A t \in Servers : t # s => call'[t] = call[t]
      BY <1>3, <1>7, DoneCall, GoToCall DEF CheckChildren, IsAt, Pcs
    <2> QED
      BY <1>3, <1>7, <2>1, ReadsLevels, NoLevelCall, LevelStep DEF CheckChildren, NoLevelPcs, Pcs
  <1>8. CASE CountRemaining(s)
    <2>1. call' = [call EXCEPT ![s] = [c EXCEPT !.pc = "commit", !.empty = Children(c.from) \subseteq {c.node}]]
      BY <1>1, <1>8 DEF CountRemaining
    <2>2. d = [c EXCEPT !.pc = "commit", !.empty = Children(c.from) \subseteq {c.node}]
          /\ \A t \in Servers : t # s => call'[t] = call[t]
      BY <1>3, <2>1 DEF TreeInv, Types
    <2>3. d.pc = "commit"
      BY <2>2 DEF CallType
    <2> QED
      BY <1>3, <1>8, <2>2, <2>3, ReadsLevels, NoLevelCall, LevelStep DEF CountRemaining, NoLevelPcs, Pcs
  <1>9. CASE CommitDelete(s)
    <2>1. d.pc = "idle" /\ (\A t \in Servers : t # s => call'[t] = call[t]) /\ mode' = mode /\ moved' = moved
      BY <1>3, <1>9, CommitCall
    <2>2. SameLevels
      BY <1>9, <2>1, CommitRow DEF SameLevels, Exists
    <2> QED
      BY <1>3, <2>1, <2>2, NoLevelCall, LevelStep DEF NoLevelPcs, Pcs
  <1>10. CASE AbortRequest(s)
    <2>1. d.pc = "idle" /\ \A t \in Servers : t # s => call'[t] = call[t]
      BY <1>3, <1>10, DoneCall DEF AbortRequest
    <2> QED
      BY <1>3, <1>10, <2>1, ReadsLevels, NoLevelCall, LevelStep DEF AbortRequest, NoLevelPcs, Pcs
  <1>11. CASE \E n \in Nodes : DeleteNode(s, n)
    <2>1. PICK n \in Nodes : DeleteNode(s, n)
      BY <1>11
    <2>2. call' = [call EXCEPT ![s] = [NoRequest EXCEPT !.kind = "delete", !.node = n, !.from = node[n].parent,
                                                        !.pc = "children"]]
      BY <2>1 DEF DeleteNode, Begin
    <2>3. d = [NoRequest EXCEPT !.kind = "delete", !.node = n, !.from = node[n].parent, !.pc = "children"]
          /\ \A t \in Servers : t # s => call'[t] = call[t]
      BY <1>3, <2>2 DEF TreeInv, Types
    <2>4. d.pc = "children"
      BY <2>3 DEF NoRequest
    <2> QED
      BY <1>3, <2>1, <2>3, <2>4, ReadsLevels, NoLevelCall, LevelStep DEF DeleteNode, NoLevelPcs, Pcs
  <1> QED
    BY <1>4, <1>5, <1>6, <1>7, <1>8, <1>9, <1>10, <1>11

LEMMA NextLevel == TreeInv /\ TreeInv' /\ LevelInv /\ [TreeNext]_treeVars => LevelInv'
  <1> SUFFICES ASSUME TreeInv, TreeInv', LevelInv, [TreeNext]_treeVars PROVE LevelInv'
    OBVIOUS
  <1>1. CASE UNCHANGED treeVars
    BY <1>1 DEF treeVars, LevelInv, LevelsHeld, Apart, LevelRow, LevelCall, LevelUnder, Exists
  <1>2. CASE TreeNext
    <2>1. PICK s \in Servers :
            \/ \E p \in Parents, leaf \in SentFlags : CreateNode(s, p, leaf)
            \/ \E n \in Nodes, p \in Parents, leaf \in SentFlags : UpdateNode(s, n, p, leaf)
            \/ \E n \in Nodes : DeleteNode(s, n)
            \/ ServeStep(s) \/ AbortRequest(s)
      BY <1>2 DEF TreeNext
    <2>2. CASE ServeStep(s)
      BY <2>2, ReadLevelLevel, InsertLevel, CheckParentLevel, WriteLevel, OtherLevel DEF ServeStep
    <2> QED
      BY <2>1, <2>2, FlagsAssumption, CreateLevel, UpdateLevel, OtherLevel
  <1> QED
    BY <1>1, <1>2

LEMMA AlwaysLevel == TreeSpec => []LevelInv
  BY LevelInit, NextLevel, AlwaysInv, PTL DEF TreeSpec

\* LevelFollowsParent: as long as updates overlap nothing that writes the tree, and creates no
\* delete, a node is one level below its parent, except under a node a move gave another level, for
\* any tree, goroutines and failures (CreateNode, UpdateNode).
THEOREM TreeLevels == TreeSpec => []LevelFollowsParent
  <1>1. LevelInv => LevelFollowsParent
    BY DEF LevelInv, LevelsHeld, LevelRow, LevelUnder, LevelFollowsParent
  <1> QED
    BY <1>1, AlwaysLevel, PTL

(***************************************************************************)
(* The leaf flag.                                                           *)
(***************************************************************************)
LeafHeld == mode.overlap \subseteq {Overlap("create", "create")} /\ ~mode.faults

\* The flags a request still has to put right.
Gaining(c, n) == c.to = n /\ c.pc \in {"mark", "countOld", "flagOld"}
Losing(c, n) == c.from = n /\ c.pc \in {"countOld", "flagOld"}

LeafRow(n) ==
  n \notin requested /\ Exists(n) =>
    /\ Children(n) = {} => node[n].leaf = "yes" \/ \E s \in Servers : Losing(call[s], n)
    /\ Children(n) # {} => node[n].leaf = "no" \/ \E s \in Servers : Gaining(call[s], n)

\* What a request has found out, or done, before it writes a flag.
LeafCall(c) ==
  /\ c.kind = "create" /\ c.pc \in {"level", "insert"} => c.leaf # "zero"
  /\ c.kind = "update" /\ c.pc \in {"parent", "walk", "level", "write"} => Exists(c.node)
  /\ c.pc \in {"mark", "countOld", "flagOld"} /\ c.to # Root => Children(c.to) # {}
  /\ c.pc \in {"countOld", "flagOld"} => c.to # c.from
  /\ c.pc = "flagOld" => (c.empty <=> Children(c.from) = {})
  /\ c.pc \in {"children", "count", "commit"} => node[c.node].parent = c.from
  /\ c.pc = "commit" => (c.empty <=> Children(c.from) \subseteq {c.node})

LeafInv ==
  LeafHeld => /\ \A n \in Nodes : LeafRow(n)
              /\ \A s \in Servers : LeafCall(call[s])

LEMMA IdleLeafCall ==
  ASSUME NEW c, c.pc = "idle"
  PROVE  LeafCall(c)
  BY DEF LeafCall

LEMMA LeafInit == TreeInit => LeafInv
  <1> SUFFICES ASSUME TreeInit PROVE LeafInv
    OBVIOUS
  <1>1. \A s \in Servers : call[s].pc = "idle"
    BY NoRequestType DEF TreeInit
  <1>2. \A n \in Nodes : ~Exists(n)
    BY DEF TreeInit, Exists, NoNode
  <1> QED
    BY <1>1, <1>2, IdleLeafCall DEF LeafInv, LeafRow

\* Only creates overlap.
LEMMA OnlyCreates ==
  ASSUME TreeInv, LeafHeld, NEW s \in Servers, call[s].pc # "idle"
  PROVE  /\ UpdatesApart /\ DeletesApart
         /\ \A t \in Servers : t # s => call[t].pc = "idle" \/ (call[t].kind = "create" /\ call[s].kind = "create")
  <1>1. \A a, b \in Kinds : Overlap(a, b) \in mode.overlap => a = "create" /\ b = "create"
    BY DEF LeafHeld, Overlap
  <1>2. UpdatesApart /\ DeletesApart
    BY <1>1 DEF UpdatesApart, DeletesApart, Apart, Kinds
  <1>3. ASSUME NEW t \in Servers, t # s, call[t].pc # "idle"
        PROVE  call[t].kind = "create" /\ call[s].kind = "create"
    <2>1. Overlap(call[t].kind, call[s].kind) \in mode.overlap
      BY <1>3 DEF TreeInv, Exclusive
    <2>2. call[t].kind \in Kinds /\ call[s].kind \in Kinds
      BY CallFacts DEF CallType
    <2> QED
      BY <1>1, <2>1, <2>2
  <1> QED
    BY <1>2, <1>3

\* A step that reads.
LEMMA LeafStep ==
  ASSUME TreeInv, TreeInv', LeafInv, NEW s \in Servers, NEW d, d = call'[s], Reads,
         \A t \in Servers : t # s => call'[t] = call[t],
         LeafHeld => LeafCall(d),
         LeafHeld => \A n \in Nodes : /\ Gaining(call[s], n) => Gaining(d, n)
                                      /\ Losing(call[s], n) => Losing(d, n)
  PROVE  LeafInv'
  <1> SUFFICES ASSUME LeafHeld PROVE (\A n \in Nodes : LeafRow(n)') /\ \A t \in Servers : LeafCall(call[t])'
    BY DEF LeafInv, LeafHeld, Reads
  <1>1. ASSUME NEW n \in Nodes PROVE LeafRow(n)'
    <2>1. \A t \in Servers : /\ Gaining(call[t], n) => Gaining(call[t], n)'
                             /\ Losing(call[t], n) => Losing(call[t], n)'
      BY DEF Gaining, Losing
    <2> QED
      BY <2>1 DEF LeafInv, LeafRow, Reads, Exists, Children
  <1>2. ASSUME NEW t \in Servers PROVE LeafCall(call[t])'
    <2>1. PICK k \in CallType : k = call'[t]
      BY DEF TreeInv, Types
    <2>2. LeafCall(k)
      BY <2>1 DEF LeafInv
    <2> QED
      BY <2>1, <2>2 DEF LeafCall, Reads, Exists, Children
  <1> QED
    BY <1>1, <1>2

LEMMA NoneOpen ==
  ASSUME NEW c, c.pc \notin {"mark", "countOld", "flagOld"}
  PROVE  \A n \in Nodes : ~Gaining(c, n) /\ ~Losing(c, n)
  BY DEF Gaining, Losing

LEMMA BeginLeaf ==
  ASSUME TreeInv, TreeInv', LeafInv, NEW s \in Servers,
         \/ \E p \in Parents, leaf \in LeafFlags : CreateNode(s, p, leaf)
         \/ \E n \in Nodes, p \in Parents, leaf \in LeafFlags : UpdateNode(s, n, p, leaf)
         \/ \E n \in Nodes : DeleteNode(s, n)
  PROVE  LeafInv'
  <1>1. PICK d : d = call'[s]
    OBVIOUS
  <1>2. CASE \E p \in Parents, leaf \in LeafFlags : CreateNode(s, p, leaf)
    <2>1. PICK p \in Parents, leaf \in LeafFlags : CreateNode(s, p, leaf)
      BY <1>2
    <2>2. PICK e : e = [NoRequest EXCEPT !.pc = IF p = Root THEN "insert" ELSE "level", !.to = p,
                                         !.leaf = IF leaf = "zero" THEN "yes" ELSE leaf]
      OBVIOUS
    <2>3. call' = [call EXCEPT ![s] = e] /\ Reads /\ call[s].pc = "idle"
      BY <2>1, <2>2 DEF CreateNode, Begin
    <2>4. e.pc \in {"insert", "level"} /\ e.kind = "create" /\ e.leaf # "zero"
      BY <2>2 DEF NoRequest
    <2>5. LeafCall(e)
      BY <2>4 DEF LeafCall
    <2> QED
      BY <2>3, <2>5, NoneOpen, OnlyCaller, LeafStep
  <1>3. CASE \E n \in Nodes, p \in Parents, leaf \in LeafFlags : UpdateNode(s, n, p, leaf)
    <2>1. PICK n \in Nodes, p \in Parents, leaf \in LeafFlags : UpdateNode(s, n, p, leaf)
      BY <1>3
    <2> DEFINE stays == p = node[n].parent
    <2>2. PICK e : e = [NoRequest EXCEPT !.kind = "update", !.node = n, !.to = p, !.leaf = leaf,
                          !.from = node[n].parent,
                          !.level = IF stays THEN node[n].level ELSE 1,
                          !.pc = IF stays \/ p = Root THEN "write" ELSE "parent"]
      OBVIOUS
    <2>3. call' = [call EXCEPT ![s] = e] /\ Reads /\ call[s].pc = "idle" /\ Exists(n)
      BY <2>1, <2>2 DEF UpdateNode, Begin
    <2>4. e.pc \in {"write", "parent"} /\ e.kind = "update" /\ e.node = n
      BY <2>2 DEF NoRequest
    <2>5. LeafCall(e)
      BY <2>3, <2>4 DEF LeafCall
    <2> QED
      BY <2>3, <2>5, NoneOpen, OnlyCaller, LeafStep
  <1>4. CASE \E n \in Nodes : DeleteNode(s, n)
    <2>1. PICK n \in Nodes : DeleteNode(s, n)
      BY <1>4
    <2>2. PICK e : e = [NoRequest EXCEPT !.kind = "delete", !.node = n, !.from = node[n].parent,
                                         !.pc = "children"]
      OBVIOUS
    <2>3. call' = [call EXCEPT ![s] = e] /\ Reads /\ call[s].pc = "idle"
      BY <2>1, <2>2 DEF DeleteNode, Begin
    <2>4. e.pc = "children" /\ e.kind = "delete" /\ e.node = n /\ e.from = node[n].parent
      BY <2>2 DEF NoRequest
    <2>5. LeafCall(e)
      BY <2>4 DEF LeafCall
    <2> QED
      BY <2>3, <2>5, NoneOpen, OnlyCaller, LeafStep
  <1> QED
    BY <1>2, <1>3, <1>4

\* Reads on the way of a request.
LEMMA ReadLeaf ==
  ASSUME TreeInv, TreeInv', LeafInv, NEW s \in Servers,
         \/ ReadLevel(s) \/ CheckParent(s) \/ Walk(s) \/ CountOld(s) \/ CheckChildren(s)
         \/ CountRemaining(s)
  PROVE  LeafInv'
  <1>1. PICK c \in CallType : c = call[s]
    BY CallFacts
  <1>2. KindOK(c) /\ (LeafHeld => LeafCall(c))
    BY <1>1, CallFacts DEF CallOK, LeafInv
  <1>3. CASE ReadLevel(s)
    <2>1. PICK e : e = [c EXCEPT !.pc = IF c.kind = "create" THEN "insert" ELSE "write",
                                 !.level = (IF Exists(c.to) THEN node[c.to].level ELSE 0) + 1]
      OBVIOUS
    <2>2. call' = [call EXCEPT ![s] = e] /\ Reads /\ c.pc = "level"
      BY <1>1, <1>3, <2>1 DEF ReadLevel
    <2>3. e.pc = (IF c.kind = "create" THEN "insert" ELSE "write") /\ e.kind = c.kind /\ e.node = c.node
          /\ e.leaf = c.leaf
      BY <2>1 DEF CallType
    <2>4. LeafHeld => LeafCall(e)
      BY <1>2, <2>2, <2>3 DEF LeafCall, KindOK, CallType, Kinds
    <2> QED
      BY <1>1, <2>2, <2>4, NoneOpen, OnlyCaller, LeafStep
  <1>4. CASE Done(s) /\ Reads /\ c.pc \notin {"mark", "countOld", "flagOld"}
    BY <1>1, <1>4, DoneCall, IdleLeafCall, NoneOpen, LeafStep
  <1>5. ASSUME NEW e \in CallType, call' = [call EXCEPT ![s] = e], Reads,
               c.pc \in {"parent", "walk"}, e.pc \in {"walk", "level"}, e.kind = c.kind, e.node = c.node
        PROVE  LeafInv'
    <2>1. LeafHeld => LeafCall(e)
      BY <1>2, <1>5 DEF LeafCall, KindOK
    <2> QED
      BY <1>1, <1>5, <2>1, NoneOpen, OnlyCaller, LeafStep
  <1>6. CASE CheckParent(s)
    <2>1. CASE call' = [call EXCEPT ![s] = [c EXCEPT !.pc = "walk", !.cur = c.to]]
      <3>1. PICK e : e = [c EXCEPT !.pc = "walk", !.cur = c.to]
        OBVIOUS
      <3>2. e \in CallType /\ e.pc = "walk" /\ e.kind = c.kind /\ e.node = c.node
        BY <3>1 DEF CallType, Pcs
      <3> QED
        BY <1>1, <1>5, <1>6, <2>1, <3>1, <3>2 DEF CheckParent
    <2> QED
      BY <1>1, <1>4, <1>6, <2>1 DEF CheckParent
  <1>7. CASE Walk(s)
    <2>1. CASE \E pc \in {"walk", "level"} :
                 call' = [call EXCEPT ![s] = [c EXCEPT !.cur = ParentOf(c.cur), !.pc = pc]]
      <3>1. PICK pc \in {"walk", "level"} :
              call' = [call EXCEPT ![s] = [c EXCEPT !.cur = ParentOf(c.cur), !.pc = pc]]
        BY <2>1
      <3>2. PICK e : e = [c EXCEPT !.cur = ParentOf(c.cur), !.pc = pc]
        OBVIOUS
      <3>3. ParentOf(c.cur) \in Parents
        BY ParentOfType DEF CallType, TreeInv
      <3>4. e \in CallType /\ e.pc = pc /\ e.kind = c.kind /\ e.node = c.node
        BY <3>2, <3>3 DEF CallType, Pcs
      <3> QED
        BY <1>1, <1>5, <1>7, <3>1, <3>2, <3>4 DEF Walk
    <2> QED
      BY <1>1, <1>4, <1>7, <2>1 DEF Walk
  <1>8. CASE CountOld(s)
    <2>1. CASE mode.faults
      BY <1>8, <2>1 DEF CountOld, LeafInv, LeafHeld, Reads
    <2>2. CASE ~mode.faults
      <3>1. PICK e : e = [c EXCEPT !.pc = "flagOld", !.empty = Children(c.from) = {}]
        OBVIOUS
      <3>2. call' = [call EXCEPT ![s] = e] /\ Reads /\ c.pc = "countOld"
        BY <1>1, <1>8, <2>2, <3>1 DEF CountOld
      <3>3. e.pc = "flagOld" /\ e.kind = c.kind /\ e.to = c.to /\ e.from = c.from
            /\ (e.empty <=> Children(c.from) = {})
        BY <3>1 DEF CallType
      <3>4. LeafHeld => LeafCall(e)
        BY <1>2, <3>2, <3>3 DEF LeafCall, KindOK
      <3>5. \A n \in Nodes : (Gaining(c, n) => Gaining(e, n)) /\ (Losing(c, n) => Losing(e, n))
        BY <3>3 DEF Gaining, Losing
      <3> QED
        BY <1>1, <3>2, <3>4, <3>5, OnlyCaller, LeafStep
    <2> QED
      BY <2>1, <2>2
  <1>9. CASE CheckChildren(s)
    <2>1. CASE GoTo(s, "count")
      <3>1. PICK e \in CallType : e = call'[s] /\ IsAt(c, e, "count") /\ \A t \in Servers : t # s => call'[t] = call[t]
        BY <1>1, <2>1, GoToCall DEF Pcs
      <3>2. LeafHeld => LeafCall(e)
        BY <1>1, <1>2, <1>9, <3>1 DEF LeafCall, KindOK, IsAt, SameRequest, CheckChildren
      <3> QED
        BY <1>1, <1>9, <3>1, <3>2, NoneOpen, LeafStep DEF CheckChildren
    <2> QED
      BY <1>1, <1>4, <1>9, <2>1 DEF CheckChildren
  <1>10. CASE CountRemaining(s)
    <2>1. PICK e : e = [c EXCEPT !.pc = "commit", !.empty = Children(c.from) \subseteq {c.node}]
      OBVIOUS
    <2>2. call' = [call EXCEPT ![s] = e] /\ Reads /\ c.pc = "count"
      BY <1>1, <1>10, <2>1 DEF CountRemaining
    <2>3. e.pc = "commit" /\ e.kind = c.kind /\ e.node = c.node /\ e.from = c.from
          /\ (e.empty <=> Children(c.from) \subseteq {c.node})
      BY <2>1 DEF CallType
    <2>4. LeafHeld => LeafCall(e)
      BY <1>2, <2>2, <2>3 DEF LeafCall, KindOK
    <2> QED
      BY <1>1, <2>2, <2>4, NoneOpen, OnlyCaller, LeafStep
  <1> QED
    BY <1>3, <1>6, <1>7, <1>8, <1>9, <1>10

\* What the other requests have found out survives a step: they are creates, like the one that
\* makes it, and a create takes no child away.
LEMMA LeafCallsKept ==
  ASSUME TreeInv, TreeInv', LeafInv, LeafHeld, NEW s \in Servers, call[s].pc # "idle",
         \A t \in Servers : t # s => call'[t] = call[t],
         NEW d, d = call'[s], LeafCall(d)',
         call[s].kind = "create" => \A p \in Nodes : Children(p) \subseteq Children(p)'
  PROVE  \A t \in Servers : LeafCall(call[t])'
  <1> SUFFICES ASSUME NEW t \in Servers PROVE LeafCall(call[t])'
    OBVIOUS
  <1>1. CASE t = s
    BY <1>1 DEF LeafCall, Exists, Children
  <1>2. CASE t # s
    <2>1. PICK k \in CallType : k = call[t]
      BY CallFacts
    <2>2. LeafCall(k) /\ KindOK(k) /\ k = call'[t]
      BY <1>2, <2>1, CallFacts DEF LeafInv, CallOK
    <2>3. k.pc = "idle" \/ (k.kind = "create" /\ call[s].kind = "create")
      BY <1>2, <2>1, OnlyCreates
    <2>4. k.pc \in {"idle", "level", "insert", "mark"}
      BY <2>2, <2>3 DEF KindOK, CallType, Pcs
    <2>5. k.pc = "mark" => k.to \in Nodes /\ Children(k.to) \subseteq Children(k.to)'
      BY <2>2, <2>3 DEF KindOK
    <2>6. LeafCall(k)'
      BY <2>2, <2>3, <2>4, <2>5 DEF LeafCall
    <2> QED
      BY <2>2, <2>6 DEF LeafCall, Exists, Children
  <1> QED
    BY <1>1, <1>2

\* One flag is written.
LEMMA FlagWriteRow ==
  ASSUME TreeInv, NEW n \in Nodes, NEW leaf \in LeafFlags, FlagWrite(n, leaf)
  PROVE  /\ Exists(n) => node'[n].leaf = leaf
         /\ \A x \in Nodes : x # n => /\ node'[x].leaf = node[x].leaf
                                      /\ x \notin requested' => x \notin requested
         /\ \A x \in Nodes : Exists(x)' <=> Exists(x)
         /\ \A p \in Parents : Children(p)' = Children(p)
  <1>1. \A x \in Nodes : node[x] \in NodeType
    BY DEF TreeInv, Types
  <1>2. SameShape
    BY FlagWriteShape
  <1>3. (\A x \in Nodes : Exists(x)' <=> Exists(x)) /\ \A p \in Parents : Children(p)' = Children(p)
    BY <1>2 DEF SameShape, Exists, Children
  <1>4. CASE Exists(n)
    <2>1. node' = [node EXCEPT ![n] = [node[n] EXCEPT !.leaf = leaf]] /\ requested' = requested \ {n}
      BY <1>4 DEF FlagWrite
    <2>2. node'[n].leaf = leaf /\ \A x \in Nodes : x # n => node'[x] = node[x]
      BY <1>1, <2>1 DEF TreeInv, Types, NodeType
    <2> QED
      BY <1>3, <2>1, <2>2
  <1>5. CASE ~Exists(n)
    BY <1>3, <1>5 DEF FlagWrite
  <1> QED
    BY <1>4, <1>5

LEMMA MarkLeaf ==
  ASSUME TreeInv, TreeInv', LeafInv, NEW s \in Servers, MarkParent(s)
  PROVE  LeafInv'
  <1> SUFFICES ASSUME LeafHeld PROVE (\A x \in Nodes : LeafRow(x)') /\ \A t \in Servers : LeafCall(call[t])'
    BY DEF LeafInv, LeafHeld, MarkParent
  <1>1. PICK c \in CallType : c = call[s]
    BY CallFacts
  <1>2. c.pc = "mark" /\ c.to \in Nodes /\ LeafCall(c)
    BY <1>1, CallFacts DEF MarkParent, CallOK, KindOK, LeafInv
  <1>3. PICK n \in Nodes : n = c.to
    BY <1>2
  <1>4. /\ Exists(n) => node'[n].leaf = "no"
        /\ \A x \in Nodes : x # n => /\ node'[x].leaf = node[x].leaf
                                     /\ x \notin requested' => x \notin requested
        /\ \A x \in Nodes : Exists(x)' <=> Exists(x)
        /\ \A p \in Parents : Children(p)' = Children(p)
    BY <1>1, <1>3, FlagWriteRow DEF MarkParent, LeafFlags
  <1>5. PICK d : d = call'[s]
    OBVIOUS
  <1>6. d.pc = "idle" /\ \A t \in Servers : t # s => call'[t] = call[t]
    BY <1>5, DoneCall DEF MarkParent
  <1>7. \A x \in Nodes : Children(x)' = Children(x)
    BY <1>4 DEF Parents
  <1>8. Children(n) # {}
    BY <1>2, <1>3, RootAssumption DEF LeafCall
  <1>9. ASSUME NEW x \in Nodes PROVE LeafRow(x)'
    <2> SUFFICES ASSUME x \notin requested', Exists(x)'
                 PROVE  /\ Children(x)' = {} => node'[x].leaf = "yes" \/ \E t \in Servers : Losing(call'[t], x)
                        /\ Children(x)' # {} => node'[x].leaf = "no" \/ \E t \in Servers : Gaining(call'[t], x)
      BY DEF LeafRow, Losing, Gaining
    <2>1. CASE x = n
      BY <1>4, <1>7, <1>8, <2>1
    <2>2. CASE x # n
      <3>1. LeafRow(x) /\ x \notin requested /\ Exists(x)
        BY <1>4, <2>2 DEF LeafInv
      <3>2. ~Losing(c, x) /\ ~Gaining(c, x)
        BY <1>2, <1>3, <2>2 DEF Losing, Gaining
      <3> QED
        BY <1>1, <1>4, <1>6, <1>7, <2>2, <3>1, <3>2 DEF LeafRow
    <2> QED
      BY <2>1, <2>2
  <1>10. LeafCall(d)'
    BY <1>6 DEF LeafCall
  <1>11. \A t \in Servers : LeafCall(call[t])'
    BY <1>1, <1>2, <1>5, <1>6, <1>7, <1>10, LeafCallsKept
  <1> QED
    BY <1>9, <1>11

LEMMA FlagOldLeaf ==
  ASSUME TreeInv, TreeInv', LeafInv, NEW s \in Servers, FlagOld(s)
  PROVE  LeafInv'
  <1> SUFFICES ASSUME LeafHeld PROVE (\A x \in Nodes : LeafRow(x)') /\ \A t \in Servers : LeafCall(call[t])'
    BY DEF LeafInv, LeafHeld, FlagOld
  <1>1. PICK c \in CallType : c = call[s]
    BY CallFacts
  <1>2. c.pc = "flagOld" /\ c.kind = "update" /\ c.from \in Nodes /\ LeafCall(c)
    BY <1>1, CallFacts DEF FlagOld, CallOK, KindOK, LeafInv
  <1>3. PICK n \in Nodes : n = c.from
    BY <1>2
  <1>4. PICK leaf \in LeafFlags : leaf = IF c.empty THEN "yes" ELSE "no"
    BY DEF LeafFlags
  <1>5. FlagWrite(n, leaf) /\ Continue(s, AfterMove(c))
    BY <1>1, <1>3, <1>4 DEF FlagOld
  <1>6. /\ Exists(n) => node'[n].leaf = leaf
        /\ \A x \in Nodes : x # n => /\ node'[x].leaf = node[x].leaf
                                     /\ x \notin requested' => x \notin requested
        /\ \A x \in Nodes : Exists(x)' <=> Exists(x)
        /\ \A p \in Parents : Children(p)' = Children(p)
    BY <1>5, FlagWriteRow
  <1>7. \A x \in Nodes : Children(x)' = Children(x)
    BY <1>6 DEF Parents
  <1>8. PICK d : d = call'[s]
    OBVIOUS
  <1>9. /\ IF c.to # Root THEN IsAt(c, d, "mark") ELSE d.pc = "idle"
        /\ \A t \in Servers : t # s => call'[t] = call[t]
    <2>1. AfterMove(c) \in {"mark", "countOld", "done"} /\ (AfterMove(c) = "done" <=> c.to = Root)
          /\ (c.to # Root => AfterMove(c) = "mark")
      BY DEF AfterMove
    <2> QED
      BY <1>1, <1>5, <1>8, <2>1, ContinueCall
  <1>10. Children(n) = {} <=> leaf = "yes"
    BY <1>2, <1>3, <1>4 DEF LeafCall
  <1>11. ASSUME NEW x \in Nodes PROVE LeafRow(x)'
    <2> SUFFICES ASSUME x \notin requested', Exists(x)'
                 PROVE  /\ Children(x)' = {} => node'[x].leaf = "yes" \/ \E t \in Servers : Losing(call'[t], x)
                        /\ Children(x)' # {} => node'[x].leaf = "no" \/ \E t \in Servers : Gaining(call'[t], x)
      BY DEF LeafRow, Losing, Gaining
    <2>1. CASE x = n
      BY <1>4, <1>6, <1>7, <1>10, <2>1
    <2>2. CASE x # n
      <3>1. LeafRow(x) /\ x \notin requested /\ Exists(x)
        BY <1>6, <2>2 DEF LeafInv
      <3>2. ~Losing(c, x) /\ (Gaining(c, x) => Gaining(d, x))
        BY <1>2, <1>3, <1>9, <2>2, RootAssumption DEF Losing, Gaining, IsAt, SameRequest
      <3>3. \A t \in Servers : /\ Losing(call[t], x) => Losing(call'[t], x)
                               /\ Gaining(call[t], x) => Gaining(call'[t], x)
        BY <1>1, <1>8, <1>9, <3>2
      <3> QED
        BY <1>6, <1>7, <2>2, <3>1, <3>3 DEF LeafRow
    <2> QED
      BY <2>1, <2>2
  <1>12. LeafCall(d)'
    <2>1. CASE c.to = Root
      BY <1>9, <2>1 DEF LeafCall
    <2>2. CASE c.to # Root
      <3>1. d.pc = "mark" /\ d.to = c.to
        BY <1>9, <2>2 DEF IsAt, SameRequest
      <3>2. Children(c.to)' # {}
        BY <1>2, <1>7, <2>2 DEF LeafCall, CallType, Parents
      <3> QED
        BY <3>1, <3>2 DEF LeafCall
    <2> QED
      BY <2>1, <2>2
  <1>13. \A t \in Servers : LeafCall(call[t])'
    BY <1>1, <1>2, <1>8, <1>9, <1>7, <1>12, LeafCallsKept
  <1> QED
    BY <1>11, <1>13

LEMMA InsertLeaf ==
  ASSUME TreeInv, TreeInv', LeafInv, NEW s \in Servers, Insert(s)
  PROVE  LeafInv'
  <1> SUFFICES ASSUME LeafHeld PROVE (\A x \in Nodes : LeafRow(x)') /\ \A t \in Servers : LeafCall(call[t])'
    BY InsertCall DEF LeafInv, LeafHeld
  <1>1. PICK c \in CallType : c = call[s]
    BY CallFacts
  <1>2. c.pc = "insert" /\ c.kind = "create" /\ LeafCall(c) /\ CallOK(c)
    BY <1>1, CallFacts, InsertCall DEF LeafInv
  <1>3. PICK n \in Nodes :
          /\ node[n].life = "absent" /\ node'[n].life = "live"
          /\ node'[n].parent = c.to /\ node'[n].leaf = c.leaf
          /\ \A x \in Nodes : x # n => node'[x] = node[x]
          /\ requested' = IF c.leaf = "no" THEN requested \cup {n} ELSE requested
    BY <1>1, InsertRow
  <1>4. PICK d : d = call'[s]
    OBVIOUS
  <1>5. /\ IF c.to = Root THEN d.pc = "idle" ELSE IsAt(c, d, "mark")
        /\ \A t \in Servers : t # s => call'[t] = call[t]
    BY <1>1, <1>4, InsertCall
  <1>6. UpdatesApart /\ DeletesApart
    BY <1>1, <1>2, OnlyCreates
  <1>7. c.to = Root \/ Exists(c.to)
    BY <1>2, <1>6 DEF CallOK, ToExists, Placing
  <1>8. \A p \in Nodes : Children(p)' = Children(p) \cup (IF p = c.to THEN {n} ELSE {})
    BY <1>3 DEF Children
  <1>9. Children(n)' = {} /\ c.to # n
    <2>1. c.to # n
      BY <1>3, <1>7, RootAssumption DEF Exists
    <2>2. Children(n) = {}
      BY <1>3, <1>6, RootAssumption DEF Children, TreeInv, NoOrphans, DeletesApart, Exists
    <2> QED
      BY <1>8, <2>1, <2>2
  <1>10. ASSUME NEW x \in Nodes PROVE LeafRow(x)'
    <2> SUFFICES ASSUME x \notin requested', Exists(x)'
                 PROVE  /\ Children(x)' = {} => node'[x].leaf = "yes" \/ \E t \in Servers : Losing(call'[t], x)
                        /\ Children(x)' # {} => node'[x].leaf = "no" \/ \E t \in Servers : Gaining(call'[t], x)
      BY DEF LeafRow, Losing, Gaining
    <2>1. CASE x = n
      <3>1. c.leaf # "no" /\ c.leaf # "zero" /\ c.leaf \in LeafFlags
        BY <1>2, <1>3, <2>1 DEF LeafCall, CallType
      <3> QED
        BY <1>3, <1>9, <2>1, <3>1 DEF LeafFlags
    <2>2. CASE x # n
      <3>1. LeafRow(x) /\ x \notin requested /\ Exists(x) /\ node'[x] = node[x]
        BY <1>3, <2>2 DEF LeafInv, Exists
      <3>2. ~Losing(c, x) /\ ~Gaining(c, x)
        BY <1>2 DEF Losing, Gaining
      <3>3. \A t \in Servers : /\ Losing(call[t], x) => Losing(call'[t], x)
                               /\ Gaining(call[t], x) => Gaining(call'[t], x)
        BY <1>1, <1>5, <3>2
      <3>4. CASE x = c.to
        <4>1. Gaining(d, x) /\ n \in Children(x)'
          BY <1>5, <1>8, <3>4, RootAssumption DEF Gaining, IsAt, SameRequest
        <4> QED
          BY <1>4, <4>1
      <3>5. CASE x # c.to
        BY <1>8, <3>1, <3>3, <3>5 DEF LeafRow
      <3> QED
        BY <3>4, <3>5
    <2> QED
      BY <2>1, <2>2
  <1>11. LeafCall(d)'
    <2>1. CASE c.to = Root
      BY <1>5, <2>1 DEF LeafCall
    <2>2. CASE c.to # Root
      <3>1. d.pc = "mark" /\ d.to = c.to
        BY <1>5, <2>2 DEF IsAt, SameRequest
      <3>2. Children(c.to)' # {}
        BY <1>8, <2>2 DEF CallType, Parents
      <3> QED
        BY <3>1, <3>2 DEF LeafCall
    <2> QED
      BY <2>1, <2>2
  <1>12. \A t \in Servers : LeafCall(call[t])'
    BY <1>1, <1>2, <1>4, <1>5, <1>8, <1>11, LeafCallsKept
  <1> QED
    BY <1>10, <1>12

LEMMA WriteLeaf ==
  ASSUME TreeInv, TreeInv', LeafInv, NEW s \in Servers, Write(s)
  PROVE  LeafInv'
  <1> SUFFICES ASSUME LeafHeld PROVE (\A x \in Nodes : LeafRow(x)') /\ \A t \in Servers : LeafCall(call[t])'
    BY WriteCall DEF LeafInv, LeafHeld
  <1>1. PICK c \in CallType : c = call[s]
    BY CallFacts
  <1>2. c.pc = "write" /\ c.kind = "update" /\ LeafCall(c) /\ CallOK(c)
    BY <1>1, CallFacts, WriteCall DEF LeafInv
  <1>3. Exists(c.node) /\ UpdatesApart
    BY <1>1, <1>2, OnlyCreates DEF LeafCall
  <1>4. PICK n \in Nodes :
          /\ n = c.node /\ node[n].life = "live" /\ node'[n].life = "live"
          /\ node'[n].parent = c.to
          /\ \A x \in Nodes : x # n => node'[x] = node[x]
    BY <1>1, <1>3, WriteRow
  <1>5. requested' = requested \cup {n}
    BY <1>1, <1>3, <1>4 DEF Write
  <1>6. node[n].parent = c.from
    BY <1>2, <1>3, <1>4 DEF CallOK, FromHolds, Moving
  <1>7. PICK d : d = call'[s]
    OBVIOUS
  <1>8. /\ \/ AfterWrite(c) = "done" /\ d.pc = "idle"
           \/ AfterWrite(c) # "done" /\ IsAt(c, d, AfterWrite(c))
        /\ \A t \in Servers : t # s => call'[t] = call[t]
    BY <1>1, <1>7, WriteCall
  <1>9. \A p \in Nodes : Children(p)' = (Children(p) \ {n}) \cup (IF p = c.to THEN {n} ELSE {})
    BY <1>4 DEF Children
  <1>10. n \in Children(c.from) /\ \A p \in Nodes : p # c.from => n \notin Children(p)
    BY <1>4, <1>6 DEF Children
  <1>11. ASSUME NEW x \in Nodes PROVE LeafRow(x)'
    <2> SUFFICES ASSUME x \notin requested', Exists(x)'
                 PROVE  /\ Children(x)' = {} => node'[x].leaf = "yes" \/ \E t \in Servers : Losing(call'[t], x)
                        /\ Children(x)' # {} => node'[x].leaf = "no" \/ \E t \in Servers : Gaining(call'[t], x)
      BY DEF LeafRow, Losing, Gaining
    <2>1. LeafRow(x) /\ x \notin requested /\ Exists(x) /\ node'[x] = node[x]
      BY <1>4, <1>5 DEF LeafInv, Exists
    <2>2. ~Losing(c, x) /\ ~Gaining(c, x)
      BY <1>2 DEF Losing, Gaining
    <2>3. \A t \in Servers : /\ Losing(call[t], x) => Losing(call'[t], x)
                             /\ Gaining(call[t], x) => Gaining(call'[t], x)
      BY <1>1, <1>8, <2>2
    <2>4. CASE (x # c.to /\ x # c.from) \/ c.to = c.from
      <3>1. Children(x)' = Children(x)
        BY <1>9, <1>10, <2>4
      <3> QED
        BY <2>1, <2>3, <3>1 DEF LeafRow
    <2>5. CASE x = c.to /\ c.to # c.from
      <3>1. AfterWrite(c) \in {"countOld", "mark"}
        BY <2>5, RootAssumption DEF AfterWrite, AfterMove
      <3>2. Gaining(d, x) /\ n \in Children(x)'
        BY <1>8, <1>9, <2>5, <3>1 DEF Gaining, IsAt, SameRequest
      <3> QED
        BY <1>7, <3>2
    <2>6. CASE x = c.from /\ c.to # c.from
      <3>1. AfterWrite(c) = "countOld"
        BY <2>6, RootAssumption DEF AfterWrite
      <3>2. Losing(d, x) /\ Children(x) # {}
        BY <1>8, <1>10, <2>6, <3>1 DEF Losing, IsAt, SameRequest
      <3> QED
        BY <1>7, <2>1, <2>3, <3>2 DEF LeafRow
    <2> QED
      BY <2>4, <2>5, <2>6
  <1>12. LeafCall(d)'
    <2>1. CASE AfterWrite(c) = "done"
      BY <1>8, <2>1 DEF LeafCall
    <2>2. CASE AfterWrite(c) # "done"
      <3>1. d.to = c.to /\ d.from = c.from /\ d.pc = AfterWrite(c) /\ c.to # c.from
        BY <1>8, <2>2 DEF IsAt, SameRequest, AfterWrite
      <3>2. d.pc \in {"countOld", "mark"}
        BY <2>2, <3>1 DEF AfterWrite, AfterMove
      <3>3. c.to # Root => Children(c.to)' # {}
        BY <1>9 DEF CallType, Parents
      <3> QED
        BY <3>1, <3>2, <3>3 DEF LeafCall
    <2> QED
      BY <2>1, <2>2
  <1>13. \A t \in Servers : LeafCall(call[t])'
    BY <1>1, <1>2, <1>7, <1>8, <1>12, LeafCallsKept
  <1> QED
    BY <1>11, <1>13

LEMMA CommitLeaf ==
  ASSUME TreeInv, TreeInv', LeafInv, NEW s \in Servers, CommitDelete(s)
  PROVE  LeafInv'
  <1> SUFFICES ASSUME LeafHeld PROVE (\A x \in Nodes : LeafRow(x)') /\ \A t \in Servers : LeafCall(call[t])'
    BY CommitCall DEF LeafInv, LeafHeld
  <1>1. PICK c \in CallType : c = call[s]
    BY CallFacts
  <1>2. c.pc = "commit" /\ c.kind = "delete" /\ LeafCall(c)
    BY <1>1, CommitCall DEF LeafInv
  <1>3. PICK n \in Nodes :
          /\ n = c.node /\ node'[n].life = "deleted"
          /\ \A x \in Nodes : /\ node'[x].parent = node[x].parent
                              /\ x # n => node'[x].life = node[x].life
          /\ \A x \in Nodes : x # n /\ x # c.from => node'[x].leaf = node[x].leaf
          /\ \A x \in Nodes : x # n /\ x = c.from /\ Exists(x) =>
               node'[x].leaf = IF c.empty THEN "yes" ELSE "no"
    BY <1>1, CommitRow
  <1>4. requested' = requested \ {c.from}
    BY <1>1, CommitCall
  <1>5. PICK d : d = call'[s]
    OBVIOUS
  <1>6. d.pc = "idle" /\ \A t \in Servers : t # s => call'[t] = call[t]
    BY <1>5, CommitCall
  <1>7. \A p \in Nodes : Children(p)' = Children(p) \ {n}
    BY <1>3 DEF Children
  <1>8. \A p \in Nodes : p # c.from => n \notin Children(p)
    BY <1>2, <1>3 DEF LeafCall, Children
  <1>9. ASSUME NEW x \in Nodes PROVE LeafRow(x)'
    <2> SUFFICES ASSUME x \notin requested', Exists(x)'
                 PROVE  /\ Children(x)' = {} => node'[x].leaf = "yes" \/ \E t \in Servers : Losing(call'[t], x)
                        /\ Children(x)' # {} => node'[x].leaf = "no" \/ \E t \in Servers : Gaining(call'[t], x)
      BY DEF LeafRow, Losing, Gaining
    <2>1. x # n /\ Exists(x)
      BY <1>3 DEF Exists
    <2>2. CASE x = c.from
      <3>1. c.empty <=> Children(x)' = {}
        BY <1>2, <1>3, <1>7, <2>2 DEF LeafCall
      <3> QED
        BY <1>3, <2>1, <2>2, <3>1
    <2>3. CASE x # c.from
      <3>1. LeafRow(x) /\ x \notin requested /\ node'[x].leaf = node[x].leaf /\ Children(x)' = Children(x)
        BY <1>3, <1>4, <1>7, <1>8, <2>1, <2>3 DEF LeafInv
      <3>2. ~Losing(c, x) /\ ~Gaining(c, x)
        BY <1>2 DEF Losing, Gaining
      <3> QED
        BY <1>1, <1>6, <2>1, <3>1, <3>2 DEF LeafRow
    <2> QED
      BY <2>2, <2>3
  <1>10. LeafCall(d)'
    BY <1>6 DEF LeafCall
  <1>11. \A t \in Servers : LeafCall(call[t])'
    BY <1>1, <1>2, <1>5, <1>6, <1>10, LeafCallsKept
  <1> QED
    BY <1>9, <1>11

LEMMA NextLeaf == TreeInv /\ TreeInv' /\ LeafInv /\ [TreeNext]_treeVars => LeafInv'
  <1> SUFFICES ASSUME TreeInv, TreeInv', LeafInv, [TreeNext]_treeVars PROVE LeafInv'
    OBVIOUS
  <1>1. CASE UNCHANGED treeVars
    BY <1>1 DEF treeVars, LeafInv, LeafHeld, LeafRow, LeafCall, Losing, Gaining, Children, Exists
  <1>2. CASE TreeNext
    <2>1. PICK s \in Servers :
            \/ \E p \in Parents, leaf \in SentFlags : CreateNode(s, p, leaf)
            \/ \E n \in Nodes, p \in Parents, leaf \in SentFlags : UpdateNode(s, n, p, leaf)
            \/ \E n \in Nodes : DeleteNode(s, n)
            \/ ServeStep(s) \/ AbortRequest(s)
      BY <1>2 DEF TreeNext
    <2>2. CASE ServeStep(s)
      BY <2>2, ReadLeaf, InsertLeaf, MarkLeaf, WriteLeaf, FlagOldLeaf, CommitLeaf DEF ServeStep
    <2>3. CASE AbortRequest(s)
      BY <2>3 DEF AbortRequest, Reads, LeafInv, LeafHeld
    <2>4. CASE \/ \E p \in Parents, leaf \in SentFlags : CreateNode(s, p, leaf)
               \/ \E n \in Nodes, p \in Parents, leaf \in SentFlags : UpdateNode(s, n, p, leaf)
               \/ \E n \in Nodes : DeleteNode(s, n)
      BY <2>4, FlagsAssumption, BeginLeaf
    <2> QED
      BY <2>1, <2>2, <2>3, <2>4
  <1> QED
    BY <1>1, <1>2

LEMMA AlwaysLeaf == TreeSpec => []LeafInv
  BY LeafInit, NextLeaf, AlwaysInv, PTL DEF TreeSpec

\* ColumnsAgree: the two columns the handlers compute agree with the tree.  The level follows the
\* parent's as long as updates overlap nothing that writes the tree, and creates no delete; with
\* nothing but creates overlapping, and no failing query, the leaf flag of a node says between
\* requests whether it has children, unless a request about the node itself wrote it last.
THEOREM TreeColumns == TreeSpec => []ColumnsAgree
  <1>1. LeafInv => LeafFlagAgrees
    <2> SUFFICES ASSUME LeafInv, LeafHeld, \A s \in Servers : call[s].pc = "idle",
                        NEW n \in Nodes \ requested, Exists(n)
                 PROVE  node[n].leaf = IF Children(n) = {} THEN "yes" ELSE "no"
      BY DEF LeafFlagAgrees, LeafHeld
    <2>1. \A s \in Servers : ~Losing(call[s], n) /\ ~Gaining(call[s], n)
      BY DEF Losing, Gaining
    <2> QED
      BY <2>1 DEF LeafInv, LeafRow
  <1> QED
    BY <1>1, TreeLevels, AlwaysLeaf, PTL DEF ColumnsAgree
====

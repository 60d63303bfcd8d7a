----------------------------- MODULE SceneGraph -----------------------------
(***************************************************************************)
(* The graph of a scene's nodes, bse/scene_graph.cpp.  A node names its    *)
(* parent and lists its children, and nothing makes the two agree: the     *)
(* graph takes both as links, so it may have cycles, nodes with several    *)
(* parents, and children that do not exist.  The recursive functions are   *)
(* modelled one call at a time: pending holds the calls still to be made,  *)
(* in order, and the rest of a call after its loop over the children is a  *)
(* task of its own.  The searches with a queue are modelled one round at   *)
(* a time.  After BuildSceneGraph one query is asked and answered.         *)
(***************************************************************************)
EXTENDS SceneDepths, FiniteSets

CONSTANT
  Scenes    \* the node lists a graph is built from

ASSUME GraphAssumption ==
  /\ NoId = 0  \* kInvalidObjectId
  /\ \A s \in Scenes :
       /\ s \in Seq([id : Nat, parent : Nat, children : SUBSET Nat])
       /\ \A i \in DOMAIN s : IsFiniteSet(s[i].children)

VARIABLES
  scene,     \* the nodes of the scene, in file order
  graph,     \* the SceneGraph: nodes by id, roots, unreachable, cycles
  stage,     \* the function that runs
  query,     \* the query that runs or was answered, and the id it is about
  pending,   \* calls, tasks or queue entries still to be taken
  path,      \* the nodes of the calls that have not returned
  seen,      \* the ids that are done with
  answer     \* what the query has found

vars == <<scene, graph, stage, query, pending, path, seen, answer>>

(* SortIds of a list with these ids: sort and unique.  The one at place n  *)
(* has n-1 others below it.                                                *)
SortUnique(ids) ==
  [n \in 1..Cardinality(ids) |->
     CHOOSE id \in ids : Cardinality({other \in ids : other < id}) = n - 1]

Ids == DOMAIN graph.nodes
GraphContainsNode(id) == id \in Ids
Children(id) == IF GraphContainsNode(id) THEN graph.nodes[id].children ELSE << >>

Each(ids, F(_)) == [i \in DOMAIN ids |-> F(ids[i])]

Init ==
  /\ scene \in Scenes
  /\ graph = [nodes |-> << >>, roots |-> << >>, unreachable |-> << >>, cycles |-> << >>]
  /\ stage = "link" /\ query = [name |-> "none", id |-> NoId]
  /\ pending = << >> /\ path = << >> /\ seen = {} /\ answer = << >>

-----------------------------------------------------------------------------
(* BuildSceneGraph.                                                        *)

(* The first two loops: of nodes that share an id the first is kept, but   *)
(* each is linked below its parent.  A node without a parent in the scene  *)
(* is a root.                                                              *)
LinkNodes ==
  LET ids == {scene[i].id : i \in DOMAIN scene}
      First(id) == scene[CHOOSE i \in DOMAIN scene :
                           scene[i].id = id /\ \A j \in 1..i - 1 : scene[j].id # id]
      HasParent(node) == node.parent # NoId /\ node.parent \in ids
      Named(id) == {scene[i].id : i \in {j \in DOMAIN scene :
                                           HasParent(scene[j]) /\ scene[j].parent = id}}
      Info(id) == [parent |-> First(id).parent,
                   children |-> SortUnique(First(id).children \cup Named(id)),
                   depth |-> 0, reachable |-> FALSE]
      top == SortUnique({scene[i].id : i \in {j \in DOMAIN scene : ~HasParent(scene[j])}})
  IN /\ stage = "link"
     /\ stage' = "mark"
     /\ graph' = [graph EXCEPT !.nodes = [id \in ids |-> Info(id)], !.roots = top]
     /\ pending' = Each(top, LAMBDA id : [id |-> id, depth |-> 0])
     /\ UNCHANGED <<scene, query, path, seen, answer>>

(* Variant: a node that has been reached is not looked at again.           *)
ReachesFirst(call) == GraphContainsNode(call.id) /\ ~graph.nodes[call.id].reachable

(* A call of MarkReachable that does not return at once.                   *)
ReachesCloser(call) ==
  /\ GraphContainsNode(call.id)
  /\ ~(graph.nodes[call.id].reachable /\ graph.nodes[call.id].depth <= call.depth)

MarkReachable ==
  LET call == Head(pending)
      below == Each(Children(call.id), LAMBDA id : [id |-> id, depth |-> call.depth + 1])
  IN /\ stage = "mark" /\ pending # << >>
     /\ ReachesCloser(call)
     /\ graph' = [graph EXCEPT !.nodes[call.id].reachable = TRUE,
                               !.nodes[call.id].depth = call.depth]
     /\ pending' = below \o Tail(pending)
     /\ UNCHANGED <<scene, stage, query, path, seen, answer>>

MarkNothing ==
  /\ stage = "mark" /\ pending # << >>
  /\ ~ReachesCloser(Head(pending))
  /\ pending' = Tail(pending)
  /\ UNCHANGED <<scene, graph, stage, query, path, seen, answer>>

(* The calls of a recursion are tasks: to enter a node, and to leave it    *)
(* once those for its children are done.                                   *)
Enter(id) == [enters |-> TRUE, id |-> id]
Leave(id) == [enters |-> FALSE, id |-> id]
Entering(function) == stage = function /\ pending # << >> /\ Head(pending).enters

CollectUnreachable ==
  LET lost == SortUnique({id \in Ids : ~graph.nodes[id].reachable})
  IN /\ stage = "mark" /\ pending = << >>
     /\ stage' = "find_cycles"
     /\ graph' = [graph EXCEPT !.unreachable = lost]
     /\ pending' = Each(SortUnique(Ids), Enter)
     /\ UNCHANGED <<scene, query, path, seen, answer>>

(* The calls below a node that is now on the path.                         *)
Descend(id) ==
  /\ path' = Append(path, id)
  /\ pending' = Each(Children(id), Enter) \o <<Leave(id)>> \o Tail(pending)

(* visiting is the set of the nodes on the stack, here path.               *)
EnterForCycles ==
  LET id == Head(pending).id
  IN /\ Entering("find_cycles")
     /\ id \notin seen /\ id \notin ToSet(path)
     /\ Descend(id)
     /\ UNCHANGED <<scene, graph, stage, query, seen, answer>>

(* Variant: the cycle begins where the stack does.                         *)
ReportStack ==
  /\ Entering("find_cycles")
  /\ Head(pending).id \notin seen /\ Head(pending).id \in ToSet(path)
  /\ graph' = [graph EXCEPT !.cycles = Append(@, path)]
  /\ pending' = Tail(pending)
  /\ UNCHANGED <<scene, stage, query, path, seen, answer>>

(* The node is on the stack already: the stack from there on is a cycle.   *)
ReportCycle ==
  LET id == Head(pending).id
      from == CHOOSE i \in DOMAIN path : path[i] = id
  IN /\ Entering("find_cycles")
     /\ id \notin seen /\ id \in ToSet(path)
     /\ graph' = [graph EXCEPT !.cycles = Append(@, SubSeq(path, from, Len(path)))]
     /\ pending' = Tail(pending)
     /\ UNCHANGED <<scene, stage, query, path, seen, answer>>

SkipForCycles ==
  /\ Entering("find_cycles") /\ Head(pending).id \in seen
  /\ pending' = Tail(pending)
  /\ UNCHANGED <<scene, graph, stage, query, path, seen, answer>>

(* Variant: the node is done with only while its call runs.                *)
ReturnForgetting ==
  /\ stage \in {"find_cycles", "depth_first"}
  /\ pending # << >> /\ ~Head(pending).enters
  /\ path' = Front(path) /\ pending' = Tail(pending)
  /\ UNCHANGED <<scene, graph, stage, query, seen, answer>>

(* The end of a call of FindCyclesFrom and of TraverseDepthFirstFrom.      *)
Return ==
  /\ stage \in {"find_cycles", "depth_first"}
  /\ pending # << >> /\ ~Head(pending).enters
  /\ path' = Front(path)
  /\ seen' = seen \cup {Head(pending).id}
  /\ pending' = Tail(pending)
  /\ UNCHANGED <<scene, graph, stage, query, answer>>

FinishGraph ==
  /\ stage = "find_cycles" /\ pending = << >>
  /\ stage' = "built" /\ seen' = {}
  /\ UNCHANGED <<scene, graph, query, pending, path, answer>>

-----------------------------------------------------------------------------
(* Traversals from the roots.                                              *)

Step(steps) == [id |-> Last(steps), path |-> steps]

Ask(name, id) ==
  stage = "built" /\ stage' = name /\ query' = [name |-> name, id |-> id]

TraverseDepthFirst ==
  /\ Ask("depth_first", NoId)
  /\ pending' = Each(graph.roots, Enter)
  /\ UNCHANGED <<scene, graph, path, seen, answer>>

EnterDepthFirst ==
  LET id == Head(pending).id
  IN /\ Entering("depth_first")
     /\ GraphContainsNode(id) /\ id \notin ToSet(path) \cup seen
     /\ Descend(id)
     /\ answer' = Append(answer, IF query.name = "order" THEN id ELSE Step(path'))
     /\ UNCHANGED <<scene, graph, stage, query, seen>>

SkipDepthFirst ==
  LET id == Head(pending).id
  IN /\ Entering("depth_first")
     /\ ~(GraphContainsNode(id) /\ id \notin ToSet(path) \cup seen)
     /\ pending' = Tail(pending)
     /\ UNCHANGED <<scene, graph, stage, query, path, seen, answer>>

(* A depth-first traversal, of which only the ids are taken; on a graph    *)
(* with a cycle an error, here no ids.                                     *)
TopologicalNodeOrder ==
  /\ stage = "built" /\ query' = [name |-> "order", id |-> NoId]
  /\ \/ graph.cycles # << >> /\ stage' = "answered" /\ UNCHANGED pending
     \/ graph.cycles = << >> /\ stage' = "depth_first" /\ pending' = Each(graph.roots, Enter)
  /\ UNCHANGED <<scene, graph, path, seen, answer>>

TraverseBreadthFirst ==
  /\ Ask("breadth_first", NoId)
  /\ pending' = Each(graph.roots, LAMBDA id : <<id>>)
  /\ seen' = ToSet(graph.roots)
  /\ UNCHANGED <<scene, graph, path, answer>>

(* What a loop over ids that skips some of them takes, in order.           *)
Taken(ids, Wanted(_)) ==
  Each(SortUnique({i \in DOMAIN ids : Wanted(ids[i])}), LAMBDA i : ids[i])
Unseen(ids) == Taken(ids, LAMBDA id : id \notin seen)

(* One round of the loop; a child is visited whether or not it exists.     *)
VisitBreadthFirst ==
  LET steps == Head(pending)
      next == Unseen(Children(Last(steps)))
  IN /\ stage = "breadth_first" /\ pending # << >>
     /\ answer' = Append(answer, Step(steps))
     /\ pending' = Tail(pending) \o Each(next, LAMBDA id : Append(steps, id))
     /\ seen' = seen \cup ToSet(next)
     /\ UNCHANGED <<scene, graph, stage, query, path>>

-----------------------------------------------------------------------------
(* Searches from one node, and connected components.                       *)

(* Variant: the node itself has not been seen.                             *)
DescendantsOfUnseen(id) ==
  /\ Ask("descendants", id)
  /\ pending' = Children(id) /\ seen' = {}
  /\ UNCHANGED <<scene, graph, path, answer>>

DescendantsOf(id) ==
  /\ Ask("descendants", id)
  /\ pending' = Children(id) /\ seen' = {id}
  /\ UNCHANGED <<scene, graph, path, answer>>

VisitDescendant ==
  LET id == Head(pending)
  IN /\ stage = "descendants" /\ pending # << >> /\ id \notin seen
     /\ answer' = Append(answer, id)
     /\ seen' = seen \cup {id}
     /\ pending' = Tail(pending) \o Children(id)
     /\ UNCHANGED <<scene, graph, stage, query, path>>

(* Variant: an entry leaves the queue only after it has been looked at.    *)
SkipWithoutPop ==
  stage = "descendants" /\ pending # << >> /\ Head(pending) \in seen /\ UNCHANGED vars
SkipDescendant ==
  /\ stage = "descendants" /\ pending # << >> /\ Head(pending) \in seen
  /\ pending' = Tail(pending)
  /\ UNCHANGED <<scene, graph, stage, query, path, seen, answer>>

ReachableFrom(id) ==
  /\ Ask("reachable_from", id)
  /\ pending' = IF GraphContainsNode(id) THEN <<id>> ELSE << >>
  /\ seen' = ToSet(pending')
  /\ UNCHANGED <<scene, graph, path, answer>>

VisitReachable ==
  LET next == Unseen(Children(Head(pending)))
  IN /\ stage = "reachable_from" /\ pending # << >>
     /\ answer' = Append(answer, Head(pending))
     /\ seen' = seen \cup ToSet(next)
     /\ pending' = Tail(pending) \o next
     /\ UNCHANGED <<scene, graph, stage, query, path>>

(* The loop over all ids, in order: one that is in no component yet starts *)
(* the next, which is put together in path.                                *)
ConnectedComponents ==
  /\ Ask("components", NoId)
  /\ UNCHANGED <<scene, graph, pending, path, seen, answer>>

StartComponent ==
  LET left == Unseen(SortUnique(Ids))
  IN /\ stage = "components" /\ pending = << >> /\ path = << >> /\ left # << >>
     /\ pending' = <<Head(left)>> /\ seen' = seen \cup {Head(left)}
     /\ UNCHANGED <<scene, graph, stage, query, path, answer>>

(* Variant: links are followed downwards only.                             *)
VisitChildren ==
  LET next == Unseen(Taken(Children(Head(pending)), GraphContainsNode))
  IN /\ stage = "components" /\ pending # << >>
     /\ path' = Append(path, Head(pending))
     /\ pending' = Tail(pending) \o next
     /\ seen' = seen \cup ToSet(next)
     /\ UNCHANGED <<scene, graph, stage, query, answer>>

VisitNeighbors ==
  LET id == Head(pending)
      parent == graph.nodes[id].parent
      neighbors == Children(id) \o IF parent \in ToSet(Children(id)) \cup {NoId} THEN << >>
                                   ELSE <<parent>>
      next == Unseen(Taken(neighbors, GraphContainsNode))
  IN /\ stage = "components" /\ pending # << >>
     /\ path' = Append(path, id)
     /\ pending' = Tail(pending) \o next
     /\ seen' = seen \cup ToSet(next)
     /\ UNCHANGED <<scene, graph, stage, query, answer>>

FinishComponent ==
  /\ stage = "components" /\ pending = << >> /\ path # << >>
  /\ answer' = Append(answer, SortUnique(ToSet(path))) /\ path' = << >>
  /\ UNCHANGED <<scene, graph, stage, query, pending, seen>>

-----------------------------------------------------------------------------
(* World transforms, bse/transform.cpp.  The world matrix of a node is the *)
(* one of its parent times its own: here the nodes whose local matrices are*)
(* multiplied, in order.                                                   *)

(* ValidateScene, of which only what it asks of nodes can fail here.       *)
NodesAreValid ==
  /\ Cardinality(Ids) = Len(scene) /\ NoId \notin Ids
  /\ \A node \in ToSet(scene) : {node.parent} \cup node.children \subseteq Ids \cup {NoId}

ComputeWorldTransforms ==
  /\ stage = "built" /\ query' = [name |-> "world", id |-> NoId]
  /\ IF NodesAreValid
       THEN stage' = "world" /\ pending' = Each(scene, LAMBDA node : Enter(node.id))
       ELSE stage' = "answered" /\ UNCHANGED pending
  /\ UNCHANGED <<scene, graph, path, seen, answer>>

(* ComputeRecursive asks for its parent first; path is visiting.           *)
EnterForWorld ==
  LET id == Head(pending).id
      parent == graph.nodes[id].parent
  IN /\ Entering("world") /\ id \notin seen /\ id \notin ToSet(path)
     /\ path' = Append(path, id)
     /\ pending' = (IF parent = NoId THEN << >> ELSE <<Enter(parent)>>) \o <<Leave(id)>> \o Tail(pending)
     /\ UNCHANGED <<scene, graph, stage, query, seen, answer>>

(* The cache has it.                                                       *)
SkipForWorld ==
  /\ Entering("world") /\ Head(pending).id \in seen
  /\ pending' = Tail(pending)
  /\ UNCHANGED <<scene, graph, stage, query, path, seen, answer>>

(* A cycle of parents, which ValidateScene does not look for, is an error  *)
(* of every call that is in progress.                                      *)
RefuseWorld ==
  LET id == Head(pending).id
  IN /\ Entering("world") /\ id \notin seen /\ id \in ToSet(path)
     /\ stage' = "answered"
     /\ pending' = << >> /\ path' = << >> /\ seen' = {} /\ answer' = << >>
     /\ UNCHANGED <<scene, graph, query>>

(* Variant: the local matrix comes before the one of the parent.           *)
LeaveMultiplyingLeft ==
  LET id == Head(pending).id
      above == {step \in ToSet(answer) : step.id = graph.nodes[id].parent}
      world == IF above = {} THEN << >> ELSE (CHOOSE step \in above : TRUE).path
  IN /\ stage = "world" /\ pending # << >> /\ ~Head(pending).enters
     /\ answer' = Append(answer, [id |-> id, path |-> <<id>> \o world])
     /\ seen' = seen \cup {id}
     /\ path' = Front(path) /\ pending' = Tail(pending)
     /\ UNCHANGED <<scene, graph, stage, query>>

LeaveWithWorld ==
  LET id == Head(pending).id
      above == {step \in ToSet(answer) : step.id = graph.nodes[id].parent}
      world == IF above = {} THEN << >> ELSE (CHOOSE step \in above : TRUE).path
  IN /\ stage = "world" /\ pending # << >> /\ ~Head(pending).enters
     /\ answer' = Append(answer, Step(Append(world, id)))
     /\ seen' = seen \cup {id}
     /\ path' = Front(path) /\ pending' = Tail(pending)
     /\ UNCHANGED <<scene, graph, stage, query>>

-----------------------------------------------------------------------------
(* The query returns, those for ids after sorting them.                    *)
Answer ==
  /\ pending = << >> /\ path = << >>
  /\ \/ query.name \in {"depth_first", "breadth_first"} /\ stage = query.name /\ answer' = answer
     \/ /\ query.name = "order" /\ stage = "depth_first"
        /\ answer' = SortUnique(ToSet(answer \o graph.unreachable))
     \/ stage = "world" /\ answer' = answer
     \/ stage \in {"descendants", "reachable_from"} /\ answer' = SortUnique(ToSet(answer))
     \/ stage = "components" /\ Ids \subseteq seen /\ answer' = answer
  /\ stage' = "answered" /\ seen' = {}
  /\ UNCHANGED <<scene, graph, query, pending, path>>

Next ==
  \/ LinkNodes \/ MarkReachable \/ MarkNothing \/ CollectUnreachable
  \/ EnterForCycles \/ ReportCycle \/ SkipForCycles \/ Return \/ FinishGraph
  \/ TraverseDepthFirst \/ EnterDepthFirst \/ SkipDepthFirst \/ TopologicalNodeOrder
  \/ TraverseBreadthFirst \/ VisitBreadthFirst
  \/ \E id \in Ids \cup {NoId} : DescendantsOf(id) \/ ReachableFrom(id)
  \/ VisitDescendant \/ SkipDescendant \/ VisitReachable
  \/ ConnectedComponents \/ StartComponent \/ VisitNeighbors \/ FinishComponent
  \/ ComputeWorldTransforms \/ EnterForWorld \/ SkipForWorld \/ RefuseWorld \/ LeaveWithWorld
  \/ Answer

(* Sequential code: a function that can go on does.                        *)
Spec == Init /\ [][Next]_vars /\ WF_vars(Next)

-----------------------------------------------------------------------------
(* What is read off a graph.                                               *)

(* A list of children names each of them once.                             *)
GraphEdgeCount == Cardinality(UNION {{id} \X ToSet(Children(id)) : id \in Ids})

GraphIsForest ==
  /\ graph.cycles = << >>
  /\ Ids # {} => GraphEdgeCount + Len(graph.roots) = Cardinality(Ids)

(* ValidateGraphConsistency finds no issue.                                *)
GraphIsConsistent ==
  /\ \A id \in Ids :
       /\ graph.nodes[id].parent \in Ids \cup {NoId}
       /\ \A child \in ToSet(Children(id)) : child \in Ids /\ graph.nodes[child].parent = id
  /\ \A root \in ToSet(graph.roots) : root \in Ids /\ graph.nodes[root].parent = NoId

(* Variant: the walk goes on from the node it began with.                  *)
ParentOfFirst(walked) == graph.nodes[walked[1]].parent
ParentOfLast(walked) == graph.nodes[Last(walked)].parent

(* The loop stops at the first node it has seen or that does not exist.    *)
PathToRoot(id) ==
  LET walk[n \in 0..Cardinality(Ids)] ==
        IF n = 0 THEN << >>
        ELSE LET walked == walk[n - 1]
                 cursor == IF walked = << >> THEN id ELSE ParentOfLast(walked)
             IN IF cursor \in Ids \ ({NoId} \cup ToSet(walked)) THEN Append(walked, cursor)
                                                                ELSE walked
  IN Reverse(walk[Cardinality(Ids)])

AncestorsOf(id) == ToSet(PathToRoot(id)) \ {id}

(* A node whose parent is not in the graph has the roots for siblings.     *)
SiblingNodes(id) ==
  LET parent == graph.nodes[id].parent
  IN (IF GraphContainsNode(parent) THEN ToSet(Children(parent)) ELSE ToSet(graph.roots)) \ {id}

NodesAtDepth(depth) == {id \in Ids : graph.nodes[id].reachable /\ graph.nodes[id].depth = depth}
LeafNodes == {id \in Ids : Children(id) = << >>}

LowestCommonAncestor(left, right) ==
  LET l == PathToRoot(left)
      r == PathToRoot(right)
      shared == {n \in 1..Len(l) : n <= Len(r) /\ \A i \in 1..n : l[i] = r[i]}
  IN IF shared = {} THEN NoId ELSE l[Max(shared)]

-----------------------------------------------------------------------------
(* Properties.  The reference definitions follow links layer by layer.     *)

Roots == ToSet(graph.roots)
Within(ids, n) ==
  LET layer[k \in 0..n] ==
        IF k = 0 THEN ids
        ELSE LET reached == layer[k - 1]
             IN reached \cup UNION {ToSet(Children(id)) : id \in reached}
  IN layer[n]
Closure(ids) == Within(ids, Cardinality(Ids) + 1)
Below(id) == Closure(ToSet(Children(id)))

IsLinked(ids) == \A i \in 1..Len(ids) - 1 : ids[i + 1] \in ToSet(Children(ids[i]))
AreDistinct(ids) == Cardinality(ToSet(ids)) = Len(ids)

Building == {"link", "mark", "find_cycles"}

(* The parts of a graph and of the running function have their types.      *)
TypeOK ==
  /\ scene \in Scenes
  /\ \A id \in Ids : /\ graph.nodes[id].depth \in 0..Len(scene)
                     /\ graph.nodes[id].reachable \in BOOLEAN
                     /\ AreDistinct(Children(id))
  /\ Roots \cup ToSet(graph.unreachable) \subseteq Ids
  /\ stage \in Building \cup {"built", "depth_first", "breadth_first"}
                 \cup {"descendants", "reachable_from", "components", "world", "answered"}
  /\ ToSet(path) \subseteq Ids \cup UNION {ToSet(Children(id)) : id \in Ids}
  /\ AreDistinct(path)

(* A node is anchored when the walk over its parents leaves the graph.     *)
Anchored(id) == graph.nodes[PathToRoot(id)[1]].parent \notin Ids

(* MarkReachable ends with the nodes below the roots marked, each with the *)
(* length of a shortest way to it, whatever the links and the order in     *)
(* which they are followed; the others are unreachable.                    *)
MarksShortestDepth ==
  stage \notin {"link", "mark"} =>
    /\ ToSet(graph.unreachable) = Ids \ Closure(Roots)
    /\ \A id \in Ids :
         LET node == graph.nodes[id]
         IN /\ node.reachable <=> id \in Closure(Roots)
            /\ node.reachable =>
                 /\ id \in Within(Roots, node.depth)
                 /\ node.depth > 0 => id \notin Within(Roots, node.depth - 1)

(* The two loops that count upwards end on any parents.  Where the parents *)
(* of a node lead to a root they count at least the depth it was marked    *)
(* with, and all three agree once ValidateGraphConsistency finds nothing   *)
(* to report; a cycle of parents counts for one or two more in the profile *)
(* than in the metrics.                                                    *)
DepthsAgree ==
  stage \notin {"link", "mark"} /\ Cardinality(Ids) = Len(scene) /\ NoId \notin Ids =>
    \A n \in ToSet(scene) :
      LET node == graph.nodes[n.id]
          upwards == NodeDepth(scene, n)
          counted == DepthOf(scene, n.id)
      IN /\ Anchored(n.id) => /\ node.reachable /\ node.depth <= upwards
                              /\ counted - upwards \in {0, 1}
         /\ ~Anchored(n.id) => counted - upwards \in {1, 2}
         /\ GraphIsConsistent =>
              (Anchored(n.id) <=> node.reachable)
                /\ (node.reachable => node.depth = upwards /\ counted = upwards)

(* FindCycles reports only cycles of the graph, and none only when there   *)
(* is none, also among nodes that no root reaches.  GraphIsForest, which   *)
(* then compares numbers of nodes, edges and roots, holds exactly when     *)
(* each node is a root or has one parent, not both, every child exists and *)
(* nothing is below itself.                                                *)
CyclesExact ==
  LET ParentsOf(id) == {p \in Ids : id \in ToSet(Children(p))}
      HangsOnce(id) == IF id \in Roots THEN ParentsOf(id) = {} ELSE Cardinality(ParentsOf(id)) = 1
  IN stage \notin Building =>
       /\ graph.cycles = << >> <=> \A id \in Ids : id \notin Below(id)
       /\ \A cycle \in ToSet(graph.cycles) :
            AreDistinct(cycle) /\ IsLinked(Append(cycle, cycle[1]))
       /\ GraphIsForest <=>
            \A id \in Ids : id \notin Below(id) /\ ToSet(Children(id)) \subseteq Ids /\ HangsOnce(id)

(* A graph is built right: marks, depths and cycles.                       *)
GraphExact == MarksShortestDepth /\ CyclesExact

Answered(name) == stage = "answered" /\ query.name = name

(* A traversal visits what lies below the roots once, along links from a   *)
(* root; breadth first, also children that do not exist, and nearer nodes  *)
(* before farther ones, each along a shortest way.  An order has all ids,  *)
(* unless something is below itself.  Nothing is left out or given twice   *)
(* because of cycles, shared children or missing ones.                     *)
TraversalsExact ==
  LET visited == Each(answer, LAMBDA step : step.id)
      Depth(i) == Len(answer[i].path) - 1
  IN /\ Answered("depth_first") \/ Answered("breadth_first") =>
          /\ AreDistinct(visited)
          /\ \A step \in ToSet(answer) :
               Head(step.path) \in Roots /\ IsLinked(step.path) /\ AreDistinct(step.path)
     /\ Answered("depth_first") => ToSet(visited) = Closure(Roots) \cap Ids
     /\ Answered("breadth_first") =>
          /\ ToSet(visited) = Closure(Roots)
          /\ \A i \in DOMAIN answer :
               /\ Depth(i) > 0 => visited[i] \notin Within(Roots, Depth(i) - 1)
               /\ \A j \in 1..i : Depth(j) <= Depth(i)
     /\ Answered("order") =>
          answer = IF \E id \in Ids : id \in Below(id) THEN << >> ELSE SortUnique(Ids)

(* A search from a node finds what lies below it, on any graph.            *)
SearchesExact ==
  /\ Answered("descendants") => answer = SortUnique(Below(query.id) \ {query.id})
  /\ Answered("reachable_from") =>
       answer = IF GraphContainsNode(query.id) THEN SortUnique(Closure({query.id})) ELSE << >>

(* Components part the nodes; when the links are consistent each one is a  *)
(* class of nodes joined by links.                                         *)
ComponentsExact ==
  LET Joined(c) == \A id \in ToSet(c) : Below(id) \cup AncestorsOf(id) \subseteq ToSet(c)
      Split(c) == \E part \in SUBSET ToSet(c) :
                    /\ part \notin {{}, ToSet(c)}
                    /\ \A id \in part : Below(id) \subseteq part
                    /\ \A id \in ToSet(c) \ part : Below(id) \cap part = {}
  IN Answered("components") =>
       /\ \A id \in Ids : Cardinality({i \in DOMAIN answer : id \in ToSet(answer[i])}) = 1
       /\ UNION {ToSet(c) : c \in ToSet(answer)} = Ids
       /\ GraphIsConsistent => \A c \in ToSet(answer) : Joined(c) /\ ~Split(c)

(* World transforms are refused for nodes that are not valid or that lead  *)
(* upwards into a cycle, and otherwise every node has one, put together    *)
(* from those on its path to the root, whatever the order of the nodes.    *)
WorldExact ==
  Answered("world") =>
    IF NodesAreValid /\ \A id \in Ids : Anchored(id)
      THEN /\ AreDistinct(Each(answer, LAMBDA step : step.id))
           /\ ToSet(answer) = {[id |-> id, path |-> PathToRoot(id)] : id \in Ids}
      ELSE answer = << >>

(* The queries are answered right.                                         *)
AnswersExact == TraversalsExact /\ SearchesExact /\ ComponentsExact /\ WorldExact

(* PathToRoot follows parents and the searches follow children.  Once      *)
(* ValidateGraphConsistency finds nothing to report they agree, cycles or  *)
(* not, nodes are siblings of each other and at one depth, and without     *)
(* cycles something is a leaf below every node, and the lowest common      *)
(* ancestor is the one of the common ancestors that lies below all others. *)
(* A node with kInvalidObjectId for its id, which ValidateScene refuses,   *)
(* may have children, but PathToRoot stops before it.                      *)
AncestorsMirrorDescendants ==
  stage = "built" /\ GraphIsConsistent /\ NoId \notin Ids =>
    /\ \A a, d \in Ids : a \in AncestorsOf(d) <=> a # d /\ d \in Below(a)
    /\ \A a, b \in Ids : b \in SiblingNodes(a) => a \in SiblingNodes(b)
    /\ \A a \in Ids, depth \in 0..Len(scene) :
         a \in NodesAtDepth(depth) => SiblingNodes(a) \subseteq NodesAtDepth(depth)
    /\ graph.cycles = << >> => \A a \in Ids : Closure({a}) \cap LeafNodes # {}
    /\ graph.cycles = << >> =>
         \A left, right \in Ids :
           LET common == {c \in Ids : {left, right} \subseteq Closure({c})}
               lowest == LowestCommonAncestor(left, right)
           IN IF common = {} THEN lowest = NoId
              ELSE lowest \in common /\ \A c \in common : lowest \in Closure({c})

(* What follows parents agrees with what follows children.                 *)
WaysUpAgree == DepthsAgree /\ AncestorsMirrorDescendants

(* Building a graph and answering a query end, on cyclic graphs too.       *)
Terminates == <>(stage = "answered")
=============================================================================

--------------------------- MODULE TopologyDrafts ---------------------------
(***************************************************************************)
(* The graph of relay chains that administrators draw, and the road from a *)
(* drawing to what nodes run: edits of nodes and inbounds, the saving of   *)
(* drafts (TopologyRepo.SaveGraph with the validators of topology/graph.go *)
(* inside its transaction), the preview of a connected part of the graph   *)
(* (Service.PreviewChain) with its downstream-first order, the creation of *)
(* a release from it, and the older road of a single node without          *)
(* dependencies (Service.Preview, Service.Deploy).                         *)
(*                                                                         *)
(* A preview reads a snapshot of the graph and then, node by node and      *)
(* outside that snapshot, the inbounds the configurations are made of; the *)
(* revision counters are all that keeps a configuration mixed from two     *)
(* states away from the nodes.  How a release is rolled out is the subject *)
(* of TopologyRelease: here it ends, and has switched all nodes or none.   *)
(*                                                                         *)
(* The material of an inbound (port, protocol, keys) is its revision, that *)
(* of a node (its address) a counter; names, layout and formatting are     *)
(* left out.                                                               *)
(***************************************************************************)
EXTENDS Integers, FiniteSets, Sequences, SequencesExt

CONSTANTS
  Nodes,       \* managed nodes, integers
  Ids,         \* inbounds, integers
  NodeOf,      \* the node an inbound is, or will be, created on
  Links,       \* what a form may draw: <<node whose draft holds it, from, to>>
  Founders,    \* the inbounds a run may start with, as functions from Ids to roles, Unborn and Gone
  Roots,       \* nodes that are previewed and deployed from
  Legacy,      \* nodes whose agent comes and goes in an older version
  MaxChain,    \* MaxChainInbounds
  FormSize,    \* how many drafts a form may change at once
  MaxGraph, MaxMaterial, MaxReleased,   \* bounds of the exploration
  MaxRequests, \* how many requests of the older road are on their way at once
  Unborn, Gone, None

Roles == {"entry", "relay", "landing"}
Modes == {"direct", "chain"}

ASSUME GraphIsTyped ==
  /\ Nodes \subseteq Int /\ IsFiniteSet(Nodes) /\ NodeOf \in [Ids -> Nodes]
  /\ IsFiniteSet(Ids) /\ None \notin Ids
  /\ Links \subseteq Nodes \X Ids \X Ids
  /\ Founders \subseteq [Ids -> Roles \cup {Unborn, Gone}] /\ Roots \subseteq Nodes /\ Legacy \subseteq Nodes
  /\ MaxChain \in Nat \ {0, 1} /\ MaxGraph \in Nat /\ MaxMaterial \in Nat /\ MaxReleased \in Nat
  /\ FormSize \in Nat /\ MaxRequests \in Nat

VARIABLES
  nodes,          \* the nodes that exist
  address,        \* table nodes: how often the address changed
  generation,     \* table nodes: config_generation
  capable,        \* nodes whose agent reports topology-chain-v2
  inbounds,       \* table inbounds, by id
  drafts,         \* table topology_drafts: revision and edges of every node
  graphRevision, materialRevision,   \* table topology_material_state
  rows,           \* table topology_previews: one row per root, shared by both roads
  building,       \* the chain preview being put together, or None
  single,         \* the single-node preview between its reads, or None
  deploying,      \* the single-node deployment between its reads, or None
  release,        \* the release that drives nodes, or None
  released,       \* nodes some release has named: their rows keep them from being deleted
  running         \* table topology_deployments

tables == <<nodes, address, generation, capable, inbounds, drafts>>
requests == <<single, deploying>>
vars == <<nodes, address, generation, capable, inbounds, drafts, graphRevision,
          materialRevision, rows, building, single, deploying, release, released, running>>

----------------------------------------------------------------------------
(* Validation: topology/graph.go.  inb maps the inbounds of a graph to     *)
(* their records, links is a set of <<owner, from, to>>.                   *)

Existing == {i \in Ids : inbounds[i] \notin {Unborn, Gone}}
On(n) == {i \in Existing : NodeOf[i] = n}
RoleFits(role, mode) == (role = "relay" => mode = "chain") /\ (role = "landing" => mode = "direct")
DefaultMode(role) == IF role = "relay" THEN "chain" ELSE "direct"

LinksOf(d) == {l \in Links : <<l[2], l[3]>> \in d[l[1]].edges}
From(links, i) == {l \in links : l[2] = i}
To(links, i) == {l \in links : l[3] = i}

\* validateStructure
WellFormed(inb, links) ==
  /\ \A l \in links :
       /\ l[2] \in DOMAIN inb /\ l[3] \in DOMAIN inb /\ l[2] # l[3]
       /\ inb[l[2]].role \in {"entry", "relay"} /\ inb[l[2]].mode = "chain"
       /\ inb[l[3]].role \in {"relay", "landing"}
  /\ \A i \in DOMAIN inb :
       /\ Cardinality(From(links, i)) <= 1
       /\ inb[i].role = "relay" => Cardinality(To(links, i)) <= 1

\* The inbound that k hops lead to, None past the end: what the loops of the validators walk.
Step(links, i) == IF i = None \/ From(links, i) = {} THEN None ELSE (CHOOSE l \in From(links, i) : TRUE)[3]
Hop(links, i, k) == LET at[j \in 0..k] == IF j = 0 THEN i ELSE Step(links, at[j - 1]) IN at[k]
Walk(links, i) == {k \in 0..Cardinality(Ids) : Hop(links, i, k) # None}

\* A plausible bug: a way back to another inbound of the same machine goes unnoticed.
FaultyReenters(links, i) == \E j, k \in Walk(links, i) : j < k /\ Hop(links, i, j) = Hop(links, i, k)

\* detectCycle and detectPhysicalReentry: a cycle comes back to a node it has seen.
Reenters(links, i) ==
  \E j, k \in Walk(links, i) : j < k /\ NodeOf[Hop(links, i, j)] = NodeOf[Hop(links, i, k)]
ValidateDraftGraph(inb, links) ==
  WellFormed(inb, links) /\ \A i \in DOMAIN inb : ~Reenters(links, i)

\* requireLandingPath, pathDepth: how many inbounds there are from i to its landing
Depth(links, i) == Cardinality(Walk(links, i))
EndOf(links, i) == Hop(links, i, Depth(links, i) - 1)

\* ValidateGraph: every chained entry and every relay leads to a landing.
Chained(inb) == {i \in DOMAIN inb : inb[i].role \in {"entry", "relay"} /\ inb[i].mode = "chain"}
ValidateGraph(inb, links) ==
  /\ ValidateDraftGraph(inb, links)
  /\ \A i \in Chained(inb) :
       /\ inb[i].role = "relay" => To(links, i) # {}
       /\ inb[EndOf(links, i)].role = "landing" /\ Depth(links, i) \in 2..MaxChain

\* The members of a set as a relation orders them.
InOrder(S, before) ==
  CHOOSE s \in SetToSeqs(S) : \A j, k \in DOMAIN s : j < k => <<s[j], s[k]>> \in before
Ascending(S) == InOrder(S, {p \in S \X S : p[1] < p[2]})

\* DeploymentOrder: the nodes of complete chains, by the longest way that a chain from an entry
\* has left to its landing when it passes them, and then by id.
Visits(links, starts) == {p \in starts \X (0..Cardinality(Ids)) : p[2] \in Walk(links, p[1])}
\* A plausible bug: the distance is counted from the entry, not from the landing.
FaultyDistance(inb, links, n) ==
  Max({0} \cup {p[2] : p \in {q \in Visits(links, Chained(inb)) : NodeOf[Hop(links, q[1], q[2])] = n}})
Distance(inb, links, n) ==
  LET entries == {i \in Chained(inb) : inb[i].role = "entry"}
      here == {p \in Visits(links, entries) : NodeOf[Hop(links, p[1], p[2])] = n}
  IN Max({0} \cup {Depth(links, p[1]) - 1 - p[2] : p \in here})
DeploymentOrder(inb, links) ==
  LET places == {NodeOf[Hop(links, p[1], p[2])] : p \in Visits(links, Chained(inb))}
      before == {p \in places \X places :
                   \/ Distance(inb, links, p[1]) < Distance(inb, links, p[2])
                   \/ Distance(inb, links, p[1]) = Distance(inb, links, p[2]) /\ p[1] < p[2]}
  IN InOrder(places, before)

----------------------------------------------------------------------------
(* Helpers of the handlers *)

Busy(n) == release # None /\ n \in DOMAIN release.configs
Touches(l, ns) == l[1] \in ns \/ NodeOf[l[3]] \in ns

\* PreviewChain: the root and whatever drawn links connect to it.
Component(links, root) ==
  {n \in Nodes : \A s \in SUBSET Nodes :
     root \in s /\ (\A l \in links : Touches(l, s) => l[1] \in s /\ NodeOf[l[3]] \in s) => n \in s}

\* resolveChainNode: that the tables can say what a node is to run
Resolvable(n, edges) ==
  /\ n \in nodes
  /\ \A e \in edges : /\ e[1] \in On(n) /\ inbounds[e[1]].role \in {"entry", "relay"}
                      /\ e[2] \in Existing /\ NodeOf[e[2]] \in nodes
\* resolve, of the single-node road: links lead from entries to other nodes that link no further.
SimpleResolvable(n, edges) ==
  /\ Resolvable(n, edges)
  /\ \A e \in edges : /\ inbounds[e[1]].role = "entry" /\ inbounds[e[2]].role \in {"relay", "landing"}
                      /\ NodeOf[e[2]] # n /\ drafts[NodeOf[e[2]]].edges = {}
Material(i) == [revision |-> inbounds[i].revision, address |-> address[NodeOf[i]]]
Config(n, edges) ==
  [inbounds |-> [i \in On(n) |-> [role |-> inbounds[i].role, material |-> Material(i)]],
   edges |-> {[from |-> e[1], to |-> e[2], material |-> Material(e[2])] : e \in edges}]

\* graphHasDependencies: such a node cannot take the single-node road.
HasDependencies(n) ==
  \/ \E l \in LinksOf(drafts) : Touches(l, {n})
  \/ \E i \in On(n) : inbounds[i].role = "relay" \/ inbounds[i].mode = "chain"

Waiting == Cardinality({slot \in {1} : single # None} \cup {slot \in {2} : deploying # None})
BumpMaterial == materialRevision < MaxMaterial /\ materialRevision' = materialRevision + 1

----------------------------------------------------------------------------
\* A run starts with links that ascend; against that direction they have to be drawn.
Init ==
  /\ nodes = Nodes /\ address = [n \in Nodes |-> 0] /\ generation = [n \in Nodes |-> 0]
  /\ capable = Nodes \ Legacy
  /\ \E roles \in Founders, links \in SUBSET Links :
       /\ inbounds = [i \in Ids |->
                        IF roles[i] \in {Unborn, Gone} THEN roles[i]
                        ELSE [role |-> roles[i], revision |-> 1,
                              mode |-> IF From(links, i) # {} THEN "chain" ELSE DefaultMode(roles[i])]]
       /\ drafts = [n \in Nodes |->
                      LET edges == {<<l[2], l[3]>> : l \in {k \in links : k[1] = n}}
                      IN [revision |-> IF edges = {} THEN 0 ELSE 1, edges |-> edges]]
       /\ ValidateDraftGraph(Restrict(inbounds, Existing), links)
       /\ \A l \in links : NodeOf[l[2]] < NodeOf[l[3]]
  /\ graphRevision = 1 /\ materialRevision = 1
  /\ rows = [n \in Nodes |-> None] /\ running = [n \in Nodes |-> None]
  /\ building = None /\ single = None /\ deploying = None /\ release = None /\ released = {}

----------------------------------------------------------------------------
(* Nodes and inbounds: repo/nodes.go, repo/nodes_p2.go *)

\* NodeRepo.Update (a new address): refused by nothing.
UpdateNode(n) ==
  /\ n \in nodes /\ BumpMaterial
  /\ address' = [address EXCEPT ![n] = @ + 1]
  /\ generation' = [generation EXCEPT ![n] = @ + 1]
  /\ UNCHANGED <<nodes, capable, inbounds, drafts, graphRevision, rows, building, requests,
                 release, released, running>>

\* NodeRepo.Delete: inbounds, draft, preview and deployment go with the node (ON DELETE CASCADE),
\* rows of releases forbid it.
DeleteNode(n) ==
  /\ n \in nodes \ released /\ BumpMaterial
  /\ nodes' = nodes \ {n}
  /\ inbounds' = [i \in Ids |-> IF i \in On(n) THEN Gone ELSE inbounds[i]]
  /\ drafts' = [drafts EXCEPT ![n] = [revision |-> 0, edges |-> {}]]
  /\ rows' = [rows EXCEPT ![n] = None] /\ running' = [running EXCEPT ![n] = None]
  /\ UNCHANGED <<address, generation, capable, graphRevision, building, requests, release, released>>

CreateInbound(i, role) ==
  /\ inbounds[i] = Unborn /\ NodeOf[i] \in nodes /\ BumpMaterial
  /\ inbounds' = [inbounds EXCEPT ![i] = [role |-> role, mode |-> DefaultMode(role), revision |-> 1]]
  /\ UNCHANGED <<nodes, address, generation, capable, drafts, graphRevision, rows, building,
                 requests, release, released, running>>

\* NodeRepo.UpdateInbound: not while a release drives the node, nor once it runs anything or is
\* the target of a running edge.
UpdateInbound(i, role, mode) ==
  /\ i \in Existing /\ RoleFits(role, mode) /\ BumpMaterial /\ graphRevision < MaxGraph
  /\ ~Busy(NodeOf[i]) /\ running[NodeOf[i]] = None
  /\ \A n \in nodes : running[n] # None => \A e \in running[n].edges : e.to # i
  /\ inbounds' = [inbounds EXCEPT ![i] = [role |-> role, mode |-> mode, revision |-> @.revision + 1]]
  /\ graphRevision' = graphRevision + 1
  /\ generation' = [generation EXCEPT ![NodeOf[i]] = @ + 1]
  /\ UNCHANGED <<nodes, address, capable, drafts, rows, building, requests, release, released, running>>

\* NodeRepo.DeleteInboundForNode: neither drafts nor deployments are consulted.
DeleteInbound(i) ==
  /\ i \in Existing /\ BumpMaterial
  /\ inbounds' = [inbounds EXCEPT ![i] = Gone]
  /\ UNCHANGED <<nodes, address, generation, capable, drafts, graphRevision, rows, building,
                 requests, release, released, running>>

\* NodeRepo.UpdateAgentCapabilities: every heartbeat overwrites what the agent can do.
Heartbeat(n) ==
  /\ n \in nodes /\ capable' = IF n \in capable THEN capable \ {n} ELSE capable \cup {n}
  /\ UNCHANGED <<nodes, address, generation, inbounds, drafts, graphRevision, materialRevision,
                 rows, building, requests, release, released, running>>

----------------------------------------------------------------------------
(* Drafts: TopologyRepo.SaveGraph, also behind the single-node PUT *)

SaveGraph(edges, modes) ==
  LET drawn == [n \in Nodes |->
                  IF n \notin DOMAIN edges THEN drafts[n]
                  ELSE [revision |-> drafts[n].revision + 1, edges |-> edges[n]]]
      set == [i \in Ids |->
                IF i \notin DOMAIN modes THEN inbounds[i]
                ELSE [inbounds[i] EXCEPT !.mode = modes[i], !.revision = @ + 1]]
  IN /\ DOMAIN edges \subseteq nodes
     /\ \A n \in DOMAIN edges : ~Busy(n)
     /\ \A i \in DOMAIN modes : i \in Existing /\ NodeOf[i] \in DOMAIN edges
                                /\ RoleFits(inbounds[i].role, modes[i])
     /\ ValidateDraftGraph(Restrict(set, Existing), LinksOf(drawn))
     /\ drafts' = drawn /\ inbounds' = set /\ graphRevision' = graphRevision + 1
     /\ UNCHANGED <<nodes, address, generation, capable, materialRevision, rows, building,
                    requests, release, released, running>>

\* What a form sends: the edges of one node or two, the modes of some of their entries.
Edges(n) == {<<l[2], l[3]>> : l \in {k \in Links : k[1] = n}}
Forms == {d \in UNION {[ns -> UNION {SUBSET Edges(n) : n \in ns}] :
                         ns \in {s \in SUBSET Nodes : Cardinality(s) \in 1..FormSize}} :
            \A n \in DOMAIN d : d[n] \subseteq Edges(n)}
Save ==
  /\ graphRevision < MaxGraph
  /\ \E edges \in Forms :
       \E is \in SUBSET {i \in Existing : inbounds[i].role = "entry" /\ NodeOf[i] \in DOMAIN edges} :
         \E modes \in [is -> Modes] : SaveGraph(edges, modes)

----------------------------------------------------------------------------
(* The preview of a chain: Service.PreviewChain *)

\* store.Graph, the validation and the order, on a snapshot
PreviewSnapshot(root) ==
  LET links == LinksOf(drafts)
      selected == Component(links, root)
      part == {l \in links : NodeOf[l[3]] \in selected}
      inb == Restrict(inbounds, {i \in Existing : NodeOf[i] \in selected})
      chain == DeploymentOrder(inb, part)
      order == chain \o Ascending((selected \cap nodes) \ Range(chain))
  IN /\ building = None /\ root \in nodes
     /\ ValidateGraph(inb, part) /\ Range(order) \subseteq capable \cap nodes
     /\ building' = [root |-> root, graph |-> graphRevision, material |-> materialRevision,
                     order |-> order, edges |-> [n \in Range(order) |-> drafts[n].edges],
                     generation |-> [n \in Range(order) |-> generation[n]], configs |-> <<>>]
     /\ UNCHANGED <<tables, graphRevision, materialRevision, rows, requests, release, released, running>>

\* resolveChainNode: what the next node is to run, from the tables as they are now
ResolveNode ==
  LET n == building.order[Len(building.configs) + 1]
  IN /\ building # None /\ Len(building.configs) < Len(building.order)
     /\ building' = IF Resolvable(n, building.edges[n])
                    THEN [building EXCEPT !.configs = Append(@, Config(n, building.edges[n]))]
                    ELSE None
     /\ UNCHANGED <<tables, graphRevision, materialRevision, rows, requests, release, released, running>>

\* SavePreviewV2, into the row the single-node road uses as well
PreviewSave ==
  /\ building # None /\ Len(building.configs) = Len(building.order)
  /\ building.root \in nodes
  /\ rows' = [rows EXCEPT ![building.root] =
                [material |-> building.material, simple |-> << >>, fresh |-> TRUE,
                 bundle |-> [graph |-> building.graph, order |-> building.order,
                             generation |-> building.generation,
                             configs |-> [n \in Range(building.order) |->
                               building.configs[CHOOSE k \in DOMAIN building.order : building.order[k] = n]]]]]
  /\ building' = None
  /\ UNCHANGED <<tables, graphRevision, materialRevision, requests, release, released, running>>

----------------------------------------------------------------------------
(* Releases: created here, rolled out in TopologyRelease *)

\* A plausible bug: only what administrators draw is compared, not what the nodes are made of.
FaultyCurrent(root) ==
  /\ rows[root] # None /\ rows[root].bundle # None /\ rows[root].fresh
  /\ rows[root].bundle.graph = graphRevision
  /\ \A n \in Range(rows[root].bundle.order) : n \in capable \cap nodes /\ ~Busy(n)

Current(root) ==
  /\ rows[root] # None /\ rows[root].bundle # None /\ rows[root].fresh
  /\ rows[root].bundle.graph = graphRevision /\ rows[root].material = materialRevision
  /\ \A n \in Range(rows[root].bundle.order) :
       n \in capable \cap nodes /\ generation[n] = rows[root].bundle.generation[n] /\ ~Busy(n)

CreateRelease(root) ==
  /\ release = None /\ Current(root)
  /\ LET bundle == rows[root].bundle
         ns == Range(bundle.order)
     IN /\ Cardinality(released) < MaxReleased
        /\ release' = [order |-> bundle.order, configs |-> bundle.configs]
        /\ generation' = [n \in Nodes |-> generation[n] + IF n \in ns THEN 1 ELSE 0]
        /\ released' = released \cup ns \cup {root}
  /\ rows' = [rows EXCEPT ![root].fresh = FALSE]
  /\ UNCHANGED <<nodes, address, capable, inbounds, drafts, graphRevision, materialRevision,
                 building, requests, running>>

EndRelease ==
  /\ release # None /\ release' = None
  /\ \/ running' = [n \in Nodes |-> IF n \in DOMAIN release.configs THEN release.configs[n] ELSE running[n]]
     \/ running' = running
  /\ UNCHANGED <<tables, graphRevision, materialRevision, rows, building, requests, released>>

----------------------------------------------------------------------------
(* The single-node road: the handlers and Service.Preview, Service.Deploy *)

\* The handler finds no dependency and an agent of the older version ...
SimpleCheck(n) ==
  /\ single = None /\ Waiting < MaxRequests
  /\ n \in nodes \ capable /\ ~HasDependencies(n)
  /\ single' = [step |-> "read", node |-> n]
  /\ UNCHANGED <<tables, graphRevision, materialRevision, rows, building, deploying,
                 release, released, running>>

\* ... and Preview, later, reads material revision, draft and inbounds.  What moves between
\* these reads moves one of the revisions that SavePreview compares: they are one step.
SimpleRead ==
  /\ single # None /\ single.step = "read"
  /\ LET n == single.node
         edges == drafts[n].edges
     IN single' = IF SimpleResolvable(n, edges)
                  THEN [step |-> "save", node |-> n, material |-> materialRevision,
                        draft |-> drafts[n].revision, config |-> Config(n, edges)]
                  ELSE None
  /\ UNCHANGED <<tables, graphRevision, materialRevision, rows, building, deploying,
                 release, released, running>>

\* SavePreview: identifier, expiry and bundle of a chain preview stay in the row.
Savable(request) ==
  /\ request.node \in nodes
  /\ request.material = materialRevision /\ request.draft = drafts[request.node].revision
SimpleSave ==
  /\ single # None /\ single.step = "save" /\ Savable(single)
  /\ rows' = [rows EXCEPT ![single.node] =
                LET kept == IF rows[single.node] = None THEN [bundle |-> None, fresh |-> FALSE]
                            ELSE rows[single.node]
                IN [material |-> materialRevision, bundle |-> kept.bundle, fresh |-> kept.fresh,
                    simple |-> <<[draft |-> single.draft, config |-> single.config]>>]]
  /\ single' = None
  /\ UNCHANGED <<tables, graphRevision, materialRevision, building, deploying,
                 release, released, running>>

\* ... or the request is answered preview_stale.
SimpleRefuse ==
  /\ single # None /\ single.step = "save" /\ ~Savable(single)
  /\ single' = None
  /\ UNCHANGED <<tables, graphRevision, materialRevision, rows, building, deploying,
                 release, released, running>>

\* The handler of a deployment asks for dependencies alone.
DeployCheck(n) ==
  /\ deploying = None /\ Waiting < MaxRequests
  /\ n \in nodes /\ ~HasDependencies(n)
  /\ deploying' = [step |-> "read", node |-> n]
  /\ UNCHANGED <<tables, graphRevision, materialRevision, rows, building, single,
                 release, released, running>>

\* Deploy: the stored preview must still be what the draft and the material say.
DeployRead ==
  /\ deploying # None /\ deploying.step = "read"
  /\ LET n == deploying.node
         now == [draft |-> drafts[n].revision, config |-> Config(n, drafts[n].edges)]
     IN deploying' = IF /\ SimpleResolvable(n, drafts[n].edges)
                        /\ rows[n] # None /\ rows[n].simple = <<now>>
                     THEN [step |-> "commit", node |-> n, draft |-> now.draft, config |-> now.config]
                     ELSE None
  /\ UNCHANGED <<tables, graphRevision, materialRevision, rows, building, single,
                 release, released, running>>

\* A plausible bug: the transaction trusts the comparison the handler made before it.
FaultyDeployable(request) ==
  /\ rows[request.node] # None
  /\ rows[request.node].simple = <<[draft |-> request.draft, config |-> request.config]>>

\* DeployPreview: the transaction compares again; it asks for no release.
Deployable(request) ==
  /\ rows[request.node] # None /\ rows[request.node].material = materialRevision
  /\ rows[request.node].simple = <<[draft |-> request.draft, config |-> request.config]>>
  /\ drafts[request.node].revision = request.draft
SimpleCommit ==
  /\ deploying # None /\ deploying.step = "commit" /\ Deployable(deploying)
  /\ running' = [running EXCEPT ![deploying.node] = deploying.config]
  /\ rows' = [rows EXCEPT ![deploying.node] = None]
  /\ deploying' = None
  /\ UNCHANGED <<tables, graphRevision, materialRevision, building, single, release, released>>

DeployRefuse ==
  /\ deploying # None /\ deploying.step = "commit" /\ ~Deployable(deploying)
  /\ deploying' = None
  /\ UNCHANGED <<tables, graphRevision, materialRevision, rows, building, single,
                 release, released, running>>

----------------------------------------------------------------------------
Edit ==
  \/ \E n \in Nodes : UpdateNode(n) \/ DeleteNode(n)
  \/ \E n \in Legacy : Heartbeat(n)
  \/ \E i \in Ids, role \in Roles : CreateInbound(i, role) \/ \E mode \in Modes : UpdateInbound(i, role, mode)
  \/ \E i \in Ids : DeleteInbound(i)
Chain ==
  \/ \E root \in Roots : PreviewSnapshot(root) \/ CreateRelease(root)
  \/ ResolveNode \/ PreviewSave \/ EndRelease
Simple ==
  \/ \E n \in Roots : SimpleCheck(n) \/ DeployCheck(n)
  \/ SimpleRead \/ SimpleSave \/ SimpleRefuse
  \/ DeployRead \/ SimpleCommit \/ DeployRefuse

Next == Edit \/ Save \/ Chain \/ Simple
Spec == Init /\ [][Next]_vars

----------------------------------------------------------------------------
\* Type invariant: every variable keeps the shape its table or local has.
TypeOK ==
  /\ nodes \subseteq Nodes /\ capable \subseteq Nodes /\ released \subseteq Nodes
  /\ graphRevision \in 1..MaxGraph /\ materialRevision \in 1..MaxMaterial
  /\ address \in [Nodes -> Nat] /\ generation \in [Nodes -> Nat]
  /\ \A i \in Existing : NodeOf[i] \in nodes /\ inbounds[i].revision \in Nat
                         /\ RoleFits(inbounds[i].role, inbounds[i].mode)
  /\ \A n \in Nodes : drafts[n].revision \in Nat /\ drafts[n].edges \subseteq Edges(n)

(* Whatever is saved, and however roles change, inbounds and nodes come and go around it, the    *)
(* links in the drafts never lead back to a machine they have left: the loops of the validators, *)
(* of pathDepth and of summarizeDraft end.                                                       *)
NeverReenters ==
  \A i \in Ids : \E ahead \in SUBSET {j \in Ids : NodeOf[j] # NodeOf[i]} :
    \A l \in LinksOf(drafts) : l[2] \in ahead \cup {i} => l[3] \in ahead

(* What a release switches its nodes to is one state of the tables: every edge leads to a node  *)
(* of the same release, to an inbound that node will run, with the port, keys and address it     *)
(* will have.                                                                                    *)
OneState(r) ==
  \A n \in DOMAIN r.configs : \A e \in r.configs[n].edges :
    /\ NodeOf[e.to] \in DOMAIN r.configs
    /\ e.to \in DOMAIN r.configs[NodeOf[e.to]].inbounds
    /\ e.material = r.configs[NodeOf[e.to]].inbounds[e.to].material

(* So it is, although a preview is read node by node, outside its snapshot, unless a single-node *)
(* preview was saved over the row since.                                                         *)
ReleaseIsOneState ==
  [][\A root \in Roots :
       CreateRelease(root) /\ rows[root].simple = << >> => OneState(release')]_vars

(* A single-node deployment writes what the tables say at that moment, although material and     *)
(* draft were read before its transaction and the node may have become part of a chain since.    *)
SimpleDeployIsCurrent ==
  [][SimpleCommit =>
       running'[deploying.node] = Config(deploying.node, drafts[deploying.node].edges)]_vars

Position(order, n) == CHOOSE k \in DOMAIN order : order[k] = n
DownstreamOf(r) ==
  \A n \in DOMAIN r.configs : \A e \in r.configs[n].edges :
    Position(r.order, NodeOf[e.to]) < Position(r.order, n)

(* What the comment on DeploymentOrder says: a release reaches every node after the nodes its    *)
(* links lead to.                                                                                *)
DownstreamFirst == release # None => DownstreamOf(release)

(* ... which holds where no machine is passed twice: where none starts a link at one inbound and *)
(* ends one at another.                                                                          *)
Sources(r) == UNION {{e.from : e \in r.configs[n].edges} : n \in DOMAIN r.configs}
Targets(r) == UNION {{e.to : e \in r.configs[n].edges} : n \in DOMAIN r.configs}
OnePlace(r) ==
  \A i \in Sources(r), j \in Targets(r) : i # j => NodeOf[i] # NodeOf[j]
OnePlaceDownstreamFirst ==
  release # None =>
    /\ Len(release.order) = Cardinality(DOMAIN release.configs)
    /\ OnePlace(release) => DownstreamOf(release)
=============================================================================

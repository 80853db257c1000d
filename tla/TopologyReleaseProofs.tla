------------------------ MODULE TopologyReleaseProofs ------------------------
(***************************************************************************)
(* Theorems about TopologyRelease, for every set of nodes, every chain and *)
(* every bound: its invariants, and that it implements StagedRollout.      *)
(***************************************************************************)
EXTENDS TopologyRelease, FiniteSetTheorems, TLAPS

USE DEF Revision, ReleaseId

-----------------------------------------------------------------------------
(* The inductive invariant *)

At(row, phase, status) == row.phase = phase /\ row.status = status

\* What a row may be: an acknowledgement is only taken for the phase of the
\* row, and a failed application is queued for rollback at once.
RowOK(row) ==
    \/ row.phase = "prepare" /\ row.status \in {"pending", "prepared", "failed"}
    \/ row.phase = "apply" /\ row.status \in {"active", "applied", "rollback_pending"}
    \/ row.phase = "rollback" /\ row.status \in {"active", "rolled_back", "failed"}

\* Downstream first come the switched nodes, then those taken back, then those
\* that were never switched; no two nodes have the same place.
Gapless(rows) ==
    \A m, n \in DOMAIN rows :
        /\ m # n => rows[m].order # rows[n].order
        /\ rows[m].order < rows[n].order =>
              /\ rows[m].phase = "prepare" => rows[n].phase = "prepare"
              /\ rows[m].phase = "rollback" => rows[n].phase # "apply"

\* The rows of a release that works at n.
WorkingAt(rows, n) ==
    /\ At(rows[n], "apply", "active")
    /\ \A m \in DOMAIN rows :
          /\ rows[m].order < rows[n].order => At(rows[m], "apply", "applied")
          /\ rows[n].order < rows[m].order => At(rows[m], "prepare", "prepared")

\* What the status of a release says about its rows.
Fits(status, rows) ==
    CASE status = "absent"       -> DOMAIN rows = {}
      [] status = "preparing"    -> \A n \in DOMAIN rows :
                                       rows[n].phase = "prepare" /\ rows[n].status # "failed"
      [] status = "applying"     -> \E n \in DOMAIN rows : WorkingAt(rows, n)
      [] status = "succeeded"    -> \A n \in DOMAIN rows : At(rows[n], "apply", "applied")
      [] status = "rolling_back" ->
            /\ \E n \in DOMAIN rows : rows[n].phase = "rollback"
            /\ \A n \in DOMAIN rows :
                  rows[n].phase = "apply" => rows[n].status = "rollback_pending"
      [] OTHER                   -> status # "ready"

Shape(status, rows) ==
    /\ \A n \in DOMAIN rows : RowOK(rows[n])
    /\ Gapless(rows)
    /\ Fits(status, rows)

Shaped == \A r \in ReleaseId : Shape(releaseStatus[r], releaseNodes[r])

DocumentsKnown == \A d \in documents \cup serving : d.node \in DOMAIN releaseNodes[d.release]

IInv == TypeOK /\ Shaped /\ DocumentsKnown

-----------------------------------------------------------------------------
(* Helpers *)

LEMMA RuntimeIsTyped ==
    ASSUME NodesOK, NEW n \in Node, NEW topology \in Topology
    PROVE  RuntimeVersion(topology, n) \in Runtime
BY DEF RuntimeVersion, Runtime, NodesOK

\* Changing the status of one row keeps the rows well-typed.
LEMMA AcknowledgedIsTyped ==
    ASSUME ReleasesOK, NEW d \in Document, NEW status \in NodeStatus,
           d.node \in DOMAIN releaseNodes[d.release]
    PROVE  /\ OverChain(Acknowledged(d, status), ReleaseNode)
           /\ DOMAIN Acknowledged(d, status) = DOMAIN releaseNodes[d.release]
<1> DEFINE rows == releaseNodes[d.release]
<1>1. d.release \in ReleaseId /\ rows \in [DOMAIN rows -> ReleaseNode] /\ DOMAIN rows \subseteq Node
  BY DEF ReleasesOK, OverChain, Document
<1>2. [rows[d.node] EXCEPT !.status = status] \in ReleaseNode
  BY <1>1 DEF ReleaseNode
<1> QED BY <1>1, <1>2 DEF Acknowledged, OverChain

LEMMA ActivateIsTyped ==
    ASSUME NodesOK, ReleasesOK,
           NEW r \in ReleaseId, NEW rows, OverChain(rows, ReleaseNode),
           NEW n \in DOMAIN rows, NEW phase \in Phase, NEW topology \in Topology, NEW g \in Nat,
           Activate(r, rows, n, phase, topology, g), credential' = credential,
           releaseStatus' \in [ReleaseId -> ReleaseStatus]
    PROVE  NodesOK' /\ ReleasesOK'
<1>1. n \in Node /\ rows \in [DOMAIN rows -> ReleaseNode]
  BY DEF OverChain
<1>2. RuntimeVersion(topology, n) \in Runtime
  BY <1>1, RuntimeIsTyped
<1>3. [rows[n] EXCEPT !.phase = phase, !.status = "active", !.expectedGeneration = g,
                      !.expectedRuntime = RuntimeVersion(topology, n)] \in ReleaseNode
  BY <1>1, <1>2 DEF ReleaseNode, NodeStatus
<1>4. NodesOK'
  BY <1>1 DEF NodesOK, Activate
<1>5. OverChain([rows EXCEPT
          ![n] = [@ EXCEPT !.phase = phase, !.status = "active", !.expectedGeneration = g,
                           !.expectedRuntime = RuntimeVersion(topology, n)]], ReleaseNode)
  BY <1>1, <1>3 DEF OverChain
<1>6. ReleasesOK'
  BY <1>5 DEF ReleasesOK, Activate
<1> QED BY <1>4, <1>6

LEMMA FinishIsTyped ==
    ASSUME NodesOK, ReleasesOK, NEW r \in ReleaseId, NEW rows, OverChain(rows, ReleaseNode),
           NEW terminal \in ReleaseStatus, Finish(r, rows, terminal), credential' = credential
    PROVE  NodesOK' /\ ReleasesOK'
<1>1. NodesOK'
  BY DEF NodesOK, Finish
<1>2. ReleasesOK'
  BY DEF ReleasesOK, Finish
<1> QED BY <1>1, <1>2

-----------------------------------------------------------------------------
(* Type correctness *)

LEMMA TypeInit == Init => TypeOK
<1> SUFFICES ASSUME Init PROVE TypeOK
  OBVIOUS
<1>1. RevisionsOK
  BY BoundsAssumption DEF Init, RevisionsOK
<1>2. NodesOK
  BY BoundsAssumption DEF Init, NodesOK, Topology, Empty
<1>3. PreviewsOK
  BY DEF Init, PreviewsOK
<1>4. ReleasesOK
  <2>1. OverChain(NoNode, ReleaseNode)
    BY DEF OverChain, NoNode
  <2> QED BY <2>1 DEF Init, ReleasesOK, ReleaseStatus, Busy
<1>5. WireOK
  BY DEF Init, WireOK
<1> QED BY <1>1, <1>2, <1>3, <1>4, <1>5 DEF TypeOK

\* The parts of the state that an action leaves alone keep their types.
LEMMA TypeUnchanged ==
    /\ RevisionsOK /\ UNCHANGED revisionVars => RevisionsOK'
    /\ NodesOK /\ UNCHANGED nodeVars => NodesOK'
    /\ PreviewsOK /\ UNCHANGED previewVars => PreviewsOK'
    /\ ReleasesOK /\ UNCHANGED releaseVars => ReleasesOK'
    /\ WireOK /\ UNCHANGED wireVars => WireOK'
<1>1. RevisionsOK /\ UNCHANGED revisionVars => RevisionsOK'
  BY DEF RevisionsOK, revisionVars
<1>2. NodesOK /\ UNCHANGED nodeVars => NodesOK'
  BY DEF NodesOK, nodeVars
<1>3. PreviewsOK /\ UNCHANGED previewVars => PreviewsOK'
  BY DEF PreviewsOK, previewVars
<1>4. ReleasesOK /\ UNCHANGED releaseVars => ReleasesOK'
  BY DEF ReleasesOK, releaseVars
<1>5. WireOK /\ UNCHANGED wireVars => WireOK'
  BY DEF WireOK, wireVars
<1> QED BY <1>1, <1>2, <1>3, <1>4, <1>5

LEMMA SurroundingsTyped ==
    ASSUME TypeOK,
           \/ \E changed \in SUBSET Node : SaveGraph(changed)
           \/ \E n \in Node : UpdateNode(n) \/ UpdateInbound(n) \/ CredentialDrift(n)
           \/ ChangeInbounds
           \/ InvalidateTopologyAuthorization
    PROVE  TypeOK'
<1> USE TypeUnchanged DEF TypeOK
<1>1. CASE \E changed \in SUBSET Node : SaveGraph(changed)
  <2>1. RevisionsOK'
    BY <1>1, BoundsAssumption DEF SaveGraph, RevisionsOK
  <2> QED BY <1>1, <2>1 DEF SaveGraph
<1>2. CASE \E n \in Node : UpdateNode(n)
  <2>1. RevisionsOK'
    BY <1>2, BoundsAssumption DEF UpdateNode, RevisionsOK
  <2>2. NodesOK'
    BY <1>2 DEF UpdateNode, NodesOK
  <2> QED BY <1>2, <2>1, <2>2 DEF UpdateNode
<1>3. CASE \E n \in Node : UpdateInbound(n)
  <2>1. RevisionsOK'
    BY <1>3, BoundsAssumption DEF UpdateInbound, RevisionsOK
  <2>2. NodesOK'
    BY <1>3 DEF UpdateInbound, NodesOK
  <2> QED BY <1>3, <2>1, <2>2 DEF UpdateInbound
<1>4. CASE \E n \in Node : CredentialDrift(n)
  <2>1. NodesOK'
    BY <1>4, BoundsAssumption DEF CredentialDrift, NodesOK
  <2> QED BY <1>4, <2>1 DEF CredentialDrift
<1>5. CASE ChangeInbounds
  <2>1. RevisionsOK'
    BY <1>5, BoundsAssumption DEF ChangeInbounds, RevisionsOK
  <2> QED BY <1>5, <2>1 DEF ChangeInbounds
<1>6. CASE InvalidateTopologyAuthorization
  <2>1. RevisionsOK'
    BY <1>6, BoundsAssumption DEF InvalidateTopologyAuthorization, RevisionsOK
  <2>2. NodesOK'
    BY <1>6 DEF InvalidateTopologyAuthorization, NodesOK
  <2>3. ReleasesOK'
    BY <1>6 DEF InvalidateTopologyAuthorization, ReleasesOK, ReleaseStatus, Busy
  <2> QED BY <1>6, <2>1, <2>2, <2>3 DEF InvalidateTopologyAuthorization
<1> QED BY <1>1, <1>2, <1>3, <1>4, <1>5, <1>6

LEMMA PreviewTyped ==
    ASSUME TypeOK,
           \/ \E root \in Root : PreviewSnapshot(root) \/ PreviewExpire(root) \/ SavePreview(root)
           \/ \E s \in previewing : PreviewSave(s)
    PROVE  TypeOK'
<1> USE TypeUnchanged DEF TypeOK
<1>1. CASE \E root \in Root : PreviewSnapshot(root)
  <2>1. PICK root \in Root : PreviewSnapshot(root)
    BY <1>1
  <2> DEFINE read == [n \in Chain(graphRevision, root) |-> generation[n]]
             s == [root |-> root, graph |-> graphRevision, material |-> materialRevision,
                   generation |-> read]
  <2>2. Chain(graphRevision, root) \subseteq Node /\ graphRevision \in Revision
    BY ChainAssumption DEF RevisionsOK, Chain
  <2>3. OverChain(read, Nat)
    BY <2>2 DEF OverChain, NodesOK
  <2>4. PreviewOK(s, s.root)
    <3> HIDE DEF read
    <3>1. DOMAIN read = Chain(graphRevision, root)
      BY DEF read
    <3> QED BY <2>2, <2>3, <3>1, BoundsAssumption DEF PreviewOK, RevisionsOK
  <2>5. previewing' = previewing \cup {s} /\ preview' = preview
    BY <2>1 DEF PreviewSnapshot
  <2>6. PreviewsOK'
    <3> HIDE DEF s
    <3>1. s.root \in Root
      BY DEF s
    <3> QED BY <2>4, <2>5, <3>1 DEF PreviewsOK
  <2> QED BY <2>1, <2>6 DEF PreviewSnapshot, wireVars
<1>2. CASE \E root \in Root : PreviewExpire(root)
  <2>1. PreviewsOK'
    BY <1>2 DEF PreviewExpire, PreviewsOK
  <2> QED BY <1>2, <2>1 DEF PreviewExpire
<1>3. CASE \E s \in previewing : PreviewSave(s)
  <2>1. PICK s \in previewing : PreviewSave(s)
    BY <1>3
  <2> DEFINE old == [n \in DOMAIN s.generation |-> deployment[n].topology]
             p == [graph |-> s.graph, material |-> s.material, stamp |-> s.material,
                   generation |-> s.generation, previous |-> old]
  <2>2. s.root \in Root /\ PreviewOK(s, s.root)
    BY DEF PreviewsOK
  <2>3. DOMAIN s.generation \subseteq Node /\ DOMAIN s.generation = Chain(s.graph, s.root)
    BY <2>2 DEF PreviewOK, OverChain
  <2>4. old \in [Chain(s.graph, s.root) -> Topology]
    BY <2>3 DEF NodesOK
  <2>5. PreviewOK(p, s.root)
    BY <2>2 DEF PreviewOK
  <2>6. p.previous = old /\ p.graph = s.graph /\ p.stamp \in Nat
    BY <2>2 DEF PreviewOK
  <2>7. previewing' = previewing \ {s} /\ preview' = [preview EXCEPT ![s.root] = p]
    BY <2>1 DEF PreviewSave
  <2>8. PreviewsOK'
    <3> HIDE DEF p, old
    <3> QED BY <2>2, <2>4, <2>5, <2>6, <2>7 DEF PreviewsOK
  <2> QED BY <2>1, <2>8 DEF PreviewSave
<1>4. CASE \E root \in Root : SavePreview(root)
  <2>1. PICK root \in Root : SavePreview(root)
    BY <1>4
  <2> DEFINE p == [preview[root] EXCEPT !.stamp = materialRevision]
  <2>2. PreviewOK(preview[root], root)
        /\ preview[root].previous \in [Chain(preview[root].graph, root) -> Topology]
    BY <2>1 DEF SavePreview, PreviewsOK
  <2>3. preview' = [preview EXCEPT ![root] = p] /\ previewing' = previewing
    BY <2>1 DEF SavePreview
  <2>4. PreviewOK(p, root) /\ p.previous = preview[root].previous /\ p.graph = preview[root].graph
    BY <2>2 DEF PreviewOK
  <2>5. p.stamp \in Nat
    <3>1. \E old : p = [old EXCEPT !.stamp = materialRevision]
      OBVIOUS
    <3> QED BY BoundsAssumption DEF RevisionsOK
  <2>6. PreviewsOK'
    <3> HIDE DEF p
    <3> QED BY <2>2, <2>3, <2>4, <2>5 DEF PreviewsOK
  <2> QED BY <2>1, <2>6 DEF SavePreview
<1> QED BY <1>1, <1>2, <1>3, <1>4

\* A deployment of a single node: a pair of revisions is a topology.
LEMMA DeployTyped ==
    ASSUME TypeOK, NEW n \in Node, DeployPreview(n)
    PROVE  TypeOK'
<1> USE TypeUnchanged DEF TypeOK
<1>1. <<graphRevision, materialRevision>> \in Topology
  BY BoundsAssumption DEF RevisionsOK, Topology
<1>2. NodesOK'
  BY <1>1 DEF DeployPreview, NodesOK
<1>3. PreviewsOK'
  BY DEF DeployPreview, PreviewsOK
<1> QED BY <1>2, <1>3 DEF DeployPreview

\* A new release: its rows are typed, and they lie along the previewed chain.
LEMMA NewRowTyped ==
    ASSUME TypeOK, NEW root \in Root, preview[root] # NoPreview,
           NEW n \in DOMAIN preview[root].generation
    PROVE  NewReleaseNode(root, n) \in ReleaseNode
<1> DEFINE p == preview[root]
<1>1. PreviewOK(p, root) /\ p.previous \in [Chain(p.graph, root) -> Topology]
  BY DEF TypeOK, PreviewsOK
<1>2. p.graph \in Revision /\ p.material \in Nat /\ n \in Chain(p.graph, root)
      /\ p.generation \in [DOMAIN p.generation -> Nat] /\ DOMAIN p.generation \subseteq Node
  BY <1>1 DEF PreviewOK, OverChain
<1>3. ApplyOrder[p.graph][root][n] \in Nat
  BY <1>2, ChainAssumption DEF Chain
<1>4. <<p.graph, p.material>> \in Topology
  BY <1>2, BoundsAssumption DEF Topology
<1>5. RuntimeVersion(<<p.graph, p.material>>, n) \in Runtime
  BY <1>2, <1>4, RuntimeIsTyped DEF TypeOK
<1>6. p.generation[n] + 1 \in Nat /\ p.previous[n] \in Topology
  BY <1>1, <1>2
<1> QED BY <1>3, <1>4, <1>5, <1>6 DEF NewReleaseNode, ReleaseNode, Phase, NodeStatus

LEMMA CreateTyped ==
    ASSUME TypeOK, NEW root \in Root, NEW r \in ReleaseId, CreateTopologyRelease(root, r)
    PROVE  TypeOK'
<1> USE TypeUnchanged DEF TypeOK
<1> DEFINE chain == DOMAIN preview[root].generation
           rows == [n \in chain |-> NewReleaseNode(root, n)]
<1>1. preview[root] # NoPreview
  BY DEF CreateTopologyRelease, Current
<1>2. PreviewOK(preview[root], root)
  BY <1>1 DEF PreviewsOK
<1>3. chain \subseteq Node /\ preview[root].generation \in [chain -> Nat]
  BY <1>2 DEF PreviewOK, OverChain
<1>4. OverChain(rows, ReleaseNode)
  BY <1>1, <1>3, NewRowTyped DEF OverChain
<1>5. NodesOK'
  BY <1>3 DEF CreateTopologyRelease, NodesOK
<1>6. ReleasesOK'
  <2> HIDE DEF rows
  <2>1. releaseNodes' = [releaseNodes EXCEPT ![r] = rows]
    BY DEF CreateTopologyRelease, rows
  <2>2. releaseStatus' = [releaseStatus EXCEPT ![r] = "preparing"]
    BY DEF CreateTopologyRelease
  <2>3. "preparing" \in ReleaseStatus
    BY DEF ReleaseStatus, Busy, Driving
  <2> QED BY <1>4, <2>1, <2>2, <2>3 DEF ReleasesOK
<1>7. PreviewsOK'
  BY DEF CreateTopologyRelease, PreviewsOK
<1> QED BY <1>5, <1>6, <1>7 DEF CreateTopologyRelease

LEMMA RowIsTyped ==
    ASSUME ReleasesOK, NEW r \in ReleaseId, NEW n \in DOMAIN releaseNodes[r]
    PROVE  /\ releaseNodes[r][n] \in ReleaseNode /\ n \in Node
           /\ RowTopology(releaseNodes[r][n]) \in Topology
<1>1. releaseNodes[r] \in [DOMAIN releaseNodes[r] -> ReleaseNode]
      /\ DOMAIN releaseNodes[r] \subseteq Node
  BY DEF ReleasesOK, OverChain
<1> QED BY <1>1 DEF ReleaseNode, RowTopology

LEMMA DocumentTyped ==
    ASSUME TypeOK, NEW r \in ReleaseId, NEW n \in Node,
           GetAgentDeployment(r, n) \/ ReadDeployment(r, n)
    PROVE  TypeOK'
<1> USE TypeUnchanged DEF TypeOK
<1> DEFINE row == releaseNodes[r][n]
<1>1. n \in DOMAIN releaseNodes[r]
  BY DEF GetAgentDeployment, ReadDeployment, Readable
<1>2. row \in ReleaseNode /\ RowTopology(row) \in Topology
  BY <1>1, RowIsTyped
<1>3. RowVersion(r, n) \in Runtime
  BY <1>2, RuntimeIsTyped DEF RowVersion
<1>4. generation[n] \in Nat /\ row.phase \in Phase /\ row.expectedRuntime \in Runtime
  BY <1>2 DEF NodesOK, ReleaseNode
<1>5. CASE GetAgentDeployment(r, n)
  <2>1. WireOK'
    BY <1>3, <1>4, <1>5 DEF GetAgentDeployment, WireOK, Document
  <2> QED BY <1>5, <2>1 DEF GetAgentDeployment
<1>6. CASE ReadDeployment(r, n)
  <2> DEFINE call == [release |-> r, node |-> n, phase |-> row.phase,
                      generation |-> generation[n], topology |-> RowTopology(row),
                      expected |-> row.expectedRuntime, step |-> "render"]
  <2>1. serving' = serving \cup {call} /\ UNCHANGED documents
    BY <1>6 DEF ReadDeployment
  <2>2. call \in Call
    BY <1>2, <1>4 DEF Call
  <2>3. WireOK'
    <3> HIDE DEF call
    <3> QED BY <2>1, <2>2 DEF WireOK
  <2> QED BY <1>6, <2>3 DEF ReadDeployment
<1> QED BY <1>5, <1>6

LEMMA CallTyped ==
    ASSUME TypeOK, NEW c \in serving, RenderDocument(c) \/ ReportDrift(c) \/ OutdateNode(c)
    PROVE  TypeOK'
<1> USE TypeUnchanged DEF TypeOK
<1>1. /\ c \in Call /\ c.release \in ReleaseId /\ c.node \in Node /\ c.phase \in Phase
      /\ c.generation \in Nat /\ c.topology \in Topology
  BY DEF WireOK, Call
<1>2. /\ [c EXCEPT !.step = "report"] \in Call
      /\ [c EXCEPT !.step = "outdate"] \in Call
  BY <1>1 DEF Call
<1>3. CASE RenderDocument(c)
  <2>1. RuntimeVersion(c.topology, c.node) \in Runtime
    BY <1>1, RuntimeIsTyped
  <2>2. WireOK'
    BY <1>1, <1>2, <1>3, <2>1 DEF RenderDocument, WireOK, Document
  <2> QED BY <1>3, <2>2 DEF RenderDocument
<1>4. CASE ReportDrift(c)
  <2>1. ReleasesOK'
    BY <1>1, <1>4 DEF ReportDrift, ReleasesOK, ReleaseStatus, Busy
  <2>2. WireOK'
    BY <1>2, <1>4 DEF ReportDrift, WireOK
  <2> QED BY <1>4, <2>1, <2>2 DEF ReportDrift
<1>5. CASE OutdateNode(c)
  <2>1. NodesOK'
    BY <1>1, <1>5 DEF OutdateNode, NodesOK
  <2>2. WireOK'
    BY <1>5 DEF OutdateNode, WireOK
  <2> QED BY <1>5, <2>1, <2>2 DEF OutdateNode
<1> QED BY <1>3, <1>4, <1>5

\* activateNext and beginRollback, whatever rows the transaction starts from.
LEMMA ActivateNextTyped ==
    ASSUME NodesOK, ReleasesOK, NEW r \in ReleaseId, NEW rows, OverChain(rows, ReleaseNode),
           ActivateNextApply(r, rows) \/ ActivateNextRollback(r, rows),
           credential' = credential
    PROVE  NodesOK' /\ ReleasesOK'
<1>1. /\ "succeeded" \in ReleaseStatus /\ "rolled_back" \in ReleaseStatus
      /\ "applying" \in ReleaseStatus /\ "rolling_back" \in ReleaseStatus
  BY DEF ReleaseStatus, Busy, Driving
<1>2. CASE Finish(r, rows, "succeeded") \/ Finish(r, rows, "rolled_back")
  BY <1>1, <1>2, FinishIsTyped
<1>3. ASSUME NEW n \in DOMAIN rows,
             Activate(r, rows, n, "apply", rows[n].candidate, rows[n].expectedGeneration),
             releaseStatus' = [releaseStatus EXCEPT ![r] = "applying"]
      PROVE  NodesOK' /\ ReleasesOK'
  <2>1. releaseStatus' \in [ReleaseId -> ReleaseStatus]
    BY <1>1, <1>3 DEF ReleasesOK
  <2>2. rows[n].candidate \in Topology /\ rows[n].expectedGeneration \in Nat
    BY DEF OverChain, ReleaseNode
  <2>3. "apply" \in Phase
    BY DEF Phase
  <2> QED BY <1>3, <2>1, <2>2, <2>3, ActivateIsTyped
<1>4. ASSUME NEW n \in DOMAIN rows,
             Activate(r, rows, n, "rollback", rows[n].previous, rows[n].expectedGeneration + 1),
             releaseStatus' = [releaseStatus EXCEPT ![r] = "rolling_back"]
      PROVE  NodesOK' /\ ReleasesOK'
  <2>1. releaseStatus' \in [ReleaseId -> ReleaseStatus]
    BY <1>1, <1>4 DEF ReleasesOK
  <2>2. rows[n].previous \in Topology /\ rows[n].expectedGeneration + 1 \in Nat
    BY DEF OverChain, ReleaseNode
  <2>3. "rollback" \in Phase
    BY DEF Phase
  <2> QED BY <1>4, <2>1, <2>2, <2>3, ActivateIsTyped
<1> QED BY <1>2, <1>3, <1>4 DEF ActivateNextApply, ActivateNextRollback, WithStatus

\* The rows after the UPDATE with which beginRollback starts.
Queued(rows) ==
    [n \in DOMAIN rows |->
        IF rows[n].phase = "apply" /\ rows[n].status \in {"active", "applied", "failed"}
        THEN [rows[n] EXCEPT !.status = "rollback_pending"] ELSE rows[n]]

LEMMA QueuedTyped ==
    ASSUME NEW rows, OverChain(rows, ReleaseNode)
    PROVE  OverChain(Queued(rows), ReleaseNode) /\ DOMAIN Queued(rows) = DOMAIN rows
<1>1. ASSUME NEW n \in DOMAIN rows
      PROVE  /\ rows[n] \in ReleaseNode
             /\ [rows[n] EXCEPT !.status = "rollback_pending"] \in ReleaseNode
  BY DEF OverChain, ReleaseNode, NodeStatus
<1> QED BY <1>1 DEF Queued, OverChain

LEMMA RollbackTyped ==
    ASSUME TypeOK, NEW r \in ReleaseId, RollbackRelease(r)
    PROVE  TypeOK'
<1>1. OverChain(releaseNodes[r], ReleaseNode)
  BY DEF TypeOK, ReleasesOK
<1>2. OverChain(Queued(releaseNodes[r]), ReleaseNode)
  BY <1>1, QueuedTyped
<1>3. ActivateNextRollback(r, Queued(releaseNodes[r])) /\ credential' = credential
  BY DEF RollbackRelease, BeginRollback, Queued
<1>4. NodesOK' /\ ReleasesOK'
  BY <1>2, <1>3, ActivateNextTyped DEF TypeOK
<1> QED BY <1>4, TypeUnchanged DEF TypeOK, RollbackRelease

LEMMA RecoverTyped ==
    ASSUME TypeOK, NEW overdue \in SUBSET Overdue, RecoverReleases(overdue)
    PROVE  TypeOK'
<1>1. ReleasesOK'
  BY DEF TypeOK, RecoverReleases, ReleasesOK, ReleaseStatus, Busy
<1> QED BY <1>1, TypeUnchanged DEF TypeOK, RecoverReleases

LEMMA AcknowledgeTyped ==
    ASSUME TypeOK, DocumentsKnown, NEW d \in documents, Acknowledge(d)
    PROVE  TypeOK'
<1> USE TypeUnchanged DEF TypeOK
<1>1. d \in Document /\ d.release \in ReleaseId /\ d.node \in DOMAIN releaseNodes[d.release]
  BY DEF WireOK, Document, DocumentsKnown
<1>2. /\ "prepared" \in NodeStatus /\ "applied" \in NodeStatus
      /\ "rolled_back" \in NodeStatus /\ "failed" \in NodeStatus
      /\ "failed" \in ReleaseStatus /\ "manual_required" \in ReleaseStatus
  BY DEF NodeStatus, ReleaseStatus, Busy
<1>3. ASSUME NEW status \in NodeStatus
      PROVE  OverChain(Acknowledged(d, status), ReleaseNode)
  BY <1>1, <1>3, AcknowledgedIsTyped
<1>4. ASSUME ackUnchanged, NodesOK', ReleasesOK' PROVE TypeOK'
  BY <1>4 DEF ackUnchanged
<1>5. ASSUME NEW status \in NodeStatus, ackUnchanged,
             \/ ActivateNextApply(d.release, Acknowledged(d, status))
             \/ ActivateNextRollback(d.release, Acknowledged(d, status))
      PROVE  TypeOK'
  <2>1. NodesOK' /\ ReleasesOK'
    BY <1>1, <1>3, <1>5, ActivateNextTyped DEF ackUnchanged
  <2> QED BY <1>4, <1>5, <2>1
<1>6. ASSUME NEW status \in NodeStatus, NEW terminal \in ReleaseStatus, ackUnchanged,
             Finish(d.release, Acknowledged(d, status), terminal)
      PROVE  TypeOK'
  <2>1. NodesOK' /\ ReleasesOK'
    BY <1>1, <1>3, <1>6, FinishIsTyped DEF ackUnchanged
  <2> QED BY <1>4, <1>6, <2>1
<1>7. CASE AckPrepared(d)
  <2>1. CASE ActivateNextApply(d.release, Acknowledged(d, "prepared"))
    BY <1>2, <1>5, <1>7, <2>1 DEF AckPrepared
  <2>2. CASE /\ releaseNodes' = [releaseNodes EXCEPT ![d.release] = Acknowledged(d, "prepared")]
             /\ UNCHANGED <<releaseStatus, deployment, generation>>
    <3>1. ReleasesOK'
      BY <1>1, <1>2, <1>3, <2>2 DEF ReleasesOK
    <3>2. NodesOK'
      BY <1>7, <2>2 DEF AckPrepared, ackUnchanged, NodesOK
    <3> QED BY <1>4, <1>7, <3>1, <3>2 DEF AckPrepared
  <2> QED BY <1>7, <2>1, <2>2 DEF AckPrepared
<1>8. CASE AckApplied(d)
  BY <1>2, <1>5, <1>8 DEF AckApplied
<1>9. CASE AckRolledBack(d)
  BY <1>2, <1>5, <1>9 DEF AckRolledBack
<1>10. CASE AckPrepareFailed(d)
  BY <1>2, <1>6, <1>10 DEF AckPrepareFailed
<1>11. CASE AckRollbackFailed(d)
  BY <1>2, <1>6, <1>11 DEF AckRollbackFailed
<1>12. CASE AckApplyFailed(d)
  <2>1. OverChain(Queued(Acknowledged(d, "failed")), ReleaseNode)
    BY <1>2, <1>3, QueuedTyped
  <2>2. ActivateNextRollback(d.release, Queued(Acknowledged(d, "failed"))) /\ ackUnchanged
    BY <1>12 DEF AckApplyFailed, BeginRollback, Queued
  <2>3. NodesOK' /\ ReleasesOK'
    BY <1>1, <2>1, <2>2, ActivateNextTyped DEF ackUnchanged
  <2> QED BY <1>4, <2>2, <2>3
<1>13. CASE \E status \in {Done(d.phase), "failed"} : AckDrifted(d, status)
  <2>1. PICK status : AckDrifted(d, status)
    BY <1>13
  <2>2. NodesOK'
    BY <2>1 DEF AckDrifted, ackUnchanged, NodesOK
  <2>3. ReleasesOK'
    BY <1>1, <1>2, <2>1 DEF AckDrifted, ReleasesOK
  <2> QED BY <1>4, <2>1, <2>2, <2>3 DEF AckDrifted
<1> QED
  BY <1>7, <1>8, <1>9, <1>10, <1>11, <1>12, <1>13 DEF Acknowledge

LEMMA TypeNext ==
    ASSUME TypeOK, DocumentsKnown, Next
    PROVE  TypeOK'
<1>1. CASE \/ \E changed \in SUBSET Node : SaveGraph(changed)
           \/ \E n \in Node : UpdateNode(n) \/ UpdateInbound(n) \/ CredentialDrift(n)
           \/ ChangeInbounds
           \/ InvalidateTopologyAuthorization
  BY <1>1, SurroundingsTyped
<1>2. CASE \/ \E root \in Root : PreviewSnapshot(root) \/ PreviewExpire(root) \/ SavePreview(root)
           \/ \E s \in previewing : PreviewSave(s)
  BY <1>2, PreviewTyped
<1>3. CASE \E root \in Root, r \in ReleaseId : CreateTopologyRelease(root, r)
  BY <1>3, CreateTyped
<1>4. CASE \E r \in ReleaseId : RollbackRelease(r)
  BY <1>4, RollbackTyped
<1>5. CASE \E r \in ReleaseId, n \in Node : GetAgentDeployment(r, n) \/ ReadDeployment(r, n)
  BY <1>5, DocumentTyped
<1>6. CASE \E c \in serving : RenderDocument(c) \/ ReportDrift(c) \/ OutdateNode(c)
  BY <1>6, CallTyped
<1>7. CASE \E d \in documents : Acknowledge(d)
  BY <1>7, AcknowledgeTyped
<1>8. CASE Recover
  BY <1>8, RecoverTyped DEF Recover
<1>9. CASE \E n \in Node : DeployPreview(n)
  BY <1>9, DeployTyped
<1> QED
  BY <1>1, <1>2, <1>3, <1>4, <1>5, <1>6, <1>7, <1>8, <1>9, ChainAssumption
     DEF Next, Administer, Serve

-----------------------------------------------------------------------------
(* The shape of the rows *)

\* A transaction writes one release: only that one has to be looked at.
LEMMA OneRelease ==
    ASSUME ReleasesOK, Shaped, NEW r \in ReleaseId, NEW status, NEW rows,
           releaseStatus' = [releaseStatus EXCEPT ![r] = status],
           releaseNodes' = [releaseNodes EXCEPT ![r] = rows],
           Shape(status, rows)
    PROVE  Shaped'
<1>1. /\ releaseStatus'[r] = status /\ releaseNodes'[r] = rows
      /\ \A q \in ReleaseId : q # r =>
            releaseStatus'[q] = releaseStatus[q] /\ releaseNodes'[q] = releaseNodes[q]
  BY DEF ReleasesOK
<1> SUFFICES ASSUME NEW q \in ReleaseId PROVE Shape(releaseStatus'[q], releaseNodes'[q])
  BY DEF Shaped
<1>2. CASE q = r
  BY <1>1, <1>2
<1>3. CASE q # r
  BY <1>1, <1>3 DEF Shaped
<1> QED BY <1>2, <1>3

\* What activating n changes in the rows.
ActivatedAt(rows, new, n, phase) ==
    /\ DOMAIN new = DOMAIN rows
    /\ At(new[n], phase, "active") /\ new[n].order = rows[n].order
    /\ \A m \in DOMAIN rows : m # n => new[m] = rows[m]

LEMMA ActivateRows ==
    ASSUME ReleasesOK, NEW r \in ReleaseId, NEW rows, OverChain(rows, ReleaseNode),
           NEW n \in DOMAIN rows, NEW phase, NEW topology, NEW g,
           Activate(r, rows, n, phase, topology, g)
    PROVE  \E new : /\ releaseNodes' = [releaseNodes EXCEPT ![r] = new]
                    /\ ActivatedAt(rows, new, n, phase)
<1> DEFINE row == [rows[n] EXCEPT !.phase = phase, !.status = "active",
                                  !.expectedGeneration = g,
                                  !.expectedRuntime = RuntimeVersion(topology, n)]
           new == [rows EXCEPT ![n] = row]
<1>1. rows[n] \in ReleaseNode /\ rows = [m \in DOMAIN rows |-> rows[m]]
  BY DEF OverChain
<1>2. At(row, phase, "active") /\ row.order = rows[n].order
  BY <1>1 DEF ReleaseNode, At
<1>3. releaseNodes' = [releaseNodes EXCEPT ![r] = new]
  BY <1>1 DEF Activate
<1>4. ActivatedAt(rows, new, n, phase)
  <2> HIDE DEF row
  <2> QED BY <1>1, <1>2 DEF ActivatedAt
<1> QED BY <1>3, <1>4

LEMMA OrdersAreNatural ==
    ASSUME NEW rows, OverChain(rows, ReleaseNode), NEW n \in DOMAIN rows
    PROVE  rows[n].order \in Nat
BY DEF OverChain, ReleaseNode

\* The rows between two activations of a release that applies.
Steady(rows) ==
    \A n \in DOMAIN rows : At(rows[n], "apply", "applied") \/ At(rows[n], "prepare", "prepared")

LEMMA ApplyShape ==
    ASSUME ReleasesOK, Shaped, NEW r \in ReleaseId, NEW rows, OverChain(rows, ReleaseNode),
           Gapless(rows), Steady(rows), ActivateNextApply(r, rows)
    PROVE  Shaped'
<1>1. CASE WithStatus(rows, "prepared") = {} /\ Finish(r, rows, "succeeded")
  <2>1. \A n \in DOMAIN rows : At(rows[n], "apply", "applied")
    BY <1>1 DEF Steady, At, WithStatus
  <2>2. Shape("succeeded", rows)
    BY <2>1 DEF Shape, Fits, RowOK, At
  <2> QED BY <1>1, <2>2, OneRelease DEF Finish
<1>2. ASSUME NEW n \in WithStatus(rows, "prepared"), NEW topology, NEW g,
             \A m \in WithStatus(rows, "prepared") : rows[n].order <= rows[m].order,
             Activate(r, rows, n, "apply", topology, g),
             releaseStatus' = [releaseStatus EXCEPT ![r] = "applying"]
      PROVE  Shaped'
  <2>1. n \in DOMAIN rows
    BY DEF WithStatus
  <2>2. PICK new : /\ releaseNodes' = [releaseNodes EXCEPT ![r] = new]
                   /\ ActivatedAt(rows, new, n, "apply")
    BY <1>2, <2>1, ActivateRows
  <2>3. \A m \in DOMAIN rows : rows[m].order \in Nat
    BY OrdersAreNatural
  <2>4. \A m \in DOMAIN rows : At(rows[m], "prepare", "prepared") => rows[n].order <= rows[m].order
    BY <1>2 DEF WithStatus, At
  <2>5. \A m \in DOMAIN rows : rows[m].order < rows[n].order => At(rows[m], "apply", "applied")
    BY <2>1, <2>3, <2>4 DEF Steady
  <2>6. At(rows[n], "prepare", "prepared")
    BY <1>2, <2>1 DEF Steady, WithStatus, At
  <2>7. \A m \in DOMAIN rows : rows[n].order < rows[m].order => At(rows[m], "prepare", "prepared")
    BY <2>1, <2>6 DEF Gapless, Steady, At
  <2>8. WorkingAt(new, n)
    BY <2>1, <2>2, <2>3, <2>5, <2>7 DEF ActivatedAt, WorkingAt
  <2>9. Gapless(new)
    BY <2>1, <2>2, <2>3, <2>5, <2>7 DEF ActivatedAt, Gapless, At
  <2>10. \A m \in DOMAIN new : RowOK(new[m])
    BY <2>2 DEF ActivatedAt, Steady, RowOK, At
  <2>11. Shape("applying", new)
    BY <2>1, <2>2, <2>8, <2>9, <2>10 DEF Shape, Fits, ActivatedAt
  <2> QED BY <1>2, <2>2, <2>11, OneRelease
<1> QED BY <1>1, <1>2 DEF ActivateNextApply

\* The rows between two activations of a release that is taken back.
Withdrawing(rows) ==
    \A n \in DOMAIN rows :
        RowOK(rows[n]) /\ (rows[n].phase = "apply" => rows[n].status = "rollback_pending")

LEMMA RollbackShape ==
    ASSUME ReleasesOK, Shaped, NEW r \in ReleaseId, NEW rows, OverChain(rows, ReleaseNode),
           Gapless(rows), Withdrawing(rows), ActivateNextRollback(r, rows)
    PROVE  Shaped'
<1>1. CASE Finish(r, rows, "rolled_back")
  <2>1. Shape("rolled_back", rows)
    BY DEF Shape, Fits, Withdrawing
  <2> QED BY <1>1, <2>1, OneRelease DEF Finish
<1>2. ASSUME NEW n \in WithStatus(rows, "rollback_pending"), NEW topology, NEW g,
             \A m \in WithStatus(rows, "rollback_pending") : rows[n].order >= rows[m].order,
             Activate(r, rows, n, "rollback", topology, g),
             releaseStatus' = [releaseStatus EXCEPT ![r] = "rolling_back"]
      PROVE  Shaped'
  <2>1. n \in DOMAIN rows
    BY DEF WithStatus
  <2>2. PICK new : /\ releaseNodes' = [releaseNodes EXCEPT ![r] = new]
                   /\ ActivatedAt(rows, new, n, "rollback")
    BY <1>2, <2>1, ActivateRows
  <2>3. \A m \in DOMAIN rows : rows[m].order \in Nat
    BY OrdersAreNatural
  <2>4. rows[n].phase = "apply"
    BY <1>2, <2>1 DEF Withdrawing, RowOK, WithStatus
  <2>5. \A m \in DOMAIN rows : rows[n].order < rows[m].order => rows[m].phase # "apply"
    BY <1>2, <2>1, <2>3 DEF Withdrawing, WithStatus
  <2>6. \A m \in DOMAIN rows : rows[m].order < rows[n].order => rows[m].phase = "apply"
    BY <2>1, <2>3, <2>4 DEF Gapless, Withdrawing, RowOK
  <2>7. Gapless(new)
    BY <2>1, <2>2, <2>3, <2>5, <2>6 DEF ActivatedAt, Gapless, At
  <2>8. \A m \in DOMAIN new : RowOK(new[m])
    BY <2>2 DEF ActivatedAt, Withdrawing, RowOK, At
  <2>9. Shape("rolling_back", new)
    BY <2>1, <2>2, <2>7, <2>8 DEF Shape, Fits, ActivatedAt, Withdrawing, At
  <2> QED BY <1>2, <2>2, <2>9, OneRelease
<1> QED BY <1>1, <1>2 DEF ActivateNextRollback

\* beginRollback accepts the rows of every release, also with the failure that
\* an acknowledgement has just recorded.
LEMMA QueuedShape ==
    ASSUME NEW rows, OverChain(rows, ReleaseNode), Gapless(rows),
           \A n \in DOMAIN rows : RowOK(rows[n]) \/ At(rows[n], "apply", "failed")
    PROVE  Gapless(Queued(rows)) /\ Withdrawing(Queued(rows))
<1> DEFINE new == Queued(rows)
<1>1. ASSUME NEW n \in DOMAIN rows
      PROVE  /\ new[n].phase = rows[n].phase /\ new[n].order = rows[n].order
             /\ \/ rows[n].phase # "apply" /\ new[n] = rows[n]
                \/ rows[n].phase = "apply" /\ new[n].status = "rollback_pending"
  <2>1. rows[n] \in ReleaseNode
    BY DEF OverChain
  <2> QED BY <2>1 DEF Queued, ReleaseNode, RowOK, At
<1>2. DOMAIN new = DOMAIN rows
  BY DEF Queued
<1> HIDE DEF new
<1>3. Gapless(new)
  BY <1>1, <1>2 DEF Gapless
<1>4. Withdrawing(new)
  BY <1>1, <1>2 DEF Withdrawing, RowOK, At
<1> QED BY <1>3, <1>4 DEF new

\* What an acknowledgement changes in the rows.
LEMMA AcknowledgedRows ==
    ASSUME ReleasesOK, NEW d \in Document, NEW status \in NodeStatus,
           d.node \in DOMAIN releaseNodes[d.release]
    PROVE  LET rows == releaseNodes[d.release]
               new == Acknowledged(d, status)
           IN /\ DOMAIN new = DOMAIN rows
              /\ new[d.node].status = status
              /\ \A m \in DOMAIN rows :
                    /\ new[m].phase = rows[m].phase /\ new[m].order = rows[m].order
                    /\ m # d.node => new[m] = rows[m]
<1> DEFINE rows == releaseNodes[d.release]
           row == [rows[d.node] EXCEPT !.status = status]
<1>1. rows = [m \in DOMAIN rows |-> rows[m]] /\ rows[d.node] \in ReleaseNode
  BY DEF ReleasesOK, OverChain, Document
<1>2. row.status = status /\ row.phase = rows[d.node].phase /\ row.order = rows[d.node].order
  BY <1>1 DEF ReleaseNode
<1>3. Acknowledged(d, status) = [rows EXCEPT ![d.node] = row]
  BY <1>1 DEF Acknowledged
<1> QED
  <2> HIDE DEF row, rows
  <2>1. d.node \in DOMAIN rows
    BY DEF rows
  <2> QED BY <1>1, <1>2, <1>3, <2>1 DEF rows

\* Where an accepted acknowledgement finds the release: a preparation that counts
\* comes before anything is applied, an application from the node the release
\* works at, a rollback while the release is taken back.
LEMMA AcceptedShape ==
    ASSUME TypeOK, Shaped, DocumentsKnown, NEW d \in documents, NEW status, Accepted(d, status)
    PROVE  LET rows == releaseNodes[d.release]
               release == releaseStatus[d.release]
           IN /\ rows[d.node].phase = d.phase /\ rows[d.node].status # status
              /\ release \in {"preparing", "applying", "rolling_back"}
              /\ d.phase = "prepare" /\ status = "prepared" => release # "applying"
              /\ d.phase = "apply" => release = "applying" /\ WorkingAt(rows, d.node)
              /\ d.phase = "rollback" => release = "rolling_back"
<1> DEFINE rows == releaseNodes[d.release]
           release == releaseStatus[d.release]
<1>1. d.release \in ReleaseId /\ d.node \in DOMAIN rows
  BY DEF TypeOK, WireOK, Document, DocumentsKnown
<1>2. Gapless(rows) /\ (\A n \in DOMAIN rows : RowOK(rows[n])) /\ Fits(release, rows)
  BY <1>1 DEF Shaped, Shape
<1>3. /\ rows[d.node].phase = d.phase /\ rows[d.node].status # status
      /\ release \in {"preparing", "applying", "rolling_back"}
      /\ d.phase # "prepare" => rows[d.node].status = "active"
  BY DEF Accepted, Acceptable
<1>4. \A m \in DOMAIN rows : rows[m].order \in Nat
  BY <1>1, OrdersAreNatural DEF TypeOK, ReleasesOK
<1> HIDE DEF rows, release
<1>5. ASSUME release = "applying"
      PROVE  \/ WorkingAt(rows, d.node)
             \/ At(rows[d.node], "apply", "applied") \/ At(rows[d.node], "prepare", "prepared")
  <2>1. PICK n \in DOMAIN rows : WorkingAt(rows, n)
    BY <1>2, <1>5 DEF Fits
  <2> QED BY <1>1, <1>2, <1>4, <2>1 DEF WorkingAt, Gapless
<1>6. d.phase = "prepare" /\ status = "prepared" => release # "applying"
  BY <1>3, <1>5 DEF At, WorkingAt
<1>7. ASSUME d.phase = "apply" PROVE release = "applying" /\ WorkingAt(rows, d.node)
  <2>1. release = "applying"
    BY <1>1, <1>2, <1>3, <1>7 DEF Fits
  <2> QED BY <1>3, <1>5, <1>7, <2>1 DEF At
<1>8. ASSUME d.phase = "rollback" PROVE release = "rolling_back"
  <2>1. release # "preparing"
    BY <1>1, <1>2, <1>3, <1>8 DEF Fits
  <2>2. release # "applying"
    BY <1>3, <1>5, <1>8 DEF At, WorkingAt
  <2> QED BY <1>3, <2>1, <2>2
<1> QED BY <1>3, <1>6, <1>7, <1>8 DEF rows, release

LEMMA AcknowledgeShape ==
    ASSUME TypeOK, Shaped, DocumentsKnown, NEW d \in documents, Acknowledge(d)
    PROVE  Shaped'
<1> DEFINE r == d.release
           rows == releaseNodes[r]
           new(status) == Acknowledged(d, status)
<1>1. /\ ReleasesOK /\ d \in Document /\ r \in ReleaseId
      /\ d.node \in DOMAIN rows /\ d.phase \in Phase
  BY DEF TypeOK, WireOK, Document, DocumentsKnown
<1>2. Shape(releaseStatus[r], rows)
  BY <1>1 DEF Shaped
<1>3. /\ "prepared" \in NodeStatus /\ "applied" \in NodeStatus
      /\ "rolled_back" \in NodeStatus /\ "failed" \in NodeStatus
  BY DEF NodeStatus
<1>4. ASSUME NEW status \in NodeStatus
      PROVE  /\ OverChain(new(status), ReleaseNode) /\ DOMAIN new(status) = DOMAIN rows
             /\ new(status)[d.node].status = status
             /\ \A m \in DOMAIN rows :
                   /\ new(status)[m].phase = rows[m].phase /\ new(status)[m].order = rows[m].order
                   /\ m # d.node => new(status)[m] = rows[m]
  BY <1>1, AcknowledgedIsTyped, AcknowledgedRows
<1>5. ASSUME NEW status \in NodeStatus PROVE Gapless(new(status))
  <2> HIDE DEF rows, new
  <2> QED BY <1>2, <1>4 DEF Shape, Gapless
<1>6. ASSUME NEW status, Accepted(d, status)
      PROVE  /\ rows[d.node].phase = d.phase
             /\ releaseStatus[r] \in {"preparing", "applying", "rolling_back"}
             /\ d.phase # "prepare" => rows[d.node].status = "active"
             /\ rows[d.node].status # status
  BY <1>6 DEF Accepted, Acceptable
<1>7. Gapless(rows) /\ (\A n \in DOMAIN rows : RowOK(rows[n])) /\ Fits(releaseStatus[r], rows)
  BY <1>2 DEF Shape
<1>8. ASSUME NEW status, Accepted(d, status), d.phase = "apply"
      PROVE  releaseStatus[r] = "applying" /\ WorkingAt(rows, d.node)
  BY <1>8, AcceptedShape
<1>9. CASE AckPrepared(d)
  <2>1. Accepted(d, "prepared") /\ d.phase = "prepare"
    BY <1>9 DEF AckPrepared
  <2>2. rows[d.node].phase = "prepare" /\ rows[d.node].status # "prepared"
        /\ releaseStatus[r] \in {"preparing", "applying", "rolling_back"}
    BY <1>6, <2>1
  <2>3. releaseStatus[r] # "applying"
    BY <2>1, AcceptedShape
  <2>4. CASE /\ WithStatus(new("prepared"), "prepared") = DOMAIN new("prepared")
             /\ ActivateNextApply(r, new("prepared"))
    <3>1. ASSUME NEW n \in DOMAIN new("prepared") PROVE At(new("prepared")[n], "prepare", "prepared")
      <4>1. n \in DOMAIN rows /\ new("prepared")[n].status = "prepared"
            /\ new("prepared")[n].phase = rows[n].phase
        BY <1>3, <1>4, <2>4, <3>1 DEF WithStatus
      <4>2. n # d.node => RowOK(rows[n]) /\ rows[n].status = "prepared"
        BY <1>3, <1>4, <1>7, <4>1
      <4> QED BY <2>2, <4>1, <4>2 DEF At, RowOK
    <3>2. Steady(new("prepared"))
      BY <3>1 DEF Steady
    <3>3. ActivateNextApply(r, new("prepared")) /\ Gapless(new("prepared"))
          /\ OverChain(new("prepared"), ReleaseNode)
      BY <1>3, <1>4, <1>5, <2>4
    <3> QED BY <1>1, <3>2, <3>3, ApplyShape
  <2>5. CASE /\ releaseNodes' = [releaseNodes EXCEPT ![r] = new("prepared")]
             /\ UNCHANGED releaseStatus
    <3>1. releaseStatus' = [releaseStatus EXCEPT ![r] = releaseStatus[r]]
      BY <1>1, <2>5 DEF ReleasesOK
    <3>2. /\ DOMAIN new("prepared") = DOMAIN rows
          /\ new("prepared")[d.node].status = "prepared"
          /\ Gapless(new("prepared"))
          /\ \A m \in DOMAIN rows :
                /\ new("prepared")[m].phase = rows[m].phase
                /\ m # d.node => new("prepared")[m] = rows[m]
      BY <1>3, <1>4, <1>5
    <3>3. Shape(releaseStatus[r], new("prepared"))
      <4> HIDE DEF new, rows, r
      <4>1. \A n \in DOMAIN new("prepared") : RowOK(new("prepared")[n])
        BY <1>7, <2>2, <3>2 DEF RowOK
      <4>2. Fits(releaseStatus[r], new("prepared"))
        BY <1>7, <2>2, <2>3, <3>2 DEF Fits
      <4> QED BY <3>2, <4>1, <4>2 DEF Shape
    <3> QED BY <1>1, <2>5, <3>1, <3>3, OneRelease
  <2> QED BY <1>9, <2>4, <2>5 DEF AckPrepared
<1>10. CASE AckApplied(d)
  <2>1. Accepted(d, "applied") /\ d.phase = "apply" /\ ActivateNextApply(r, new("applied"))
    BY <1>10 DEF AckApplied
  <2>2. WorkingAt(rows, d.node)
    BY <1>8, <2>1
  <2>3. Steady(new("applied"))
    <3>1. ASSUME NEW n \in DOMAIN new("applied")
          PROVE  At(new("applied")[n], "apply", "applied") \/ At(new("applied")[n], "prepare", "prepared")
      <4>1. n \in DOMAIN rows /\ new("applied")[n].phase = rows[n].phase
            /\ new("applied")[d.node].status = "applied"
            /\ (n # d.node => new("applied")[n] = rows[n])
        BY <1>3, <1>4, <3>1
      <4>2. n # d.node => rows[n].order < rows[d.node].order \/ rows[d.node].order < rows[n].order
        <5>1. \A m \in DOMAIN rows : rows[m].order \in Nat
          BY <1>1, OrdersAreNatural DEF ReleasesOK
        <5> HIDE DEF rows
        <5> QED BY <1>1, <1>7, <4>1, <5>1 DEF Gapless, rows
      <4> HIDE DEF rows, new
      <4> QED BY <2>2, <4>1, <4>2 DEF At, WorkingAt
    <3> QED BY <3>1 DEF Steady
  <2>4. OverChain(new("applied"), ReleaseNode) /\ Gapless(new("applied"))
    BY <1>3, <1>4, <1>5
  <2> QED BY <1>1, <2>1, <2>3, <2>4, ApplyShape
<1>11. CASE AckRolledBack(d)
  <2>1. Accepted(d, "rolled_back") /\ d.phase = "rollback"
        /\ ActivateNextRollback(r, new("rolled_back"))
    BY <1>11 DEF AckRolledBack
  <2>2. rows[d.node].phase = "rollback" /\ releaseStatus[r] \in {"preparing", "applying", "rolling_back"}
    BY <1>6, <2>1
  <2>3. releaseStatus[r] = "rolling_back"
    BY <2>1, AcceptedShape
  <2>4. \A n \in DOMAIN rows : rows[n].phase = "apply" => rows[n].status = "rollback_pending"
    BY <1>7, <2>3 DEF Fits
  <2>5. Withdrawing(new("rolled_back"))
    <3>1. /\ DOMAIN new("rolled_back") = DOMAIN rows
          /\ new("rolled_back")[d.node].status = "rolled_back"
          /\ \A m \in DOMAIN rows :
                /\ new("rolled_back")[m].phase = rows[m].phase
                /\ m # d.node => new("rolled_back")[m] = rows[m]
      BY <1>3, <1>4
    <3> HIDE DEF rows, new
    <3> QED BY <1>7, <2>2, <2>4, <3>1 DEF Withdrawing, RowOK
  <2>6. OverChain(new("rolled_back"), ReleaseNode) /\ Gapless(new("rolled_back"))
    BY <1>3, <1>4, <1>5
  <2> QED BY <1>1, <2>1, <2>5, <2>6, RollbackShape
<1>12. /\ DOMAIN new("failed") = DOMAIN rows /\ new("failed")[d.node].status = "failed"
       /\ OverChain(new("failed"), ReleaseNode) /\ Gapless(new("failed"))
       /\ \A m \in DOMAIN rows :
             /\ new("failed")[m].phase = rows[m].phase
             /\ m # d.node => new("failed")[m] = rows[m]
  BY <1>3, <1>4, <1>5
<1>13. CASE AckPrepareFailed(d) \/ AckRollbackFailed(d)
  <2>1. PICK terminal \in {"failed", "manual_required"} :
           Accepted(d, "failed") /\ d.phase # "apply" /\ Finish(r, new("failed"), terminal)
    BY <1>13 DEF AckPrepareFailed, AckRollbackFailed
  <2>2. rows[d.node].phase # "apply"
    BY <1>6, <2>1
  <2>3. Shape(terminal, new("failed"))
    <3> HIDE DEF rows, new
    <3>1. \A n \in DOMAIN new("failed") : RowOK(new("failed")[n])
      BY <1>7, <1>12, <2>2 DEF RowOK
    <3> QED BY <1>12, <3>1 DEF Shape, Fits
  <2> QED BY <1>1, <2>1, <2>3, OneRelease DEF Finish
<1>14. CASE AckApplyFailed(d)
  <2>1. Accepted(d, "failed") /\ d.phase = "apply"
        /\ ActivateNextRollback(r, Queued(new("failed")))
    BY <1>14 DEF AckApplyFailed, BeginRollback, Queued
  <2>2. rows[d.node].phase = "apply"
    BY <1>6, <2>1
  <2>3. ASSUME NEW n \in DOMAIN new("failed")
        PROVE  RowOK(new("failed")[n]) \/ At(new("failed")[n], "apply", "failed")
    <3> HIDE DEF rows, new
    <3> QED BY <1>7, <1>12, <2>2, <2>3 DEF At
  <2>4. Gapless(Queued(new("failed"))) /\ Withdrawing(Queued(new("failed")))
        /\ OverChain(Queued(new("failed")), ReleaseNode)
    BY <1>12, <2>3, QueuedShape, QueuedTyped
  <2> QED BY <1>1, <2>1, <2>4, RollbackShape
<1>15. CASE \E status \in {Done(d.phase), "failed"} : AckDrifted(d, status)
  <2>1. /\ releaseStatus' = [releaseStatus EXCEPT ![r] = "manual_required"]
        /\ releaseNodes' = [releaseNodes EXCEPT ![r] = rows]
    BY <1>1, <1>15 DEF AckDrifted, ReleasesOK
  <2>2. Shape("manual_required", rows)
    BY <1>2 DEF Shape, Fits
  <2> QED BY <1>1, <2>1, <2>2, OneRelease
<1> QED
  BY <1>9, <1>10, <1>11, <1>13, <1>14, <1>15 DEF Acknowledge

\* A status that only stops a release fits whatever its rows are.
LEMMA StoppedShape ==
    ASSUME NEW status, NEW rows, Shape(status, rows), NEW stop \in {"failed", "manual_required"}
    PROVE  Shape(stop, rows)
BY DEF Shape, Fits

LEMMA ShapeNext ==
    ASSUME TypeOK, Shaped, DocumentsKnown, Next
    PROVE  Shaped'
<1>1. CASE UNCHANGED releaseVars
  BY <1>1 DEF Shaped, releaseVars
<1>2. ASSUME UNCHANGED releaseNodes,
             \A r \in ReleaseId : \/ releaseStatus'[r] = releaseStatus[r]
                                  \/ releaseStatus'[r] \in {"failed", "manual_required"}
      PROVE  Shaped'
  BY <1>2, StoppedShape DEF Shaped
<1>3. CASE InvalidateTopologyAuthorization \/ (\E overdue \in SUBSET Overdue : RecoverReleases(overdue))
  BY <1>2, <1>3 DEF InvalidateTopologyAuthorization, RecoverReleases, TypeOK, ReleasesOK
<1>4. CASE \E c \in serving : ReportDrift(c)
  BY <1>2, <1>4 DEF ReportDrift, TypeOK, ReleasesOK, WireOK, Call
<1>5. CASE \E c \in serving : RenderDocument(c) \/ OutdateNode(c)
  BY <1>1, <1>5 DEF RenderDocument, OutdateNode
<1>6. CASE \E root \in Root, r \in ReleaseId : CreateTopologyRelease(root, r)
  <2>1. PICK root \in Root, r \in ReleaseId : CreateTopologyRelease(root, r)
    BY <1>6
  <2> DEFINE p == preview[root]
             chain == DOMAIN p.generation
             rows == [n \in chain |-> NewReleaseNode(root, n)]
  <2>2. p # NoPreview /\ PreviewOK(p, root)
    BY <2>1 DEF CreateTopologyRelease, Current, TypeOK, PreviewsOK
  <2>3. p.graph \in Revision /\ chain = Chain(p.graph, root)
    BY <2>2 DEF PreviewOK
  <2>4. \A n \in chain : /\ rows[n].phase = "prepare" /\ rows[n].status = "pending"
                         /\ rows[n].order = ApplyOrder[p.graph][root][n]
    BY DEF NewReleaseNode
  <2>5. \A m, n \in chain : m # n => ApplyOrder[p.graph][root][m] # ApplyOrder[p.graph][root][n]
    BY <2>3, ChainAssumption DEF Chain
  <2>6. Shape("preparing", rows)
    <3>1. DOMAIN rows = chain
      OBVIOUS
    <3> HIDE DEF rows, chain
    <3> QED BY <2>4, <2>5, <3>1 DEF Shape, RowOK, Gapless, Fits
  <2>7. releaseNodes' = [releaseNodes EXCEPT ![r] = rows]
        /\ releaseStatus' = [releaseStatus EXCEPT ![r] = "preparing"]
    BY <2>1 DEF CreateTopologyRelease
  <2> HIDE DEF rows
  <2> QED BY <2>6, <2>7, OneRelease DEF TypeOK
<1>7. CASE \E r \in ReleaseId : RollbackRelease(r)
  <2>1. PICK r \in ReleaseId : RollbackRelease(r)
    BY <1>7
  <2>2. Shape(releaseStatus[r], releaseNodes[r]) /\ OverChain(releaseNodes[r], ReleaseNode)
    BY DEF Shaped, TypeOK, ReleasesOK
  <2>3. /\ Gapless(Queued(releaseNodes[r])) /\ Withdrawing(Queued(releaseNodes[r]))
        /\ OverChain(Queued(releaseNodes[r]), ReleaseNode)
    BY <2>2, QueuedShape, QueuedTyped DEF Shape
  <2>4. ActivateNextRollback(r, Queued(releaseNodes[r]))
    BY <2>1 DEF RollbackRelease, BeginRollback, Queued
  <2> QED BY <2>3, <2>4, RollbackShape DEF TypeOK
<1>8. CASE \E d \in documents : Acknowledge(d)
  BY <1>8, AcknowledgeShape
<1>9. CASE \/ \E changed \in SUBSET Node : SaveGraph(changed)
           \/ \E n \in Node : UpdateNode(n) \/ UpdateInbound(n) \/ CredentialDrift(n)
           \/ ChangeInbounds
           \/ \E root \in Root : PreviewSnapshot(root) \/ PreviewExpire(root) \/ SavePreview(root)
           \/ \E n \in Node : DeployPreview(n)
           \/ \E s \in previewing : PreviewSave(s)
           \/ \E r \in ReleaseId, n \in Node : GetAgentDeployment(r, n) \/ ReadDeployment(r, n)
  BY <1>1, <1>9 DEF SaveGraph, UpdateNode, UpdateInbound, CredentialDrift, ChangeInbounds,
                    PreviewSnapshot, PreviewExpire, SavePreview, DeployPreview, PreviewSave, GetAgentDeployment, ReadDeployment
<1> QED
  BY <1>3, <1>4, <1>5, <1>6, <1>7, <1>8, <1>9, ChainAssumption
     DEF Next, Administer, Serve, Recover

-----------------------------------------------------------------------------
(* The chain of a release is decided when it is created *)

DomainsKept == \A r \in ReleaseId : DOMAIN releaseNodes'[r] = DOMAIN releaseNodes[r]

LEMMA ActivateNextKeepsDomains ==
    ASSUME ReleasesOK, NEW r \in ReleaseId, NEW rows, DOMAIN rows = DOMAIN releaseNodes[r],
           ActivateNextApply(r, rows) \/ ActivateNextRollback(r, rows)
    PROVE  DomainsKept
<1>1. CASE Finish(r, rows, "succeeded") \/ Finish(r, rows, "rolled_back")
  BY <1>1 DEF Finish, ReleasesOK, DomainsKept
<1>2. ASSUME NEW n, NEW phase, NEW topology, NEW g, Activate(r, rows, n, phase, topology, g)
      PROVE  DomainsKept
  <2>1. PICK row : releaseNodes' = [releaseNodes EXCEPT ![r] = [rows EXCEPT ![n] = row]]
    BY <1>2 DEF Activate
  <2> QED BY <2>1 DEF ReleasesOK, DomainsKept
<1> QED BY <1>1, <1>2 DEF ActivateNextApply, ActivateNextRollback

LEMMA AcknowledgeKeepsDomains ==
    ASSUME TypeOK, NEW d \in documents, Acknowledge(d)
    PROVE  DomainsKept
<1>1. ReleasesOK /\ d.release \in ReleaseId
  BY DEF TypeOK, WireOK, Document
<1>2. ASSUME NEW status
      PROVE  /\ DOMAIN Acknowledged(d, status) = DOMAIN releaseNodes[d.release]
             /\ DOMAIN Queued(Acknowledged(d, status)) = DOMAIN releaseNodes[d.release]
  BY DEF Acknowledged, Queued
<1>3. ASSUME NEW status, \/ ActivateNextApply(d.release, Acknowledged(d, status))
                         \/ ActivateNextRollback(d.release, Acknowledged(d, status))
                         \/ ActivateNextRollback(d.release, Queued(Acknowledged(d, status)))
      PROVE  DomainsKept
  BY <1>1, <1>2, <1>3, ActivateNextKeepsDomains
<1>4. ASSUME NEW status,
             releaseNodes' = [releaseNodes EXCEPT ![d.release] = Acknowledged(d, status)]
      PROVE  DomainsKept
  BY <1>1, <1>2, <1>4 DEF ReleasesOK, DomainsKept
<1>5. CASE AckPrepared(d) \/ AckApplied(d) \/ AckRolledBack(d)
  BY <1>3, <1>4, <1>5 DEF AckPrepared, AckApplied, AckRolledBack
<1>6. CASE AckPrepareFailed(d) \/ AckRollbackFailed(d)
  BY <1>4, <1>6 DEF AckPrepareFailed, AckRollbackFailed, Finish
<1>7. CASE AckApplyFailed(d)
  BY <1>3, <1>7 DEF AckApplyFailed, BeginRollback, Queued
<1>8. CASE \E status \in {Done(d.phase), "failed"} : AckDrifted(d, status)
  BY <1>8 DEF AckDrifted, DomainsKept
<1> QED BY <1>5, <1>6, <1>7, <1>8 DEF Acknowledge

LEMMA DocumentsNext ==
    ASSUME TypeOK, Shaped, DocumentsKnown, Next
    PROVE  DocumentsKnown'
<1>1. \A d \in documents \cup serving : d.release \in ReleaseId
  BY DEF TypeOK, WireOK, Document, Call
<1>2. ASSUME UNCHANGED wireVars, DomainsKept PROVE DocumentsKnown'
  BY <1>1, <1>2 DEF DocumentsKnown, DomainsKept, wireVars
<1>3. ASSUME UNCHANGED wireVars, UNCHANGED releaseNodes PROVE DocumentsKnown'
  BY <1>3 DEF DocumentsKnown, wireVars
<1>4. CASE \E root \in Root, r \in ReleaseId : CreateTopologyRelease(root, r)
  <2>1. PICK root \in Root, r \in ReleaseId : CreateTopologyRelease(root, r)
    BY <1>4
  <2>2. DOMAIN releaseNodes[r] = {} /\ UNCHANGED wireVars
    BY <2>1 DEF CreateTopologyRelease, Shaped, Shape, Fits
  <2>3. \A q \in ReleaseId : q # r => releaseNodes'[q] = releaseNodes[q]
    BY <2>1 DEF CreateTopologyRelease, TypeOK, ReleasesOK
  <2> QED BY <1>1, <2>2, <2>3 DEF DocumentsKnown, wireVars
<1>5. CASE \E r \in ReleaseId : RollbackRelease(r)
  <2>1. PICK r \in ReleaseId : RollbackRelease(r)
    BY <1>5
  <2>2. ActivateNextRollback(r, Queued(releaseNodes[r])) /\ UNCHANGED wireVars
    BY <2>1 DEF RollbackRelease, BeginRollback, Queued
  <2>3. DOMAIN Queued(releaseNodes[r]) = DOMAIN releaseNodes[r]
    BY DEF Queued
  <2> QED BY <1>2, <2>2, <2>3, ActivateNextKeepsDomains DEF TypeOK
<1>6. CASE \E r \in ReleaseId, n \in Node : GetAgentDeployment(r, n) \/ ReadDeployment(r, n)
  <2>1. PICK r \in ReleaseId, n \in Node : GetAgentDeployment(r, n) \/ ReadDeployment(r, n)
    BY <1>6
  <2>2. n \in DOMAIN releaseNodes[r] /\ UNCHANGED releaseNodes
    BY <2>1 DEF GetAgentDeployment, ReadDeployment, Readable, releaseVars
  <2>3. \A d \in documents' \cup serving' :
           d \in documents \cup serving \/ (d.release = r /\ d.node = n)
    BY <2>1 DEF GetAgentDeployment, ReadDeployment
  <2> QED BY <2>2, <2>3 DEF DocumentsKnown
<1>7. CASE \E d \in documents : Acknowledge(d)
  <2>1. UNCHANGED wireVars
    BY <1>7 DEF Acknowledge, AckPrepared, AckApplied, AckRolledBack, AckPrepareFailed,
                AckApplyFailed, AckRollbackFailed, AckDrifted, ackUnchanged, wireVars
  <2> QED BY <1>2, <1>7, <2>1, AcknowledgeKeepsDomains
<1>8. CASE \E c \in serving : RenderDocument(c) \/ ReportDrift(c) \/ OutdateNode(c)
  <2>1. PICK c \in serving : RenderDocument(c) \/ ReportDrift(c) \/ OutdateNode(c)
    BY <1>8
  <2> DEFINE known(d) == d \in documents \cup serving \/ (d.release = c.release /\ d.node = c.node)
             report == [c EXCEPT !.step = "report"]
             outdate == [c EXCEPT !.step = "outdate"]
  <2>2. known(report) /\ known(outdate)
    BY DEF TypeOK, WireOK, Call
  <2>3. \A d \in documents' \cup serving' : known(d)
    <3>1. CASE RenderDocument(c)
      <4>1. PICK document : /\ document.release = c.release /\ document.node = c.node
                            /\ documents' \subseteq documents \cup {document}
        BY <3>1 DEF RenderDocument
      <4>2. serving' \subseteq serving \cup {report}
        BY <3>1 DEF RenderDocument
      <4> HIDE DEF report
      <4> QED BY <2>2, <4>1, <4>2
    <3>2. CASE ReportDrift(c) \/ OutdateNode(c)
      <4>1. documents' = documents /\ serving' \subseteq serving \cup {outdate}
        BY <3>2 DEF ReportDrift, OutdateNode
      <4> HIDE DEF outdate
      <4> QED BY <2>2, <4>1
    <3> QED BY <2>1, <3>1, <3>2
  <2>4. UNCHANGED releaseNodes
    BY <2>1 DEF RenderDocument, ReportDrift, OutdateNode, releaseVars
  <2> QED BY <2>3, <2>4 DEF DocumentsKnown
<1>9. CASE \/ \E changed \in SUBSET Node : SaveGraph(changed)
           \/ \E n \in Node : UpdateNode(n) \/ UpdateInbound(n) \/ CredentialDrift(n)
           \/ ChangeInbounds \/ InvalidateTopologyAuthorization
           \/ \E root \in Root : PreviewSnapshot(root) \/ PreviewExpire(root) \/ SavePreview(root)
           \/ \E n \in Node : DeployPreview(n)
           \/ \E s \in previewing : PreviewSave(s)
           \/ Recover
  BY <1>3, <1>9 DEF SaveGraph, UpdateNode, UpdateInbound, CredentialDrift, ChangeInbounds,
        InvalidateTopologyAuthorization, PreviewSnapshot, PreviewExpire, SavePreview, DeployPreview, PreviewSave,
        Recover, RecoverReleases, releaseVars
<1> QED
  BY <1>4, <1>5, <1>6, <1>7, <1>8, <1>9, ChainAssumption DEF Next, Administer, Serve

-----------------------------------------------------------------------------
(* A deployment and the row it names change together *)

AllNamed == \A n \in Node : Named(n)

\* A step keeps every deployment with its row, or brings them together; it does
\* not touch a deployment that differs from its row already.
Follows(n) == Matches(n)' \/ (~Matches(n) /\ deployment'[n] = deployment[n])
Kept == AllNamed' /\ \A n \in Node : Follows(n)

\* Two rows that agree in all a deployment repeats.
SameRow(old, new) ==
    /\ new.phase = old.phase /\ new.expectedGeneration = old.expectedGeneration
    /\ new.candidate = old.candidate /\ new.previous = old.previous

\* Rows that differ from those of r in nothing a deployment repeats.
OnlyStatus(rows, r) ==
    /\ DOMAIN rows = DOMAIN releaseNodes[r]
    /\ \A n \in DOMAIN rows : SameRow(releaseNodes[r][n], rows[n])

\* Where neither the deployment nor its row changes in that, nothing is lost.
LEMMA RowKept ==
    ASSUME NEW n \in Node, Named(n), deployment'[n] = deployment[n],
           deployment[n].release # 0 =>
              /\ n \in DOMAIN releaseNodes'[deployment[n].release]
              /\ SameRow(releaseNodes[deployment[n].release][n],
                         releaseNodes'[deployment[n].release][n])
    PROVE  Named(n)' /\ Follows(n)
<1>1. Named(n)'
  BY DEF Named, SameRow
<1>2. Matches(n) => Matches(n)'
  BY DEF Matches, SameRow, RowTopology
<1> QED BY <1>1, <1>2 DEF Follows

\* A step that only changes statuses changes no row a deployment repeats.
LEMMA StatusMatches ==
    ASSUME ReleasesOK, AllNamed, NEW r \in ReleaseId, NEW rows, OnlyStatus(rows, r),
           releaseNodes' = [releaseNodes EXCEPT ![r] = rows], UNCHANGED deployment
    PROVE  Kept
<1>1. releaseNodes'[r] = rows
  BY DEF ReleasesOK
<1>2. \A q : q # r => releaseNodes'[q] = releaseNodes[q]
  BY DEF ReleasesOK
<1>3. ASSUME NEW n \in Node PROVE Named(n)' /\ Follows(n)
  <2>1. Named(n)
    BY DEF AllNamed
  <2>2. ASSUME deployment[n].release # 0
        PROVE  /\ n \in DOMAIN releaseNodes'[deployment[n].release]
               /\ SameRow(releaseNodes[deployment[n].release][n],
                          releaseNodes'[deployment[n].release][n])
    BY <1>1, <1>2, <2>1, <2>2 DEF Named, OnlyStatus, SameRow
  <2> QED BY <2>1, <2>2, RowKept
<1> QED BY <1>3 DEF Kept, AllNamed

\* An activation writes the deployment and its row together.
LEMMA ActivateMatches ==
    ASSUME NodesOK, ReleasesOK, AllNamed, NEW r \in ReleaseId,
           NEW rows, OverChain(rows, ReleaseNode), OnlyStatus(rows, r),
           NEW n \in DOMAIN rows, NEW phase \in {"apply", "rollback"}, NEW g \in Nat,
           NEW topology \in Topology,
           topology = IF phase = "rollback" THEN rows[n].previous ELSE rows[n].candidate,
           Activate(r, rows, n, phase, topology, g)
    PROVE  Kept
<1> DEFINE entry == [topology |-> topology, release |-> r, generation |-> g]
           row == [rows[n] EXCEPT !.phase = phase, !.status = "active",
                                  !.expectedGeneration = g,
                                  !.expectedRuntime = RuntimeVersion(topology, n)]
           new == [rows EXCEPT ![n] = row]
<1>1. rows[n] \in ReleaseNode /\ rows = [m \in DOMAIN rows |-> rows[m]] /\ n \in Node
  BY DEF OverChain
<1>2. /\ row.phase = phase /\ row.expectedGeneration = g
      /\ row.candidate = rows[n].candidate /\ row.previous = rows[n].previous
  BY <1>1 DEF ReleaseNode
<1>3. entry.topology = topology /\ entry.release = r /\ entry.generation = g
  OBVIOUS
<1>4. entry.topology = RowTopology(row) /\ row.expectedGeneration = entry.generation
  BY <1>2, <1>3 DEF RowTopology
<1>5. releaseNodes' = [releaseNodes EXCEPT ![r] = new]
  BY <1>1 DEF Activate
<1>6. deployment' = [deployment EXCEPT ![n] = entry]
  BY DEF Activate
<1> HIDE DEF entry, row
<1>7. new[n] = row /\ DOMAIN new = DOMAIN releaseNodes[r]
      /\ \A m \in DOMAIN new : m # n => new[m] = rows[m]
  BY <1>1 DEF OnlyStatus
<1> HIDE DEF new
<1>8. /\ releaseNodes'[r] = new
      /\ \A q : q # r => releaseNodes'[q] = releaseNodes[q]
  BY <1>5 DEF ReleasesOK
<1>9. deployment'[n] = entry /\ \A m \in Node : m # n => deployment'[m] = deployment[m]
  BY <1>1, <1>6 DEF NodesOK
<1>10. ASSUME NEW m \in Node PROVE Named(m)' /\ Follows(m)
  <2>1. CASE m = n
    <3>1. deployment'[m] = entry /\ releaseNodes'[r][m] = row
      BY <1>7, <1>8, <1>9, <2>1
    <3>2. m \in DOMAIN releaseNodes'[r]
      BY <1>7, <1>8, <2>1 DEF OnlyStatus
    <3>3. Named(m)'
      BY <1>2, <1>3, <1>4, <3>1, <3>2 DEF Named
    <3>4. Matches(m)'
      BY <1>3, <1>4, <3>1 DEF Matches
    <3> QED BY <3>3, <3>4 DEF Follows
  <2>2. CASE m # n
    <3> DEFINE q == deployment[m].release
    <3>1. deployment'[m] = deployment[m] /\ Named(m)
      BY <1>9, <2>2 DEF AllNamed
    <3>2. ASSUME q # 0
          PROVE  m \in DOMAIN releaseNodes'[q] /\ SameRow(releaseNodes[q][m], releaseNodes'[q][m])
      <4>1. m \in DOMAIN releaseNodes[q]
        BY <3>1, <3>2 DEF Named
      <4>2. CASE q # r
        BY <1>8, <4>1, <4>2 DEF SameRow
      <4>3. CASE q = r
        BY <1>7, <1>8, <2>2, <4>1, <4>3 DEF OnlyStatus
      <4> QED BY <4>2, <4>3
    <3> QED BY <3>1, <3>2, RowKept
  <2> QED BY <2>1, <2>2
<1> QED BY <1>10 DEF Kept, AllNamed

LEMMA ActivateNextMatches ==
    ASSUME NodesOK, ReleasesOK, AllNamed, NEW r \in ReleaseId,
           NEW rows, OverChain(rows, ReleaseNode), OnlyStatus(rows, r),
           ActivateNextApply(r, rows) \/ ActivateNextRollback(r, rows)
    PROVE  Kept
<1>1. ASSUME NEW terminal, Finish(r, rows, terminal)
      PROVE  Kept
  BY <1>1, StatusMatches DEF Finish
<1>2. ASSUME NEW n \in DOMAIN rows
      PROVE  /\ rows[n].candidate \in Topology /\ rows[n].previous \in Topology
             /\ rows[n].expectedGeneration \in Nat
  BY <1>2 DEF OverChain, ReleaseNode
<1>3. ASSUME NEW n \in DOMAIN rows,
             Activate(r, rows, n, "apply", rows[n].candidate, rows[n].expectedGeneration)
      PROVE  Kept
  BY <1>2, <1>3, ActivateMatches
<1>4. ASSUME NEW n \in DOMAIN rows,
             Activate(r, rows, n, "rollback", rows[n].previous, rows[n].expectedGeneration + 1)
      PROVE  Kept
  BY <1>2, <1>4, ActivateMatches
<1> QED BY <1>1, <1>3, <1>4 DEF ActivateNextApply, ActivateNextRollback, WithStatus

LEMMA StatusOnly ==
    ASSUME ReleasesOK, NEW d \in Document, NEW status \in NodeStatus,
           d.node \in DOMAIN releaseNodes[d.release]
    PROVE  /\ OnlyStatus(Acknowledged(d, status), d.release)
           /\ OnlyStatus(Queued(Acknowledged(d, status)), d.release)
<1> DEFINE old == releaseNodes[d.release]
           rows == Acknowledged(d, status)
<1>1. d.release \in ReleaseId /\ old \in [DOMAIN old -> ReleaseNode]
  BY DEF ReleasesOK, OverChain, Document
<1>2. ASSUME NEW row \in ReleaseNode, NEW other
      PROVE  /\ [row EXCEPT !.status = other].phase = row.phase
             /\ [row EXCEPT !.status = other].candidate = row.candidate
             /\ [row EXCEPT !.status = other].previous = row.previous
             /\ [row EXCEPT !.status = other].expectedGeneration = row.expectedGeneration
  BY <1>2 DEF ReleaseNode
<1>3. OnlyStatus(rows, d.release)
  BY <1>1, <1>2 DEF OnlyStatus, SameRow, Acknowledged
<1>4. rows \in [DOMAIN rows -> ReleaseNode]
  BY AcknowledgedIsTyped DEF OverChain
<1> HIDE DEF rows
<1>5. OnlyStatus(Queued(rows), d.release)
  BY <1>2, <1>3, <1>4 DEF OnlyStatus, SameRow, Queued
<1> QED BY <1>3, <1>5 DEF rows

LEMMA QueuedOnly ==
    ASSUME ReleasesOK, NEW r \in ReleaseId
    PROVE  OnlyStatus(Queued(releaseNodes[r]), r)
<1>1. \A n \in DOMAIN releaseNodes[r] : releaseNodes[r][n] \in ReleaseNode
  BY DEF ReleasesOK, OverChain
<1> QED BY <1>1 DEF OnlyStatus, SameRow, Queued, ReleaseNode

LEMMA SameKept ==
    ASSUME AllNamed, UNCHANGED deployment, UNCHANGED releaseNodes
    PROVE  Kept
<1>1. ASSUME NEW n \in Node PROVE Named(n)' /\ Follows(n)
  <2>1. Named(n)
    BY DEF AllNamed
  <2> QED BY <2>1, RowKept DEF Named, SameRow
<1> QED BY <1>1 DEF Kept, AllNamed

LEMMA AcknowledgeMatches ==
    ASSUME TypeOK, DocumentsKnown, AllNamed, NEW d \in documents, Acknowledge(d)
    PROVE  Kept
<1>1. /\ NodesOK /\ ReleasesOK /\ d \in Document /\ d.release \in ReleaseId
      /\ d.node \in DOMAIN releaseNodes[d.release]
  BY DEF TypeOK, WireOK, Document, DocumentsKnown
<1>2. {"prepared", "applied", "rolled_back", "failed"} \subseteq NodeStatus
  BY DEF NodeStatus
<1>3. ASSUME NEW status \in NodeStatus
      PROVE  /\ OnlyStatus(Acknowledged(d, status), d.release)
             /\ OnlyStatus(Queued(Acknowledged(d, status)), d.release)
             /\ OverChain(Acknowledged(d, status), ReleaseNode)
             /\ OverChain(Queued(Acknowledged(d, status)), ReleaseNode)
  BY <1>1, <1>3, StatusOnly, AcknowledgedIsTyped, QueuedTyped
<1>4. ASSUME NEW status \in NodeStatus,
             \/ ActivateNextApply(d.release, Acknowledged(d, status))
             \/ ActivateNextRollback(d.release, Acknowledged(d, status))
             \/ ActivateNextRollback(d.release, Queued(Acknowledged(d, status)))
      PROVE  Kept
  BY <1>1, <1>3, <1>4, ActivateNextMatches
<1>5. ASSUME NEW status \in NodeStatus, UNCHANGED deployment,
             releaseNodes' = [releaseNodes EXCEPT ![d.release] = Acknowledged(d, status)]
      PROVE  Kept
  BY <1>1, <1>3, <1>5, StatusMatches
<1>6. CASE AckPrepared(d)
  BY <1>2, <1>4, <1>5, <1>6 DEF AckPrepared
<1>7. CASE AckApplied(d) \/ AckRolledBack(d)
  BY <1>2, <1>4, <1>7 DEF AckApplied, AckRolledBack
<1>8. CASE AckPrepareFailed(d) \/ AckRollbackFailed(d)
  BY <1>2, <1>5, <1>8 DEF AckPrepareFailed, AckRollbackFailed, Finish
<1>9. CASE AckApplyFailed(d)
  BY <1>2, <1>4, <1>9 DEF AckApplyFailed, BeginRollback, Queued
<1>10. CASE \E status \in {Done(d.phase), "failed"} : AckDrifted(d, status)
  BY <1>10, SameKept DEF AckDrifted
<1> QED BY <1>6, <1>7, <1>8, <1>9, <1>10 DEF Acknowledge

\* An activation writes a deployment and the row it names in one transaction, a
\* release that is created takes a number no deployment names, and a single node
\* that is deployed keeps the name of its release and its generation.
LEMMA MatchNext ==
    ASSUME TypeOK, Shaped, DocumentsKnown, AllNamed, Next
    PROVE  AllNamed' /\ \A n \in Node : Follows(n) \/ DeployPreview(n)
<1>1. ASSUME UNCHANGED deployment, UNCHANGED releaseNodes PROVE Kept
  BY <1>1, SameKept
<1>2. CASE \E root \in Root, r \in ReleaseId : CreateTopologyRelease(root, r)
  <2>1. PICK root \in Root, r \in ReleaseId : CreateTopologyRelease(root, r)
    BY <1>2
  <2>2. DOMAIN releaseNodes[r] = {} /\ UNCHANGED deployment
    BY <2>1 DEF CreateTopologyRelease, Shaped, Shape, Fits
  <2>3. \A q : q # r => releaseNodes'[q] = releaseNodes[q]
    BY <2>1 DEF CreateTopologyRelease, TypeOK, ReleasesOK
  <2>4. ASSUME NEW n \in Node PROVE Named(n)' /\ Follows(n)
    <3>1. Named(n) /\ (deployment[n].release # 0 => deployment[n].release # r)
      BY <2>2 DEF AllNamed, Named
    <3> QED BY <2>2, <2>3, <3>1, RowKept DEF Named, SameRow
  <2> QED BY <2>4 DEF Kept, AllNamed
<1>3. CASE \E r \in ReleaseId : RollbackRelease(r)
  <2>1. PICK r \in ReleaseId : RollbackRelease(r)
    BY <1>3
  <2>2. ActivateNextRollback(r, Queued(releaseNodes[r]))
    BY <2>1 DEF RollbackRelease, BeginRollback, Queued
  <2>3. OverChain(Queued(releaseNodes[r]), ReleaseNode)
    BY QueuedTyped DEF TypeOK, ReleasesOK
  <2> QED BY <2>2, <2>3, QueuedOnly, ActivateNextMatches DEF Kept, TypeOK
<1>4. CASE \E d \in documents : Acknowledge(d)
  BY <1>4, AcknowledgeMatches DEF Kept
<1>5. CASE \E c \in serving : RenderDocument(c) \/ ReportDrift(c) \/ OutdateNode(c)
  BY <1>1, <1>5 DEF Kept, RenderDocument, ReportDrift, OutdateNode, nodeVars, releaseVars
<1>6. CASE \/ \E changed \in SUBSET Node : SaveGraph(changed)
           \/ \E n \in Node : UpdateNode(n) \/ UpdateInbound(n) \/ CredentialDrift(n)
           \/ ChangeInbounds \/ InvalidateTopologyAuthorization
           \/ \E root \in Root : PreviewSnapshot(root) \/ PreviewExpire(root) \/ SavePreview(root)
           \/ \E s \in previewing : PreviewSave(s)
           \/ \E r \in ReleaseId, n \in Node : GetAgentDeployment(r, n) \/ ReadDeployment(r, n)
           \/ Recover
  BY <1>1, <1>6 DEF Kept, SaveGraph, UpdateNode, UpdateInbound, CredentialDrift, ChangeInbounds,
        InvalidateTopologyAuthorization, PreviewSnapshot, PreviewExpire, SavePreview, PreviewSave,
        GetAgentDeployment, ReadDeployment, Recover, RecoverReleases, releaseVars, nodeVars
<1>7. CASE \E n \in Node : DeployPreview(n)
  <2>1. PICK n \in Node : DeployPreview(n)
    BY <1>7
  <2>2. deployment' = [deployment EXCEPT ![n].topology = <<graphRevision, materialRevision>>]
        /\ UNCHANGED releaseNodes
    BY <2>1 DEF DeployPreview, releaseVars
  <2>3. ASSUME NEW m \in Node PROVE Named(m)' /\ (Follows(m) \/ DeployPreview(m))
    <3>1. Named(m)
      BY DEF AllNamed
    <3>2. CASE m = n
      <4>1. deployment'[m].release = deployment[m].release
            /\ deployment'[m].generation = deployment[m].generation
        BY <2>2 DEF TypeOK, NodesOK
      <4> QED BY <2>1, <2>2, <3>1, <3>2, <4>1 DEF Named
    <3>3. CASE m # n
      <4>1. deployment'[m] = deployment[m]
        BY <2>2, <3>3 DEF TypeOK, NodesOK
      <4> QED BY <2>2, <3>1, <4>1, RowKept DEF Named, SameRow
    <3> QED BY <3>2, <3>3
  <2> QED BY <2>3 DEF AllNamed
<1> QED BY <1>2, <1>3, <1>4, <1>5, <1>6, <1>7, ChainAssumption DEF Kept, Next, Administer, Serve

-----------------------------------------------------------------------------
(* Theorems *)

\* The invariant holds initially and every action keeps it: the rows of every
\* release have the shape its status promises, whatever is acknowledged when.
THEOREM Invariance == Spec => []IInv
<1>1. Init => IInv
  <2> SUFFICES ASSUME Init PROVE IInv
    OBVIOUS
  <2>1. \A r \in ReleaseId : releaseStatus[r] = "absent" /\ DOMAIN releaseNodes[r] = {}
    BY DEF Init, NoNode
  <2>2. Shaped /\ DocumentsKnown
    BY <2>1 DEF Init, Shaped, Shape, Gapless, Fits, DocumentsKnown
  <2> QED BY <2>2, TypeInit DEF IInv
<1>2. IInv /\ [Next]_vars => IInv'
  <2> SUFFICES ASSUME IInv, [Next]_vars PROVE IInv'
    OBVIOUS
  <2>1. CASE Next
    BY <2>1, TypeNext, ShapeNext, DocumentsNext DEF IInv
  <2>2. CASE UNCHANGED vars
    <3>1. TypeOK'
      BY <2>2, TypeUnchanged DEF IInv, TypeOK, vars
    <3>2. Shaped' /\ DocumentsKnown'
      BY <2>2 DEF IInv, vars, releaseVars, wireVars, Shaped, DocumentsKnown
    <3> QED BY <3>1, <3>2 DEF IInv
  <2> QED BY <2>1, <2>2
<1> QED BY <1>1, <1>2, PTL DEF Spec

\* Every variable keeps its type for every set of nodes and every bound: no row
\* leaves its chain, no document names a node outside its release.
THEOREM TypeCorrect == Spec => []TypeOK
<1>1. IInv => TypeOK
  BY DEF IInv
<1> QED BY <1>1, Invariance, PTL

\* A release succeeds only when each of its nodes has acknowledged the apply phase.
THEOREM SuccessIsEarned == Spec => []SucceededMeansApplied
<1>1. IInv => SucceededMeansApplied
  BY DEF IInv, Shaped, Shape, Fits, At, SucceededMeansApplied
<1> QED BY <1>1, Invariance, PTL

\* No interleaving leaves an unswitched node below a switched one.
THEOREM NoGap == Spec => []SwitchedWithoutGap
<1>1. IInv => SwitchedWithoutGap
  BY DEF IInv, Shaped, Shape, Gapless, SwitchedWithoutGap
<1> QED BY <1>1, Invariance, PTL

\* While a release applies, exactly one node is active, and everything
\* downstream of a node that was told to switch has confirmed.
THEOREM DownstreamFirst == Spec => []AppliedDownstreamFirst
<1>1. IInv => AppliedDownstreamFirst
  <2> SUFFICES ASSUME IInv, NEW r \in ReleaseId, releaseStatus[r] = "applying"
               PROVE  LET rows == releaseNodes[r]
                      IN /\ Cardinality(WithStatus(rows, "active")) = 1
                         /\ \A n \in DOMAIN rows : rows[n].phase = "apply" =>
                               \A m \in DOMAIN rows :
                                  rows[m].order < rows[n].order => rows[m].status = "applied"
    BY DEF AppliedDownstreamFirst
  <2> DEFINE rows == releaseNodes[r]
  <2>1. Gapless(rows) /\ \E n \in DOMAIN rows : WorkingAt(rows, n)
    BY DEF IInv, Shaped, Shape, Fits
  <2>2. \A n \in DOMAIN rows : rows[n].order \in Nat
    BY OrdersAreNatural DEF IInv, TypeOK, ReleasesOK
  <2>3. PICK n \in DOMAIN rows : WorkingAt(rows, n)
    BY <2>1
  <2> HIDE DEF rows
  <2>4. \A m \in DOMAIN rows : m = n \/ rows[m].order < rows[n].order \/ rows[n].order < rows[m].order
    BY <2>1, <2>2, <2>3 DEF Gapless
  <2>5. WithStatus(rows, "active") = {n}
    BY <2>3, <2>4 DEF WithStatus, WorkingAt, At
  <2>6. Cardinality(WithStatus(rows, "active")) = 1
    BY <2>5, FS_Singleton
  <2>7. \A k \in DOMAIN rows : rows[k].phase = "apply" =>
            \A m \in DOMAIN rows : rows[m].order < rows[k].order => rows[m].status = "applied"
    BY <2>2, <2>3, <2>4 DEF WorkingAt, At
  <2> QED BY <2>6, <2>7 DEF rows
<1> QED BY <1>1, Invariance, PTL

\* Whatever releases, rollbacks and deployments of single nodes follow each other,
\* a deployment names a node that was switched in the generation it has, only a
\* single-node deployment makes it differ from the row, and a switch ends that.
THEOREM RowIsDeployed == Spec => DeploymentMatchesRow
<1> DEFINE A == \A n \in Node :
          /\ Named(n)'
          /\ \/ Matches(n)'
             \/ ~Matches(n) /\ deployment'[n] = deployment[n]
             \/ DeployPreview(n)
<1>1. Init => AllNamed
  BY DEF Init, AllNamed, Named
<1>2. IInv /\ AllNamed /\ [Next]_vars => AllNamed' /\ [A]_vars
  <2> SUFFICES ASSUME IInv, AllNamed, [Next]_vars PROVE AllNamed' /\ [A]_vars
    OBVIOUS
  <2>1. CASE Next
    <3>1. AllNamed' /\ \A n \in Node : Follows(n) \/ DeployPreview(n)
      BY <2>1, MatchNext DEF IInv
    <3>2. A
      BY <3>1 DEF AllNamed, Follows
    <3> QED BY <3>1, <3>2
  <2>2. CASE UNCHANGED vars
    <3>1. AllNamed'
      BY <2>2 DEF vars, nodeVars, releaseVars, AllNamed, Named
    <3> QED BY <2>2, <3>1
  <2> QED BY <2>1, <2>2
<1> QED BY <1>1, <1>2, Invariance, PTL DEF Spec, DeploymentMatchesRow

-----------------------------------------------------------------------------
(* From rows to stages *)

LEMMA Stages ==
    ASSUME NEW row, RowOK(row) \/ At(row, "apply", "failed")
    PROVE  /\ row.phase = "prepare" => StageOf(row) \in {"held", "ready"}
           /\ At(row, "prepare", "prepared") => StageOf(row) = "ready"
           /\ row.phase = "prepare" /\ row.status # "prepared" => StageOf(row) = "held"
           /\ At(row, "apply", "active") => StageOf(row) = "told"
           /\ At(row, "apply", "applied") => StageOf(row) = "confirmed"
           /\ At(row, "apply", "rollback_pending") => StageOf(row) = "recalled"
           /\ At(row, "apply", "failed") => StageOf(row) = "recalled"
           /\ row.phase = "apply" => StageOf(row) \in {"told", "confirmed", "recalled"}
           /\ row.phase = "rollback" => StageOf(row) = "withdrawn"
BY DEF StageOf, RowOK, At

LEMMA Verdicts ==
    /\ VerdictOf("absent") = "none" /\ VerdictOf("succeeded") = "succeeded"
    /\ VerdictOf("preparing") = "open" /\ VerdictOf("applying") = "open"
    /\ \A status \in ReleaseStatus :
          /\ status \notin {"absent", "preparing", "applying", "succeeded"}
                => VerdictOf(status) = "stopped"
          /\ VerdictOf(status) = "none" => status = "absent"
BY DEF VerdictOf, ReleaseStatus, Busy, Driving

SameChain(rows, new) ==
    DOMAIN new = DOMAIN rows /\ \A n \in DOMAIN rows : new[n].order = rows[n].order

\* Advance and Withdraw of StagedRollout, in terms of rows.
AdvanceRows(rows, new, succeeds) ==
    /\ SameChain(rows, new)
    /\ \A n \in DOMAIN rows : StageOf(new[n]) # StageOf(rows[n]) =>
          /\ <<StageOf(rows[n]), StageOf(new[n])>> \in
                {<<"held", "ready">>, <<"held", "told">>, <<"ready", "held">>,
                 <<"ready", "told">>, <<"told", "confirmed">>}
          /\ StageOf(new[n]) = "told" =>
                \A m \in DOMAIN rows :
                   /\ StageOf(new[m]) # "held"
                   /\ rows[m].order < rows[n].order => StageOf(new[m]) = "confirmed"
    /\ succeeds => \A n \in DOMAIN rows : StageOf(new[n]) = "confirmed"

WithdrawRows(rows, new) ==
    /\ SameChain(rows, new)
    /\ \A n \in DOMAIN rows : StageOf(new[n]) # StageOf(rows[n]) =>
          \/ StageOf(rows[n]) \in {"held", "ready"} /\ StageOf(new[n]) \in {"held", "ready"}
          \/ /\ StageOf(rows[n]) \in {"told", "confirmed", "recalled"}
             /\ StageOf(new[n]) = "recalled"
          \/ /\ StageOf(rows[n]) \in {"told", "confirmed", "recalled"}
             /\ StageOf(new[n]) = "withdrawn"
             /\ \A m \in DOMAIN rows : rows[m].order > rows[n].order =>
                   StageOf(new[m]) \notin {"told", "confirmed", "recalled"}

LEMMA AdvanceStep ==
    ASSUME NEW r \in ReleaseId, VerdictOf(releaseStatus[r]) = "open",
           VerdictOf(releaseStatus'[r]) # "none",
           AdvanceRows(releaseNodes[r], releaseNodes'[r], releaseStatus'[r] = "succeeded"),
           releaseStatus'[r] \in ReleaseStatus
    PROVE  Rollout!Step(r)
<1>1. VerdictOf(releaseStatus'[r]) = "succeeded" => releaseStatus'[r] = "succeeded"
  BY DEF VerdictOf, ReleaseStatus, Busy, Driving
<1>2. Rollout!Advance(r)
  BY <1>1 DEF Rollout!Advance, Rollout!Chain, Rollout!Forward, Rollout!MayBeTold,
              AdvanceRows, SameChain
<1> QED BY <1>2 DEF Rollout!Step

LEMMA WithdrawStep ==
    ASSUME NEW r \in ReleaseId, VerdictOf(releaseStatus[r]) \in {"open", "stopped"},
           VerdictOf(releaseStatus'[r]) = "stopped",
           WithdrawRows(releaseNodes[r], releaseNodes'[r])
    PROVE  Rollout!Step(r)
<1>1. Rollout!Withdraw(r)
  BY DEF Rollout!Withdraw, Rollout!Chain, Rollout!Untold, Rollout!Switched,
         WithdrawRows, SameChain
<1> QED BY <1>1 DEF Rollout!Step

LEMMA IdleStep ==
    ASSUME NEW r \in ReleaseId, releaseNodes'[r] = releaseNodes[r],
           VerdictOf(releaseStatus'[r]) = VerdictOf(releaseStatus[r])
    PROVE  Rollout!Step(r)
BY DEF Rollout!Step

LEMMA DoubtStep ==
    ASSUME NEW r \in ReleaseId, releaseNodes'[r] = releaseNodes[r],
           releaseStatus[r] = "succeeded", VerdictOf(releaseStatus'[r]) = "stopped"
    PROVE  Rollout!Step(r)
BY Verdicts DEF Rollout!Step, Rollout!Doubt

-----------------------------------------------------------------------------
(* The transactions that drive a release *)

\* Only the status changes, and only to stop the release.
LEMMA StopStep ==
    ASSUME TypeOK, TypeOK', NEW r \in ReleaseId, releaseNodes'[r] = releaseNodes[r],
           \/ releaseStatus'[r] = releaseStatus[r]
           \/ releaseStatus[r] # "absent" /\ releaseStatus'[r] \in {"failed", "manual_required"}
    PROVE  Rollout!Step(r)
<1>1. releaseStatus[r] \in ReleaseStatus /\ releaseStatus'[r] \in ReleaseStatus
  BY DEF TypeOK, ReleasesOK
<1>2. CASE releaseStatus'[r] = releaseStatus[r]
  BY <1>2, IdleStep
<1>3. ASSUME releaseStatus[r] # "absent", releaseStatus'[r] \in {"failed", "manual_required"}
      PROVE  Rollout!Step(r)
  <2>1. VerdictOf(releaseStatus'[r]) = "stopped"
    BY <1>1, <1>3, Verdicts
  <2>2. CASE releaseStatus[r] = "succeeded"
    BY <2>1, <2>2, DoubtStep
  <2>3. CASE releaseStatus[r] \in {"preparing", "applying"}
    <3>1. AdvanceRows(releaseNodes[r], releaseNodes'[r], releaseStatus'[r] = "succeeded")
      BY <1>3 DEF AdvanceRows, SameChain
    <3> QED BY <1>1, <2>1, <2>3, <3>1, AdvanceStep, Verdicts
  <2>4. CASE releaseStatus[r] \notin {"succeeded", "preparing", "applying"}
    BY <1>1, <1>3, <2>1, <2>4, IdleStep, Verdicts
  <2> QED BY <2>2, <2>3, <2>4
<1> QED BY <1>2, <1>3

\* activateNext(rollback=false) after the acknowledgement of one node.
LEMMA ApplyStep ==
    ASSUME TypeOK, TypeOK', NEW r \in ReleaseId, NEW rows, OverChain(rows, ReleaseNode),
           Gapless(rows), Steady(rows), ActivateNextApply(r, rows),
           VerdictOf(releaseStatus[r]) = "open", SameChain(releaseNodes[r], rows),
           \A n \in DOMAIN rows : StageOf(rows[n]) # StageOf(releaseNodes[r][n]) =>
              <<StageOf(releaseNodes[r][n]), StageOf(rows[n])>> \in
                 {<<"held", "ready">>, <<"told", "confirmed">>}
    PROVE  Rollout!Step(r)
<1> DEFINE old == releaseNodes[r]
<1>1. releaseStatus'[r] \in ReleaseStatus /\ ReleasesOK
  BY DEF TypeOK, ReleasesOK
<1>2. \A n \in DOMAIN rows :
         /\ At(rows[n], "apply", "applied") => StageOf(rows[n]) = "confirmed"
         /\ At(rows[n], "prepare", "prepared") => StageOf(rows[n]) = "ready"
  BY Stages DEF RowOK, At
<1>3. CASE WithStatus(rows, "prepared") = {} /\ Finish(r, rows, "succeeded")
  <2>1. \A n \in DOMAIN rows : StageOf(rows[n]) = "confirmed"
    BY <1>2, <1>3 DEF Steady, At, WithStatus
  <2>2. releaseNodes'[r] = rows /\ releaseStatus'[r] = "succeeded"
    BY <1>1, <1>3 DEF Finish, ReleasesOK
  <2>3. AdvanceRows(old, rows, TRUE)
    <3> HIDE DEF old
    <3>1. SameChain(old, rows)
      BY DEF old
    <3> QED BY <2>1, <3>1 DEF AdvanceRows, SameChain, old
  <2> QED BY <1>1, <2>2, <2>3, AdvanceStep, Verdicts
<1>4. ASSUME NEW n \in WithStatus(rows, "prepared"), NEW topology, NEW g,
             \A m \in WithStatus(rows, "prepared") : rows[n].order <= rows[m].order,
             Activate(r, rows, n, "apply", topology, g),
             releaseStatus' = [releaseStatus EXCEPT ![r] = "applying"]
      PROVE  Rollout!Step(r)
  <2>1. n \in DOMAIN rows /\ At(rows[n], "prepare", "prepared")
    BY <1>4 DEF WithStatus, Steady, At
  <2>2. PICK new : /\ releaseNodes' = [releaseNodes EXCEPT ![r] = new]
                   /\ ActivatedAt(rows, new, n, "apply")
    BY <1>1, <1>4, <2>1, ActivateRows
  <2>3. releaseNodes'[r] = new /\ releaseStatus'[r] = "applying"
    BY <1>1, <1>4, <2>2 DEF ReleasesOK
  <2>4. StageOf(new[n]) = "told"
    BY <2>2, Stages DEF ActivatedAt, RowOK, At
  <2>5. \A m \in DOMAIN rows : rows[m].order < rows[n].order => StageOf(rows[m]) = "confirmed"
    <3>1. \A m \in DOMAIN rows : rows[m].order \in Nat
      BY OrdersAreNatural
    <3>2. \A m \in DOMAIN rows : At(rows[m], "prepare", "prepared") => rows[n].order <= rows[m].order
      BY <1>4 DEF WithStatus, At
    <3> QED BY <1>2, <2>1, <3>1, <3>2 DEF Steady
  <2>6. \A m \in DOMAIN rows : StageOf(rows[m]) \in {"ready", "confirmed"}
    BY <1>2 DEF Steady
  <2>7. StageOf(rows[n]) = "ready"
    BY <1>2, <2>1
  <2>8. /\ \A m \in DOMAIN rows : m # n => new[m] = rows[m]
        /\ DOMAIN new = DOMAIN rows /\ new[n].order = rows[n].order
    BY <2>2 DEF ActivatedAt
  <2>9. AdvanceRows(old, new, FALSE)
    <3> HIDE DEF old
    <3>1. SameChain(old, rows) /\ \A m \in DOMAIN rows : StageOf(rows[m]) # StageOf(old[m]) =>
              <<StageOf(old[m]), StageOf(rows[m])>> \in {<<"held", "ready">>, <<"told", "confirmed">>}
      BY DEF old
    <3>2. SameChain(old, new)
      BY <2>8, <3>1 DEF SameChain
    <3>3. \A m \in DOMAIN old : m # n /\ StageOf(new[m]) # StageOf(old[m]) =>
             <<StageOf(old[m]), StageOf(new[m])>> \in {<<"held", "ready">>, <<"told", "confirmed">>}
      BY <2>8, <3>1 DEF SameChain
    <3>4. StageOf(old[n]) \in {"held", "ready"}
      BY <2>1, <2>7, <3>1
    <3>5. \A m \in DOMAIN old : /\ StageOf(new[m]) # "held"
                                /\ old[m].order < old[n].order => StageOf(new[m]) = "confirmed"
      BY <2>1, <2>4, <2>5, <2>6, <2>8, <3>1, OrdersAreNatural DEF SameChain
    <3> QED BY <2>1, <2>4, <3>2, <3>3, <3>4, <3>5 DEF AdvanceRows, SameChain
  <2> QED BY <1>1, <2>3, <2>9, AdvanceStep, Verdicts
<1> QED BY <1>3, <1>4 DEF ActivateNextApply

\* What happens to the rows before activateNext(rollback=true) looks at them.
Retreats(rows, queued) ==
    /\ SameChain(rows, queued)
    /\ \A n \in DOMAIN rows :
          \/ StageOf(queued[n]) = StageOf(rows[n])
          \/ /\ StageOf(rows[n]) \in {"told", "confirmed", "recalled"}
             /\ StageOf(queued[n]) = "recalled"

LEMMA RollbackStep ==
    ASSUME TypeOK, TypeOK', NEW r \in ReleaseId, NEW rows, OverChain(rows, ReleaseNode),
           Withdrawing(rows), ActivateNextRollback(r, rows),
           VerdictOf(releaseStatus[r]) \in {"open", "stopped"}, Retreats(releaseNodes[r], rows)
    PROVE  Rollout!Step(r)
<1> DEFINE old == releaseNodes[r]
<1>1. releaseStatus'[r] \in ReleaseStatus /\ ReleasesOK
  BY DEF TypeOK, ReleasesOK
<1>2. CASE Finish(r, rows, "rolled_back")
  <2>1. releaseNodes'[r] = rows /\ releaseStatus'[r] = "rolled_back"
    BY <1>1, <1>2 DEF Finish, ReleasesOK
  <2>2. WithdrawRows(old, rows)
    <3> HIDE DEF old
    <3>1. Retreats(old, rows)
      BY DEF old
    <3> QED BY <3>1 DEF Retreats, WithdrawRows
  <2> QED BY <1>1, <2>1, <2>2, WithdrawStep, Verdicts
<1>3. ASSUME NEW n \in WithStatus(rows, "rollback_pending"), NEW topology, NEW g,
             \A m \in WithStatus(rows, "rollback_pending") : rows[n].order >= rows[m].order,
             Activate(r, rows, n, "rollback", topology, g),
             releaseStatus' = [releaseStatus EXCEPT ![r] = "rolling_back"]
      PROVE  Rollout!Step(r)
  <2>1. n \in DOMAIN rows /\ At(rows[n], "apply", "rollback_pending")
    BY <1>3 DEF WithStatus, Withdrawing, RowOK, At
  <2>2. PICK new : /\ releaseNodes' = [releaseNodes EXCEPT ![r] = new]
                   /\ ActivatedAt(rows, new, n, "rollback")
    BY <1>1, <1>3, <2>1, ActivateRows
  <2>3. releaseNodes'[r] = new /\ releaseStatus'[r] = "rolling_back"
    BY <1>1, <1>3, <2>2 DEF ReleasesOK
  <2>4. StageOf(new[n]) = "withdrawn" /\ StageOf(rows[n]) = "recalled"
    BY <2>1, <2>2, Stages DEF ActivatedAt, RowOK, At
  <2>5. \A m \in DOMAIN rows : rows[m].order \in Nat
    BY OrdersAreNatural
  <2>6. \A m \in DOMAIN rows : rows[m].order > rows[n].order =>
           StageOf(rows[m]) \notin {"told", "confirmed", "recalled"}
    <3>1. \A m \in DOMAIN rows : rows[m].order > rows[n].order => rows[m].phase # "apply"
      BY <1>3, <2>1, <2>5 DEF Withdrawing, WithStatus
    <3>2. \A m \in DOMAIN rows : RowOK(rows[m]) /\ rows[m].phase # "apply" =>
             StageOf(rows[m]) \in {"held", "ready", "withdrawn"}
      BY Stages DEF RowOK
    <3> QED BY <3>1, <3>2 DEF Withdrawing
  <2>7. /\ \A m \in DOMAIN rows : m # n => new[m] = rows[m]
        /\ DOMAIN new = DOMAIN rows /\ new[n].order = rows[n].order
    BY <2>2 DEF ActivatedAt
  <2>8. WithdrawRows(old, new)
    <3> HIDE DEF old
    <3>1. Retreats(old, rows)
      BY DEF old
    <3>2. SameChain(old, new)
      BY <2>7, <3>1 DEF Retreats, SameChain
    <3>3. StageOf(old[n]) \in {"told", "confirmed", "recalled"}
      BY <2>1, <2>4, <3>1 DEF Retreats, SameChain
    <3>4. \A m \in DOMAIN old : old[m].order > old[n].order =>
             StageOf(new[m]) \notin {"told", "confirmed", "recalled"}
      BY <2>1, <2>5, <2>6, <2>7, <3>1 DEF Retreats, SameChain
    <3>5. \A m \in DOMAIN old : m # n /\ StageOf(new[m]) # StageOf(old[m]) =>
             StageOf(old[m]) \in {"told", "confirmed", "recalled"} /\ StageOf(new[m]) = "recalled"
      BY <2>7, <3>1 DEF Retreats, SameChain
    <3> QED BY <2>4, <3>2, <3>3, <3>4, <3>5 DEF WithdrawRows
  <2> QED BY <1>1, <2>3, <2>8, WithdrawStep, Verdicts
<1> QED BY <1>2, <1>3 DEF ActivateNextRollback

-----------------------------------------------------------------------------
(* Acknowledgements *)

\* A transaction on one release is no step of another one.
LEMMA OtherReleaseIdles ==
    ASSUME ReleasesOK, NEW q \in ReleaseId, NEW r \in ReleaseId, r # q, NEW rows,
           \/ ActivateNextApply(q, rows) \/ ActivateNextRollback(q, rows)
           \/ \E terminal : Finish(q, rows, terminal)
           \/ UNCHANGED releaseStatus /\ releaseNodes' = [releaseNodes EXCEPT ![q] = rows]
           \/ UNCHANGED releaseNodes /\ \E s : releaseStatus' = [releaseStatus EXCEPT ![q] = s]
    PROVE  Rollout!Step(r)
<1>1. releaseNodes'[r] = releaseNodes[r] /\ releaseStatus'[r] = releaseStatus[r]
  BY DEF ReleasesOK, ActivateNextApply, ActivateNextRollback, Activate, Finish
<1> QED BY <1>1, IdleStep

\* beginRollback's UPDATE only takes back what was switched.
LEMMA QueuedRetreats ==
    ASSUME NEW rows, OverChain(rows, ReleaseNode),
           \A n \in DOMAIN rows : RowOK(rows[n]) \/ At(rows[n], "apply", "failed")
    PROVE  Retreats(rows, Queued(rows))
<1>1. ASSUME NEW n \in DOMAIN rows
      PROVE  /\ Queued(rows)[n].order = rows[n].order
             /\ \/ StageOf(Queued(rows)[n]) = StageOf(rows[n])
                \/ /\ StageOf(rows[n]) \in {"told", "confirmed", "recalled"}
                   /\ StageOf(Queued(rows)[n]) = "recalled"
  <2>1. rows[n] \in ReleaseNode
    BY DEF OverChain
  <2>2. CASE rows[n].phase = "apply" /\ rows[n].status \in {"active", "applied", "failed"}
    <3> DEFINE row == [rows[n] EXCEPT !.status = "rollback_pending"]
    <3>1. Queued(rows)[n] = row /\ row.order = rows[n].order
      BY <2>1, <2>2 DEF Queued, ReleaseNode
    <3>2. At(row, "apply", "rollback_pending")
      BY <2>1, <2>2 DEF At, ReleaseNode
    <3>3. StageOf(rows[n]) \in {"told", "confirmed", "recalled"}
      BY <2>2, Stages
    <3>4. StageOf(row) = "recalled"
      BY <3>2, Stages DEF RowOK, At
    <3> QED BY <3>1, <3>3, <3>4
  <2>3. CASE ~(rows[n].phase = "apply" /\ rows[n].status \in {"active", "applied", "failed"})
    BY <2>3 DEF Queued
  <2> QED BY <2>2, <2>3
<1> QED BY <1>1 DEF Retreats, SameChain, Queued

LEMMA AcknowledgeStep ==
    ASSUME IInv, TypeOK', NEW d \in documents, Acknowledge(d), NEW r \in ReleaseId
    PROVE  Rollout!Step(r)
<1> DEFINE rows == releaseNodes[d.release]
           release == releaseStatus[d.release]
           new(status) == Acknowledged(d, status)
<1>1. /\ TypeOK /\ ReleasesOK /\ d \in Document /\ d.release \in ReleaseId
      /\ d.node \in DOMAIN rows
  BY DEF IInv, TypeOK, WireOK, Document, DocumentsKnown
<1>2. Gapless(rows) /\ (\A n \in DOMAIN rows : RowOK(rows[n])) /\ Fits(release, rows)
  BY <1>1 DEF IInv, Shaped, Shape
<1>3. /\ "prepared" \in NodeStatus /\ "applied" \in NodeStatus
      /\ "rolled_back" \in NodeStatus /\ "failed" \in NodeStatus
  BY DEF NodeStatus
<1>4. ASSUME NEW status \in NodeStatus
      PROVE  /\ OverChain(new(status), ReleaseNode) /\ SameChain(rows, new(status))
             /\ Gapless(new(status))
             /\ new(status)[d.node].status = status
             /\ \A m \in DOMAIN rows :
                   /\ new(status)[m].phase = rows[m].phase
                   /\ m # d.node => new(status)[m] = rows[m]
  <2>1. /\ OverChain(new(status), ReleaseNode) /\ DOMAIN new(status) = DOMAIN rows
        /\ new(status)[d.node].status = status
        /\ \A m \in DOMAIN rows :
              /\ new(status)[m].phase = rows[m].phase /\ new(status)[m].order = rows[m].order
              /\ m # d.node => new(status)[m] = rows[m]
    BY <1>1, AcknowledgedIsTyped, AcknowledgedRows
  <2> HIDE DEF rows, new
  <2> QED BY <1>2, <2>1 DEF SameChain, Gapless
<1>5. ASSUME NEW status, Accepted(d, status)
      PROVE  /\ rows[d.node].phase = d.phase /\ rows[d.node].status # status
             /\ release \in {"preparing", "applying", "rolling_back"}
             /\ d.phase = "prepare" /\ status = "prepared" => release # "applying"
             /\ d.phase = "apply" => release = "applying" /\ WorkingAt(rows, d.node)
             /\ d.phase = "rollback" => release = "rolling_back"
  BY <1>1, <1>5, AcceptedShape DEF IInv
<1>6. /\ VerdictOf("preparing") = "open" /\ VerdictOf("applying") = "open"
      /\ VerdictOf("rolling_back") = "stopped" /\ VerdictOf("failed") = "stopped"
      /\ VerdictOf("manual_required") = "stopped"
  BY DEF VerdictOf
<1>7. CASE r # d.release
  <2>1. CASE AckPrepared(d) \/ AckApplied(d) \/ AckRolledBack(d)
    BY <1>1, <1>7, <2>1, OtherReleaseIdles DEF AckPrepared, AckApplied, AckRolledBack
  <2>2. CASE AckPrepareFailed(d) \/ AckApplyFailed(d) \/ AckRollbackFailed(d)
    BY <1>1, <1>7, <2>2, OtherReleaseIdles
       DEF AckPrepareFailed, AckApplyFailed, AckRollbackFailed, BeginRollback
  <2>3. CASE \E status \in {Done(d.phase), "failed"} : AckDrifted(d, status)
    BY <1>1, <1>7, <2>3, OtherReleaseIdles DEF AckDrifted
  <2> QED BY <2>1, <2>2, <2>3 DEF Acknowledge
<1>8. CASE r = d.release /\ AckPrepared(d)
  <2>1. Accepted(d, "prepared") /\ d.phase = "prepare"
    BY <1>8 DEF AckPrepared
  <2>2. /\ rows[d.node].phase = "prepare" /\ rows[d.node].status # "prepared"
        /\ release \in {"preparing", "rolling_back"}
    BY <1>5, <2>1
  <2> DEFINE acked == new("prepared")
  <2>3. /\ OverChain(acked, ReleaseNode) /\ SameChain(rows, acked) /\ Gapless(acked)
        /\ At(acked[d.node], "prepare", "prepared")
        /\ \A m \in DOMAIN rows : m # d.node => acked[m] = rows[m]
    BY <1>1, <1>3, <1>4, <2>2 DEF At
  <2> HIDE DEF rows, acked, release
  <2>4. StageOf(rows[d.node]) = "held" /\ StageOf(acked[d.node]) = "ready"
    BY <1>1, <1>2, <2>2, <2>3, Stages DEF RowOK, At
  <2>5. \A n \in DOMAIN rows : StageOf(acked[n]) # StageOf(rows[n]) =>
           StageOf(rows[n]) = "held" /\ StageOf(acked[n]) = "ready"
    BY <2>3, <2>4
  <2>6. CASE WithStatus(acked, "prepared") = DOMAIN acked /\ ActivateNextApply(r, acked)
    <3>1. \A n \in DOMAIN rows : At(acked[n], "prepare", "prepared")
      <4>1. \A n \in DOMAIN rows : acked[n].status = "prepared"
        BY <2>3, <2>6 DEF WithStatus, SameChain
      <4> QED BY <1>2, <2>3, <4>1 DEF RowOK, At
    <3>2. Steady(acked)
      BY <2>3, <3>1 DEF Steady, SameChain
    <3>3. release = "preparing"
      BY <1>2, <2>2, <2>3, <3>1 DEF Fits, At
    <3>4. \A n \in DOMAIN acked : StageOf(acked[n]) # StageOf(rows[n]) =>
             <<StageOf(rows[n]), StageOf(acked[n])>> \in {<<"held", "ready">>, <<"told", "confirmed">>}
      BY <2>3, <2>5 DEF SameChain
    <3>5. /\ VerdictOf(releaseStatus[r]) = "open" /\ releaseNodes[r] = rows
      BY <1>6, <1>8, <3>3 DEF rows, release
    <3> QED BY <1>1, <2>3, <2>6, <3>2, <3>4, <3>5, ApplyStep
  <2>7. CASE releaseNodes' = [releaseNodes EXCEPT ![r] = acked] /\ UNCHANGED releaseStatus
    <3>1. /\ releaseNodes[r] = rows /\ releaseNodes'[r] = acked
          /\ releaseStatus[r] = release /\ releaseStatus'[r] = release
      BY <1>1, <1>8, <2>7 DEF ReleasesOK, rows, release
    <3>2. release \in ReleaseStatus
      BY <1>1, <1>8 DEF ReleasesOK, release
    <3>3. CASE release = "preparing"
      <4>1. AdvanceRows(rows, acked, FALSE)
        BY <2>3, <2>5 DEF AdvanceRows
      <4> QED BY <1>6, <3>1, <3>2, <3>3, <4>1, AdvanceStep
    <3>4. CASE release = "rolling_back"
      <4>1. WithdrawRows(rows, acked)
        BY <2>3, <2>5 DEF WithdrawRows
      <4> QED BY <1>6, <3>1, <3>4, <4>1, WithdrawStep
    <3> QED BY <2>2, <3>3, <3>4
  <2> QED BY <1>8, <2>6, <2>7 DEF AckPrepared, rows, acked
<1>9. CASE r = d.release /\ AckApplied(d)
  <2>1. Accepted(d, "applied") /\ d.phase = "apply" /\ ActivateNextApply(r, new("applied"))
    BY <1>9 DEF AckApplied
  <2>2. release = "applying" /\ WorkingAt(rows, d.node)
    BY <1>5, <2>1
  <2> DEFINE acked == new("applied")
  <2>3. /\ OverChain(acked, ReleaseNode) /\ SameChain(rows, acked) /\ Gapless(acked)
        /\ acked[d.node].phase = rows[d.node].phase /\ acked[d.node].status = "applied"
        /\ \A m \in DOMAIN rows : m # d.node => acked[m] = rows[m]
    BY <1>1, <1>3, <1>4
  <2>4. \A m \in DOMAIN rows : rows[m].order \in Nat
    BY <1>1, OrdersAreNatural DEF ReleasesOK
  <2> HIDE DEF rows, acked, release
  <2>5. At(rows[d.node], "apply", "active") /\ At(acked[d.node], "apply", "applied")
    BY <2>2, <2>3 DEF WorkingAt, At
  <2>6. StageOf(rows[d.node]) = "told" /\ StageOf(acked[d.node]) = "confirmed"
    BY <2>5, Stages DEF RowOK, At
  <2>7. Steady(acked)
    <3>1. ASSUME NEW n \in DOMAIN rows, n # d.node
          PROVE  At(acked[n], "apply", "applied") \/ At(acked[n], "prepare", "prepared")
      <4>1. rows[n].order < rows[d.node].order \/ rows[d.node].order < rows[n].order
        BY <1>1, <1>2, <2>4, <3>1 DEF Gapless
      <4> QED BY <2>2, <2>3, <3>1, <4>1 DEF WorkingAt
    <3> QED BY <2>3, <2>5, <3>1 DEF Steady, SameChain
  <2>8. \A n \in DOMAIN acked : StageOf(acked[n]) # StageOf(rows[n]) =>
           <<StageOf(rows[n]), StageOf(acked[n])>> \in {<<"held", "ready">>, <<"told", "confirmed">>}
    BY <2>3, <2>6 DEF SameChain
  <2>9. VerdictOf(releaseStatus[r]) = "open" /\ releaseNodes[r] = rows /\ ActivateNextApply(r, acked)
    BY <1>6, <1>9, <2>1, <2>2 DEF rows, release, acked
  <2> QED BY <1>1, <2>3, <2>7, <2>8, <2>9, ApplyStep
<1>10. CASE r = d.release /\ AckRolledBack(d)
  <2>1. /\ Accepted(d, "rolled_back") /\ d.phase = "rollback"
        /\ ActivateNextRollback(r, new("rolled_back"))
    BY <1>10 DEF AckRolledBack
  <2>2. release = "rolling_back" /\ rows[d.node].phase = "rollback"
    BY <1>5, <2>1
  <2> DEFINE acked == new("rolled_back")
  <2>3. /\ OverChain(acked, ReleaseNode) /\ SameChain(rows, acked)
        /\ acked[d.node].phase = "rollback" /\ acked[d.node].status = "rolled_back"
        /\ \A m \in DOMAIN rows : m # d.node => acked[m] = rows[m]
    BY <1>1, <1>3, <1>4, <2>2
  <2> HIDE DEF rows, acked, release
  <2>4. Withdrawing(acked)
    BY <1>2, <2>2, <2>3 DEF Withdrawing, SameChain, RowOK, Fits
  <2>5. StageOf(rows[d.node]) = "withdrawn" /\ StageOf(acked[d.node]) = "withdrawn"
    BY <1>1, <1>2, <2>2, <2>3, Stages DEF RowOK
  <2>6. Retreats(rows, acked)
    BY <2>3, <2>5 DEF Retreats
  <2>7. /\ VerdictOf(releaseStatus[r]) = "stopped" /\ releaseNodes[r] = rows
        /\ ActivateNextRollback(r, acked)
    BY <1>6, <1>10, <2>1, <2>2 DEF rows, release, acked
  <2> QED BY <1>1, <2>3, <2>4, <2>6, <2>7, RollbackStep
<1>11. CASE r = d.release /\ (AckPrepareFailed(d) \/ AckRollbackFailed(d))
  <2> DEFINE acked == new("failed")
  <2>1. PICK terminal \in {"failed", "manual_required"} :
           Accepted(d, "failed") /\ d.phase # "apply" /\ Finish(r, acked, terminal)
    BY <1>11 DEF AckPrepareFailed, AckRollbackFailed
  <2>2. rows[d.node].phase # "apply" /\ release \in {"preparing", "applying", "rolling_back"}
    BY <1>5, <2>1
  <2>3. /\ SameChain(rows, acked)
        /\ acked[d.node].phase = rows[d.node].phase /\ acked[d.node].status = "failed"
        /\ \A m \in DOMAIN rows : m # d.node => acked[m] = rows[m]
    BY <1>1, <1>3, <1>4
  <2>4. /\ releaseNodes[r] = rows /\ releaseNodes'[r] = acked
        /\ releaseStatus[r] = release /\ releaseStatus'[r] = terminal /\ terminal \in ReleaseStatus
    BY <1>1, <1>11, <2>1 DEF ReleasesOK, Finish, ReleaseStatus, Busy
  <2> HIDE DEF rows, acked, release
  <2>5. \/ StageOf(acked[d.node]) = StageOf(rows[d.node])
        \/ StageOf(rows[d.node]) = "ready" /\ StageOf(acked[d.node]) = "held"
    <3>1. RowOK(rows[d.node]) /\ RowOK(acked[d.node])
      BY <1>1, <1>2, <2>2, <2>3 DEF RowOK
    <3> QED BY <2>2, <2>3, <3>1, Stages DEF RowOK
  <2>6. AdvanceRows(rows, acked, FALSE) /\ WithdrawRows(rows, acked)
    BY <2>3, <2>5 DEF AdvanceRows, WithdrawRows
  <2>7. VerdictOf(terminal) = "stopped" /\ terminal # "succeeded"
    BY <1>6, <2>1
  <2> QED BY <1>6, <2>2, <2>4, <2>6, <2>7, AdvanceStep, WithdrawStep
<1>12. CASE r = d.release /\ AckApplyFailed(d)
  <2> DEFINE acked == new("failed")
  <2>1. Accepted(d, "failed") /\ d.phase = "apply" /\ ActivateNextRollback(r, Queued(acked))
    BY <1>12 DEF AckApplyFailed, BeginRollback, Queued
  <2>2. release = "applying" /\ At(rows[d.node], "apply", "active")
    BY <1>5, <2>1 DEF WorkingAt
  <2>3. /\ OverChain(acked, ReleaseNode) /\ SameChain(rows, acked) /\ Gapless(acked)
        /\ acked[d.node].phase = rows[d.node].phase /\ acked[d.node].status = "failed"
        /\ \A m \in DOMAIN rows : m # d.node => acked[m] = rows[m]
    BY <1>1, <1>3, <1>4
  <2>4. /\ VerdictOf(releaseStatus[r]) = "open" /\ releaseNodes[r] = rows
    BY <1>6, <1>12, <2>2
  <2> HIDE DEF rows, acked, release
  <2>5. At(acked[d.node], "apply", "failed")
    BY <2>2, <2>3 DEF At
  <2>6. \A n \in DOMAIN acked : RowOK(acked[n]) \/ At(acked[n], "apply", "failed")
    BY <1>2, <2>3, <2>5 DEF SameChain
  <2>7. StageOf(rows[d.node]) = "told" /\ StageOf(acked[d.node]) = "recalled"
    BY <2>2, <2>5, Stages DEF RowOK, At
  <2>8. Retreats(rows, Queued(acked))
    <3>1. Retreats(acked, Queued(acked))
      BY <2>3, <2>6, QueuedRetreats
    <3>2. Retreats(rows, acked)
      BY <2>3, <2>7 DEF Retreats
    <3> QED BY <3>1, <3>2 DEF Retreats, SameChain
  <2>9. OverChain(Queued(acked), ReleaseNode) /\ Withdrawing(Queued(acked))
    BY <2>3, <2>6, QueuedTyped, QueuedShape
  <2> QED BY <1>1, <2>1, <2>4, <2>8, <2>9, RollbackStep
<1>13. CASE r = d.release /\ \E status \in {Done(d.phase), "failed"} : AckDrifted(d, status)
  <2>1. /\ releaseNodes'[r] = releaseNodes[r] /\ releaseStatus'[r] = "manual_required"
        /\ releaseStatus[r] \in {"preparing", "applying", "rolling_back"}
    BY <1>1, <1>13 DEF AckDrifted, Acceptable, ReleasesOK
  <2> QED BY <1>1, <2>1, StopStep
<1> QED
  BY <1>7, <1>8, <1>9, <1>10, <1>11, <1>12, <1>13 DEF Acknowledge

-----------------------------------------------------------------------------
(* Every other step *)

LEMMA CreateStep ==
    ASSUME IInv, TypeOK', NEW root \in Root, NEW q \in ReleaseId,
           CreateTopologyRelease(root, q), NEW r \in ReleaseId
    PROVE  Rollout!Step(r)
<1> DEFINE chain == DOMAIN preview[root].generation
           rows == [n \in chain |-> NewReleaseNode(root, n)]
<1>1. ReleasesOK /\ releaseNodes' = [releaseNodes EXCEPT ![q] = rows]
      /\ releaseStatus' = [releaseStatus EXCEPT ![q] = "preparing"]
  BY DEF IInv, TypeOK, CreateTopologyRelease
<1>2. CASE r # q
  BY <1>1, <1>2, IdleStep DEF ReleasesOK
<1>3. CASE r = q
  <2>1. releaseStatus[r] = "absent"
    BY <1>3 DEF CreateTopologyRelease
  <2>2. releaseNodes'[r] = rows /\ releaseStatus'[r] = "preparing"
    BY <1>1, <1>3 DEF ReleasesOK
  <2>3. \A n \in chain : rows[n].phase = "prepare" /\ rows[n].status = "pending"
    BY DEF NewReleaseNode
  <2>4. DOMAIN rows = chain
    OBVIOUS
  <2>5. DOMAIN rows \subseteq Node
    BY <2>2 DEF TypeOK, ReleasesOK, OverChain
  <2> HIDE DEF rows, chain
  <2>6. \A n \in DOMAIN rows : StageOf(rows[n]) = "held"
    BY <2>3, <2>4, Stages DEF RowOK
  <2>7. Rollout!Start(r)
    BY <2>1, <2>2, <2>5, <2>6, Verdicts DEF Rollout!Start, Rollout!Chain
  <2> QED BY <2>7 DEF Rollout!Step
<1> QED BY <1>2, <1>3

LEMMA RollbackReleaseStep ==
    ASSUME IInv, TypeOK', NEW q \in ReleaseId, RollbackRelease(q), NEW r \in ReleaseId
    PROVE  Rollout!Step(r)
<1>1. TypeOK /\ ReleasesOK /\ ActivateNextRollback(q, Queued(releaseNodes[q]))
  BY DEF IInv, TypeOK, RollbackRelease, BeginRollback, Queued
<1>2. CASE r # q
  BY <1>1, <1>2, OtherReleaseIdles
<1>3. CASE r = q
  <2>1. OverChain(releaseNodes[r], ReleaseNode) /\ Shape(releaseStatus[r], releaseNodes[r])
    BY <1>1 DEF IInv, Shaped, ReleasesOK
  <2>2. Retreats(releaseNodes[r], Queued(releaseNodes[r]))
    BY <2>1, QueuedRetreats DEF Shape
  <2>3. OverChain(Queued(releaseNodes[r]), ReleaseNode) /\ Withdrawing(Queued(releaseNodes[r]))
    BY <2>1, QueuedTyped, QueuedShape DEF Shape
  <2>4. VerdictOf(releaseStatus[r]) = "stopped"
    BY <1>3 DEF RollbackRelease, VerdictOf
  <2> QED BY <1>1, <1>3, <2>2, <2>3, <2>4, RollbackStep
<1> QED BY <1>2, <1>3

\* Time-outs, revocations and drift reports stop releases, and nothing else.
LEMMA StoppingStep ==
    ASSUME IInv, TypeOK', NEW r \in ReleaseId,
           \/ InvalidateTopologyAuthorization
           \/ Recover
           \/ \E c \in serving : ReportDrift(c)
    PROVE  Rollout!Step(r)
<1>1. TypeOK /\ ReleasesOK
  BY DEF IInv, TypeOK
<1>2. releaseNodes'[r] = releaseNodes[r]
  BY DEF InvalidateTopologyAuthorization, Recover, RecoverReleases, ReportDrift
<1>3. CASE InvalidateTopologyAuthorization
  <2>1. \/ releaseStatus'[r] = releaseStatus[r]
        \/ releaseStatus[r] # "absent" /\ releaseStatus'[r] \in {"failed", "manual_required"}
    BY <1>3 DEF InvalidateTopologyAuthorization, Driving
  <2> QED BY <1>1, <1>2, <2>1, StopStep
<1>4. CASE Recover
  <2>1. \/ releaseStatus'[r] = releaseStatus[r]
        \/ releaseStatus[r] # "absent" /\ releaseStatus'[r] \in {"failed", "manual_required"}
    BY <1>4 DEF Recover, RecoverReleases, Overdue, Driving
  <2> QED BY <1>1, <1>2, <2>1, StopStep
<1>5. CASE \E c \in serving : ReportDrift(c)
  <2>1. PICK c \in serving : ReportDrift(c)
    BY <1>5
  <2>2. c.release \in ReleaseId /\ c.node \in DOMAIN releaseNodes[c.release]
    BY <1>1 DEF IInv, TypeOK, WireOK, Call, DocumentsKnown
  <2>3. releaseStatus[c.release] # "absent"
    BY <2>2 DEF IInv, Shaped, Shape, Fits
  <2>4. \/ releaseStatus'[r] = releaseStatus[r]
        \/ releaseStatus[r] # "absent" /\ releaseStatus'[r] = "manual_required"
    BY <1>1, <2>1, <2>2, <2>3 DEF ReportDrift, ReleasesOK
  <2> QED BY <1>1, <1>2, <2>4, StopStep
<1> QED BY <1>3, <1>4, <1>5

LEMMA NextStep ==
    ASSUME IInv, TypeOK', Next, NEW r \in ReleaseId
    PROVE  Rollout!Step(r)
<1>1. CASE \E root \in Root, q \in ReleaseId : CreateTopologyRelease(root, q)
  BY <1>1, CreateStep
<1>2. CASE \E q \in ReleaseId : RollbackRelease(q)
  BY <1>2, RollbackReleaseStep
<1>3. CASE \E d \in documents : Acknowledge(d)
  BY <1>3, AcknowledgeStep
<1>4. CASE \/ InvalidateTopologyAuthorization \/ Recover
           \/ \E c \in serving : ReportDrift(c)
  BY <1>4, StoppingStep
<1>5. CASE \/ \E changed \in SUBSET Node : SaveGraph(changed)
           \/ \E n \in Node : UpdateNode(n) \/ UpdateInbound(n) \/ CredentialDrift(n)
           \/ ChangeInbounds
           \/ \E root \in Root : PreviewSnapshot(root) \/ PreviewExpire(root) \/ SavePreview(root)
           \/ \E n \in Node : DeployPreview(n)
           \/ \E s \in previewing : PreviewSave(s)
           \/ \E q \in ReleaseId, n \in Node : GetAgentDeployment(q, n) \/ ReadDeployment(q, n)
           \/ \E c \in serving : RenderDocument(c) \/ OutdateNode(c)
  <2>1. UNCHANGED releaseVars
    BY <1>5 DEF SaveGraph, UpdateNode, UpdateInbound, CredentialDrift, ChangeInbounds,
                PreviewSnapshot, PreviewExpire, SavePreview, DeployPreview, PreviewSave, GetAgentDeployment,
                ReadDeployment, RenderDocument, OutdateNode
  <2> QED BY <2>1, IdleStep DEF releaseVars
<1> QED BY <1>1, <1>2, <1>3, <1>4, <1>5, ChainAssumption DEF Next, Administer, Serve

-----------------------------------------------------------------------------
(* Theorems *)

\* Whatever is acknowledged, timed out, revoked or rolled back in whatever order,
\* a topology release is a staged rollout of its chain.
THEOREM Implementation == Spec => ImplementsStagedRollout
<1>1. Init => Rollout!Init
  <2> SUFFICES ASSUME Init PROVE Rollout!Init
    OBVIOUS
  <2>1. \A r \in ReleaseId : releaseStatus[r] = "absent" /\ DOMAIN releaseNodes[r] = {}
    BY DEF Init, NoNode
  <2> QED BY <2>1, Verdicts DEF Rollout!Init, Rollout!Chain
<1>2. IInv /\ IInv' /\ [Next]_vars => [Rollout!Next]_(Rollout!vars)
  <2> SUFFICES ASSUME IInv, IInv', [Next]_vars PROVE [Rollout!Next]_(Rollout!vars)
    OBVIOUS
  <2>1. CASE Next
    BY <2>1, NextStep DEF IInv, Rollout!Next
  <2>2. CASE UNCHANGED vars
    BY <2>2 DEF vars, releaseVars, Rollout!vars
  <2> QED BY <2>1, <2>2
<1> QED BY <1>1, <1>2, Invariance, PTL DEF Spec, ImplementsStagedRollout, Rollout!Spec

\* No late acknowledgement, timeout or revocation moves a release that is over.
THEOREM OverIsOver == Spec => TerminalIsFinal
<1> DEFINE A == \A r \in ReleaseId :
          releaseStatus[r] \in {"succeeded", "failed", "rolled_back"} =>
             \/ releaseStatus'[r] = releaseStatus[r] \/ DriftReported(r)
             \/ releaseStatus[r] = "failed" /\ RollbackRelease(r)
<1>1. IInv /\ [Next]_vars => [A]_vars
  <2> SUFFICES ASSUME IInv, Next, NEW r \in ReleaseId,
                      releaseStatus[r] \in {"succeeded", "failed", "rolled_back"},
                      releaseStatus'[r] # releaseStatus[r]
               PROVE  DriftReported(r) \/ (releaseStatus[r] = "failed" /\ RollbackRelease(r))
    OBVIOUS
  <2>1. ReleasesOK /\ \A d \in documents : d.release \in ReleaseId
    BY DEF IInv, TypeOK, WireOK, Document
  <2>2. CASE \E q \in ReleaseId : RollbackRelease(q)
    <3>1. PICK q \in ReleaseId : RollbackRelease(q)
      BY <2>2
    <3>2. \E s : releaseStatus' = [releaseStatus EXCEPT ![q] = s]
      BY <3>1 DEF RollbackRelease, BeginRollback, ActivateNextRollback, Finish
    <3>3. q = r
      BY <2>1, <3>2 DEF ReleasesOK
    <3>4. releaseStatus[r] \in {"failed", "manual_required"}
      BY <3>1, <3>3 DEF RollbackRelease
    <3> QED BY <3>1, <3>3, <3>4
  <2>3. CASE \E c \in serving : ReportDrift(c)
    <3>1. PICK c \in serving : ReportDrift(c)
      BY <2>3
    <3>2. [c EXCEPT !.step = "outdate"].step = "outdate"
      BY DEF IInv, TypeOK, WireOK, Call
    <3>3. c \notin serving' /\ c.step = "report"
      BY <3>1, <3>2 DEF ReportDrift
    <3> QED BY <2>1, <3>1, <3>3 DEF ReportDrift, DriftReported, ReleasesOK
  <2>4. CASE \E d \in documents : Acknowledge(d)
    <3>1. PICK d \in documents : Acknowledge(d)
      BY <2>4
    <3>2. releaseStatus[d.release] \in {"preparing", "applying", "rolling_back"}
      BY <3>1 DEF Acknowledge, AckPrepared, AckApplied, AckRolledBack, AckPrepareFailed,
                  AckApplyFailed, AckRollbackFailed, AckDrifted, Accepted, Acceptable
    <3>3. releaseStatus'[r] = releaseStatus[r]
      BY <2>1, <3>1, <3>2
         DEF Acknowledge, AckPrepared, AckApplied, AckRolledBack, AckPrepareFailed,
             AckApplyFailed, AckRollbackFailed, AckDrifted, BeginRollback,
             ActivateNextApply, ActivateNextRollback, Finish, ReleasesOK
    <3> QED BY <3>3
  <2>5. CASE \/ InvalidateTopologyAuthorization \/ Recover
             \/ \E root \in Root, q \in ReleaseId : CreateTopologyRelease(root, q)
    BY <2>1, <2>5 DEF InvalidateTopologyAuthorization, Recover, RecoverReleases, Overdue,
                      Driving, CreateTopologyRelease, ReleasesOK
  <2>6. CASE \/ \E changed \in SUBSET Node : SaveGraph(changed)
             \/ \E n \in Node : UpdateNode(n) \/ UpdateInbound(n) \/ CredentialDrift(n)
             \/ ChangeInbounds
             \/ \E root \in Root : PreviewSnapshot(root) \/ PreviewExpire(root) \/ SavePreview(root)
             \/ \E n \in Node : DeployPreview(n)
             \/ \E s \in previewing : PreviewSave(s)
             \/ \E q \in ReleaseId, n \in Node : GetAgentDeployment(q, n) \/ ReadDeployment(q, n)
             \/ \E c \in serving : RenderDocument(c) \/ OutdateNode(c)
    BY <2>6 DEF SaveGraph, UpdateNode, UpdateInbound, CredentialDrift, ChangeInbounds,
                PreviewSnapshot, PreviewExpire, SavePreview, DeployPreview, PreviewSave, GetAgentDeployment,
                ReadDeployment, RenderDocument, OutdateNode, releaseVars
  <2> QED BY <2>2, <2>3, <2>4, <2>5, <2>6, ChainAssumption DEF Next, Administer, Serve
<1> QED BY <1>1, Invariance, PTL DEF Spec, TerminalIsFinal
=============================================================================

--------------------------- MODULE TopologyRelease ---------------------------
(***************************************************************************)
(* The panel's side of a topology release (repo/topology_release.go and    *)
(* its neighbours): an administrator previews a chain of nodes, turns the  *)
(* preview into a release, and the release is driven node by node through  *)
(* prepare, apply and, when a node fails, rollback.                        *)
(*                                                                         *)
(* One action is one database transaction, or one statement where the code *)
(* uses none.  Agents are the environment: a document once handed out is   *)
(* remembered in "documents", and it may be acknowledged at any later      *)
(* time, any number of times, with either verdict.  That covers delayed,   *)
(* duplicated, lost and retried acknowledgements.                          *)
(*                                                                         *)
(* Abstractions.  A topology is the pair of revisions it was resolved      *)
(* from.  A node's credentials are one number that stands for the rows the *)
(* runtime query selects.  A runtime version is the pair (topology,        *)
(* credentials) the document is hashed from.                               *)
(*                                                                         *)
(* Operators named Faulty... are not part of the model: each is a mistake  *)
(* that would break one of the properties, see README.md.                  *)
(***************************************************************************)
EXTENDS Naturals, FiniteSets

CONSTANTS
    Node,             \* the managed nodes
    Root,             \* the nodes an administrator previews
    Single,           \* the nodes also previewed and deployed on the older road
    ApplyOrder,       \* [graph revision -> [root -> [chain -> order]]]
    MaxReleases,      \* bound: release ids in use
    MaxGraph,         \* bound: graph revisions
    MaxMaterial,      \* bound: material revisions
    MaxCredential,    \* bound: credential values of a node
    MaxPreviewing,    \* bound: PreviewChain calls in flight
    MaxServing        \* bound: interrupted GetAgentDeployment calls

Revision == 0..MaxGraph
ReleaseId == 1..MaxReleases

(***************************************************************************)
(* DeploymentOrder numbers the nodes of a chain 0, 1, ... without a tie,   *)
(* and the chain previewed from a root contains it.                        *)
(***************************************************************************)
ASSUME BoundsAssumption ==
    /\ MaxReleases \in Nat /\ MaxGraph \in Nat /\ MaxMaterial \in Nat
    /\ MaxCredential \in Nat /\ MaxPreviewing \in Nat /\ MaxServing \in Nat
ASSUME ChainAssumption ==
    /\ Root \subseteq Node /\ Single \subseteq Node
    /\ \A g \in Revision, root \in Root :
          LET order == ApplyOrder[g][root]
          IN /\ DOMAIN order \subseteq Node /\ root \in DOMAIN order
             /\ \A m, n \in DOMAIN order :
                   order[m] \in Nat /\ (order[m] = order[n] => m = n)

VARIABLES
    graphRevision,    \* topology_material_state.graph_revision
    materialRevision, \* topology_material_state.revision
    generation,       \* nodes.config_generation
    credential,       \* what the credential query of a node selects
    deployment,       \* topology_deployments: topology, release, generation
    previewing,       \* PreviewChain calls that have read the graph
    preview,          \* topology_previews, one row for each root
    releaseStatus,    \* topology_releases.status, "absent" before INSERT
    releaseNodes,     \* topology_release_nodes of a release
    documents,        \* documents GetAgentDeployment has returned
    serving           \* GetAgentDeployment calls between two statements

nodeVars == <<generation, credential, deployment>>
revisionVars == <<graphRevision, materialRevision>>
previewVars == <<previewing, preview>>
releaseVars == <<releaseStatus, releaseNodes>>
wireVars == <<documents, serving>>
vars == <<revisionVars, nodeVars, previewVars, releaseVars, wireVars>>

-----------------------------------------------------------------------------
(* Data *)

Empty == << >>                    \* no deployment, or one without inbounds
Topology == {Empty} \cup (Nat \X Nat)
Chain(g, root) == DOMAIN ApplyOrder[g][root]

Driving == {"preparing", "ready", "applying", "rolling_back"}
Busy == Driving \cup {"manual_required"}
ReleaseStatus == Busy \cup {"absent", "succeeded", "failed", "rolled_back"}

Phase == {"prepare", "apply", "rollback"}
NodeStatus == {"pending", "prepared", "active", "applied", "failed",
               "rollback_pending", "rolled_back"}
Runtime == Topology \X Nat
ReleaseNode == [phase : Phase, status : NodeStatus, order : Nat,
                expectedGeneration : Nat, expectedRuntime : Runtime,
                candidate : Topology, candidateRuntime : Runtime,
                previous : Topology]
Document == [release : ReleaseId, node : Node, phase : Phase,
             generation : Nat, runtime : Runtime]
Call == [release : ReleaseId, node : Node, phase : Phase,
         generation : Nat, topology : Topology, expected : Runtime,
         step : {"render", "report", "outdate"}]

NoNode == [n \in {} |-> 0]          \* the function without arguments
NoPreview ==
    [graph |-> 0, material |-> 0, stamp |-> 0, generation |-> NoNode, previous |-> NoNode]

\* f maps the nodes of some chain to S.
OverChain(f, S) == DOMAIN f \subseteq Node /\ f \in [DOMAIN f -> S]

\* The hash of the runtime document: without inbounds no credential is in it.
RuntimeVersion(topology, n) ==
    <<topology, IF topology = Empty THEN 0 ELSE credential[n]>>

\* The topology a row's document is rendered from.
RowTopology(row) == IF row.phase = "rollback" THEN row.previous ELSE row.candidate

OnRelease(n, statuses) ==
    \E r \in ReleaseId : releaseStatus[r] \in statuses /\ n \in DOMAIN releaseNodes[r]

RevisionsOK == graphRevision \in Revision /\ materialRevision \in 0..MaxMaterial

NodesOK ==
    /\ generation \in [Node -> Nat]
    /\ credential \in [Node -> 0..MaxCredential]
    /\ deployment \in [Node -> [topology : Topology,
                                release : ReleaseId \cup {0},
                                generation : Nat]]

\* What a preview has read fits the chain that its graph gives the root.
PreviewOK(p, root) ==
    /\ p.graph \in Revision /\ p.material \in Nat
    /\ OverChain(p.generation, Nat)
    /\ DOMAIN p.generation = Chain(p.graph, root)

PreviewsOK ==
    /\ \A s \in previewing : s.root \in Root /\ PreviewOK(s, s.root)
    /\ preview = [root \in Root |-> preview[root]]
    /\ \A root \in Root : preview[root] # NoPreview =>
          /\ PreviewOK(preview[root], root)
          /\ preview[root].stamp \in Nat
          /\ preview[root].previous \in [Chain(preview[root].graph, root) -> Topology]

ReleasesOK ==
    /\ releaseStatus \in [ReleaseId -> ReleaseStatus]
    /\ releaseNodes = [r \in ReleaseId |-> releaseNodes[r]]
    /\ \A r \in ReleaseId : OverChain(releaseNodes[r], ReleaseNode)

WireOK == documents \subseteq Document /\ serving \subseteq Call

TypeOK == RevisionsOK /\ NodesOK /\ PreviewsOK /\ ReleasesOK /\ WireOK

Init ==
    /\ graphRevision = 0
    /\ materialRevision = 0
    /\ generation = [n \in Node |-> 0]
    /\ credential = [n \in Node |-> 0]
    /\ deployment = [n \in Node |-> [topology |-> Empty, release |-> 0, generation |-> 0]]
    /\ previewing = {}
    /\ preview = [root \in Root |-> NoPreview]
    /\ releaseStatus = [r \in ReleaseId |-> "absent"]
    /\ releaseNodes = [r \in ReleaseId |-> NoNode]
    /\ documents = {}
    /\ serving = {}

-----------------------------------------------------------------------------
(* What changes under a release: the graph, the nodes, the credentials *)

\* SaveGraph refuses to touch a node that a release still holds.
SaveGraph(changed) ==
    /\ graphRevision < MaxGraph
    /\ \A n \in changed : ~OnRelease(n, Busy)
    /\ graphRevision' = graphRevision + 1
    /\ UNCHANGED <<materialRevision, nodeVars, previewVars, releaseVars, wireVars>>

\* NodeRepo.Update: no release is consulted.
UpdateNode(n) ==
    /\ materialRevision < MaxMaterial
    /\ generation' = [generation EXCEPT ![n] = @ + 1]
    /\ materialRevision' = materialRevision + 1
    /\ UNCHANGED <<graphRevision, credential, deployment, previewVars, releaseVars, wireVars>>

\* CreateInbound, DeleteInbound and DeleteInboundForNode: the inbounds of a
\* node change, its generation does not.
ChangeInbounds ==
    /\ materialRevision < MaxMaterial
    /\ materialRevision' = materialRevision + 1
    /\ UNCHANGED <<graphRevision, nodeVars, previewVars, releaseVars, wireVars>>

\* UpdateInbound: only on a node no release holds and nothing was deployed to.
\* Whether another deployment refers to the inbound is left open.
UpdateInbound(n) ==
    /\ materialRevision < MaxMaterial /\ graphRevision < MaxGraph
    /\ ~OnRelease(n, Busy)
    /\ deployment[n].release = 0 /\ deployment[n].topology = Empty
    /\ materialRevision' = materialRevision + 1
    /\ graphRevision' = graphRevision + 1
    /\ generation' = [generation EXCEPT ![n] = @ + 1]
    /\ UNCHANGED <<credential, deployment, previewVars, releaseVars, wireVars>>

\* The credential query of a node selects something else and no revision says
\* so: an account reached expire_at, or ReconcileUserCredentialsForNode or
\* EnsureUserCredential issued a credential (CreateTopologyRelease and every
\* configuration fetch call the former).  Between two authorization changes
\* accounts only expire and credentials are only issued.
CredentialDrift(n) ==
    /\ credential[n] < MaxCredential
    /\ credential' = [credential EXCEPT ![n] = @ + 1]
    /\ UNCHANGED <<revisionVars, generation, deployment, previewVars, releaseVars, wireVars>>

\* SetNodeIDs, SetUserGroupIDs and SetQuota: each replaces what the credential
\* query depends on and calls InvalidateTopologyAuthorization in its transaction.
InvalidateTopologyAuthorization ==
    /\ materialRevision < MaxMaterial
    /\ credential' \in [Node -> 0..MaxCredential]
    /\ releaseStatus' = [r \in ReleaseId |->
          IF releaseStatus[r] \in Driving THEN "manual_required" ELSE releaseStatus[r]]
    /\ generation' = [n \in Node |-> generation[n] + 1]
    /\ materialRevision' = materialRevision + 1
    /\ UNCHANGED <<graphRevision, deployment, previewVars, releaseNodes, wireVars>>

-----------------------------------------------------------------------------
(* Preview *)

\* PreviewChain reads revisions and generations in one read-only transaction ...
PreviewSnapshot(root) ==
    /\ Cardinality(previewing) < MaxPreviewing
    /\ previewing' = previewing \cup
          {[root |-> root, graph |-> graphRevision, material |-> materialRevision,
            generation |-> [n \in Chain(graphRevision, root) |-> generation[n]]]}
    /\ UNCHANGED <<revisionVars, nodeVars, preview, releaseVars, wireVars>>

\* ... and what is deployed later, before it overwrites the row of the root.
PreviewSave(s) ==
    /\ previewing' = previewing \ {s}
    /\ preview' = [preview EXCEPT ![s.root] =
          [graph |-> s.graph, material |-> s.material, stamp |-> s.material,
           generation |-> s.generation,
           previous |-> [n \in DOMAIN s.generation |-> deployment[n].topology]]]
    /\ UNCHANGED <<revisionVars, nodeVars, releaseVars, wireVars>>

\* Ten minutes later the row counts as absent.
PreviewExpire(root) ==
    /\ preview[root] # NoPreview
    /\ preview' = [preview EXCEPT ![root] = NoPreview]
    /\ UNCHANGED <<revisionVars, nodeVars, previewing, releaseVars, wireVars>>

-----------------------------------------------------------------------------
(* The older road of a single node writes the same two tables.  TopologyDrafts *)
(* has what it asks of a node's draft, which is left open here.                *)

\* TopologyRepo.SavePreview over the row of a chain: the columns that a release
\* is made from stay, and material_revision says what is current now.
SavePreview(root) ==
    /\ preview[root] # NoPreview
    /\ preview' = [preview EXCEPT ![root].stamp = materialRevision]
    /\ UNCHANGED <<revisionVars, nodeVars, previewing, releaseVars, wireVars>>

\* TopologyRepo.DeployPreview: what the present revisions resolve to is deployed.
\* No release is consulted, and release_id and generation of the row stay.
DeployPreview(n) ==
    /\ deployment' = [deployment EXCEPT ![n].topology = <<graphRevision, materialRevision>>]
    /\ preview' = [root \in Root |-> IF root = n THEN NoPreview ELSE preview[root]]
    /\ UNCHANGED <<revisionVars, generation, credential, previewing, releaseVars, wireVars>>

-----------------------------------------------------------------------------
(* Creating a release *)

Current(root) ==
    LET p == preview[root]
    IN /\ p # NoPreview
       /\ p.graph = graphRevision /\ p.stamp = materialRevision
       /\ \A n \in DOMAIN p.generation :
             generation[n] = p.generation[n] /\ ~OnRelease(n, Busy)

NewReleaseNode(root, n) ==
    LET p == preview[root]
        topology == <<p.graph, p.material>>
        runtime == RuntimeVersion(topology, n)
    IN [phase |-> "prepare", status |-> "pending",
        order |-> ApplyOrder[p.graph][root][n],
        expectedGeneration |-> p.generation[n] + 1, expectedRuntime |-> runtime,
        candidate |-> topology, candidateRuntime |-> runtime,
        previous |-> p.previous[n]]

CreateTopologyRelease(root, r) ==
    /\ releaseStatus[r] = "absent"
    /\ \A earlier \in ReleaseId : earlier < r => releaseStatus[earlier] # "absent"
    /\ Current(root)
    /\ LET chain == DOMAIN preview[root].generation
       IN /\ releaseNodes' = [releaseNodes EXCEPT
                ![r] = [n \in chain |-> NewReleaseNode(root, n)]]
          /\ generation' = [n \in Node |->
                IF n \in chain THEN preview[root].generation[n] + 1 ELSE generation[n]]
    /\ releaseStatus' = [releaseStatus EXCEPT ![r] = "preparing"]
    /\ preview' = [preview EXCEPT ![root] = NoPreview]
    /\ UNCHANGED <<revisionVars, credential, deployment, previewing, wireVars>>

-----------------------------------------------------------------------------
(* Handing a document to the agent *)

RowVersion(r, n) == RuntimeVersion(RowTopology(releaseNodes[r][n]), n)

\* The one query of GetAgentDeployment finds the row and nothing refuses it.
Readable(r, n) ==
    /\ n \in DOMAIN releaseNodes[r]
    /\ releaseNodes[r][n].status \in {"pending", "prepared", "active"}
    /\ releaseNodes[r][n].expectedGeneration = generation[n]
    /\ releaseStatus[r] \in Driving

\* Nothing happens between the query and the rendering of the document.
GetAgentDeployment(r, n) ==
    /\ Readable(r, n)
    /\ RowVersion(r, n) = releaseNodes[r][n].expectedRuntime
    /\ documents' = documents \cup
          {[release |-> r, node |-> n, phase |-> releaseNodes[r][n].phase,
            generation |-> generation[n], runtime |-> RowVersion(r, n)]}
    /\ UNCHANGED <<revisionVars, nodeVars, previewVars, releaseVars, serving>>

\* Or something does: no statement of the function is in a transaction, so what
\* the query read is used when it may no longer hold.
ReadDeployment(r, n) ==
    /\ Cardinality(serving) < MaxServing
    /\ Readable(r, n)
    /\ LET row == releaseNodes[r][n]
       IN serving' = serving \cup
             {[release |-> r, node |-> n, phase |-> row.phase, generation |-> generation[n],
               topology |-> RowTopology(row), expected |-> row.expectedRuntime,
               step |-> "render"]}
    /\ UNCHANGED <<revisionVars, nodeVars, previewVars, releaseVars, documents>>

RenderDocument(c) ==
    /\ c.step = "render"
    /\ LET version == RuntimeVersion(c.topology, c.node)
       IN \/ /\ version = c.expected
             /\ documents' = documents \cup
                   {[release |-> c.release, node |-> c.node, phase |-> c.phase,
                     generation |-> c.generation, runtime |-> version]}
             /\ serving' = serving \ {c}
          \/ /\ version # c.expected
             /\ serving' = (serving \ {c}) \cup {[c EXCEPT !.step = "report"]}
             /\ UNCHANGED documents
    /\ UNCHANGED <<revisionVars, nodeVars, previewVars, releaseVars>>

\* UPDATE topology_releases SET status='manual_required' WHERE id=$1
ReportDrift(c) ==
    /\ c.step = "report"
    /\ releaseStatus' = [releaseStatus EXCEPT ![c.release] = "manual_required"]
    /\ serving' = (serving \ {c}) \cup {[c EXCEPT !.step = "outdate"]}
    /\ UNCHANGED <<revisionVars, nodeVars, previewVars, releaseNodes, documents>>

\* UPDATE nodes SET config_generation=config_generation+1 WHERE ... config_generation=$2
OutdateNode(c) ==
    /\ c.step = "outdate"
    /\ generation' = IF generation[c.node] = c.generation
                     THEN [generation EXCEPT ![c.node] = @ + 1] ELSE generation
    /\ serving' = serving \ {c}
    /\ UNCHANGED <<revisionVars, credential, deployment, previewVars, releaseVars, documents>>

-----------------------------------------------------------------------------
(* Driving a release from node to node *)

\* The transaction gives "rows" to the nodes of r and activates n for a phase:
\* the deployment, the generation and the row change together.
Activate(r, rows, n, phase, topology, g) ==
    /\ deployment' = [deployment EXCEPT
          ![n] = [topology |-> topology, release |-> r, generation |-> g]]
    /\ generation' = [generation EXCEPT ![n] = g]
    /\ releaseNodes' = [releaseNodes EXCEPT ![r] = [rows EXCEPT
          ![n] = [@ EXCEPT !.phase = phase, !.status = "active",
                           !.expectedGeneration = g,
                           !.expectedRuntime = RuntimeVersion(topology, n)]]]

Finish(r, rows, terminal) ==
    /\ releaseStatus' = [releaseStatus EXCEPT ![r] = terminal]
    /\ releaseNodes' = [releaseNodes EXCEPT ![r] = rows]
    /\ UNCHANGED <<deployment, generation>>

WithStatus(rows, status) == {n \in DOMAIN rows : rows[n].status = status}

FaultyActivateNextApply(r, rows) ==        \* ORDER BY apply_order DESC
    LET waiting == WithStatus(rows, "prepared")
    IN \/ waiting = {} /\ Finish(r, rows, "succeeded")
       \/ \E n \in waiting :
             /\ \A m \in waiting : rows[n].order >= rows[m].order
             /\ RuntimeVersion(rows[n].candidate, n) = rows[n].candidateRuntime
             /\ Activate(r, rows, n, "apply", rows[n].candidate, rows[n].expectedGeneration)
             /\ releaseStatus' = [releaseStatus EXCEPT ![r] = "applying"]

\* activateNext(rollback=false): the prepared node that is furthest downstream.
\* When its runtime drifted the whole transaction fails: there is no such step.
ActivateNextApply(r, rows) ==
    LET waiting == WithStatus(rows, "prepared")
    IN \/ waiting = {} /\ Finish(r, rows, "succeeded")
       \/ \E n \in waiting :
             /\ \A m \in waiting : rows[n].order <= rows[m].order
             /\ RuntimeVersion(rows[n].candidate, n) = rows[n].candidateRuntime
             /\ Activate(r, rows, n, "apply", rows[n].candidate, rows[n].expectedGeneration)
             /\ releaseStatus' = [releaseStatus EXCEPT ![r] = "applying"]

FaultyActivateNextRollback(r, rows) ==     \* rollback redeploys in apply order
    LET waiting == WithStatus(rows, "rollback_pending")
    IN \/ waiting = {} /\ Finish(r, rows, "rolled_back")
       \/ \E n \in waiting :
             /\ \A m \in waiting : rows[n].order <= rows[m].order
             /\ Activate(r, rows, n, "rollback", rows[n].previous,
                         rows[n].expectedGeneration + 1)
             /\ releaseStatus' = [releaseStatus EXCEPT ![r] = "rolling_back"]

ForgetfulActivateNextRollback(r, rows) ==  \* the candidate stays deployed
    LET waiting == WithStatus(rows, "rollback_pending")
    IN \/ waiting = {} /\ Finish(r, rows, "rolled_back")
       \/ \E n \in waiting :
             /\ \A m \in waiting : rows[n].order >= rows[m].order
             /\ Activate(r, rows, n, "rollback", rows[n].candidate,
                         rows[n].expectedGeneration + 1)
             /\ releaseStatus' = [releaseStatus EXCEPT ![r] = "rolling_back"]

\* activateNext(rollback=true): the waiting node that is furthest upstream.
ActivateNextRollback(r, rows) ==
    LET waiting == WithStatus(rows, "rollback_pending")
    IN \/ waiting = {} /\ Finish(r, rows, "rolled_back")
       \/ \E n \in waiting :
             /\ \A m \in waiting : rows[n].order >= rows[m].order
             /\ Activate(r, rows, n, "rollback", rows[n].previous,
                         rows[n].expectedGeneration + 1)
             /\ releaseStatus' = [releaseStatus EXCEPT ![r] = "rolling_back"]

\* beginRollback
BeginRollback(r, rows) ==
    ActivateNextRollback(r, [n \in DOMAIN rows |->
        IF rows[n].phase = "apply" /\ rows[n].status \in {"active", "applied", "failed"}
        THEN [rows[n] EXCEPT !.status = "rollback_pending"] ELSE rows[n]])

RollbackRelease(r) ==
    /\ releaseStatus[r] \in {"failed", "manual_required"}
    /\ BeginRollback(r, releaseNodes[r])
    /\ UNCHANGED <<revisionVars, credential, previewVars, wireVars>>

FaultyRecoverReleases(overdue) ==          \* the error code written as the status
    /\ overdue # {}
    /\ releaseStatus' = [r \in ReleaseId |->
          IF r \in overdue THEN "release_timeout" ELSE releaseStatus[r]]
    /\ UNCHANGED <<revisionVars, nodeVars, previewVars, releaseNodes, wireVars>>

\* RecoverReleases: one UPDATE over the releases that are overdue at its tick.
RecoverReleases(overdue) ==
    /\ overdue # {}
    /\ releaseStatus' = [r \in ReleaseId |->
          IF r \notin overdue THEN releaseStatus[r]
          ELSE IF releaseStatus[r] = "preparing" THEN "failed" ELSE "manual_required"]
    /\ UNCHANGED <<revisionVars, nodeVars, previewVars, releaseNodes, wireVars>>

-----------------------------------------------------------------------------
(* AcknowledgeAgentDeployment *)

\* What the row becomes when the agent reports success.
Done(phase) == CASE phase = "prepare"  -> "prepared"
                 [] phase = "apply"    -> "applied"
                 [] phase = "rollback" -> "rolled_back"

FaultyAcceptable(d, status) ==             \* the status of the release is not asked
    LET row == releaseNodes[d.release][d.node]
    IN /\ row.expectedGeneration = d.generation
       /\ d.runtime # row.expectedRuntime => status = "failed"
       /\ row.status # status
       /\ row.phase = d.phase
       /\ row.phase # "prepare" => row.status = "active"
       /\ generation[d.node] = d.generation

\* The acknowledgement of document d reaches the comparison of runtimes: it is
\* not stale, not a duplicate, not late, and the release still moves.
Acceptable(d, status) ==
    LET row == releaseNodes[d.release][d.node]
    IN /\ row.expectedGeneration = d.generation
       /\ d.runtime # row.expectedRuntime => status = "failed"
       /\ row.status # status
       /\ row.phase = d.phase
       /\ releaseStatus[d.release] \in {"preparing", "applying", "rolling_back"}
       /\ row.phase # "prepare" => row.status = "active"
       /\ generation[d.node] = d.generation

\* Accepted, and the runtime is still the one the release expects.
Accepted(d, status) ==
    /\ Acceptable(d, status)
    /\ RowVersion(d.release, d.node) = releaseNodes[d.release][d.node].expectedRuntime

Acknowledged(d, status) ==
    [releaseNodes[d.release] EXCEPT ![d.node] = [@ EXCEPT !.status = status]]

ackUnchanged == UNCHANGED <<revisionVars, credential, previewVars, wireVars>>

\* Credentials moved since the release expected this runtime: every generation
\* of the release is spent and an administrator has to decide.
AckDrifted(d, status) ==
    /\ Acceptable(d, status)
    /\ RowVersion(d.release, d.node) # releaseNodes[d.release][d.node].expectedRuntime
    /\ releaseStatus' = [releaseStatus EXCEPT ![d.release] = "manual_required"]
    /\ generation' = [n \in Node |->
          IF n \in DOMAIN releaseNodes[d.release] THEN generation[n] + 1 ELSE generation[n]]
    /\ UNCHANGED <<deployment, releaseNodes>>
    /\ ackUnchanged

FaultyAckPrepared(d) ==                    \* activates without counting the others
    /\ d.phase = "prepare"
    /\ Accepted(d, "prepared")
    /\ ActivateNextApply(d.release, Acknowledged(d, "prepared"))
    /\ ackUnchanged

AckPrepared(d) ==
    /\ d.phase = "prepare"
    /\ Accepted(d, "prepared")
    /\ LET rows == Acknowledged(d, "prepared")
       IN IF WithStatus(rows, "prepared") = DOMAIN rows
          THEN ActivateNextApply(d.release, rows)
          ELSE /\ releaseNodes' = [releaseNodes EXCEPT ![d.release] = rows]
               /\ UNCHANGED <<releaseStatus, deployment, generation>>
    /\ ackUnchanged

AckApplied(d) ==
    /\ d.phase = "apply"
    /\ Accepted(d, "applied")
    /\ ActivateNextApply(d.release, Acknowledged(d, "applied"))
    /\ ackUnchanged

AckRolledBack(d) ==
    /\ d.phase = "rollback"
    /\ Accepted(d, "rolled_back")
    /\ ActivateNextRollback(d.release, Acknowledged(d, "rolled_back"))
    /\ ackUnchanged

AckPrepareFailed(d) ==
    /\ d.phase = "prepare"
    /\ Accepted(d, "failed")
    /\ Finish(d.release, Acknowledged(d, "failed"), "failed")
    /\ ackUnchanged

FaultyAckApplyFailed(d) ==                 \* goes on with the next node
    /\ d.phase = "apply"
    /\ Accepted(d, "failed")
    /\ ActivateNextApply(d.release, Acknowledged(d, "failed"))
    /\ ackUnchanged

AckApplyFailed(d) ==
    /\ d.phase = "apply"
    /\ Accepted(d, "failed")
    /\ BeginRollback(d.release, Acknowledged(d, "failed"))
    /\ ackUnchanged

AckRollbackFailed(d) ==
    /\ d.phase = "rollback"
    /\ Accepted(d, "failed")
    /\ Finish(d.release, Acknowledged(d, "failed"), "manual_required")
    /\ ackUnchanged

Acknowledge(d) ==
    \/ AckPrepared(d) \/ AckApplied(d) \/ AckRolledBack(d)
    \/ AckPrepareFailed(d) \/ AckApplyFailed(d) \/ AckRollbackFailed(d)
    \/ \E status \in {Done(d.phase), "failed"} : AckDrifted(d, status)

-----------------------------------------------------------------------------
FaultyOverdue == {r \in ReleaseId :        \* a rollback never times out
    releaseStatus[r] \in Driving \ {"rolling_back"}}

\* The releases that RecoverReleases may find overdue at some tick.
Overdue == {r \in ReleaseId : releaseStatus[r] \in Driving}

Administer ==
    \/ \E changed \in SUBSET Node \ {{}} : SaveGraph(changed)
    \/ \E n \in Node : UpdateNode(n) \/ UpdateInbound(n)
    \/ ChangeInbounds
    \/ InvalidateTopologyAuthorization
    \/ \E root \in Root : PreviewSnapshot(root) \/ PreviewExpire(root)
    \/ \E root \in Root \cap Single : SavePreview(root)
    \/ \E n \in Single : DeployPreview(n)
    \/ \E s \in previewing : PreviewSave(s)
    \/ \E root \in Root, r \in ReleaseId : CreateTopologyRelease(root, r)
    \/ \E r \in ReleaseId : RollbackRelease(r)

Serve ==
    \/ \E r \in ReleaseId, n \in Node : GetAgentDeployment(r, n) \/ ReadDeployment(r, n)
    \/ \E c \in serving : RenderDocument(c) \/ ReportDrift(c) \/ OutdateNode(c)
    \/ \E d \in documents : Acknowledge(d)

Recover == \E overdue \in SUBSET Overdue : RecoverReleases(overdue)

Next ==
    \/ Administer \/ Serve \/ Recover
    \/ \E n \in Node : CredentialDrift(n)

Spec == Init /\ [][Next]_vars

\* RunReleases ticks every ten seconds for as long as the panel runs, and a
\* driving release is overdue fifteen minutes after its creation at the latest:
\* each one is eventually in the set that a tick updates.
FairSpec ==
    Spec /\ \A r \in ReleaseId :
                WF_vars(\E overdue \in SUBSET Overdue : r \in overdue /\ RecoverReleases(overdue))

-----------------------------------------------------------------------------
(* Properties *)
(* What a release promises its operator, see StagedRollout. *)

StageOf(row) ==
    CASE row.phase = "prepare"  -> IF row.status = "prepared" THEN "ready" ELSE "held"
      [] row.phase = "rollback" -> "withdrawn"
      [] row.phase = "apply"    -> CASE row.status = "active"  -> "told"
                                     [] row.status = "applied" -> "confirmed"
                                     [] OTHER                  -> "recalled"

VerdictOf(status) ==
    CASE status = "absent"                  -> "none"
      [] status \in {"preparing", "applying"} -> "open"
      [] status = "succeeded"               -> "succeeded"
      [] OTHER                              -> "stopped"

Rollout == INSTANCE StagedRollout WITH
    Release <- ReleaseId,
    order   <- [r \in ReleaseId |-> [n \in DOMAIN releaseNodes[r] |-> releaseNodes[r][n].order]],
    stage   <- [r \in ReleaseId |-> [n \in DOMAIN releaseNodes[r] |-> StageOf(releaseNodes[r][n])]],
    verdict <- [r \in ReleaseId |-> VerdictOf(releaseStatus[r])]

\* The panel keeps the promise of a staged rollout, under every interleaving of
\* administrators, timeouts and delayed or repeated acknowledgements.
ImplementsStagedRollout == Rollout!Spec

\* Success is never reported early: every node of a succeeded release has
\* acknowledged the application of its candidate.
SucceededMeansApplied ==
    \A r \in ReleaseId : releaseStatus[r] = "succeeded" =>
        \A n \in DOMAIN releaseNodes[r] :
            releaseNodes[r][n].phase = "apply" /\ releaseNodes[r][n].status = "applied"

\* While a release applies, one node works at a time and everything downstream
\* of it, or of an applied node, is applied already.
AppliedDownstreamFirst ==
    \A r \in ReleaseId : releaseStatus[r] = "applying" =>
        LET rows == releaseNodes[r]
        IN /\ Cardinality(WithStatus(rows, "active")) = 1
           /\ \A n \in DOMAIN rows : rows[n].phase = "apply" =>
                 \A m \in DOMAIN rows :
                    rows[m].order < rows[n].order => rows[m].status = "applied"

\* Along the chain, downstream first, come the nodes that run the candidate, the
\* nodes that were taken back, the nodes that were never switched: switching on
\* starts downstream, taking back starts upstream, and neither leaves a gap.
SwitchedWithoutGap ==
    \A r \in ReleaseId : \A m, n \in DOMAIN releaseNodes[r] :
        releaseNodes[r][m].order < releaseNodes[r][n].order =>
            /\ releaseNodes[r][m].phase = "prepare" => releaseNodes[r][n].phase = "prepare"
            /\ releaseNodes[r][m].phase = "rollback" => releaseNodes[r][n].phase # "apply"

\* A deployment that names a release belongs to a node of it that was switched,
\* in the generation the row expects.
Named(n) ==
    deployment[n].release # 0 =>
        /\ n \in DOMAIN releaseNodes[deployment[n].release]
        /\ releaseNodes[deployment[n].release][n].phase \in {"apply", "rollback"}
        /\ deployment[n].generation =
              releaseNodes[deployment[n].release][n].expectedGeneration
Matches(n) ==
    deployment[n].release # 0 =>
        deployment[n].topology = RowTopology(releaseNodes[deployment[n].release][n])

\* The deployment of a node is what the row of the release it names says, until a
\* single node is deployed on the older road: that alone parts the two, and the
\* next switch by a release, a rollback too, brings them together again.
DeploymentMatchesRow ==
    [][\A n \in Node :
          /\ Named(n)'
          /\ \/ Matches(n)'
             \/ ~Matches(n) /\ deployment'[n] = deployment[n]
             \/ DeployPreview(n)]_vars

\* What is over stays over, whatever acknowledgement, timeout or authorization
\* change arrives late: it moves only by an administrator's rollback of a failed
\* release, or by the drift report of a GetAgentDeployment call that read the
\* release while it was driving.
DriftReported(r) ==
    /\ releaseStatus'[r] = "manual_required"
    /\ \E c \in serving \ serving' : c.release = r /\ c.step = "report"
TerminalIsFinal ==
    [][\A r \in ReleaseId :
          releaseStatus[r] \in {"succeeded", "failed", "rolled_back"} =>
             \/ releaseStatus'[r] = releaseStatus[r] \/ DriftReported(r)
             \/ releaseStatus[r] = "failed" /\ RollbackRelease(r)]_vars

\* No release keeps its nodes locked in a driving state for ever.
NoReleaseHangs ==
    \A r \in ReleaseId : releaseStatus[r] \in Driving ~> releaseStatus[r] \notin Driving
=============================================================================

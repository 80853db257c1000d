# A verification project for coxpanel

coxpanel is a control panel for proxy nodes: a Go backend on Postgres, an agent
on every managed node, and a web frontend. This directory holds TLA+ modules
that model its protocols, TLC configurations that check them on small
instances, and TLAPS proofs that hold for every instance. Paths below are
relative to `src/`; `P2-DESIGN.md` is `docs/P2-DESIGN.md`.

## 1. Inventory

| Component | State | Operations | Hard behaviour | Correct when |
|---|---|---|---|---|
| Topology releases, `backend/internal/repo/topology_release.go`, `topology/control.go` | `topology_previews`, `topology_releases`, `topology_release_nodes`, `topology_deployments`, `nodes.config_generation` | preview, create, fetch a document, acknowledge, activate the next node, roll back, time out | concurrent administrators, late and repeated acknowledgements, fetches that are not transactions, revocation in the middle | nodes switch downstream first, success means all confirmed, what is over stays over, nothing hangs |
| Drafts and material revisions, `repo/topology_graph.go`, `repo/topology.go` | `topology_drafts`, `topology_material_state` | save the graph, bump a revision | edits on different canvases at once | a preview that is current describes what is there |
| Nodes and inbounds, `repo/nodes.go`, `repo/nodes_p2.go` | `nodes`, `inbounds` | create, edit, delete | edits under a release, lock order | every change is visible to previews and releases |
| Agent, `agent/cmd/agent/main.go`, `deployment.go` | running core, files for configuration, version, node and state | poll, check a candidate, apply, restore, acknowledge | crashes between durable writes, failing restores | the last good configuration always runs again |
| Metering, `agent/cmd/agent/traffic.go`, `backend/internal/traffic` | counters, pending report; reports, records, accounts, jobs | sample, send, ingest, roll up, reset, clean up | lost answers, restarts, counter resets, retention | every byte is counted once, quotas see it |
| Graph validation, `topology/graph.go`, `topology/topology.go` | none | validate, order | cycles, shared nodes | the order is downstream first |
| Single-node deployment (P1), `topology/service.go` | shares `topology_deployments` | preview, deploy | interference with releases | deploys what is current; the only writer besides a release |
| Users, invites, credentials, `repo/users.go` | `users`, `invite_codes`, `user_credentials`, groups | register, bootstrap, grant, rotate | last use of an invite, two owners | uses never exceed the limit |
| Templates and subscriptions, `repo/subscriptions_p2.go`, `api/sub/sub.go` | templates, versions, defaults, overrides | edit, publish, archive, override | stale revisions, archived templates in use | a subscription renders a published version |
| Mail, `backend/internal/mail` | `notification_records`, `email_verifications`, `alert_rules` | enqueue, deliver, verify, evaluate | leases, duplicates, stale alerts | at least once, tokens at most once |
| Generators, `generator`, `shared/config` | none | render | layout, merging of overrides | deterministic output |
| API, middleware, start-up, frontend | none | routing | - | - |

How they meet. An administrator's `PreviewChain` resolves drafts, inbounds and
nodes into one candidate per node; `CreateTopologyRelease` freezes them. The
agent polls `/api/agent/config` and `/api/agent/deployments`, does the phase it
finds and posts an acknowledgement, which is the only thing that moves a release
forward. Whatever changes who may use a node (`SetNodeIDs`, `SetUserGroupIDs`,
`SetQuota`) calls `InvalidateTopologyAuthorization` in its own transaction and so
reaches into every running release. The agent's traffic reports feed accounts,
accounts feed quotas and alerts, alerts feed the mail queue. A client that downloads
its subscription and a node that fetches its configuration meet only in
`user_credentials`, which each fills on demand.

## 2. Plan

Order by what is at stake: a wrong step of 1 cuts users off, of 3 bills or blocks
them wrongly, of 4 lets in who was not invited or locks out who was.

| | Modules | State |
|---|---|---|
| 1 | `StagedRollout`, `TopologyRelease`: the release protocol | modelled, checked, refinement and all invariants proved |
| 2 | `AgentCore`: the agent's loop and its durable files | modelled, checked, proved (what the panel is told: for one failure at most) |
| 3 | `ByteMeter`, `TrafficMetering`: from the core's counters to the accounts; `TrafficRollup`: from records to figures | modelled, checked, proved |
| 4 | `Accounts`: owner, invites, challenges, registration; `MailQueue`: alerts and their delivery | modelled, checked, proved |
| 5 | `ClientDelivery`: how a user and a node come to share a secret | modelled, checked, proved |
| 6 | `Subscriptions`: templates, versions, overrides under optimistic revisions | modelled, checked, proved |
| 7 | `TopologyDrafts`: graph validation, `DeploymentOrder`, both roads from a draft to a deployment | modelled, checked, proved |
| 8 | `Deployment`: agents (2) composed with releases (1) over a lossy network, instead of the free environment each has now | open |

Every safety property that a passing run checks is a theorem too. One worth proving once row 8
exists: that the agents it composes are among the environments row 1 allows.

## 3. Modules

### `StagedRollout`
The promise to the operator of a chain, independent of documents, generations
and tables: each node of a rollout is *held, ready, told, confirmed, recalled* or
*withdrawn*; the rollout is *none, open, succeeded* or *stopped*. Its actions are
`Start`, `Advance` (a node is told to switch only when all are ready and all
downstream of it have confirmed), `Withdraw` (upstream first) and `Doubt` (a success
is revoked because what the nodes run differs from what they confirmed).

### `TopologyRelease`
The panel's side, as tables and transactions.

| Model | Code |
|---|---|
| `graphRevision`, `materialRevision` | `topology_material_state` |
| `generation`, `deployment` | `nodes.config_generation`, `topology_deployments` |
| `credential` | what `runtimeDocument`'s credential query selects, one number per node |
| `previewing`, `preview` | a `PreviewChain` between its two reads; `topology_previews`, `stamp` its column `material_revision` |
| `releaseStatus`, `releaseNodes` | `topology_releases`, `topology_release_nodes` |
| `documents` | documents that `GetAgentDeployment` has returned; each may be acknowledged at any later time, any number of times, with either verdict |
| `serving` | `GetAgentDeployment` calls between two of their statements |

One action is one transaction, or one statement where the code uses none.
`GetAgentDeployment` therefore occurs twice: as one step, and as `ReadDeployment`,
`RenderDocument`, `ReportDrift`, `OutdateNode`, between which everything else may
happen. `PreviewChain` is `PreviewSnapshot` (the repeatable-read snapshot) and
`PreviewSave` (reads what is deployed, writes the row); it reads the nodes'
deployments one after the other, the model in one go at the save.
`AcknowledgeAgentDeployment` is split by phase and verdict into `AckPrepared`, `AckApplied`,
`AckRolledBack`, `AckPrepareFailed`, `AckApplyFailed`, `AckRollbackFailed` and
`AckDrifted`, which all share `Acceptable`, the code's checks in its order; an
acknowledgement that is refused or a duplicate changes nothing and is not a step.
The older road of a single node writes the same tables: `SavePreview` renews the `stamp` of a
row and leaves what a release is made from, `DeployPreview` replaces the topology of a
deployment and leaves `release_id` and `generation`. Both are steps of the nodes in `Single`.
`activateNext` and `beginRollback` are operators those actions and `RollbackRelease`
apply to the rows they hold. When a candidate's runtime has drifted, `activateNext`
fails and the transaction rolls back: there is no such step.

Why an acknowledgement may come with either verdict at any time: an agent whose
`prepared` or `applied` did not get through does the phase again at its next poll,
and the second run of `sing-box check` or of the core's start may end
differently; requests are retried and delayed by the network.

Abstractions, all of them:
* a topology is the pair of revisions it was resolved from, a runtime version the
  pair of topology and credentials it is hashed from (without inbounds no
  credential is in the document, hence none in the version);
* expiry of a preview and time-outs of a release may come at any time; the clock
  is not modelled;
* what the single-node road asks before it writes (the handler's check of dependencies and
  capability, the stored preview, the draft) is left open: `SavePreview` and `DeployPreview`
  may come at any time, with what the present revisions resolve to. `TopologyDrafts` has these checks;
* the agent's capabilities, the sealing of candidates and counters for display
  (`attempts`, `last_ack_at`, error codes) are left out, as are the copies of
  revisions in `topology_releases`, which nothing reads back;
* whether another deployment refers to an edited inbound is left open in
  `UpdateInbound`: both outcomes are steps;
* nodes are neither created nor deleted during a run;
* a database error is a step that does not happen.

Operators named `Faulty...` and `Forgetful...` are not part of the behaviour:
each is a plausible mistake in one definition (a dropped check, a wrong order, a
wrong column) that violates one of the properties, to show that the property
says something about that code.

### `MCTopologyRelease`
The chains for TLC: nodes on their own, a pair, a triple.

### `TopologyReleaseProofs`
Theorems about `TopologyRelease`, among them that it implements `StagedRollout`; see
section 6, as for the other proof modules: `AgentCoreProofs`,
`AccountsProofs`, `MailQueueProofs`, `SubscriptionsProofs`, `TopologyDraftsProofs` and
`ClientDeliveryProofs`, each of which extends the module it is named after. `TrafficProofs` is
about two modules, `TrafficMetering` and `TrafficRollup`, which share the lemmas about sums.

### `AgentCore`
The agent of one node. It is one goroutine (`main` and its ticker; the goroutine
that waits for the core only fills a channel), so the model is one loop with a program
counter.

| Model | Code |
|---|---|
| `disk` | the files `.state`, the configuration, `.version`, `.node`, each by the version its content belongs to |
| `record` | `.deployment.json` |
| `core` | `ownedCore` and what its process runs |
| `lastApplied` | the variable of the same name |
| `pc`, `job` | the place in `run`, `applyConfig` or `handlePendingDeployment`, and their locals: candidate, `oldVersion`, the next durable write, the deployment that asked, whether it failed |
| `desired` | what the panel answers on `/api/agent/config` |
| `ran` | history: versions whose core has become ready on this node |

A round of the loop is `PollAnswered` or `PollFails`, then nothing, `Ensure...` or the
application of a candidate (`Check...`, `Stop...`, `Candidate...`, `Persist...`, and on
failure `Undo`, `Restore...`, `Restart...`), then the heartbeat, whose answer may carry
a deployment (`HandlePending`, `Prepare` or an application, `Record`, `SendAck`). Every
durable write is a step, so that `Crash` and `CoreExits` may come between any two. A
write that fails (`NotWritten`) leaves the old content or the new: the error may come
from the directory's `fsync` after the rename.

Two places where the code's order matters and a reader might expect another:
* `CandidateFails` drops the error of `restorePrevious` and starts what the
  configuration file holds, a failure of a durable write (`PersistFails`) does not;
* `CandidateExits`: `adoptOwnedCore` takes the exit out of the channel before the
  rollback asks for it, so that `stopCore` fails to signal and nothing is restored.
  The files are untouched at that point, so the next round starts the old core.

Abstractions: the agent is the first process of its container, its core dies with
it, so a crash and an orderly end look the same to the next start;
`.prepared.json`, which nothing reads, the candidate's temporary file, credentials
and the collection of traffic are left out; a deployment may name any configuration;
files are never edited by hand; readiness checks pass or fail.

### `MCAgentCore`
The deployments for TLC: two releases of a node, and the rollback of the first, which
has the generation of the second.

### `ByteMeter`
The promise of traffic metering, with neither reports nor epochs: bytes are carried,
some of what was carried is counted, once, for the lifetime and for the current
quota period alike, and a reset moves the period's count into a snapshot.

### `TrafficMetering`
The agent's collection loop and the panel's `Ingest`, with what both keep.

| Model | Code |
|---|---|
| `carried`, `core`, `coreStart` | the bytes the node has carried; the counters of the running core, which start again with it |
| `disk`, `pc` | `<config>.traffic-state.json`; the place in `collectTraffic` |
| `sent` | every report ever sent: each may arrive at any later time, any number of times |
| `rows`, `cursors`, `node` | `traffic_reports`, `traffic_cursors`, `traffic_node_state` |
| `used`, `lifetime`, `quotaEpoch`, `events` | `traffic_accounts`, `traffic_account_events` |
| `metered` | history: what was carried when the last accepted report was sampled |

A series is one user on one entry inbound. The file is replaced by a rename, which
survives a loss of power. The unit of time is the agent's collection interval; both clocks
are equal, and the five seconds the agent forgives are less than a unit. 64-bit counters do
not overflow. `blurred` marks the one case the agent cannot see, two cores that
started within one interval; `CollectingIsExact` and `PendingIsUnderstood` exclude it.

### `TrafficRollup`
The tables behind the figures: an ingest transaction marks one dirty period after
the other and then commits; a worker picks, recomputes and commits; each statement
of `Cleanup` is a step. Rows are locked as the statements lock them; a transaction may
abort at any time, also as the victim of a deadlock. `Split` is the code's division of
bytes over buckets, remainder included; `accounted` is what the same transaction adds to
the account, undivided. One unit of the clock is hours, so an ingest
request is over within it. The clock is `clock` here, and the specification `RollupSpec`:
no name is one of `TrafficMetering`, so that one module can extend both. The retentions are constants that satisfy `RetentionsFit`,
as the 30, 180 and 730 days of `Cleanup` and `ParseQuery` do. The span of a report ends at
the present clock: that `Ingest` also takes one that ended up to seven days ago is left to
`TrafficMetering`. Here a report reaches back up to `Late` units.

### `MailQueue`
Quota alerts of one user and the queue that delivers them: `Scan` writes a record for
each threshold of the rule that applies, once per quota epoch and limit (`Keys`, the
dedupe key); workers claim under a lease, check `Eligible` again, send and record the
result. A claim of a record whose worker is still there, a crash and an answer the
mail server never gave are faults, counted by record; a worker that lost its lease
goes on and finds in `Mine` that its result is no longer wanted. The due times of
retries pass at any moment. Expiry reminders run through the same code with other keys.
Account mail (challenges, invitations) uses the same queue; what depends on its content
is in `Accounts`. Mail text, sealing and the SMTP dialogue are left out.

### `Accounts`
`BootstrapOwner`, `CreateInvite`, `Challenge`, `Confirm`, `Register` and `SendInvite`.
A client's transaction is a sequence of steps, each of which takes a lock or a unique
index entry and reads what is committed then; `At` finds the transactions that hold one.
`Rollback` may come before any commit and stands for errors, cancelled requests and
crashes alike. Ages are three classes (`Rank`), the thresholds of `Challenge` and
`Confirm`. An invite of several uses, a token and a ticket are identities, not strings.
`RequireVerification` is chosen once, in `Init`: it is read at start-up. Passwords, sessions
and the group a registration joins are left out.

### `Subscriptions`
Templates with their versions, subscriptions bound to them, override rows and group
defaults. Every writer holds one advisory lock for its whole transaction, so it is one
step; what is concurrent is a form, `tab`, filled some steps before it is submitted. A
definition is the set of proxy groups it offers, a row or a default the group it names and
whether it carries protocol parameters. `BoundOverridesFit` joins the defaults of the *old*
group, as the code does; `CreateForUser` compares none. Not reachable from the
program and left out: the writers without a revision (`saveOverrideForUserP2`,
`SaveOverrideForUser`, `SetTemplateForUser`, `Create`, `AddNode`, `RemoveNode`), which only
tests call, and `is_builtin`, which is never set. `SaveOverride` always compares parameters
with the format of the template, as the handler does; the code's transaction repeats this only
for external nodes and for entry inbounds that still exist, and in the model inbounds neither
come nor go. Left out as well: the fallbacks of
`isP2CompatibilityError` and the rows that go with a deleted node or inbound.

### `TopologyDrafts`
The graph that administrators draw, and both roads from it to a deployment. Validation
(`WellFormed`, `Reenters`, `ValidateGraph`), `DeploymentOrder` and the connected part
(`Component`) are operators; `SaveGraph` applies the first inside its transaction,
`PreviewSnapshot` all of them to its snapshot. `ResolveNode` reads one node's inbounds
outside the snapshot, so that edits fall between; `PreviewSave` and `CreateRelease` carry the
comparisons of revisions that must catch them.

A request of the older road is at one of three places. A preview, in the slot `single`: the
handler's look at dependencies and capability (`SimpleCheck`), the reads of `Service.Preview`
(`SimpleRead`), the transaction (`SimpleSave` or `SimpleRefuse`). A deployment, in the slot
`deploying`: the handler's look at dependencies (`DeployCheck`), the reads of `Service.Deploy`
(`DeployRead`), the transaction (`SimpleCommit` or `DeployRefuse`). Everything else may fall
between, an upgrade of the agent (`Heartbeat`, which overwrites what the agent can do, either
way), a draft, a chain preview. The reads inside `Preview` and inside `Deploy` are one step, for
the transaction compares what they read: the material revision is the first that `Preview`
reads, the node's draft the second; both must stand at the save, so all that was read between
stood together. `MaxRequests` bounds how many of these requests are on their way at once.

How a release is rolled out is the
subject of `TopologyRelease`: here it ends, having switched all nodes or none, and one is
under way at a time. The material of an inbound is its revision, that of a node a
counter; expiry is `fresh` becoming false. `SaveDraft`, `SaveDraftConditional` and
`SaveDeployment` have no caller in the program. The PUT without `expectedRevision` takes the
current one, hence is `SaveGraph` like the other.

### `ClientDelivery`
A download of a subscription and an agent's fetch of the configuration, statement by
statement, for neither is a transaction. `EnsureUserCredential` is `ReadMaterial`,
`InsertCredential` and `ReadIssued`; `ReconcileUserCredentialsForNode` is `SelectPending` and
`Reconcile`. Between any two, administrators change memberships, inbounds and deployments,
accounts run out, other requests issue the same credential. A secret is a number, its
form is not modelled. `Expire` stands for the clock and for the edit of `expire_at`.
External nodes (no credential), overrides and templates (`Subscriptions`), tokens, deletion
of users and the documents of releases (`TopologyRelease`) are left out.

### MC modules
`MCTrafficMetering`, `MCTrafficRollup`, `MCMailQueue`, `MCAccounts`, `MCSubscriptions`,
`MCTopologyDrafts` and `MCClientDelivery` name the sets of model values, the symmetries and the
functions the configurations use.

## 4. Runs

Each run uses the MC module of its component; the bounds are the constants `Max...`.

| Run | Instance | Shows |
|---|---|---|
| `release_solo` | 1 node, 2 releases, every revision once, single-node previews and deployments | `TypeOK`; `DeploymentMatchesRow`: deployment, generation and row of a node agree until a single-node deployment parts them, and nothing else does |
| `release_pair` | 2 nodes, 1 release, a credential change, one interrupted fetch, single-node deployments of the landing | `ImplementsStagedRollout` (refinement of `StagedRollout`), `TerminalIsFinal`, `NoReleaseHangs` |
| `release_chain` | 3 nodes, 1 release, a credential change | `SucceededMeansApplied`, `AppliedDownstreamFirst`, `SwitchedWithoutGap` |
| `agent_core` | 2 configurations, 5 deployments in any order, 1 crash or failed write, any number of exits and failed starts | `LastGoodIsReadable`, `LastGoodHasRun`, `LastGoodIsKept`: what the files promise; `ReportIsTrue`, `AckMeansApplied`, `NoLateCommand`: what the panel is told; `Converges`: the node recovers |
| `traffic_metering` | 1 series, 3 bytes, 4 intervals, 1 restart, 1 reset; reports span and rows last 2 intervals | `MetersBytes` (refinement of `ByteMeter`), `CollectingIsExact`, `PendingIsUnderstood`, `AcceptableIsSettled` |
| `traffic_rollup` | 2 nodes, 2 workers, 2 reports over up to 3 buckets, days of two hours, 10 units of time | `AggregatesAgree`, `QueryIsComplete`, `AccountsAgree`, `DirtyIsRecomputed` |
| `mail_queue` | 2 workers, thresholds 50 and 100, limits 0 and 2, 2 epochs, 1 edit, 1 fault, 2 attempts | `DuplicatesAreFaults`, `FinalIsFinal`, `MostUrgentLast`, `QueueDrains` |
| `accounts` | 2 clients, 2 addresses, 1 code of one use, 2 invitation requests, 3 challenges | `InviteCountsAccounts`, `VerifiedWasProven`, `RateHolds` |
| `subscriptions` | 2 templates of 3 revisions, 1 subscription of 3, 1 override key, 1 node group, 1 proxy group | `BoundIsAvailable`, `RowsFitTheirDefinition`, `PinnedStaysTheSame`, `EditsAreInformed` |
| `topology_drafts` | 3 nodes, 4 inbounds in three founding sets of roles, the middle node with an agent that comes and goes in an older version, 1 edit of graph and of material, 1 release, 1 request of the older road at a time | `NeverReenters`, `ReleaseIsOneState`, `OnePlaceDownstreamFirst`, `SimpleDeployIsCurrent` |
| `client_delivery` | 1 user, 2 groups, 1 node, 1 inbound, 2 protocols, 2 downloads and the agent, 2 secrets, 2 changes | `NodeKnowsItsClients`, `RevokedIsLeftOut` |
| `order_upstream_first` | `topology_drafts` started with two crossing chains, without the older road | a counterexample to `DownstreamFirst`, see below |

Why the bounds are enough.
* *Releases.* A release touches others only through the nodes they share, so two
  releases on one node, or one on a chain, contain the interactions; three nodes are the
  least where a chain has an inside, so that a gap is possible. A second change of the
  same revision or credential adds nothing to a release that the first has already made
  stale; `release_solo` leaves the credential alone and has the single-node road instead.
  One interrupted fetch meets every interleaving of the atomic ones.
* *Agent.* It tells configurations apart only by comparing them with the last good one, so two
  suffice. `ReportIsTrue` and `AckMeansApplied` are promises about a single crash or
  failed write, and with a second one both break (see below), hence the hypothesis
  `MaxMishaps <= 1` of their theorems; the other properties of `agent_core` also hold
  with two (228,561 states), and their proofs cover all bounds.
* *Metering.* Series do not influence each other but through the acceptance of a whole report, so
  one shows what can happen to its bytes. Four intervals are enough for a report that is
  resent after its row was cleaned up, and for a gap, a restart and a report that is too
  old one after the other; three bytes for a baseline, a difference and a counter that
  falls.
* *Roll-up.* Two transactions that mark the same period, and two workers, are what locks and
  revisions are for. Ten units let a late report arrive when its records are as old as
  they may be, and both kinds of aggregate grow out of their retention.
* *Mail.* A record meets at most one other worker at a time; two thresholds are the least where
  one is more urgent. One fault separates a first copy from a second.
* *Accounts.* Races are between two transactions for the last use of a code, the last challenge
  of an hour or the last mail, hence limits of one and two clients. A challenge that
  was used, one that is open and one too many are three.
* *Subscriptions.* A form is stale after one edit; a version that is pinned, one that is
  published and a draft fit in three revisions. More subscriptions of one template add
  conjuncts that are checked one by one.
* *Drafts.* Three nodes of which one carries two inbounds are the least where two chains share a
  machine; one entry and its landing are enough for the two roads to meet. One edit makes a
  preview stale, whatever a second would do. One request of the older road at a time meets
  every step of the other road; a preview and a deployment that overlap share only the row,
  which the transaction compares, and the proofs cover both at once.
* *Delivery.* Two groups separate being in a group from being in the subscription's; two requests
  race for one secret. With two inbounds and one request the properties hold as well
  (6,859,347 states, too long to repeat at every run).

### What the code does and a reader might not expect

`order_upstream_first` is the one run expected to fail. The comment at
`topology/graph.go:128` and `P2-DESIGN.md:309` promise that dependencies come before the
nodes that use them. `DeploymentOrder` numbers a node by the longest way any
entry that passes it has left to its landing, and puts the smaller id first among equals.
Where one machine is the landing of a chain and the entry of another (11 -> 21 and
22 -> 31, with 21 and 22 on the same machine) it ties with the entry of the first: the
order is 3, 1, 2 and the entry on 1 is switched before its landing on 2. `OnePlaceDownstreamFirst` says when the
promise holds: no machine starts a link at one inbound and ends one at another. The proof
(section 6) says that this is the only exception, whatever the graph.

Earlier counterexamples, each against a sentence of `P2-DESIGN.md`, whose
behaviours the models still contain:
* the agent prepares a second time and fails after the panel counted it as
  prepared and switched a node: the release becomes `failed`, nothing is taken back (line 311);
* a rollback times out; asked again, the panel finds no row in phase `apply` and reports
  `rolled_back` without a receipt (311);
* a single-node preview brings a stale chain preview back to life (307, any related change makes
  it stale). `SavePreview` writes the present `material_revision` into the row it shares with the
  chain's and leaves preview id, expiry and bundle. With the founders of `order_upstream_first` and node
  3 as root and of an older version: a request for node 3 passes the handler's check while nothing is
  linked, and stalls; the agent is upgraded, a link drawn, a chain previewed;
  `DeleteInboundForNode` falls between the reads of two nodes and moves the material revision
  only; the request then reads and saves. The revision that `CreateTopologyRelease` compares is the
  present one, and a bundle whose edge leads to an inbound its node will not run is released.
  `ReleaseIsOneState` says, and its theorem for every graph, that there is no other way: a row
  over which no single-node preview was saved is released as one state;
* a preview made while a release prepares is still current after it succeeded; the next
  release would roll back to the topology before it (307, 311);
* `activateNext` overwrites a generation that was raised since the preparation (69);
* `RollbackRelease` asks for nothing but the status of its release: an older failed release
  may be rolled back over a newer success (144, 74);
* the drift `UPDATE` of a slow fetch has no condition on the status: `succeeded` becomes
  `manual_required` (310);
* two failures in one application make the agent report a version it does not run (313).

`TerminalIsFinal` names the only two ways out of a finished release, and
`StagedRollout` allows `Doubt` for the same reason.

Met while modelling, and part of the models:
* a report the panel refuses for good (older than seven days, an inbound that is gone) is
  resent for ever and nothing is sampled meanwhile (`AcceptableIsSettled` speaks of the others);
* a form of an override whose row was deleted and created again is accepted, for the
  revision starts at 1 again; `EditsAreInformed` leaves overrides out (`P2-DESIGN.md:131`);
* defaults of a group with parameters are compared with no base64 subscription, whose
  edits they block from then on;
* `DeployPreview` asks for no release: it replaces the topology of a deployment that still names
  a release of the past, or one that drives the node, until the next switch writes both
  (`DeploymentMatchesRow`); a rollback returns to what was deployed when the preview was made;
* `DeleteInboundForNode` consults neither drafts nor deployments, where `P2-DESIGN.md:245` and
  `281` say it does; an inbound of a node with a deployment can be deleted but never edited
  again, not even after the rollback of a first deployment, which leaves an empty row;
* a preview closes over the links of drafts only, where line 306 also names what is deployed;
* a registration puts the user into a group without `InvalidateTopologyAuthorization`.

## 5. Fairness

`NoReleaseHangs` (`release_pair`): every release that is driving is eventually in
the set that `RecoverReleases` updates. `RunReleases` ticks every ten seconds for as
long as the panel runs, its `UPDATE` has a condition on time only, and no step moves
`created_at`, so a driving release is overdue after fifteen minutes at the latest.
A failing `UPDATE` is repeated at the next tick. No agent, administrator or network is
assumed fair: acknowledgements may all be lost.

`Converges` (`agent_core`): `WF_vars(Agent)`, the loop goes on. The ticker of `main` starts a round
every interval, each request, check and start in it has a timeout, and an agent that
died is started again by its container (a crash is a single step). Nothing in the
environment is fair. That failures end is a premise of the property
(`<>[][~Setback]_vars`), as is that the panel keeps serving one version and sends no
deployment of another; `Setback` lists only failures from outside, so that a state the
agent cannot leave by itself would be a counterexample.

`AcceptableIsSettled` (`traffic_metering`): the agent's ticker calls `collectTraffic` again and
again (`Collect`), what it started ends (`Sample` or its failure), and a request that is repeated
for ever gets through and is answered at last (`SF_vars(Settle)`). Time is not fair: in
some behaviours it stops, in others the report becomes too old.

`DirtyIsRecomputed` (`traffic_rollup`): requests end one way or the other (their context has a
deadline), the ticker of `Run` fires every minute, and a database that fails at times
does not fail for ever: strong fairness of a worker's steps, because aborts interrupt them.

`QueueDrains` (`mail_queue`): the tickers of `RunAlerts` and `Run` fire, leases and delays run
out, and an attempt ends within its timeouts. No success is assumed: a record leaves the
queue at the latest when its attempts are used up.

## 6. Proofs

`TopologyReleaseProofs` proves, for every set of nodes, chains of any length
that meet `ChainAssumption` and all bounds:

* `TypeCorrect`: `TypeOK` is invariant;
* `SuccessIsEarned`: `SucceededMeansApplied` is invariant;
* `NoGap`: `SwitchedWithoutGap` is invariant;
* `DownstreamFirst`: `AppliedDownstreamFirst` is invariant;
* `RowIsDeployed`: `Spec => DeploymentMatchesRow`.

All but the last are corollaries of `Invariance`, `Spec => []IInv` with
`IInv == TypeOK /\ Shaped /\ DocumentsKnown`. None of them is inductive:
that a release succeeds only with all nodes applied needs to know, at the last
acknowledgement, that no row is failed, pending or queued for rollback. `Shaped` says for
each release status what its rows may be (`Fits`): while it applies, exactly one
node works, all downstream have applied, all upstream are prepared and none of
them was taken back; `Gapless` orders the phases along the chain and says that no two nodes
have the same place; `RowOK` rules out mixtures of phase and status.
`DocumentsKnown` says that every document, and every interrupted fetch, names a node
of its release, without which an acknowledgement could add a row. The proof of a
step has three parts: `TypeNext`, `ShapeNext` and `DocumentsNext`, each with one case per
group of actions; `ApplyShape` and `RollbackShape` are the heart, the effect of
`activateNext` on rows from which one node is done (`Steady`) or queued
(`Withdrawing`). `DeploymentMatchesRow` speaks of steps and needs, beside `IInv`, that a deployment
names a row that was switched (`Named`). Two transactions write a deployment:
`activateNext`, in either direction, with the row it names, and `DeployPreview`, the topology
alone, so that `Named` stays. Every other step writes nothing but the status of rows, or rows of a
release whose number no deployment has yet.

Assumptions: `BoundsAssumption` (the bounds are natural numbers) and
`ChainAssumption` (`DeploymentOrder` numbers the nodes of a chain, each once, and a
chain contains the node it is previewed from). TLC evaluates both in every run.

The second part of the module proves, from the same invariant,

* `Implementation`: `Spec => ImplementsStagedRollout`, every step of the panel is a
  step of the staged rollout or invisible to it;
* `OverIsOver`: `Spec => TerminalIsFinal`.

The mapping reads a node's stage off its row (`StageOf`) and the verdict off the
release's status (`VerdictOf`). `AdvanceRows` and `WithdrawRows` say what rows a step
must relate to be an `Advance` or a `Withdraw`; `AdvanceStep`, `WithdrawStep`,
`IdleStep`, `DoubtStep` and `StopStep` conclude the abstract step from that. `ApplyStep` and
`RollbackStep` are again the two directions of `activateNext`: the first takes from the
invariant that all downstream of the node it switches have confirmed, the second that
all upstream have been taken back. `NextStep` has one case per action. In
`OverIsOver` the invariant excludes what the guards alone do not: that a document
of a release could write the status of another.

`AgentCoreProofs` proves, for any set of configurations, any deployments and any number
of crashes and failed writes:

* `TypeCorrect`: `TypeOK` is invariant (proved only, no run repeats it);
* `Readable`: `LastGoodIsReadable` is invariant;
* `HasRun`: `LastGoodHasRun` is invariant;
* `Kept`: `Spec => LastGoodIsKept`;
* `NoLate`: `Spec => NoLateCommand`;

and where at most one durable write fails or one crash happens (`MaxMishaps <= 1`):

* `ReportTrue`: `ReportIsTrue` is invariant;
* `AckTrue`: `AckMeansApplied` is invariant.

`Invariance` is `Spec => []IInv` with
`IInv == TypeOK /\ FilesOK /\ LastGoodHasRun /\ CandidateOK /\ DeploymentOK`. That the files agree
is not inductive: it depends on the order of the writes, hence on how far a
candidate has come (`CandidateOK`: after the first write the state file names the
candidate, after the first of a restoration what was there before, and without
anything before no configuration is left) and on what it found when it began.
`FilesOK` is `LastGoodIsReadable` strengthened by the file `.node`. `DeploymentOK`
says that what has passed the comparison with the record stays ahead of it until it is
acknowledged. `WriteEffect` is the heart: what one durable write does to the last good
configuration; `ApplyingNext` says where each step of an application leads, and
`PendingNext` who it is done for.

The two theorems about a single failure rest on `Trust`, `Spec => []TrustOK` with
`TrustOK == InForceOK /\ VerdictOK /\ RestoredOK /\ UnharmedOK`: what a rollback starts again is
the last good configuration, because before the failure that made it necessary the files
agreed (`UnharmedOK`), and what is going to be acknowledged without an error is on disk. The
hypothesis cannot be dropped: with two failures, the second in the repair of the first,
TLC finds both properties violated. How often a core exits or fails to start is not bounded.

Assumptions: `VersionAssumption`, `PendingAssumption` (releases and generations
are positive, as the agent's validation of a deployment demands) and
`MishapAssumption`, evaluated by TLC in the agent's runs.

`TrafficProofs` proves of `TrafficMetering`, for any users, any number of reports, restarts and resets and
any period limit and retention the assumption allows:

* `Metering`: `Spec => MetersBytes`, every step is a step of `ByteMeter` or invisible to it;
* `Exactness`: `Spec => CollectingIsExact`;
* `Understood`: `PendingIsUnderstood` is invariant.

`Invariance` is `Spec => []IInv` with nine conjuncts. A report that was sent may arrive at any later
time, so what keeps it from counting twice must hold of all reports ever sent: they are
numbered without gaps (`Numbered`), all but the pending one are in the panel's table or too old for
it (`Settled`), and the panel stands at the last or the one before (`Positioned`). `Tabled` and
`Sourced` say where the rows and cursors came from; `Bounded` compares what any two
reports say with what was carried between their samples, and is the reason why no byte
is counted that was not carried; `Exact` turns the inequality into an equation while no
restart was invisible. `Archived` adds the snapshots of resets to the current period.

The sums of both modules (`MapThenSumSet`) are folds, which take one element after the other in an
order nobody knows. The first part of `TrafficProofs` shows of any function and any finite set what
the proofs need, for `SumOf`, which both sums are shown to equal: that a sum exists
and is fixed by its equation, that any element may be taken out (`SumRemove`), that only what is not
zero counts (`SumSame`), that sums of disjoint sets add up (`SumApart`). Where an induction over the set would be due, a smallest
subset of which the claim fails is led to a contradiction.

Assumption: `PeriodsArePositive` (rows of reports are kept for at least as long as a report
may span), evaluated in `traffic_metering`.

Of `TrafficRollup` it proves, for any nodes, workers, lengths of buckets and periods,
retentions, amounts and bounds that `RetentionsFit` allows:

* `SplitKeepsBytes`: the shares `Split` gives the buckets are not negative and add up to the bytes
  of the report. The last bucket takes what the others leave, so what has to be shown is
  that rounding never hands out more than there is: `PortionBound` and `HandedOut` compare the sum of the
  shares before a point of time with the part of the span that lies before it;
* `FiguresAgree`: `AggregatesAgree` is invariant;
* `QueriesAreComplete`: `QueryIsComplete` is invariant;
* `FiguresAreCharged`: `AccountsAgree` is invariant: the figures, which are divided, added up and
  recomputed, and the accounts, which are none of this, never part.

`RollInvariant` is `[]RollInv` with eight conjuncts. `AggregatesAgree` alone is not inductive: it says
nothing of a dirty period, whose aggregate a commit will overwrite with what a worker summed
before. `Recomputed` says that this sum is still true: whoever writes the period has to mark it
first, and the worker holds the mark (`Held`). `Whole` says that no record of a dirty
period is missing, so that the sum was true when it was taken. `Cleanup` keeps it, since it spares
the records of dirty periods; and so does a commit that makes a period dirty which was
clean, for a period that a late report can touch has no record old enough to be deleted: `LateIsNotOld`,
from `Keep["5m"] >= Late + Day` and from buckets that do not straddle periods. `Stored` says what the other
records are worth, `Written` how old the buckets of an open transaction can be, `Shown`
that a period without bytes has no aggregate, which no row being written would
leave standing; `Formed` holds the types. `AnswersAgree` derives the queries: whatever
`ParseQuery` lets pass is younger than what `Cleanup` deletes.

The accounts have an invariant of their own, `ChargeInv`, shown to survive each step from a state of
`RollInv`. `Owed` says that an open transaction will charge what its shares add up to, which is
`SplitKeepsBytes` at its beginning; `Charged` that the account holds the sum over all buckets, and that
no bucket with bytes lies ahead of the clock. A commit adds a function of the buckets to another
(`SumAdded`). `PeriodsHoldAll` gives the aggregates: the periods of a grain are disjoint and
together contain every bucket with bytes, and a set may be summed part by part (`SumOfParts`).

Assumption: `RetentionsFit`, evaluated in `traffic_rollup`.

`AccountsProofs` proves, for any number of clients, codes, uses and limits:

* `InvitesAreWorthTheirUses`: `InviteCountsAccounts` is invariant;
* `VerifiedIsProven`: `VerifiedWasProven` is invariant;
* `LimitsHold`: `RateHolds` is invariant.

`Invariance` is `Spec => []IInv` with
`IInv == Typed /\ Exclusive /\ Prepared /\ InviteCountsAccounts /\ Proven /\ Rated`. A commit writes
what its transaction read several steps ago, so each property needs to know that
what was read still holds. `Exclusive` says of every pair of transactions which
locks they cannot both hold; `Prepared` says what a transaction knows under its locks (a code
with a use left, an address without an account). `Proven` adds that a ticket which a
transaction holds stays verified (`TicketHeld`), and says which challenge proves which
account; `Rated` adds that whoever has counted still has room for one more (`HasRoom`), which
another client's commit would take away if the advisory lock did not keep it out.
`Movement` sorts the steps by what they touch: `Outside` leaves every transaction alone, `Moves` takes
one of them a step further and leaves the tables alone, `Ends` commits or rolls back.
Each conjunct of `IInv` is then shown to survive each kind.

Assumptions: `LimitsArePositive` and `SetsAreFinite` (the addresses and the requests of a behaviour are
finitely many, without which nothing can be counted), evaluated by TLC in the run
`accounts`.

`MailQueueProofs` proves, for any number of workers, thresholds, limits and epochs:

* `CopiesAreOwed`: `DuplicatesAreFaults` is invariant;
* `FinalStays`: `Spec => FinalIsFinal`;
* `UrgencyGrows`: `Spec => MostUrgentLast`.

`Invariance` is `Spec => []IInv` with `IInv == Typed /\ Claimed /\ Accounted /\ Attempted /\ Calm`. `Claimed`
says that no two workers are in the same attempt of one record, so that at most one of them
is heard. `Accounted` counts for each record the copies delivered, those that workers
are about to deliver and the one that may still be begun: together they exceed the faults by
one at most, and a worker that lost its lease is in the sum. `Calm` is for the order of
alerts: while nobody edits a rule, usage only grows, and a threshold once reached stays
reached, so that the most urgent one, the only one a worker may start to send, never
becomes less urgent.

Assumptions: `ThresholdsArePercentages`, `WorkersAreFinite` (or copies under way could not be
counted) and `LimitsAreBytes` (a limit is a number of bytes, and one of those in an
instance is the largest), evaluated in `mail_queue`.

`SubscriptionsProofs` proves, for any templates, subscriptions, keys, groups and definitions:

* `TypeCorrect`: `TypeOK` is invariant;
* `BoundStaysAvailable`: `BoundIsAvailable` is invariant;
* `RowsFit`: `RowsFitTheirDefinition` is invariant;
* `PinnedIsTheSame`: `Spec => PinnedStaysTheSame`;
* `NoLostEdit`: `Spec => EditsAreInformed`.

`Invariance` is `Spec => []IInv` with `IInv == TableInv /\ Informed`. That a subscription can be rendered and
that its rows fit depend on each other and on rows being those of live subscriptions
(`Attached`), since publishing, archiving and rebinding each compare what the others write.
`Informed` says that an open form was filled at a revision no later than the record's, and if
it is the record's, with the record itself; `Advances`, which every step meets, that a revision
rises whenever the record changes and that a version never changes. A form accepted
for its revision was therefore filled with what it replaces.

Assumptions: `BoundsArePositive` and `AbsenceIsNoRow` (an absent row is not mistaken for one),
evaluated in `subscriptions`.

`TopologyDraftsProofs` proves, for any finite set of inbounds on any nodes, any links and roles:

* `NoWayRound`: `NeverReenters` is invariant;
* `OneStateIsReleased`: `Spec => ReleaseIsOneState`;
* `DownstreamIsFirst`: `OnePlaceDownstreamFirst` is invariant;
* `CommitIsCurrent`: `Spec => SimpleDeployIsCurrent`.

The first half of the module is about the operators, without any behaviour. In a graph that
`ValidateGraph` accepts at most one link leaves an inbound; a walk from an entry
passes every machine once, hence ends; the depth of an inbound falls by one with every link.
`DeploymentOrder` sorts by the largest of these depths, so where no machine has a
link from one inbound and a link to another, the order puts downstream first. What holds of walks of every
length is shown by taking a shortest walk that fails, not by induction.

The second half is `Spec => []IInv` with `IInv == Typed /\ NeverReenters /\ Planned /\ Saved /\ Requested /\ Driven`.
The roads from a draft to a deployment read first and compare revisions later, so the
invariant says of everything that was read before that it is what the tables say *as long as the revisions
kept with it stand*: of a preview under way (`Planned`) and of a bundle (`SoundBundle`) those of graph
and material, of a single-node preview, stored or on its way (`Stands`), those of the node's draft
and of material. Every step that changes what was read moves one of them (`Steps`). For a single
node the graph revision is not compared, so its draft has to say enough: `Stands` adds that
its links lead to inbounds other than entries (`Firm`), which no saved graph changes. One row holds both kinds of preview (`SoundRow`). Once a single-node preview was saved over it,
its material revision is no longer the one the bundle was made at, and all that remains of the bundle
is its order (`Rolled`), which needs no revision: hence `DownstreamIsFirst` and `NoWayRound`
without exception, and `OneStateIsReleased` with one, which the counterexample in section 4 shows
to be needed. Neither needs the capability of an agent to last.

Assumption: `GraphIsTyped` (finitely many nodes and inbounds, each inbound on a node), evaluated in
`topology_drafts`.

`ClientDeliveryProofs` proves, for any users, groups, nodes, inbounds and requests and any
number of changes and secrets:

* `ClientsAreKnown`: `Spec => NodeKnowsItsClients`;
* `RevokedIsOut`: `Spec => RevokedIsLeftOut`.

`Invariance` is `Spec => []IInv` with `IInv == Shaped /\ Watched /\ Agreed /\ Frozen`. Neither request is a
transaction, so a user may lose access between two of its statements. `Watched` relates what a
request carries to who was entitled at some time while it ran; `Agreed` says that every secret a client was
handed is the one that is stored until its inbound is deleted, also when two
requests issued it at once; `Frozen` that the inbounds of a node with a deployment are those of
the snapshot or deleted, so that the agent's document, made from the snapshot, lists what
the download, made from the tables, offers.

Assumption: `DeliveryAssumption` (types; a request is not a node), evaluated in `client_delivery`.

Checked by TLC only: the counterexample of `order_upstream_first`; the liveness properties (`NoReleaseHangs`, `Converges`,
`AcceptableIsSettled`, `DirtyIsRecomputed`, `QueueDrains`), for which the prover has no rules (liveness and
`ENABLED`). Types are proved with the other invariants, as `TypeOK` or as the conjunct
`Typed`, `Shaped` or `Formed` of the inductive invariant.

## 7. Not modelled

* *Topology*: `PruneReleaseHistory`; the order in which transactions take row locks
  (Postgres ends a deadlock with an error, which is a step that does not happen);
  agents composed with releases, whose environments are free instead, that is, allow
  more than the other side does.
* *Nodes*: creation of nodes, enrolment and agent tokens.
* *Agent*: orphaned cores of an agent that runs outside a container.
* *Users*: passwords and sessions, deletion of users, groups other than as sets.
* *Mail*: the digests administrators receive, text, the SMTP dialogue.
* *Generators, wire contract, HTTP layer, middleware, start-up*: they hold no
  protocol state; their output is text, which the models abstract to versions.
* *Frontend and deployment scripts*: no logic that the backend does not check again.

PROJECT.json lists every component with its status, every hazard with the properties that cover
it or the reason why none does.

--------------------------- MODULE ClientDelivery ---------------------------
(***************************************************************************)
(* How a user and a node come to share a secret.  The client downloads the *)
(* subscription /sub/:token, the agent fetches the configuration of its    *)
(* node; neither request is a transaction.  Between two of its statements  *)
(* administrators change memberships, inbounds and deployments, the        *)
(* account runs out, and other requests issue credentials: a credential is *)
(* issued on demand, by whoever asks for it first.                         *)
(***************************************************************************)
EXTENDS Naturals, FiniteSets

CONSTANTS
    Users,
    Groups,         \* node groups
    Nodes,          \* ids of managed nodes
    Inbounds,       \* ids of entry inbounds; an id is never used again
    Protocols,
    Requests,       \* downloads of subscriptions that are served at a time
    NodeOf,         \* the node of each inbound
    OwnerOf,        \* the user whose subscription a request downloads
    GroupOf,        \* the node group of that subscription
    MaxSecrets,     \* bound: secrets that are generated
    MaxChanges      \* bound: changes by administrators and by time

ASSUME DeliveryAssumption ==
    /\ Inbounds \subseteq Nat /\ Nodes \subseteq Nat /\ Requests \intersect Nodes = {}
    /\ Protocols \intersect {"none", "deleted"} = {}
    /\ NodeOf \in [Inbounds -> Nodes]
    /\ OwnerOf \in [Requests -> Users] /\ GroupOf \in [Requests -> Groups]
    /\ MaxSecrets \in Nat /\ MaxChanges \in Nat

VARIABLES
    member,     \* user_node_groups: the groups of each user
    contains,   \* node_group_members: the nodes of each group
    live,       \* the users who are active and not expired
    protocol,   \* inbounds: the protocol of each row
    deployed,   \* topology_deployments: the protocols of the snapshot, by node
    credential, \* user_credentials: the secret, by user and inbound
    minted,     \* secrets generated so far
    changes,
    download,   \* the requests of clients
    fetch,      \* the request of each node's agent
    handed,     \* what clients were given: <<user, inbound, secret>>
    roster,     \* the same of the configuration that each node was given last
    entitled    \* history: who was authorised at some moment since a request began

admin == <<member, contains, live, protocol, deployed, changes>>
vars == <<admin, credential, minted, download, fetch, handed, roster, entitled>>

Least(S) == CHOOSE i \in S : \A j \in S : i <= j
Present == {i \in Inbounds : protocol[i] \in Protocols}
On(n) == {i \in Present : NodeOf[i] = n}
Stored(u, i) == <<u, i>> \in DOMAIN credential

\* What the statements on credentials ask for: membership in any group, and a
\* user who is active.  The first statement of a request for a new one does not
\* ask for the second.
Reaches(u, i) == i \in Present /\ \E g \in member[u] : NodeOf[i] \in contains[g]
Authorised(u, i) == u \in live /\ Reaches(u, i)
Entitled == {p \in Users \X Inbounds : Authorised(p[1], p[2])}

NoDownload == [step |-> "idle", nodes |-> {}, inbounds |-> {}, protocols |-> <<>>,
               secret |-> 0, proxies |-> {}]
NoFetch == [step |-> "idle", snapshot |-> <<>>, pending |-> {}]

Init ==
    /\ member \in [Users -> SUBSET Groups] /\ contains \in [Groups -> SUBSET Nodes]
    /\ live = Users
    /\ protocol \in [Inbounds -> Protocols \union {"none"}]
    /\ \E S \in SUBSET Nodes : deployed = [n \in S |-> [i \in On(n) |-> protocol[i]]]
    /\ changes = 0
    /\ credential = <<>> /\ minted = 0
    /\ download = [r \in Requests |-> NoDownload]
    /\ fetch = [n \in Nodes |-> NoFetch]
    /\ handed = {} /\ roster = [n \in Nodes |-> {}]
    /\ entitled = [x \in Requests \union Nodes |-> {}]

-----------------------------------------------------------------------------
(* Administrators and time.  Each is a transaction.                        *)

Underway(x) == IF x \in Requests THEN download[x].step # "idle" ELSE fetch[x].step # "idle"

Change ==
    /\ changes < MaxChanges /\ changes' = changes + 1
    /\ entitled' = [x \in DOMAIN entitled |->
                      IF Underway(x) THEN entitled[x] \union Entitled' ELSE {}]
    /\ UNCHANGED <<minted, download, fetch, handed, roster>>

SetUserGroupIDs(u) ==
    /\ \E S \in (SUBSET Groups) \ {member[u]} : member' = [member EXCEPT ![u] = S]
    /\ UNCHANGED <<contains, live, protocol, deployed, credential>>
    /\ Change

SetNodeIDs(g) ==
    /\ \E S \in (SUBSET Nodes) \ {contains[g]} : contains' = [contains EXCEPT ![g] = S]
    /\ UNCHANGED <<member, live, protocol, deployed, credential>>
    /\ Change

\* The account runs out, or an administrator moves its end.
Expire(u) ==
    /\ live' = IF u \in live THEN live \ {u} ELSE live \union {u}
    /\ UNCHANGED <<member, contains, protocol, deployed, credential>>
    /\ Change

SetRow(i, p) ==
    /\ protocol' = [protocol EXCEPT ![i] = p]
    /\ credential' = [k \in {k \in DOMAIN credential : p # "deleted" \/ k[2] # i} |-> credential[k]]
    /\ UNCHANGED <<member, contains, live, deployed>>
    /\ Change

CreateInbound(i) == protocol[i] = "none" /\ \E p \in Protocols : SetRow(i, p)

\* An inbound of a node that was ever deployed keeps what clients are told of it.
MayUpdate(i) == i \in Present /\ NodeOf[i] \notin DOMAIN deployed
UpdateInbound(i) == MayUpdate(i) /\ \E p \in Protocols \ {protocol[i]} : SetRow(i, p)

DeleteInbound(i) == i \in Present /\ SetRow(i, "deleted")

SetDeployment(n, snapshot) ==
    /\ deployed' = [m \in DOMAIN deployed \union {n} |->
                      IF m = n THEN snapshot ELSE deployed[m]]
    /\ UNCHANGED <<member, contains, live, protocol, credential>>
    /\ Change

\* The end of a deployment, whose checks say that nothing moved since its preview.
Deploy(n) == SetDeployment(n, [i \in On(n) |-> protocol[i]])

\* The rollback of a first deployment leaves the row, for a node without inbounds.
TakeBack(n) == n \in DOMAIN deployed /\ SetDeployment(n, <<>>)

-----------------------------------------------------------------------------
(* A client downloads its subscription.                                    *)

Answering(r, d) ==
    /\ download' = [download EXCEPT ![r] = d]
    /\ UNCHANGED <<admin, fetch, roster>>

Keeps == UNCHANGED <<credential, minted, handed, entitled>>

\* The token's subscription is read, and its owner.
Open(r) ==
    /\ download[r].step = "idle" /\ OwnerOf[r] \in live
    /\ Answering(r, [NoDownload EXCEPT !.step = "opened"])
    /\ entitled' = [entitled EXCEPT ![r] = Entitled]
    /\ UNCHANGED <<credential, minted, handed>>

GroupNodes(r) == IF GroupOf[r] \in member[OwnerOf[r]] THEN contains[GroupOf[r]] ELSE {}

ListNodes(r) ==
    /\ download[r].step = "opened" /\ GroupNodes(r) # {}
    /\ Answering(r, [download[r] EXCEPT !.step = "serving", !.nodes = GroupNodes(r)])
    /\ Keeps

ListInbounds(r) ==
    LET d == download[r]  n == Least(d.nodes) IN
    /\ d.step = "serving" /\ d.inbounds = {} /\ d.nodes # {}
    /\ Answering(r, [d EXCEPT !.nodes = @ \ {n}, !.inbounds = On(n),
                              !.protocols = [i \in On(n) |-> protocol[i]]])
    /\ Keeps

\* The entry that is being served, with the credential read or without one: an
\* entry without a credential is left out of the client's configuration.
Entry(r) == Least(download[r].inbounds)
ReadCredential(r) ==
    IF Stored(OwnerOf[r], Entry(r)) /\ Authorised(OwnerOf[r], Entry(r))
    THEN {credential[<<OwnerOf[r], Entry(r)>>]} ELSE {}
Served(r, secrets) ==
    [download[r] EXCEPT !.step = "serving", !.inbounds = @ \ {Entry(r)}, !.secret = 0,
                        !.proxies = @ \union {<<Entry(r), s>> : s \in secrets}]

GetUserCredential(r) ==
    /\ download[r].step = "serving" /\ download[r].inbounds # {}
    /\ Answering(r, IF ReadCredential(r) # {} THEN Served(r, ReadCredential(r))
                    ELSE [download[r] EXCEPT !.step = "missing"])
    /\ Keeps

SameProtocol(r) == protocol[Entry(r)] = download[r].protocols[Entry(r)]

\* EnsureUserCredential is three statements: the material, the insertion, the
\* row that is there in the end.
ReadMaterial(r) ==
    /\ download[r].step = "missing"
    /\ IF Reaches(OwnerOf[r], Entry(r)) /\ SameProtocol(r)
       THEN /\ minted < MaxSecrets /\ minted' = minted + 1
            /\ Answering(r, [download[r] EXCEPT !.step = "issuing", !.secret = minted + 1])
       ELSE minted' = minted /\ Answering(r, Served(r, {}))
    /\ UNCHANGED <<credential, handed, entitled>>

Store(new) == [k \in DOMAIN credential \union DOMAIN new |->
                 IF k \in DOMAIN credential THEN credential[k] ELSE new[k]]

InsertCredential(r) ==
    LET k == <<OwnerOf[r], Entry(r)>> IN
    /\ download[r].step = "issuing"
    /\ credential' = IF Authorised(k[1], k[2]) /\ SameProtocol(r)
                     THEN Store([x \in {k} |-> download[r].secret]) ELSE credential
    /\ Answering(r, [download[r] EXCEPT !.step = "issued"])
    /\ UNCHANGED <<minted, handed, entitled>>

\* Fault: the request gives out what it generated, not what is stored.
FaultyReadIssued(r) ==
    /\ download[r].step = "issued"
    /\ Answering(r, Served(r, {download[r].secret}))
    /\ Keeps

ReadIssued(r) ==
    /\ download[r].step = "issued"
    /\ Answering(r, Served(r, ReadCredential(r)))
    /\ Keeps

Leave(x) == entitled' = [entitled EXCEPT ![x] = {}]

\* The client has its configuration.
Answer(r) ==
    LET d == download[r] IN
    /\ d.step = "serving" /\ d.inbounds = {} /\ d.nodes = {}
    /\ handed' = handed \union {<<OwnerOf[r], p[1], p[2]>> : p \in d.proxies}
    /\ Answering(r, NoDownload) /\ Leave(r)
    /\ UNCHANGED <<credential, minted>>

\* Refused, or a statement or the template failed.
Refuse(r) ==
    /\ download[r].step # "idle"
    /\ Answering(r, NoDownload) /\ Leave(r)
    /\ UNCHANGED <<credential, minted, handed>>

Download(r) ==
    \/ Open(r) \/ ListNodes(r) \/ ListInbounds(r) \/ GetUserCredential(r) \/ ReadMaterial(r)
    \/ InsertCredential(r) \/ ReadIssued(r) \/ Answer(r) \/ Refuse(r)

-----------------------------------------------------------------------------
(* The agent of a node fetches its configuration.                          *)

Fetching(n, f) ==
    /\ fetch' = [fetch EXCEPT ![n] = f]
    /\ UNCHANGED <<admin, download, handed>>

GetDeploymentForAgent(n) ==
    /\ fetch[n].step = "idle" /\ n \in DOMAIN deployed
    /\ Fetching(n, [NoFetch EXCEPT !.step = "deployed", !.snapshot = deployed[n]])
    /\ entitled' = [entitled EXCEPT ![n] = Entitled]
    /\ UNCHANGED <<credential, minted, roster>>

\* ReconcileUserCredentialsForNode looks first and inserts then, in one transaction.
SelectPending(n) ==
    /\ fetch[n].step = "deployed"
    /\ Fetching(n, [fetch[n] EXCEPT !.step = "pending",
                                    !.pending = {p \in Entitled : NodeOf[p[2]] = n}])
    /\ UNCHANGED <<credential, minted, roster, entitled>>

Generated(new) ==
    {f \in [new -> minted + 1 .. minted + Cardinality(new)] :
       \A p, q \in new : f[p] = f[q] => p = q}

\* A row for an inbound that is gone breaks the transaction: see FetchFails.
Reconcile(n) ==
    LET new == fetch[n].pending \ DOMAIN credential IN
    /\ fetch[n].step = "pending"
    /\ \A p \in fetch[n].pending : p[2] \in Present
    /\ minted + Cardinality(new) <= MaxSecrets
    /\ minted' = minted + Cardinality(new)
    /\ \E f \in Generated(new) : credential' = Store(f)
    /\ Fetching(n, [fetch[n] EXCEPT !.step = "reconciled", !.pending = {}])
    /\ UNCHANGED <<roster, entitled>>

\* Fault: the list trusts that rows exist only for those who are authorised.
FaultyListed(n) ==
    {<<k[1], k[2], credential[k]>> : k \in {p \in DOMAIN credential : NodeOf[p[2]] = n}}

\* The statement that lists, and what of it belongs to the snapshot.
Listed(n) ==
    {<<k[1], k[2], credential[k]>> : k \in {p \in DOMAIN credential :
        NodeOf[p[2]] = n /\ Authorised(p[1], p[2])}}
DeployedCredentials(n, list) ==
    LET s == fetch[n].snapshot IN
    {c \in list : c[2] \in DOMAIN s /\ s[c[2]] = protocol[c[2]]}

ListUserCredentials(n) ==
    /\ fetch[n].step = "reconciled"
    /\ roster' = [roster EXCEPT ![n] = DeployedCredentials(n, Listed(n))]
    /\ Fetching(n, NoFetch) /\ Leave(n)
    /\ UNCHANGED <<credential, minted>>

FetchFails(n) ==
    /\ fetch[n].step # "idle"
    /\ Fetching(n, NoFetch) /\ Leave(n)
    /\ UNCHANGED <<credential, minted, roster>>

GetConfig(n) ==
    \/ GetDeploymentForAgent(n) \/ SelectPending(n) \/ Reconcile(n)
    \/ ListUserCredentials(n) \/ FetchFails(n)

Next ==
    \/ \E u \in Users : SetUserGroupIDs(u) \/ Expire(u)
    \/ \E g \in Groups : SetNodeIDs(g)
    \/ \E i \in Inbounds : CreateInbound(i) \/ UpdateInbound(i) \/ DeleteInbound(i)
    \/ \E n \in Nodes : Deploy(n) \/ TakeBack(n) \/ GetConfig(n)
    \/ \E r \in Requests : Download(r)

Spec == Init /\ [][Next]_vars

-----------------------------------------------------------------------------
(* Properties.                                                             *)

Secrets == 1..MaxSecrets
\* Type invariant: every variable keeps the shape its table or local has.
TypeOK ==
    /\ member \in [Users -> SUBSET Groups] /\ contains \in [Groups -> SUBSET Nodes]
    /\ live \subseteq Users /\ changes \in 0..MaxChanges /\ minted \in 0..MaxSecrets
    /\ protocol \in [Inbounds -> Protocols \union {"none", "deleted"}]
    /\ DOMAIN deployed \subseteq Nodes /\ DOMAIN credential \subseteq Users \X Inbounds
    /\ \A k \in DOMAIN credential : credential[k] \in Secrets /\ k[2] \in Present
    /\ handed \subseteq Users \X Inbounds \X Secrets
    /\ roster \in [Nodes -> SUBSET (Users \X Inbounds \X Secrets)]

(* A client and a node agree.  Whatever secret a client was ever given for  *)
(* an inbound, the configuration of its node lists it, as long as the user  *)
(* is authorised and the node's deployment has the inbound: requests that   *)
(* issue the same credential at once give out one, and an edit of an        *)
(* inbound does not drop its users (EnsureUserCredential, ReconcileUser-    *)
(* CredentialsForNode, deployedCredentials, UpdateInbound).                 *)
NodeKnowsItsClients ==
    [][\A n \in Nodes : ListUserCredentials(n) => \A h \in handed :
          (/\ h[2] \in DOMAIN fetch[n].snapshot /\ NodeOf[h[2]] = n
           /\ Authorised(h[1], h[2])) => h \in roster'[n]]_vars

(* Taking an authorisation back works at once: a download or a fetch that   *)
(* begins after the user was removed, or ran out, carries no credential for *)
(* what he lost, although his rows in user_credentials stay.                *)
RevokedIsLeftOut ==
    [][/\ \A r \in Requests : Answer(r) =>
             \A p \in download[r].proxies : <<OwnerOf[r], p[1]>> \in entitled[r]
       /\ \A n \in Nodes : ListUserCredentials(n) =>
             \A c \in roster'[n] : <<c[1], c[2]>> \in entitled[n]]_vars
=============================================================================

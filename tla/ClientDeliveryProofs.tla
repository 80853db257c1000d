------------------------ MODULE ClientDeliveryProofs ------------------------
(***************************************************************************)
(* Theorems about ClientDelivery, for any users, groups, nodes, inbounds   *)
(* and requests and any number of changes: a node lists every secret its   *)
(* clients were given, and what was taken back is left out.                *)
(***************************************************************************)
EXTENDS ClientDelivery, TLAPS

-----------------------------------------------------------------------------
(* The inductive invariant.                                                *)

IsDownload(d) ==
    d \in [step : {d.step}, nodes : {d.nodes}, inbounds : {d.inbounds},
           protocols : {d.protocols}, secret : {d.secret}, proxies : {d.proxies}]
IsFetch(f) == f \in [step : {f.step}, snapshot : {f.snapshot}, pending : {f.pending}]

Shaped ==
    /\ download = [r \in Requests |-> download[r]] /\ \A r \in Requests : IsDownload(download[r])
    /\ fetch = [n \in Nodes |-> fetch[n]] /\ \A n \in Nodes : IsFetch(fetch[n])
    /\ entitled = [x \in Requests \union Nodes |-> entitled[x]]
    /\ roster = [n \in Nodes |-> roster[n]] /\ live \subseteq Users
    /\ protocol \in [Inbounds -> Protocols \union {"none", "deleted"}]

\* Whoever is authorised while a request is underway is on its record, and so is
\* everyone it carries a credential of.
Watched ==
    /\ \A x \in Requests \union Nodes : Underway(x) => Entitled \subseteq entitled[x]
    /\ \A r \in Requests : Underway(r) =>
          \A p \in download[r].proxies : <<OwnerOf[r], p[1]>> \in entitled[r]

\* A secret that was read is the one that is stored, until the inbound is deleted.
Issued(u, i, s) == protocol[i] = "deleted" \/ (Stored(u, i) /\ credential[<<u, i>>] = s)
Agreed ==
    /\ \A h \in handed : h = <<h[1], h[2], h[3]>> /\ Issued(h[1], h[2], h[3])
    /\ \A r \in Requests : \A p \in download[r].proxies : Issued(OwnerOf[r], p[1], p[2])

\* The inbounds of a node that was deployed are those of the snapshot or deleted.
Faithful(n, s) ==
    \A i \in DOMAIN s : /\ i \in Inbounds /\ NodeOf[i] = n
                        /\ s[i] \in Protocols /\ protocol[i] \in {s[i], "deleted"}
Frozen ==
    /\ \A n \in DOMAIN deployed : Faithful(n, deployed[n])
    /\ \A n \in Nodes : Underway(n) => n \in DOMAIN deployed /\ Faithful(n, fetch[n].snapshot)

IInv == Shaped /\ Watched /\ Agreed /\ Frozen

LEMMA Initially == Init => IInv
<1> SUFFICES ASSUME Init PROVE IInv
  OBVIOUS
<1> USE DEF Init, NoDownload, NoFetch
<1>1. Shaped
  BY DEF Shaped, IsDownload, IsFetch
<1>2. \A x \in Requests \union Nodes : ~Underway(x)
  BY DEF Underway
<1>3. Watched /\ Agreed
  BY <1>2 DEF Watched, Agreed
<1>4. Frozen
  <2>1. PICK S \in SUBSET Nodes : deployed = [n \in S |-> [i \in On(n) |-> protocol[i]]]
    OBVIOUS
  <2>2. \A n \in DOMAIN deployed : Faithful(n, deployed[n])
    BY <2>1 DEF Faithful, On, Present
  <2> QED
    BY <1>2, <2>2 DEF Frozen
<1> QED
  BY <1>1, <1>3, <1>4 DEF IInv

LEMMA Unmoved == IInv /\ UNCHANGED vars => IInv'
<1> SUFFICES ASSUME IInv, UNCHANGED vars PROVE IInv'
  OBVIOUS
<1>1. UNCHANGED admin /\ UNCHANGED <<credential, download, fetch, handed, roster, entitled>>
  BY DEF vars
<1>2. Entitled' = Entitled /\ \A x : Underway(x)' <=> Underway(x)
  BY <1>1 DEF admin, Entitled, Authorised, Reaches, Present, Underway
<1>3. Shaped' /\ Watched'
  BY <1>1, <1>2 DEF admin, IInv, Shaped, IsDownload, IsFetch, Watched
<1>4. Agreed' /\ Frozen'
  BY <1>1, <1>2 DEF admin, IInv, Agreed, Issued, Stored, Frozen, Faithful
<1> QED
  BY <1>3, <1>4 DEF IInv

-----------------------------------------------------------------------------
(* Administrators and time.                                                *)

\* A change puts those it authorises on the record of every request underway.
LEMMA ChangeIsWatched ==
  ASSUME IInv, Change
  PROVE  /\ Watched' /\ entitled' = [x \in Requests \union Nodes |-> entitled'[x]]
         /\ \A x \in Requests \union Nodes : Underway(x)' <=> Underway(x)
<1>1. UNCHANGED <<download, fetch>>
  BY DEF Change
<1>2. \A x \in Requests \union Nodes : Underway(x)' <=> Underway(x)
  BY <1>1 DEF Underway
<1>3. \A x \in Requests \union Nodes :
         entitled'[x] = IF Underway(x) THEN entitled[x] \union Entitled' ELSE {}
  BY DEF Change, IInv, Shaped
<1>4. entitled' = [x \in Requests \union Nodes |-> entitled'[x]]
  BY DEF Change, IInv, Shaped
<1>5. Watched'
  BY <1>1, <1>2, <1>3 DEF IInv, Watched
<1> QED
  BY <1>2, <1>4, <1>5

LEMMA GrantStep ==
  ASSUME IInv, Change, UNCHANGED <<protocol, deployed, credential>>, live' \subseteq Users
  PROVE  IInv'
<1>1. UNCHANGED <<download, fetch, handed, roster>>
  BY DEF Change
<1>2. /\ Watched' /\ entitled' = [x \in Requests \union Nodes |-> entitled'[x]]
      /\ \A x \in Requests \union Nodes : Underway(x)' <=> Underway(x)
  BY ChangeIsWatched
<1>3. Shaped'
  BY <1>1, <1>2 DEF IInv, Shaped, IsDownload, IsFetch
<1>4. Agreed'
  BY <1>1 DEF IInv, Agreed, Issued, Stored
<1>5. Frozen'
  BY <1>1, <1>2 DEF IInv, Frozen, Faithful
<1> QED
  BY <1>2, <1>3, <1>4, <1>5 DEF IInv

\* No inbound changes that a client or a deployment knows, except that it goes.
LEMMA RowStep ==
  ASSUME IInv, NEW i \in Inbounds, NEW p \in Protocols \union {"deleted"}, SetRow(i, p),
         p # "deleted" => protocol[i] = "none" \/ MayUpdate(i),
         p = "deleted" => i \in Present
  PROVE  IInv'
<1>1. /\ UNCHANGED <<download, fetch, handed, roster, deployed, live>>
      /\ protocol' = [protocol EXCEPT ![i] = p]
      /\ credential' = [k \in {k \in DOMAIN credential : p # "deleted" \/ k[2] # i} |-> credential[k]]
      /\ Change
  BY DEF SetRow, Change
<1>2. /\ Watched' /\ entitled' = [x \in Requests \union Nodes |-> entitled'[x]]
      /\ \A x \in Requests \union Nodes : Underway(x)' <=> Underway(x)
  BY <1>1, ChangeIsWatched
<1>3. protocol \in [Inbounds -> Protocols \union {"none", "deleted"}]
  BY DEF IInv, Shaped
<1>4. protocol' \in [Inbounds -> Protocols \union {"none", "deleted"}]
  BY <1>1, <1>3
<1>5. Shaped'
  BY <1>1, <1>2, <1>4 DEF IInv, Shaped, IsDownload, IsFetch
<1>6. ASSUME NEW u, NEW j, NEW s, Issued(u, j, s) PROVE Issued(u, j, s)'
  <2>1. protocol[i] # "deleted"
    BY <1>3, DeliveryAssumption DEF MayUpdate, Present
  <2>2. protocol'[j] = IF j = i THEN p ELSE protocol[j]
    BY <1>1, <1>3, <1>6, <2>1
  <2> QED
    BY <1>1, <1>6, <2>1, <2>2 DEF Issued, Stored
<1>7. Agreed'
  BY <1>1, <1>6 DEF IInv, Agreed
<1>8. ASSUME NEW n \in DOMAIN deployed, NEW s, Faithful(n, s) PROVE Faithful(n, s)'
  <2> SUFFICES ASSUME NEW j \in DOMAIN s PROVE protocol'[j] \in {s[j], "deleted"}
    BY <1>8 DEF Faithful
  <2>1. j \in Inbounds /\ NodeOf[j] = n /\ s[j] \in Protocols /\ protocol[j] \in {s[j], "deleted"}
    BY <1>8 DEF Faithful
  <2>2. CASE j # i
    BY <1>1, <1>3, <2>1, <2>2
  <2>3. CASE j = i
    <3>1. protocol[i] # "none" /\ ~MayUpdate(i)
      BY <2>1, <2>3, DeliveryAssumption DEF MayUpdate
    <3> QED
      BY <3>1, <1>1, <1>3, <2>3
  <2> QED
    BY <2>2, <2>3
<1>9. Frozen'
  BY <1>1, <1>2, <1>8 DEF IInv, Frozen
<1> QED
  BY <1>2, <1>5, <1>7, <1>9 DEF IInv

LEMMA DeploymentStep ==
  ASSUME IInv, NEW n \in Nodes, NEW snapshot, SetDeployment(n, snapshot), Faithful(n, snapshot)
  PROVE  IInv'
<1>1. /\ UNCHANGED <<download, fetch, handed, roster, protocol, credential, live>> /\ Change
      /\ deployed' = [m \in DOMAIN deployed \union {n} |-> IF m = n THEN snapshot ELSE deployed[m]]
  BY DEF SetDeployment, Change
<1>2. /\ Watched' /\ entitled' = [x \in Requests \union Nodes |-> entitled'[x]]
      /\ \A x \in Requests \union Nodes : Underway(x)' <=> Underway(x)
  BY <1>1, ChangeIsWatched
<1>3. Shaped'
  BY <1>1, <1>2 DEF IInv, Shaped, IsDownload, IsFetch
<1>4. Agreed'
  BY <1>1 DEF IInv, Agreed, Issued, Stored
<1>5. \A m, s : Faithful(m, s)' <=> Faithful(m, s)
  BY <1>1 DEF Faithful
<1>6. Frozen'
  BY <1>1, <1>2, <1>5 DEF IInv, Frozen
<1> QED
  BY <1>2, <1>3, <1>4, <1>6 DEF IInv

-----------------------------------------------------------------------------
(* Requests.                                                               *)

\* A statement of a request adds credentials and replaces none.
Adds == \A k \in DOMAIN credential : k \in DOMAIN credential' /\ credential'[k] = credential[k]

LEMMA RequestKeeps ==
  ASSUME IInv, UNCHANGED admin, Adds
  PROVE  /\ Entitled' = Entitled /\ protocol' \in [Inbounds -> Protocols \union {"none", "deleted"}]
         /\ \A u, i, s : Issued(u, i, s) => Issued(u, i, s)'
         /\ \A n, s : Faithful(n, s)' <=> Faithful(n, s)
<1>1. Entitled' = Entitled
  BY DEF admin, Entitled, Authorised, Reaches, Present
<1>2. protocol' \in [Inbounds -> Protocols \union {"none", "deleted"}]
  BY DEF admin, IInv, Shaped
<1>3. \A u, i, s : Issued(u, i, s) => Issued(u, i, s)'
  BY DEF Adds, admin, Issued, Stored
<1>4. \A n, s : Faithful(n, s)' <=> Faithful(n, s)
  BY DEF admin, Faithful
<1> QED
  BY <1>1, <1>2, <1>3, <1>4

\* One statement of a download: what it carries afterwards is stored, and its owner
\* was authorised.
LEMMA DownloadStatement ==
  ASSUME IInv, NEW r \in Requests, NEW d, Answering(r, d), IsDownload(d), Adds,
         \A h \in handed' : h = <<h[1], h[2], h[3]>> /\ Issued(h[1], h[2], h[3])',
         \A p \in d.proxies : Issued(OwnerOf[r], p[1], p[2])',
         NEW E, entitled' = [entitled EXCEPT ![r] = E],
         d.step # "idle" => /\ Entitled \subseteq E
                            /\ \A p \in d.proxies : <<OwnerOf[r], p[1]>> \in E
  PROVE  IInv'
<1>1. UNCHANGED <<admin, fetch, roster>> /\ download' = [download EXCEPT ![r] = d]
  BY DEF Answering
<1>2. /\ Entitled' = Entitled /\ protocol' \in [Inbounds -> Protocols \union {"none", "deleted"}]
      /\ \A u, i, s : Issued(u, i, s) => Issued(u, i, s)'
      /\ \A n, s : Faithful(n, s)' <=> Faithful(n, s)
  BY <1>1, RequestKeeps
<1>3. \A q \in Requests : download'[q] = IF q = r THEN d ELSE download[q]
  BY <1>1 DEF IInv, Shaped
<1>4. \A x \in Requests \union Nodes : entitled'[x] = IF x = r THEN E ELSE entitled[x]
  BY DEF IInv, Shaped
<1>5. \A x \in (Requests \union Nodes) \ {r} : Underway(x)' <=> Underway(x)
  BY <1>1, <1>3 DEF Underway
<1>6. Underway(r)' <=> d.step # "idle"
  BY <1>3 DEF Underway
<1>7. Shaped'
  BY <1>1, <1>2, <1>3 DEF IInv, Shaped, IsFetch, IsDownload, admin
<1>8. Watched'
  <2>1. \A x \in Requests \union Nodes : Underway(x)' => Entitled' \subseteq entitled'[x]
    BY <1>2, <1>4, <1>5, <1>6 DEF IInv, Watched
  <2>2. \A q \in Requests : Underway(q)' =>
          \A p \in download'[q].proxies : <<OwnerOf[q], p[1]>> \in entitled'[q]
    BY <1>3, <1>4, <1>5, <1>6 DEF IInv, Watched
  <2> QED
    BY <2>1, <2>2 DEF Watched
<1>9. Agreed'
  BY <1>2, <1>3 DEF IInv, Agreed
<1>10. Frozen'
  <2>1. \A n \in Nodes : Underway(n)' <=> Underway(n)
    BY <1>5, DeliveryAssumption
  <2> QED
    BY <1>1, <1>2, <2>1 DEF IInv, Frozen, admin
<1> QED
  BY <1>7, <1>8, <1>9, <1>10 DEF IInv

\* A statement in the middle of a download: what it adds it read from a credential
\* of an authorised user.
LEMMA MiddleStatement ==
  ASSUME IInv, NEW r \in Requests, Underway(r), NEW d, Answering(r, d), IsDownload(d), Adds,
         UNCHANGED <<handed, entitled>>,
         \A p \in d.proxies : \/ p \in download[r].proxies
                              \/ /\ Stored(OwnerOf[r], p[1]) /\ p[2] = credential[<<OwnerOf[r], p[1]>>]
                                 /\ <<OwnerOf[r], p[1]>> \in Entitled
  PROVE  IInv'
<1>1. \A u, i, s : Issued(u, i, s) => Issued(u, i, s)'
  BY RequestKeeps DEF Answering
<1>2. \A h \in handed' : h = <<h[1], h[2], h[3]>> /\ Issued(h[1], h[2], h[3])'
  BY <1>1 DEF IInv, Agreed
<1>3. \A p \in d.proxies : Issued(OwnerOf[r], p[1], p[2])
  BY DEF IInv, Agreed, Issued
<1>4. entitled' = [entitled EXCEPT ![r] = entitled[r]]
  BY DEF IInv, Shaped
<1>5. /\ Entitled \subseteq entitled[r]
      /\ \A p \in d.proxies : <<OwnerOf[r], p[1]>> \in entitled[r]
  BY DEF IInv, Watched
<1> QED
  BY <1>1, <1>2, <1>3, <1>4, <1>5, DownloadStatement

LEMMA Owned == \A r \in Requests : \A i : Authorised(OwnerOf[r], i) => <<OwnerOf[r], i>> \in Entitled
  BY DeliveryAssumption DEF Entitled, Authorised, Reaches, Present

\* An entry that is served brings the secret that is stored, if any.
LEMMA ServedStatement ==
  ASSUME IInv, NEW r \in Requests, Underway(r), Adds, UNCHANGED <<handed, entitled>>,
         NEW S \in SUBSET ReadCredential(r), Answering(r, Served(r, S))
  PROVE  IInv'
<1> DEFINE d == Served(r, S)
<1>1. IsDownload(download[r])
  BY DEF IInv, Shaped
<1>2. IsDownload(d)
  BY <1>1 DEF IsDownload, Served
<1>3. d.proxies = download[r].proxies \union {<<Entry(r), s>> : s \in S}
  BY <1>1 DEF IsDownload, Served
<1>4. \A s \in S : /\ Stored(OwnerOf[r], Entry(r)) /\ s = credential[<<OwnerOf[r], Entry(r)>>]
                   /\ <<OwnerOf[r], Entry(r)>> \in Entitled
  BY Owned DEF ReadCredential
<1> HIDE DEF d
<1>5. \A p \in d.proxies : \/ p \in download[r].proxies
                           \/ /\ Stored(OwnerOf[r], p[1]) /\ p[2] = credential[<<OwnerOf[r], p[1]>>]
                              /\ <<OwnerOf[r], p[1]>> \in Entitled
  BY <1>3, <1>4
<1>6. Answering(r, d)
  BY DEF d
<1> QED
  BY <1>2, <1>5, <1>6, MiddleStatement

\* A statement that reads no credential.
LEMMA OtherStatement ==
  ASSUME IInv, NEW r \in Requests, Underway(r), NEW d, Answering(r, d), IsDownload(d), Adds,
         UNCHANGED <<handed, entitled>>, d.proxies = download[r].proxies
  PROVE  IInv'
  BY MiddleStatement

LEMMA DownloadStep == ASSUME IInv, NEW r \in Requests, Download(r) PROVE IInv'
<1> DEFINE d == download[r]
<1>1. IsDownload(d)
  BY DEF IInv, Shaped
<1>2. Underway(r) <=> d.step # "idle"
  BY DEF Underway
<1>3. Keeps => Adds
  BY DEF Keeps, Adds
<1>4. CASE Open(r)
  <2> DEFINE e == [NoDownload EXCEPT !.step = "opened"]
  <2>1. Answering(r, e) /\ entitled' = [entitled EXCEPT ![r] = Entitled]
        /\ UNCHANGED <<credential, minted, handed>>
    BY <1>4 DEF Open
  <2>2. IsDownload(e) /\ e.proxies = {}
    BY DEF NoDownload, IsDownload
  <2>3. Adds
    BY <2>1 DEF Adds
  <2>4. \A h \in handed' : h = <<h[1], h[2], h[3]>> /\ Issued(h[1], h[2], h[3])'
    BY <2>1, <2>3, RequestKeeps DEF IInv, Agreed, Answering
  <2> HIDE DEF e
  <2> QED
    BY <2>1, <2>2, <2>3, <2>4, DownloadStatement
<1>5. CASE ListNodes(r)
  <2> DEFINE e == [d EXCEPT !.step = "serving", !.nodes = GroupNodes(r)]
  <2>1. Answering(r, e) /\ Keeps /\ Underway(r)
    BY <1>2, <1>5 DEF ListNodes
  <2>2. IsDownload(e) /\ e.proxies = d.proxies
    BY <1>1 DEF IsDownload
  <2> HIDE DEF e
  <2> QED
    BY <2>1, <2>2, <1>3, OtherStatement DEF Keeps
<1>6. CASE ListInbounds(r)
  <2> DEFINE n == Least(d.nodes)
             e == [d EXCEPT !.nodes = @ \ {n}, !.inbounds = On(n),
                            !.protocols = [i \in On(n) |-> protocol[i]]]
  <2>1. Answering(r, e) /\ Keeps /\ Underway(r)
    BY <1>2, <1>6 DEF ListInbounds
  <2>2. IsDownload(e) /\ e.proxies = d.proxies
    BY <1>1 DEF IsDownload
  <2> HIDE DEF e
  <2> QED
    BY <2>1, <2>2, <1>3, OtherStatement DEF Keeps
<1>7. CASE GetUserCredential(r)
  <2>1. Keeps /\ Underway(r)
    BY <1>2, <1>7 DEF GetUserCredential
  <2>2. CASE ReadCredential(r) # {}
    BY <1>3, <1>7, <2>1, <2>2, ServedStatement DEF GetUserCredential, Keeps
  <2>3. CASE ReadCredential(r) = {}
    <3> DEFINE e == [d EXCEPT !.step = "missing"]
    <3>1. Answering(r, e)
      BY <1>7, <2>3 DEF GetUserCredential
    <3>2. IsDownload(e) /\ e.proxies = d.proxies
      BY <1>1 DEF IsDownload
    <3> HIDE DEF e
    <3> QED
      BY <2>1, <3>1, <3>2, <1>3, OtherStatement DEF Keeps
  <2> QED
    BY <2>2, <2>3
<1>8. CASE ReadMaterial(r)
  <2>1. UNCHANGED <<credential, handed, entitled>> /\ Underway(r)
    BY <1>2, <1>8 DEF ReadMaterial
  <2>2. Adds
    BY <2>1 DEF Adds
  <2>3. CASE Answering(r, Served(r, {}))
    BY <2>1, <2>2, <2>3, ServedStatement
  <2>4. CASE Answering(r, [d EXCEPT !.step = "issuing", !.secret = minted + 1])
    <3> DEFINE e == [d EXCEPT !.step = "issuing", !.secret = minted + 1]
    <3>1. IsDownload(e) /\ e.proxies = d.proxies
      BY <1>1 DEF IsDownload
    <3>2. Answering(r, e)
      BY <2>4
    <3> HIDE DEF e
    <3> QED
      BY <2>1, <2>2, <3>1, <3>2, OtherStatement
  <2> QED
    BY <1>8, <2>3, <2>4 DEF ReadMaterial
<1>9. CASE InsertCredential(r)
  <2> DEFINE e == [d EXCEPT !.step = "issued"]
  <2>1. Answering(r, e) /\ UNCHANGED <<handed, entitled>> /\ Underway(r)
    BY <1>2, <1>9 DEF InsertCredential
  <2>2. IsDownload(e) /\ e.proxies = d.proxies
    BY <1>1 DEF IsDownload
  <2>3. Adds
    BY <1>9 DEF InsertCredential, Store, Adds
  <2> HIDE DEF e
  <2> QED
    BY <2>1, <2>2, <2>3, OtherStatement
<1>10. CASE ReadIssued(r)
  <2>1. Keeps /\ Underway(r) /\ Answering(r, Served(r, ReadCredential(r)))
    BY <1>2, <1>10 DEF ReadIssued
  <2> QED
    BY <1>3, <2>1, ServedStatement DEF Keeps
<1>11. ASSUME Answering(r, NoDownload), Leave(r), UNCHANGED <<credential, minted>>,
              handed' \subseteq handed \union {<<OwnerOf[r], p[1], p[2]>> : p \in d.proxies}
       PROVE  IInv'
  <2>1. Adds
    BY <1>11 DEF Adds
  <2>2. \A u, i, s : Issued(u, i, s) => Issued(u, i, s)'
    BY <1>11, <2>1, RequestKeeps DEF Answering
  <2>3. \A h \in handed' : h = <<h[1], h[2], h[3]>> /\ Issued(h[1], h[2], h[3])'
    <3>1. \A h \in handed : h = <<h[1], h[2], h[3]>> /\ Issued(h[1], h[2], h[3])
      BY DEF IInv, Agreed
    <3>2. \A p \in d.proxies : Issued(OwnerOf[r], p[1], p[2])
      BY DEF IInv, Agreed
    <3> QED
      BY <1>11, <2>2, <3>1, <3>2
  <2>4. IsDownload(NoDownload) /\ NoDownload.proxies = {} /\ NoDownload.step = "idle"
    BY DEF NoDownload, IsDownload
  <2>5. entitled' = [entitled EXCEPT ![r] = {}]
    BY <1>11 DEF Leave
  <2> QED
    BY <1>11, <2>1, <2>3, <2>4, <2>5, DownloadStatement
<1> QED
  BY <1>4, <1>5, <1>6, <1>7, <1>8, <1>9, <1>10, <1>11 DEF Download, Answer, Refuse

\* One statement of a fetch: nothing it reads is on another record.
LEMMA FetchStatement ==
  ASSUME IInv, NEW n \in Nodes, NEW f, Fetching(n, f), IsFetch(f), Adds,
         roster' = [m \in Nodes |-> roster'[m]],
         NEW E, entitled' = [entitled EXCEPT ![n] = E],
         f.step # "idle" => /\ Entitled \subseteq E
                            /\ n \in DOMAIN deployed /\ Faithful(n, f.snapshot)
  PROVE  IInv'
<1>1. UNCHANGED <<admin, download, handed>> /\ fetch' = [fetch EXCEPT ![n] = f]
  BY DEF Fetching
<1>2. /\ Entitled' = Entitled /\ protocol' \in [Inbounds -> Protocols \union {"none", "deleted"}]
      /\ \A u, i, s : Issued(u, i, s) => Issued(u, i, s)'
      /\ \A m, s : Faithful(m, s)' <=> Faithful(m, s)
  BY <1>1, RequestKeeps
<1>3. \A m \in Nodes : fetch'[m] = IF m = n THEN f ELSE fetch[m]
  BY <1>1 DEF IInv, Shaped
<1>4. \A x \in Requests \union Nodes : entitled'[x] = IF x = n THEN E ELSE entitled[x]
  BY DEF IInv, Shaped
<1>5. /\ \A x \in (Requests \union Nodes) \ {n} : Underway(x)' <=> Underway(x)
      /\ Underway(n)' <=> f.step # "idle"
  BY <1>1, <1>3, DeliveryAssumption DEF Underway
<1>6. Shaped'
  BY <1>1, <1>2, <1>3 DEF IInv, Shaped, IsFetch, IsDownload, admin
<1>7. Watched'
  <2>1. n \notin Requests
    BY DeliveryAssumption
  <2>2. \A x \in Requests \union Nodes : Underway(x)' => Entitled' \subseteq entitled'[x]
    BY <1>2, <1>4, <1>5 DEF IInv, Watched
  <2> QED
    BY <2>1, <2>2, <1>1, <1>4, <1>5 DEF IInv, Watched
<1>8. Agreed'
  BY <1>1, <1>2 DEF IInv, Agreed
<1>9. Frozen'
  BY <1>1, <1>2, <1>3, <1>5 DEF IInv, Frozen, admin
<1> QED
  BY <1>6, <1>7, <1>8, <1>9 DEF IInv

LEMMA FetchStep == ASSUME IInv, NEW n \in Nodes, GetConfig(n) PROVE IInv'
<1> DEFINE f == fetch[n]
<1>1. IsFetch(f) /\ roster = [m \in Nodes |-> roster[m]]
      /\ entitled = [entitled EXCEPT ![n] = entitled[n]]
  BY DEF IInv, Shaped
<1>2. f.step # "idle" => Entitled \subseteq entitled[n] /\ n \in DOMAIN deployed
                         /\ Faithful(n, f.snapshot)
  BY DeliveryAssumption DEF IInv, Watched, Frozen, Underway
<1>3. UNCHANGED credential => Adds
  BY DEF Adds
<1>4. CASE GetDeploymentForAgent(n)
  <2> DEFINE e == [NoFetch EXCEPT !.step = "deployed", !.snapshot = deployed[n]]
  <2>1. /\ Fetching(n, e) /\ entitled' = [entitled EXCEPT ![n] = Entitled]
        /\ UNCHANGED <<credential, roster>> /\ n \in DOMAIN deployed
    BY <1>4 DEF GetDeploymentForAgent
  <2>2. IsFetch(e) /\ e.snapshot = deployed[n]
    BY DEF NoFetch, IsFetch
  <2>3. Faithful(n, e.snapshot)
    BY <2>1, <2>2 DEF IInv, Frozen
  <2> HIDE DEF e
  <2> QED
    BY <2>1, <2>2, <2>3, <1>1, <1>3, FetchStatement
<1>5. CASE SelectPending(n)
  <2> DEFINE e == [f EXCEPT !.step = "pending", !.pending = {p \in Entitled : NodeOf[p[2]] = n}]
  <2>1. Fetching(n, e) /\ UNCHANGED <<credential, roster, entitled>> /\ f.step # "idle"
    BY <1>5 DEF SelectPending
  <2>2. IsFetch(e) /\ e.snapshot = f.snapshot
    BY <1>1 DEF IsFetch
  <2> HIDE DEF e
  <2> QED
    BY <2>1, <2>2, <1>1, <1>2, <1>3, FetchStatement
<1>6. CASE Reconcile(n)
  <2> DEFINE e == [f EXCEPT !.step = "reconciled", !.pending = {}]
  <2>1. Fetching(n, e) /\ UNCHANGED <<roster, entitled>> /\ f.step # "idle"
    BY <1>6 DEF Reconcile
  <2>2. IsFetch(e) /\ e.snapshot = f.snapshot
    BY <1>1 DEF IsFetch
  <2>3. Adds
    BY <1>6 DEF Reconcile, Store, Adds
  <2> HIDE DEF e
  <2> QED
    BY <2>1, <2>2, <2>3, <1>1, <1>2, FetchStatement
<1>7. IsFetch(NoFetch) /\ NoFetch.step = "idle"
  BY DEF NoFetch, IsFetch
<1>8. CASE ListUserCredentials(n)
  <2>1. Fetching(n, NoFetch) /\ entitled' = [entitled EXCEPT ![n] = {}] /\ UNCHANGED credential
    BY <1>8 DEF ListUserCredentials, Leave
  <2>2. roster' = [m \in Nodes |-> roster'[m]]
    BY <1>1, <1>8 DEF ListUserCredentials
  <2> QED
    BY <2>1, <2>2, <1>3, <1>7, FetchStatement
<1>9. CASE FetchFails(n)
  <2>1. Fetching(n, NoFetch) /\ entitled' = [entitled EXCEPT ![n] = {}] /\ UNCHANGED <<credential, roster>>
    BY <1>9 DEF FetchFails, Leave
  <2> QED
    BY <2>1, <1>1, <1>3, <1>7, FetchStatement
<1> QED
  BY <1>4, <1>5, <1>6, <1>8, <1>9 DEF GetConfig

LEMMA NextStep == ASSUME IInv, [Next]_vars PROVE IInv'
<1>0. live \subseteq Users
  BY DEF IInv, Shaped
<1>1. ASSUME NEW u \in Users, SetUserGroupIDs(u) \/ Expire(u) PROVE IInv'
  BY <1>0, <1>1, GrantStep DEF SetUserGroupIDs, Expire
<1>2. ASSUME NEW g \in Groups, SetNodeIDs(g) PROVE IInv'
  BY <1>0, <1>2, GrantStep DEF SetNodeIDs
<1>3. ASSUME NEW i \in Inbounds, CreateInbound(i) \/ UpdateInbound(i) \/ DeleteInbound(i) PROVE IInv'
  <2>1. "deleted" \notin Protocols
    BY DeliveryAssumption
  <2> QED
    BY <1>3, <2>1, RowStep DEF CreateInbound, UpdateInbound, DeleteInbound
<1>4. ASSUME NEW n \in Nodes, Deploy(n) PROVE IInv'
  <2>1. Faithful(n, [i \in On(n) |-> protocol[i]])
    BY DEF Faithful, On, Present
  <2> QED
    BY <1>4, <2>1, DeploymentStep DEF Deploy
<1>5. ASSUME NEW n \in Nodes, TakeBack(n) PROVE IInv'
  <2>1. Faithful(n, <<>>)
    BY DEF Faithful
  <2> QED
    BY <1>5, <2>1, DeploymentStep DEF TakeBack
<1> QED
  BY <1>1, <1>2, <1>3, <1>4, <1>5, DownloadStep, FetchStep, Unmoved DEF Next

\* What requests carry, what is stored, and what nodes were given belong together
\* through every change between two statements of a request.
THEOREM Invariance == Spec => []IInv
<1>1. Init => IInv
  BY Initially
<1>2. IInv /\ [Next]_vars => IInv'
  BY NextStep
<1> QED
  BY <1>1, <1>2, PTL DEF Spec

-----------------------------------------------------------------------------
(* What it is for.                                                         *)

Known == \A n \in Nodes : ListUserCredentials(n) => \A h \in handed :
            (/\ h[2] \in DOMAIN fetch[n].snapshot /\ NodeOf[h[2]] = n
             /\ Authorised(h[1], h[2])) => h \in roster'[n]

LEMMA KnownHolds == IInv => Known
<1> SUFFICES ASSUME IInv, NEW n \in Nodes, ListUserCredentials(n), NEW h \in handed,
                    h[2] \in DOMAIN fetch[n].snapshot, NodeOf[h[2]] = n, Authorised(h[1], h[2])
             PROVE  h \in roster'[n]
  BY DEF Known
<1>1. roster'[n] = DeployedCredentials(n, Listed(n))
  BY DEF ListUserCredentials, IInv, Shaped
<1>2. protocol[h[2]] # "deleted"
  BY DeliveryAssumption DEF Authorised, Reaches, Present
<1>3. h = <<h[1], h[2], h[3]>> /\ Stored(h[1], h[2]) /\ credential[<<h[1], h[2]>>] = h[3]
  BY <1>2 DEF IInv, Agreed, Issued
<1>4. <<h[1], h[2], h[3]>> \in Listed(n)
  BY <1>3 DEF Listed, Stored
<1>5. fetch[n].snapshot[h[2]] = protocol[h[2]]
  <2>1. Underway(n)
    BY DeliveryAssumption DEF ListUserCredentials, Underway
  <2> QED
    BY <2>1, <1>2 DEF IInv, Frozen, Faithful
<1> QED
  BY <1>1, <1>3, <1>4, <1>5 DEF DeployedCredentials

\* Whatever secret a download ever gave out, the configuration that the node's
\* agent fetches lists it: requests that race in EnsureUserCredential and
\* ReconcileUserCredentialsForNode end with one credential.
THEOREM ClientsAreKnown == Spec => NodeKnowsItsClients
<1>1. IInv /\ [Next]_vars => [Known]_vars
  BY KnownHolds
<1> QED
  BY <1>1, Invariance, PTL DEF Spec, NodeKnowsItsClients, Known

LeftOut ==
    /\ \A r \in Requests : Answer(r) =>
          \A p \in download[r].proxies : <<OwnerOf[r], p[1]>> \in entitled[r]
    /\ \A n \in Nodes : ListUserCredentials(n) =>
          \A c \in roster'[n] : <<c[1], c[2]>> \in entitled[n]

LEMMA LeftOutHolds == IInv => LeftOut
<1> SUFFICES ASSUME IInv PROVE LeftOut
  OBVIOUS
<1>1. ASSUME NEW r \in Requests, Answer(r), NEW p \in download[r].proxies
      PROVE  <<OwnerOf[r], p[1]>> \in entitled[r]
  BY <1>1 DEF IInv, Watched, Underway, Answer
<1>2. ASSUME NEW n \in Nodes, ListUserCredentials(n), NEW c \in roster'[n]
      PROVE  <<c[1], c[2]>> \in entitled[n]
  <2>1. c \in Listed(n)
    BY <1>2 DEF ListUserCredentials, IInv, Shaped, DeployedCredentials
  <2>2. PICK k \in DOMAIN credential : c = <<k[1], k[2], credential[k]>> /\ Authorised(k[1], k[2])
    BY <2>1 DEF Listed
  <2>3. k[1] \in Users /\ k[2] \in Inbounds
    BY <2>2 DEF IInv, Shaped, Authorised, Reaches, Present
  <2>4. <<k[1], k[2]>> \in Entitled
    BY <2>2, <2>3 DEF Entitled
  <2>5. Entitled \subseteq entitled[n]
    BY <1>2, DeliveryAssumption DEF IInv, Watched, Underway, ListUserCredentials
  <2> QED
    BY <2>2, <2>3, <2>4, <2>5
<1> QED
  BY <1>1, <1>2 DEF LeftOut

\* A download or a fetch that begins after an authorisation was taken back carries
\* no credential for what was lost, although the row of user_credentials stays.
THEOREM RevokedIsOut == Spec => RevokedIsLeftOut
<1>1. IInv /\ [Next]_vars => [LeftOut]_vars
  BY LeftOutHolds
<1> QED
  BY <1>1, Invariance, PTL DEF Spec, RevokedIsLeftOut, LeftOut
=============================================================================

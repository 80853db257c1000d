------------------------- MODULE SubscriptionsProofs -------------------------
(***************************************************************************)
(* Theorems about Subscriptions, for any templates, subscriptions, keys,   *)
(* node groups and definitions: what a subscription is bound to can be     *)
(* resolved, its override rows fit it, a pinned version renders the same,  *)
(* and no form is accepted that was filled with something older.           *)
(***************************************************************************)
EXTENDS Subscriptions, TLAPS

-----------------------------------------------------------------------------
(* The inductive invariant.                                                *)

Typed ==
    /\ tmpl \in [Templates -> Template \union {None}]
    /\ \A t \in Templates : tmpl[t] # None => tmpl[t].published \in 0..Len(tmpl[t].versions)
    /\ subs \in [Subs -> Subscription \union {None, Gone}]
    /\ rows \in [Subs -> [Keys -> Row \union {None}]]
    /\ defaults \in [NodeGroups -> Row]

\* Rows are those of live subscriptions.
Attached == \A s \in Subs, k \in Keys : rows[s][k] # None => Live(s)

TableInv == Typed /\ Attached /\ BoundIsAvailable /\ RowsFitTheirDefinition

\* What an open form was filled with is of the record's revision at most, and of that
\* revision only when it is the record.
Recent(seen, current) ==
    seen.revision <= current.revision /\ (seen.revision = current.revision => seen = current)
Informed ==
    tab # None =>
       \/ /\ tab.kind = "template" /\ tab.id \in Templates /\ tmpl[tab.id] # None
          /\ tab.seen.revision \in Nat /\ Recent(tab.seen, tmpl[tab.id])
       \/ /\ tab.kind = "defaults" /\ tab.id \in NodeGroups
          /\ tab.seen.revision \in Nat /\ Recent(tab.seen, defaults[tab.id])
       \/ /\ tab.kind = "subscription" /\ tab.id \in Subs
          /\ tab.seen.revision \in Nat
          /\ \/ subs[tab.id] = Gone
             \/ Live(tab.id) /\ Recent(tab.seen, SubscriptionView(tab.id))
       \/ tab.kind = "override" /\ \E s \in Subs, k \in Keys : tab.id = <<s, k>>

IInv == TableInv /\ Informed

\* What a step may do to the tables: a record that changes rises in revision, a
\* version never changes, and neither does the format it was published with.
Rises(old, new) == new = old \/ new.revision > old.revision
Immutable(old, new) ==
    /\ \A v \in DOMAIN old.versions : v \in DOMAIN new.versions /\ new.versions[v] = old.versions[v]
    /\ old.versions # <<>> => new.format = old.format
Advances ==
    /\ \A t \in Templates : tmpl[t] # None =>
          tmpl'[t] # None /\ Rises(tmpl[t], tmpl'[t]) /\ Immutable(tmpl[t], tmpl'[t])
    /\ \A g \in NodeGroups : Rises(defaults[g], defaults'[g])
    /\ \A s \in Subs : subs[s] = Gone => subs'[s] = Gone
    /\ \A s \in Subs : Live(s) =>
          \/ subs'[s] = Gone
          \/ /\ Live(s)'
             /\ \/ subs'[s] = subs[s] /\ rows'[s] = rows[s]
                \/ subs'[s].revision > subs[s].revision

LEMMA Initially == Init => IInv
<1> SUFFICES ASSUME Init PROVE IInv
  OBVIOUS
<1>1. RowAt(NoPatch, 1) \in Row
  BY DEF RowAt, NoPatch, Row
<1>2. Typed
  BY <1>1 DEF Init, Typed
<1>3. Attached /\ BoundIsAvailable /\ RowsFitTheirDefinition /\ Informed
  BY DEF Init, Attached, BoundIsAvailable, RowsFitTheirDefinition, Informed, Live
<1> QED
  BY <1>2, <1>3 DEF IInv, TableInv

LEMMA IsLive == ASSUME Typed, NEW s \in Subs PROVE Live(s) <=> subs[s] \in Subscription
  BY AbsenceIsNoRow DEF Typed, Live

-----------------------------------------------------------------------------
(* Templates.                                                              *)

\* What becomes of a template: it is not archived under a subscription, keeps its
\* versions, and what is newly published fits the rows of those that follow.
Develops(t, new) ==
    /\ tmpl[t] # None /\ tmpl' = [tmpl EXCEPT ![t] = new]
    /\ new \in Template /\ new.published \in 0..Len(new.versions)
    /\ new.revision > tmpl[t].revision /\ Immutable(tmpl[t], new)
    /\ new.archived => References(t) = {}
    /\ tmpl[t].published # 0 => new.published # 0
    /\ \/ new.published = tmpl[t].published
       \/ \A s \in Following(t) : BoundOverridesFit(s, new.format, new.versions[new.published])

LEMMA TemplateStep ==
  ASSUME TableInv, NEW t \in Templates, NEW new, Develops(t, new), UNCHANGED <<subs, rows, defaults>>
  PROVE  TableInv' /\ Advances
<1>1. /\ new \in Template /\ tmpl[t] \in Template /\ new # None /\ tmpl[t] # None
      /\ \A u \in Templates : tmpl'[u] = IF u = t THEN new ELSE tmpl[u]
  BY AbsenceIsNoRow DEF Develops, TableInv, Typed
<1>2. Typed'
  BY <1>1 DEF Develops, TableInv, Typed
<1>3. \A s \in Subs : Live(s)' <=> Live(s)
  BY DEF Live
<1>4. Attached'
  BY <1>3 DEF TableInv, Attached
<1>5. Advances
  BY <1>1, <1>3 DEF Develops, Advances, Rises, Immutable
<1>6. ASSUME NEW s \in Subs, Live(s)
      PROVE  /\ Selectable(subs[s])'
             /\ DefinitionOf(subs[s])' = DefinitionOf(subs[s]) \/ s \in Following(t)
             /\ s \in Following(t) => /\ DefinitionOf(subs[s])' = new.versions[new.published]
                                      /\ new.format = subs[s].format
  <2>1. subs[s] \in Subscription /\ subs'[s] = subs[s] /\ Selectable(subs[s])
    BY <1>6, IsLive DEF TableInv, BoundIsAvailable
  <2>2. CASE subs[s].template # t
    BY <2>1, <2>2, <1>1 DEF Selectable, DefinitionOf, Subscription, Following, References
  <2>3. CASE subs[s].template = t
    <3>1. s \in References(t) /\ ~new.archived
      BY <1>6, <2>3 DEF References, Develops
    <3>2. /\ ~tmpl[t].archived /\ tmpl[t].format = subs[s].format
          /\ IF subs[s].version = 0 THEN tmpl[t].published # 0
                                    ELSE subs[s].version \in DOMAIN tmpl[t].versions
      BY <2>1, <2>3, AbsenceIsNoRow DEF Selectable
    <3>3. tmpl[t].versions \in Seq(Definition) /\ tmpl[t].published \in 0..Len(tmpl[t].versions)
      BY <1>1 DEF TableInv, Typed, Template
    <3>4. tmpl[t].versions # <<>> /\ new.format = tmpl[t].format
      BY <3>2, <3>3 DEF Develops, Immutable
    <3>5. Selectable(subs[s])'
      BY <2>1, <2>3, <1>1, <3>1, <3>2, <3>4, AbsenceIsNoRow DEF Selectable, Develops, Immutable
    <3>6. CASE subs[s].version = 0
      <4>1. DefinitionOf(subs[s])' = new.versions[new.published] /\ s \in Following(t)
        BY <2>1, <2>3, <1>1, <3>1, <3>6, AbsenceIsNoRow DEF DefinitionOf, Following
      <4> QED
        BY <4>1, <3>2, <3>4, <3>5
    <3>7. CASE subs[s].version # 0
      <4>1. DefinitionOf(subs[s])' = DefinitionOf(subs[s])
        BY <2>1, <2>3, <1>1, <3>2, <3>7, AbsenceIsNoRow DEF DefinitionOf, Develops, Immutable
      <4> QED
        BY <4>1, <3>5, <3>7 DEF Following
    <3> QED
      BY <3>6, <3>7
  <2> QED
    BY <2>2, <2>3
<1>7. BoundIsAvailable'
  BY <1>3, <1>6 DEF BoundIsAvailable
<1>8. ASSUME NEW s \in Subs, NEW k \in Keys, rows[s][k] # None
      PROVE  Fits(rows[s][k], subs[s].format, DefinitionOf(subs[s])')
  <2>1. Live(s) /\ Fits(rows[s][k], subs[s].format, DefinitionOf(subs[s]))
    BY <1>8 DEF TableInv, Attached, RowsFitTheirDefinition
  <2>2. CASE DefinitionOf(subs[s])' = DefinitionOf(subs[s])
    BY <2>1, <2>2
  <2>3. CASE s \in Following(t)
    <3>1. DefinitionOf(subs[s])' = new.versions[new.published] /\ new.format = subs[s].format
      BY <2>1, <2>3, <1>6
    <3>2. CASE new.published = tmpl[t].published
      <4>1. subs[s].template = t /\ subs[s].version = 0 /\ Selectable(subs[s])
        BY <2>1, <2>3 DEF Following, References, TableInv, BoundIsAvailable
      <4>2. tmpl[t].published # 0 /\ DefinitionOf(subs[s]) = tmpl[t].versions[tmpl[t].published]
        BY <4>1, AbsenceIsNoRow DEF Selectable, DefinitionOf
      <4>3. tmpl[t].published \in DOMAIN tmpl[t].versions
        BY <1>1, <4>2 DEF TableInv, Typed, Template
      <4> QED
        BY <2>1, <3>1, <3>2, <4>2, <4>3 DEF Develops, Immutable
    <3>3. CASE BoundOverridesFit(s, new.format, new.versions[new.published])
      BY <1>8, <3>1, <3>3 DEF BoundOverridesFit
    <3> QED
      BY <2>3, <3>2, <3>3 DEF Develops
  <2> QED
    BY <2>1, <2>2, <2>3, <1>6
<1>9. RowsFitTheirDefinition'
  BY <1>8 DEF RowsFitTheirDefinition, Fits
<1> QED
  BY <1>2, <1>4, <1>5, <1>7, <1>9 DEF TableInv

LEMMA CreateStep ==
  ASSUME TableInv, NEW t \in Templates, NEW f \in Formats, NEW d \in Definition, Create(t, f, d)
  PROVE  TableInv' /\ Advances
<1> DEFINE new == [format |-> f, draft |-> d, versions |-> <<>>,
                   published |-> 0, archived |-> FALSE, revision |-> 1]
<1>1. /\ tmpl[t] = None /\ tmpl' = [tmpl EXCEPT ![t] = new] /\ UNCHANGED <<subs, rows, defaults>>
      /\ new \in Template /\ new.published = 0 /\ Len(new.versions) = 0
  BY DEF Create, Template
<1> HIDE DEF new
<1>2. \A u \in Templates : tmpl'[u] = IF u = t THEN new ELSE tmpl[u]
  BY <1>1 DEF TableInv, Typed
<1>3. Typed'
  BY <1>1, <1>2 DEF TableInv, Typed
<1>4. \A s \in Subs : Live(s)' <=> Live(s)
  BY <1>1 DEF Live
<1>5. Advances
  BY <1>1, <1>2, <1>4 DEF Advances, Rises, Immutable
<1>6. ASSUME NEW s \in Subs, Live(s)
      PROVE  Selectable(subs[s])' /\ DefinitionOf(subs[s])' = DefinitionOf(subs[s])
  <2>1. subs[s] \in Subscription /\ subs'[s] = subs[s] /\ Selectable(subs[s])
    BY <1>1, <1>6, IsLive DEF TableInv, BoundIsAvailable
  <2>2. subs[s].template # t
    BY <1>1, <2>1, AbsenceIsNoRow DEF Selectable
  <2> QED
    BY <1>2, <2>1, <2>2 DEF Selectable, DefinitionOf, Subscription
<1>7. Attached' /\ BoundIsAvailable'
  BY <1>1, <1>4, <1>6 DEF TableInv, Attached, BoundIsAvailable
<1>8. RowsFitTheirDefinition'
  BY <1>1, <1>6 DEF TableInv, Attached, RowsFitTheirDefinition, Fits
<1> QED
  BY <1>3, <1>5, <1>7, <1>8 DEF TableInv

LEMMA CopyStep ==
  ASSUME TableInv, NEW source \in Templates, NEW t \in Templates, Copy(source, t)
  PROVE  TableInv' /\ Advances
<1>1. tmpl[source] \in Template
  BY DEF Copy, TableInv, Typed
<1>2. PICK d \in {tmpl[source].draft}
               \cup {tmpl[source].versions[v] : v \in DOMAIN tmpl[source].versions} :
        Create(t, tmpl[source].format, d)
  BY DEF Copy
<1>3. d \in Definition
  BY <1>1, <1>2 DEF Template
<1>4. tmpl[source].format \in Formats
  BY <1>1 DEF Template
<1> QED
  BY <1>2, <1>3, <1>4, CreateStep

LEMMA EditTemplateStep ==
  ASSUME TableInv, NEW t \in Templates, NEW seen, EditTemplate(t, seen)
  PROVE  TableInv' /\ Advances
<1>1. ASSUME Editable(t, seen)
      PROVE  /\ tmpl[t] \in Template /\ tmpl[t].published \in 0..Len(tmpl[t].versions)
             /\ tmpl[t] # None /\ ~tmpl[t].archived
             /\ tmpl[t].revision \in Nat /\ tmpl[t].revision + 1 \in Nat
  BY <1>1 DEF Editable, TableInv, Typed, Template
<1>2. ASSUME NEW f \in Formats, NEW d \in Definition, Update(t, seen, f, d)
      PROVE  TableInv' /\ Advances
  <2> DEFINE new == [tmpl[t] EXCEPT !.format = f, !.draft = d, !.revision = @ + 1]
  <2>1. /\ tmpl[t] \in Template /\ tmpl[t].published \in 0..Len(tmpl[t].versions)
        /\ tmpl[t] # None /\ ~tmpl[t].archived
        /\ tmpl[t].revision \in Nat /\ tmpl[t].revision + 1 \in Nat
        /\ tmpl' = [tmpl EXCEPT ![t] = new] /\ UNCHANGED <<subs, rows, defaults>>
        /\ tmpl[t].versions # <<>> => f = tmpl[t].format
    BY <1>1, <1>2 DEF Update
  <2>2. /\ new \in Template /\ new.versions = tmpl[t].versions /\ new.published = tmpl[t].published
        /\ new.format = f /\ new.archived = tmpl[t].archived /\ new.revision = tmpl[t].revision + 1
    BY <2>1 DEF Template
  <2>3. new.revision > tmpl[t].revision
    BY <2>1, <2>2 DEF Template
  <2> HIDE DEF new
  <2>4. Develops(t, new)
    BY <2>1, <2>2, <2>3 DEF Develops, Immutable
  <2> QED
    BY <2>1, <2>4, TemplateStep
<1>3. ASSUME Publish(t, seen) PROVE TableInv' /\ Advances
  <2> DEFINE n == Len(tmpl[t].versions) + 1
             new == [tmpl[t] EXCEPT !.versions = Append(@, tmpl[t].draft), !.published = n,
                                    !.revision = @ + 1]
  <2>1. /\ tmpl[t] \in Template /\ tmpl[t].published \in 0..Len(tmpl[t].versions)
        /\ tmpl[t] # None /\ ~tmpl[t].archived
        /\ tmpl[t].revision \in Nat /\ tmpl[t].revision + 1 \in Nat
        /\ tmpl' = [tmpl EXCEPT ![t] = new] /\ UNCHANGED <<subs, rows, defaults>>
        /\ \A s \in Following(t) : BoundOverridesFit(s, tmpl[t].format, tmpl[t].draft)
    BY <1>1, <1>3 DEF Publish
  <2>2. tmpl[t].versions \in Seq(Definition) /\ tmpl[t].draft \in Definition /\ tmpl[t].revision \in Nat
    BY <2>1 DEF Template
  <2> DEFINE longer == Append(tmpl[t].versions, tmpl[t].draft)
  <2>3. /\ longer \in Seq(Definition) /\ Len(longer) = n /\ longer[n] = tmpl[t].draft
        /\ n \in Nat /\ n # 0
        /\ \A v \in DOMAIN tmpl[t].versions : v \in DOMAIN longer /\ longer[v] = tmpl[t].versions[v]
    BY <2>2
  <2>4. new.versions = longer /\ new.published = n /\ new.revision = tmpl[t].revision + 1
        /\ new.format = tmpl[t].format /\ new.archived = tmpl[t].archived
    BY <2>1 DEF Template
  <2> HIDE DEF n, longer
  <2>5. new \in Template
    BY <2>1, <2>2, <2>3 DEF Template, longer
  <2> HIDE DEF new
  <2>6. Develops(t, new)
    BY <2>1, <2>2, <2>3, <2>4, <2>5 DEF Develops, Immutable
  <2> QED
    BY <2>1, <2>6, TemplateStep
<1>4. ASSUME Archive(t, seen) PROVE TableInv' /\ Advances
  <2> DEFINE new == [tmpl[t] EXCEPT !.archived = TRUE, !.revision = @ + 1]
  <2>1. /\ tmpl[t] \in Template /\ tmpl[t].published \in 0..Len(tmpl[t].versions)
        /\ tmpl[t] # None /\ References(t) = {}
        /\ tmpl[t].revision \in Nat /\ tmpl[t].revision + 1 \in Nat
        /\ tmpl' = [tmpl EXCEPT ![t] = new] /\ UNCHANGED <<subs, rows, defaults>>
    BY <1>1, <1>4 DEF Archive
  <2>2. /\ new \in Template /\ new.versions = tmpl[t].versions /\ new.published = tmpl[t].published
        /\ new.format = tmpl[t].format /\ new.revision = tmpl[t].revision + 1
    BY <2>1 DEF Template
  <2>3. new.revision > tmpl[t].revision
    BY <2>1, <2>2 DEF Template
  <2> HIDE DEF new
  <2>4. Develops(t, new)
    BY <2>1, <2>2, <2>3 DEF Develops, Immutable
  <2> QED
    BY <2>1, <2>4, TemplateStep
<1> QED
  BY <1>2, <1>3, <1>4 DEF EditTemplate

-----------------------------------------------------------------------------
(* Defaults, subscriptions and their rows.                                 *)

LEMMA EditDefaultsStep ==
  ASSUME TableInv, NEW g \in NodeGroups, NEW seen, EditDefaults(g, seen)
  PROVE  TableInv' /\ Advances
<1>1. PICK p \in Patch : SaveGroupDefaults(g, seen, p)
  BY DEF EditDefaults
<1>2. /\ UNCHANGED <<tmpl, subs, rows>>
      /\ defaults' = [defaults EXCEPT ![g] = RowAt(p, defaults[g].revision + 1)]
  BY <1>1 DEF SaveGroupDefaults
<1>3. defaults[g].revision \in Nat
  BY DEF TableInv, Typed, Row
<1>4. RowAt(p, defaults[g].revision + 1) \in Row
      /\ RowAt(p, defaults[g].revision + 1).revision > defaults[g].revision
  BY <1>3 DEF RowAt, Row, Patch
<1>5. Typed' /\ \A h \in NodeGroups : Rises(defaults[h], defaults'[h])
  BY <1>2, <1>4 DEF TableInv, Typed, Rises
<1>6. TableInv'
  BY <1>2, <1>5 DEF TableInv, Attached, BoundIsAvailable, RowsFitTheirDefinition, Live, Selectable,
                   DefinitionOf, Fits
<1>7. Advances
  BY <1>2, <1>5 DEF Advances, Rises, Immutable, Live
<1> QED
  BY <1>6, <1>7

\* A subscription is created or bound anew to what can be selected and fits its rows.
LEMMA BindStep ==
  ASSUME TableInv, NEW s \in Subs, NEW c \in Selection, NEW n \in Nat,
         Selectable(c), subs' = [subs EXCEPT ![s] = BoundAt(c, n)], UNCHANGED <<tmpl, rows, defaults>>,
         \/ subs[s] = None
         \/ Live(s) /\ n > subs[s].revision /\ BoundOverridesFit(s, c.format, DefinitionOf(c))
  PROVE  TableInv' /\ Advances
<1> DEFINE new == BoundAt(c, n)
<1>1. /\ new \in Subscription /\ new.template = c.template /\ new.version = c.version
      /\ new.format = c.format /\ new.revision = n
  BY DEF BoundAt, Subscription, Selection
<1> HIDE DEF new
<1>2. \A x \in Subs : subs'[x] = IF x = s THEN new ELSE subs[x]
  BY DEF TableInv, Typed, new
<1>3. Typed'
  BY <1>1 DEF TableInv, Typed, new
<1>4. \A x \in Subs : Live(x)' <=> x = s \/ Live(x)
  BY <1>1, <1>2, AbsenceIsNoRow DEF Live
<1>5. Attached'
  BY <1>4 DEF TableInv, Attached
<1>6. BoundIsAvailable'
  BY <1>1, <1>2, <1>4 DEF TableInv, BoundIsAvailable, Selectable
<1>7. DefinitionOf(new) = DefinitionOf(c)
  BY <1>1 DEF DefinitionOf
<1>8. RowsFitTheirDefinition'
  <2> SUFFICES ASSUME NEW x \in Subs, NEW k \in Keys, rows[x][k] # None
               PROVE  Fits(rows[x][k], subs'[x].format, DefinitionOf(subs[x])')
    BY DEF RowsFitTheirDefinition, Fits
  <2>1. Live(x) /\ Fits(rows[x][k], subs[x].format, DefinitionOf(subs[x]))
    BY DEF TableInv, Attached, RowsFitTheirDefinition
  <2>2. CASE x # s
    BY <1>2, <2>1, <2>2 DEF DefinitionOf
  <2>3. CASE x = s
    <3>1. Fits(rows[x][k], c.format, DefinitionOf(c))
      BY <2>1, <2>3 DEF BoundOverridesFit, Live
    <3>2. DefinitionOf(subs[x])' = DefinitionOf(c)
      BY <1>1, <1>2, <2>3 DEF DefinitionOf
    <3> QED
      BY <1>1, <1>2, <2>3, <3>1, <3>2
  <2> QED
    BY <2>2, <2>3
<1>9. Advances
  BY <1>1, <1>2, <1>4, AbsenceIsNoRow DEF Advances, Rises, Immutable, Live
<1> QED
  BY <1>3, <1>5, <1>6, <1>8, <1>9 DEF TableInv

LEMMA EditSubscriptionStep ==
  ASSUME TableInv, NEW s \in Subs, NEW seen, EditSubscription(s, seen)
  PROVE  TableInv' /\ Advances
<1>1. PICK c \in Selection : UpdateForUser(s, seen, c)
  BY DEF EditSubscription
<1>2. subs[s].revision \in Nat
  BY <1>1, IsLive DEF UpdateForUser, TableInv, Subscription
<1> DEFINE n == subs[s].revision + 1
<1>3. /\ Selectable(c) /\ subs' = [subs EXCEPT ![s] = BoundAt(c, n)] /\ UNCHANGED <<tmpl, rows, defaults>>
      /\ Live(s) /\ BoundOverridesFit(s, c.format, DefinitionOf(c))
  BY <1>1 DEF UpdateForUser
<1>4. n \in Nat /\ n > subs[s].revision
  BY <1>2
<1> HIDE DEF n
<1> QED
  BY <1>3, <1>4, BindStep

LEMMA DeleteStep ==
  ASSUME TableInv, NEW s \in Subs, DeleteForUser(s)
  PROVE  TableInv' /\ Advances
<1>1. /\ Live(s) /\ UNCHANGED <<tmpl, defaults>>
      /\ \A x \in Subs : /\ subs'[x] = IF x = s THEN Gone ELSE subs[x]
                         /\ rows'[x] = IF x = s THEN [k \in Keys |-> None] ELSE rows[x]
  BY DEF DeleteForUser, TableInv, Typed
<1>2. Typed'
  BY DEF DeleteForUser, TableInv, Typed
<1>3. \A x \in Subs : Live(x)' <=> x # s /\ Live(x)
  BY <1>1 DEF Live
<1>4. Attached' /\ BoundIsAvailable' /\ RowsFitTheirDefinition'
  BY <1>1, <1>3 DEF TableInv, Attached, BoundIsAvailable, RowsFitTheirDefinition, Selectable,
                   DefinitionOf, Fits
<1>5. Advances
  BY <1>1, <1>3 DEF Advances, Rises, Immutable
<1> QED
  BY <1>2, <1>4, <1>5 DEF TableInv

\* A row is written that fits, or goes, and the subscription's revision rises.
LEMMA RowStep ==
  ASSUME TableInv, NEW s \in Subs, NEW k \in Keys, NEW row \in Row \union {None}, Live(s),
         rows' = [rows EXCEPT ![s][k] = row], subs' = [subs EXCEPT ![s].revision = @ + 1],
         UNCHANGED <<tmpl, defaults>>,
         row # None => Fits(row, subs[s].format, DefinitionOf(subs[s]))
  PROVE  TableInv' /\ Advances
<1>1. subs[s] \in Subscription
  BY IsLive DEF TableInv
<1>2. /\ \A x \in Subs \ {s} : subs'[x] = subs[x]
      /\ \A x \in Subs, j \in Keys :
            rows'[x][j] = IF x = s /\ j = k THEN row ELSE rows[x][j]
      /\ \A x \in Subs \ {s} : rows'[x] = rows[x]
  BY DEF TableInv, Typed
<1>3. /\ subs'[s] \in Subscription /\ subs'[s].revision > subs[s].revision
      /\ subs'[s].template = subs[s].template /\ subs'[s].version = subs[s].version
      /\ subs'[s].format = subs[s].format
  <2> DEFINE new == [subs[s] EXCEPT !.revision = @ + 1]
  <2>1. /\ new \in Subscription /\ new.revision > subs[s].revision
        /\ new.template = subs[s].template /\ new.version = subs[s].version
        /\ new.format = subs[s].format
    BY <1>1 DEF Subscription
  <2>2. subs'[s] = new
    BY DEF TableInv, Typed
  <2> HIDE DEF new
  <2> QED
    BY <2>1, <2>2
<1>4. Typed'
  <2>1. subs' \in [Subs -> Subscription \union {None, Gone}]
    BY <1>3 DEF TableInv, Typed
  <2>2. rows' \in [Subs -> [Keys -> Row \union {None}]]
    BY DEF TableInv, Typed
  <2> QED
    BY <2>1, <2>2 DEF TableInv, Typed
<1>5. \A x \in Subs : Live(x)' <=> Live(x)
  BY <1>2, <1>3, AbsenceIsNoRow DEF Live
<1>6. \A x \in Subs : DefinitionOf(subs[x])' = DefinitionOf(subs[x]) /\ subs'[x].format = subs[x].format
                      /\ (Selectable(subs[x])' <=> Selectable(subs[x]))
  BY <1>2, <1>3 DEF DefinitionOf, Selectable
<1>7. Attached' /\ BoundIsAvailable'
  BY <1>2, <1>5, <1>6 DEF TableInv, Attached, BoundIsAvailable
<1>8. RowsFitTheirDefinition'
  BY <1>2, <1>6 DEF TableInv, RowsFitTheirDefinition, Fits
<1>9. Advances
  BY <1>2, <1>3, <1>5 DEF Advances, Rises, Immutable, Live
<1> QED
  BY <1>4, <1>7, <1>8, <1>9 DEF TableInv

LEMMA EditOverrideStep ==
  ASSUME TableInv, NEW s \in Subs, NEW k \in Keys, NEW seen, EditOverride(s, k, seen)
  PROVE  TableInv' /\ Advances
<1>1. ASSUME NEW p \in Patch, SaveOverride(s, k, seen, p) PROVE TableInv' /\ Advances
  <2> DEFINE row == RowAt(p, RowRevision(rows[s][k]) + 1)
  <2>1. RowRevision(rows[s][k]) \in Nat
    BY DEF RowRevision, TableInv, Typed, Row
  <2>2. row \in Row /\ row.group = p.group /\ row.params = p.params
    BY <2>1 DEF RowAt, Row, Patch
  <2>3. rows' = [rows EXCEPT ![s][k] = row]
    BY <1>1 DEF SaveOverride, TableInv, Typed
  <2> HIDE DEF row
  <2>4. Fits(row, subs[s].format, DefinitionOf(subs[s]))
    BY <1>1, <2>2 DEF SaveOverride, Fits
  <2> QED
    BY <1>1, <2>2, <2>3, <2>4, RowStep DEF SaveOverride, RowIsEditable
<1>2. ASSUME DeleteOverride(s, k, seen) PROVE TableInv' /\ Advances
  BY <1>2, RowStep DEF DeleteOverride, RowIsEditable
<1> QED
  BY <1>1, <1>2 DEF EditOverride

-----------------------------------------------------------------------------
(* Forms.                                                                  *)

LEMMA TablesStay == ASSUME TableInv, UNCHANGED <<tmpl, subs, rows, defaults>> PROVE TableInv' /\ Advances
<1>1. Typed' /\ Attached'
  BY DEF TableInv, Typed, Attached, Live
<1>2. BoundIsAvailable' /\ RowsFitTheirDefinition'
  BY DEF TableInv, BoundIsAvailable, RowsFitTheirDefinition, Live, Selectable, DefinitionOf, Fits
<1>3. Advances
  BY DEF Advances, Rises, Immutable, Live
<1> QED
  BY <1>1, <1>2, <1>3 DEF TableInv

LEMMA Revisions ==
  ASSUME Typed
  PROVE  /\ \A t \in Templates : tmpl[t] # None => tmpl[t].revision \in Nat
         /\ \A g \in NodeGroups : defaults[g].revision \in Nat
         /\ \A s \in Subs : Live(s) => subs[s].revision \in Nat
  BY IsLive DEF Typed, Template, Row, Subscription

LEMMA ReadStep == ASSUME IInv, Read PROVE Informed'
<1>1. /\ \A t \in Templates : tmpl[t] # None => tmpl[t].revision \in Nat
      /\ \A g \in NodeGroups : defaults[g].revision \in Nat
      /\ \A s \in Subs : Live(s) => subs[s].revision \in Nat
  BY Revisions DEF IInv, TableInv
<1>2. ASSUME NEW t \in Templates, tmpl[t] # None, Open("template", t, tmpl[t]) PROVE Informed'
  BY <1>1, <1>2 DEF Open, Informed, Recent
<1>3. ASSUME NEW g \in NodeGroups, Open("defaults", g, defaults[g]) PROVE Informed'
  BY <1>1, <1>3 DEF Open, Informed, Recent
<1>4. ASSUME NEW s \in Subs, Live(s), Open("subscription", s, SubscriptionView(s)) PROVE Informed'
  <2>1. SubscriptionView(s).revision \in Nat
    BY <1>1, <1>4 DEF SubscriptionView
  <2>2. SubscriptionView(s)' = SubscriptionView(s) /\ Live(s)'
    BY <1>4 DEF Open, SubscriptionView, Live
  <2>3. tab'.kind = "subscription" /\ tab'.id = s /\ tab'.seen = SubscriptionView(s)
    BY <1>4 DEF Open
  <2> QED
    BY <2>1, <2>2, <2>3 DEF Informed, Recent
<1>5. ASSUME NEW s \in Subs, NEW k \in Keys, Open("override", <<s, k>>, rows[s][k]) PROVE Informed'
  BY <1>5 DEF Open, Informed
<1> QED
  BY <1>2, <1>3, <1>4, <1>5 DEF Read

\* A form that stays open is outdated by whatever advances what it shows.
LEMMA FormStays == ASSUME IInv, TableInv', Advances, UNCHANGED tab PROVE Informed'
<1> SUFFICES ASSUME tab # None PROVE Informed'
  BY DEF Informed
<1>1. /\ \A t \in Templates : tmpl[t] # None => tmpl[t].revision \in Nat
      /\ \A t \in Templates : tmpl'[t] # None => tmpl'[t].revision \in Nat
      /\ \A g \in NodeGroups : defaults[g].revision \in Nat /\ defaults'[g].revision \in Nat
      /\ \A s \in Subs : Live(s) => subs[s].revision \in Nat
      /\ \A s \in Subs : Live(s)' => subs'[s].revision \in Nat
  BY IsLive, AbsenceIsNoRow DEF IInv, TableInv, Typed, Template, Row, Subscription, Live
<1>2. CASE tab.kind = "template" /\ tab.id \in Templates /\ tmpl[tab.id] # None
           /\ tab.seen.revision \in Nat /\ Recent(tab.seen, tmpl[tab.id])
  <2>1. tmpl'[tab.id] # None /\ Recent(tab.seen, tmpl'[tab.id])
    BY <1>1, <1>2 DEF Advances, Rises, Recent
  <2> QED
    BY <1>2, <2>1 DEF Informed, Recent
<1>3. CASE tab.kind = "defaults" /\ tab.id \in NodeGroups
           /\ tab.seen.revision \in Nat /\ Recent(tab.seen, defaults[tab.id])
  <2>1. Recent(tab.seen, defaults'[tab.id])
    BY <1>1, <1>3 DEF Advances, Rises, Recent
  <2> QED
    BY <1>3, <2>1 DEF Informed, Recent
<1>4. CASE tab.kind = "subscription" /\ tab.id \in Subs /\ tab.seen.revision \in Nat
           /\ \/ subs[tab.id] = Gone
              \/ Live(tab.id) /\ Recent(tab.seen, SubscriptionView(tab.id))
  <2> DEFINE s == tab.id
  <2>1. CASE subs[s] = Gone
    <3>1. subs'[s] = Gone
      BY <1>4, <2>1 DEF Advances
    <3> QED
      BY <1>4, <3>1 DEF Informed
  <2>2. CASE Live(s) /\ Recent(tab.seen, SubscriptionView(s))
    <3>1. \/ subs'[s] = Gone
          \/ /\ Live(s)'
             /\ \/ subs'[s] = subs[s] /\ rows'[s] = rows[s]
                \/ subs'[s].revision > subs[s].revision
      BY <1>4, <2>2 DEF Advances
    <3>2. SubscriptionView(s).revision = subs[s].revision
          /\ SubscriptionView(s)'.revision = subs'[s].revision
      BY DEF SubscriptionView
    <3>3. CASE Live(s)' /\ subs'[s] = subs[s] /\ rows'[s] = rows[s]
      <4>1. SubscriptionView(s)' = SubscriptionView(s)
        BY <3>3 DEF SubscriptionView
      <4> QED
        BY <1>4, <2>2, <3>3, <4>1 DEF Informed, Recent
    <3>4. CASE Live(s)' /\ subs'[s].revision > subs[s].revision
      <4>1. Recent(tab.seen, SubscriptionView(s)')
        BY <1>1, <1>4, <2>2, <3>2, <3>4 DEF Recent
      <4> QED
        BY <1>4, <3>4, <4>1 DEF Informed, Recent
    <3> QED
      BY <1>4, <3>1, <3>3, <3>4 DEF Informed
  <2> QED
    BY <1>4, <2>1, <2>2
<1>5. CASE tab.kind = "override" /\ \E s \in Subs, k \in Keys : tab.id = <<s, k>>
  BY <1>5 DEF Informed
<1> QED
  BY <1>2, <1>3, <1>4, <1>5 DEF IInv, Informed

LEMMA RequestStep == ASSUME TableInv, Request PROVE TableInv' /\ Advances
<1>1. ASSUME NEW t \in Templates, NEW f \in Formats, NEW d \in Definition, Create(t, f, d)
      PROVE  TableInv' /\ Advances
  BY <1>1, CreateStep
<1>2. ASSUME NEW s \in Subs, NEW c \in Selection, CreateForUser(s, c) PROVE TableInv' /\ Advances
  BY <1>2, BindStep DEF CreateForUser
<1>3. ASSUME NEW s \in Subs, NEW k \in Keys, EditOverride(s, k, rows[s][k])
      PROVE  TableInv' /\ Advances
  BY <1>3, EditOverrideStep
<1> QED
  BY <1>1, <1>2, <1>3, CopyStep, EditTemplateStep, EditDefaultsStep, EditSubscriptionStep, DeleteStep
  DEF Request

LEMMA SubmitStep == ASSUME IInv, Submit PROVE TableInv' /\ Advances
<1>1. CASE tab.kind = "template" /\ EditTemplate(tab.id, tab.seen)
  <2>1. tab.id \in Templates
    BY <1>1 DEF Submit, IInv, Informed
  <2> QED
    BY <1>1, <2>1, EditTemplateStep DEF IInv
<1>2. CASE tab.kind = "defaults" /\ EditDefaults(tab.id, tab.seen)
  <2>1. tab.id \in NodeGroups
    BY <1>2 DEF Submit, IInv, Informed
  <2> QED
    BY <1>2, <2>1, EditDefaultsStep DEF IInv
<1>3. CASE tab.kind = "subscription" /\ EditSubscription(tab.id, tab.seen)
  <2>1. tab.id \in Subs
    BY <1>3 DEF Submit, IInv, Informed
  <2> QED
    BY <1>3, <2>1, EditSubscriptionStep DEF IInv
<1>4. CASE tab.kind = "override" /\ EditOverride(tab.id[1], tab.id[2], tab.seen)
  <2>1. tab.id[1] \in Subs /\ tab.id[2] \in Keys
    BY <1>4 DEF Submit, IInv, Informed
  <2> QED
    BY <1>4, <2>1, EditOverrideStep DEF IInv
<1> QED
  BY <1>1, <1>2, <1>3, <1>4 DEF Submit

LEMMA NextStep == ASSUME IInv, [Next]_vars PROVE IInv' /\ Advances
<1>1. CASE Read
  BY <1>1, ReadStep, TablesStay DEF IInv, Read, Open
<1>2. CASE Submit
  <2>1. Informed'
    BY <1>2 DEF Submit, Informed
  <2> QED
    BY <1>2, <2>1, SubmitStep DEF IInv
<1>3. CASE Request
  BY <1>3, RequestStep, FormStays DEF IInv, Request
<1>4. CASE UNCHANGED vars
  BY <1>4, TablesStay, FormStays DEF IInv, vars
<1> QED
  BY <1>1, <1>2, <1>3, <1>4 DEF Next

\* Templates, subscriptions, rows and open forms stay consistent, whatever order
\* publishing, binding, overriding and deleting come in.
THEOREM Invariance == Spec => []IInv
<1>1. Init => IInv
  BY Initially
<1>2. IInv /\ [Next]_vars => IInv'
  BY NextStep
<1> QED
  BY <1>1, <1>2, PTL DEF Spec

-----------------------------------------------------------------------------
(* What it is for.                                                         *)

\* The tables keep their shape, and what is published exists.
THEOREM TypeCorrect == Spec => []TypeOK
<1>1. IInv => TypeOK
  BY IsLive DEF IInv, TableInv, Typed, TypeOK
<1> QED
  BY <1>1, Invariance, PTL

\* Archive, Publish, UpdateForUser and createSubscriptionForUserP2 each check a part
\* of it: what a subscription is bound to can always be resolved.
THEOREM BoundStaysAvailable == Spec => []BoundIsAvailable
<1>1. IInv => BoundIsAvailable
  BY DEF IInv, TableInv
<1> QED
  BY <1>1, Invariance, PTL

\* Whichever of Publish, UpdateForUser and saveOverrideForUserAtRevision came last,
\* every override row fits what its subscription resolves to.
THEOREM RowsFit == Spec => []RowsFitTheirDefinition
<1>1. IInv => RowsFitTheirDefinition
  BY DEF IInv, TableInv
<1> QED
  BY <1>1, Invariance, PTL

PinnedStep ==
    \A s \in Subs :
       (/\ Live(s)
        /\ subs[s].template # None
        /\ subs[s].version # 0
        /\ subs'[s] = subs[s])
       => /\ DefinitionOf(subs[s])' = DefinitionOf(subs[s])
          /\ tmpl'[subs[s].template].format = subs[s].format

LEMMA PinnedHolds == ASSUME IInv, Advances PROVE PinnedStep
<1> SUFFICES ASSUME NEW s \in Subs, Live(s), subs[s].template # None, subs[s].version # 0,
                    subs'[s] = subs[s]
             PROVE  /\ DefinitionOf(subs[s])' = DefinitionOf(subs[s])
                    /\ tmpl'[subs[s].template].format = subs[s].format
  BY DEF PinnedStep
<1> DEFINE t == subs[s].template
<1>1. subs[s] \in Subscription /\ Selectable(subs[s])
  BY IsLive DEF IInv, TableInv, BoundIsAvailable
<1>2. /\ t \in Templates /\ tmpl[t] # None /\ tmpl[t].format = subs[s].format
      /\ subs[s].version \in DOMAIN tmpl[t].versions
  BY <1>1 DEF Subscription, Selectable
<1>3. tmpl[t].versions # <<>>
  BY <1>2
<1>4. Immutable(tmpl[t], tmpl'[t])
  BY <1>2 DEF Advances
<1> QED
  BY <1>2, <1>3, <1>4 DEF Immutable, DefinitionOf

\* template_versions is immutable and Update refuses another format: what is pinned
\* renders the same for as long as it stays pinned.
THEOREM PinnedIsTheSame == Spec => PinnedStaysTheSame
<1>1. IInv /\ [Next]_vars => [PinnedStep]_vars
  BY NextStep, PinnedHolds
<1> QED
  BY <1>1, Invariance, PTL DEF Spec, PinnedStaysTheSame, PinnedStep

InformedStep ==
    (tab # None /\ tab' = None) =>
       CASE tab.kind = "template"     -> tab.seen = tmpl[tab.id]
         [] tab.kind = "defaults"     -> tab.seen = defaults[tab.id]
         [] tab.kind = "subscription" -> tab.seen = SubscriptionView(tab.id)
         [] OTHER                     -> TRUE

LEMMA InformedHolds == ASSUME IInv, [Next]_vars PROVE InformedStep
<1> SUFFICES ASSUME tab # None, tab' = None PROVE InformedStep
  BY DEF InformedStep
<1>1. Submit
  BY DEF Next, Read, Open, Request, vars
<1>2. CASE tab.kind = "template"
  <2>1. EditTemplate(tab.id, tab.seen) /\ Recent(tab.seen, tmpl[tab.id])
    BY <1>1, <1>2 DEF Submit, IInv, Informed
  <2>2. tab.seen.revision = tmpl[tab.id].revision
    BY <2>1 DEF EditTemplate, Update, Publish, Archive, Editable
  <2> QED
    BY <1>2, <2>1, <2>2 DEF Recent, InformedStep
<1>3. CASE tab.kind = "defaults"
  <2>1. EditDefaults(tab.id, tab.seen) /\ Recent(tab.seen, defaults[tab.id])
    BY <1>1, <1>3 DEF Submit, IInv, Informed
  <2>2. tab.seen.revision = defaults[tab.id].revision
    BY <2>1 DEF EditDefaults, SaveGroupDefaults
  <2> QED
    BY <1>3, <2>1, <2>2 DEF Recent, InformedStep
<1>4. CASE tab.kind = "subscription"
  <2>1. EditSubscription(tab.id, tab.seen)
    BY <1>1, <1>4 DEF Submit
  <2>2. Live(tab.id) /\ tab.seen.revision = subs[tab.id].revision
    BY <2>1 DEF EditSubscription, UpdateForUser
  <2>3. Recent(tab.seen, SubscriptionView(tab.id))
    BY <1>4, <2>2 DEF IInv, Informed, Live
  <2> QED
    BY <1>4, <2>2, <2>3 DEF Recent, InformedStep, SubscriptionView
<1>5. CASE tab.kind = "override"
  BY <1>5 DEF InformedStep
<1> QED
  BY <1>1, <1>2, <1>3, <1>4, <1>5 DEF Submit

\* The expectedRevision check of every handler: a form that is accepted was filled
\* with exactly what it replaces, so no edit made since is lost.
THEOREM NoLostEdit == Spec => EditsAreInformed
<1>1. IInv /\ [Next]_vars => [InformedStep]_vars
  BY InformedHolds
<1> QED
  BY <1>1, Invariance, PTL DEF Spec, EditsAreInformed, InformedStep
=============================================================================

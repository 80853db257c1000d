---------------------------- MODULE Subscriptions ----------------------------
(***************************************************************************)
(* Client templates, the subscriptions bound to them, the override rows of *)
(* a subscription and the defaults of a node group                         *)
(* (repo/subscriptions_p2.go, repo/subscriptions_validation.go).           *)
(*                                                                         *)
(* A template has an editable draft and a sequence of published versions.  *)
(* A subscription follows the published version or is pinned to one.  Its  *)
(* override rows, and the defaults of its node group, may assign an entry  *)
(* to a proxy group of the definition.  Every writer takes the advisory    *)
(* lock (7212,1) for its whole transaction, so that each is one step here; *)
(* what runs concurrently is a browser tab, which submits what it was      *)
(* filled with some steps before.                                          *)
(*                                                                         *)
(* A definition is abstracted to the set of proxy groups it offers; of a   *)
(* row or a default it is kept which group it names and whether it carries *)
(* protocol parameters, which the format "base64" does not allow.  A        *)
(* request whose owner is not authorised for the node group is refused and *)
(* takes no step; ClientDelivery has the authorisation.                    *)
(***************************************************************************)
EXTENDS Naturals, Sequences

CONSTANTS
    Templates, Subs,    \* rows that may be created
    Keys,               \* what an override row is about: a node or an inbound
    NodeGroups,         \* node groups a subscription may be bound to
    ProxyGroups,        \* proxy groups a definition may offer
    Formats,            \* {"mihomo", "base64"}
    MaxTemplateRevision, MaxSubRevision, MaxRowRevision, MaxDefaultRevision,
    None,               \* an absent row, or no group, no template
    Gone                \* a deleted subscription: its id is not given again

ASSUME BoundsArePositive ==
    {MaxTemplateRevision, MaxSubRevision, MaxRowRevision, MaxDefaultRevision} \subseteq Nat \ {0}

VARIABLES
    tmpl,       \* templates and template_versions
    subs,       \* subscriptions
    rows,       \* subscription_node_overrides and subscription_inbound_overrides
    defaults,   \* node_groups.subscription_defaults
    tab         \* a form opened earlier and not yet submitted

vars == <<tmpl, subs, rows, defaults, tab>>

Definition == SUBSET ProxyGroups
Patch == [group : ProxyGroups \cup {None}, params : BOOLEAN]
NoPatch == [group |-> None, params |-> FALSE]
Template == [format : Formats, draft : Definition, versions : Seq(Definition),
             published : Nat, archived : BOOLEAN, revision : Nat]
Selection == [group : NodeGroups, template : Templates \cup {None},
              version : 0..MaxTemplateRevision, format : Formats]
Row == [group : ProxyGroups \cup {None}, params : BOOLEAN, revision : Nat]
Subscription == [group : NodeGroups, template : Templates \cup {None},
                 version : 0..MaxTemplateRevision, format : Formats, revision : Nat]

\* What is absent is not mistaken for something that is there.
ASSUME AbsenceIsNoRow ==
    /\ None \notin Templates /\ None \notin Template
    /\ None \notin Subscription /\ Gone \notin Subscription /\ None # Gone

\* A row as it is written at a revision.
RowAt(patch, n) == [group |-> patch.group, params |-> patch.params, revision |-> n]
BoundAt(selection, n) == [group |-> selection.group, template |-> selection.template,
                          version |-> selection.version, format |-> selection.format,
                          revision |-> n]

Init ==
    /\ tmpl = [t \in Templates |-> None]
    /\ subs = [s \in Subs |-> None]
    /\ rows = [s \in Subs |-> [k \in Keys |-> None]]
    /\ defaults = [g \in NodeGroups |-> RowAt(NoPatch, 1)]
    /\ tab = None

-----------------------------------------------------------------------------
(* What the writers check *)

\* parseTemplateDefinition: base64 templates have no groups.
Valid(format, definition) == format = "base64" => definition = {}

\* checkGroupReference and ValidateOverrideParams
Fits(patch, format, definition) ==
    /\ patch.group # None => patch.group \in definition
    /\ format = "base64" => ~patch.params

\* templateDefinitionTx; without a template there is no group to name
DefinitionOf(selection) ==
    LET t == selection.template
        v == IF selection.version = 0 THEN tmpl[t].published ELSE selection.version
    IN IF t = None THEN {} ELSE tmpl[t].versions[v]

\* ValidateSubscriptionSelection and validateTemplateSelectionTx
Selectable(selection) ==
    LET t == selection.template IN
    IF t = None THEN selection.version = 0
    ELSE /\ tmpl[t] # None
         /\ ~tmpl[t].archived
         /\ tmpl[t].format = selection.format
         /\ IF selection.version = 0 THEN tmpl[t].published # 0
                                     ELSE selection.version \in DOMAIN tmpl[t].versions

\* A plausible bug: only the defaults are compared, the rows forgotten.
FaultyBoundOverridesFit(s, format, definition) == Fits(defaults[subs[s].group], format, definition)

\* validateBoundOverridesTx joins the defaults of the group the row names
\* before the change.
BoundOverridesFit(s, format, definition) ==
    /\ \A k \in Keys : rows[s][k] # None => Fits(rows[s][k], format, definition)
    /\ Fits(defaults[subs[s].group], format, definition)

Live(s) == subs[s] \notin {None, Gone}
\* A plausible bug: a template that subscriptions are only pinned to counts as unused.
FaultyReferences(t) == {s \in Subs : Live(s) /\ subs[s].template = t /\ subs[s].version = 0}
References(t) == {s \in Subs : Live(s) /\ subs[s].template = t}
Following(t) == {s \in References(t) : subs[s].version = 0}

-----------------------------------------------------------------------------
(* Templates.  "seen" is the record the editor's form was filled with; the *)
(* request carries its revision as expectedRevision.                       *)

\* TemplateRepo.Create: a draft, never published
Create(t, format, draft) ==
    /\ tmpl[t] = None
    /\ Valid(format, draft)
    /\ tmpl' = [tmpl EXCEPT ![t] = [format |-> format, draft |-> draft, versions |-> <<>>,
                                    published |-> 0, archived |-> FALSE, revision |-> 1]]
    /\ UNCHANGED <<subs, rows, defaults>>

\* TemplateRepo.Copy of the draft or of a version of a template that is not archived
Copy(source, t) ==
    /\ tmpl[source] # None
    /\ ~tmpl[source].archived
    /\ \E d \in {tmpl[source].draft}
              \cup {tmpl[source].versions[v] : v \in DOMAIN tmpl[source].versions} :
          Create(t, tmpl[source].format, d)

\* A plausible bug: the expected revision is not compared.
FaultyEditable(t, seen) ==
    tmpl[t] # None /\ ~tmpl[t].archived /\ tmpl[t].revision < MaxTemplateRevision

Editable(t, seen) ==
    /\ tmpl[t] # None
    /\ tmpl[t].revision = seen.revision
    /\ ~tmpl[t].archived
    /\ tmpl[t].revision < MaxTemplateRevision

\* A plausible bug: the format may still change when versions of the old one exist.
FaultyUpdate(t, seen, format, draft) ==
    /\ Editable(t, seen)
    /\ Valid(format, draft)
    /\ tmpl' = [tmpl EXCEPT ![t] = [tmpl[t] EXCEPT !.format = format, !.draft = draft,
                                                   !.revision = @ + 1]]
    /\ UNCHANGED <<subs, rows, defaults>>

\* TemplateRepo.Update: the format is fixed once a version exists.
Update(t, seen, format, draft) ==
    /\ Editable(t, seen)
    /\ Valid(format, draft)
    /\ tmpl[t].versions # <<>> => format = tmpl[t].format
    /\ tmpl' = [tmpl EXCEPT ![t] = [tmpl[t] EXCEPT !.format = format, !.draft = draft,
                                                   !.revision = @ + 1]]
    /\ UNCHANGED <<subs, rows, defaults>>

\* TemplateRepo.Publish: refused when a subscription that follows the
\* template has an override the draft does not fit.
Publish(t, seen) ==
    /\ Editable(t, seen)
    /\ Valid(tmpl[t].format, tmpl[t].draft)
    /\ \A s \in Following(t) : BoundOverridesFit(s, tmpl[t].format, tmpl[t].draft)
    /\ tmpl' = [tmpl EXCEPT ![t] = [tmpl[t] EXCEPT !.versions = Append(@, tmpl[t].draft),
                                                   !.published = Len(tmpl[t].versions) + 1,
                                                   !.revision = @ + 1]]
    /\ UNCHANGED <<subs, rows, defaults>>

\* TemplateRepo.Archive: refused while any subscription references it.
Archive(t, seen) ==
    /\ Editable(t, seen)
    /\ References(t) = {}
    /\ tmpl' = [tmpl EXCEPT ![t] = [tmpl[t] EXCEPT !.archived = TRUE, !.revision = @ + 1]]
    /\ UNCHANGED <<subs, rows, defaults>>

\* TemplateRepo.SaveGroupDefaults: the named group must be in the definition
\* of every subscription bound to the node group.
SaveGroupDefaults(g, seen, patch) ==
    /\ defaults[g].revision = seen.revision
    /\ defaults[g].revision < MaxDefaultRevision
    /\ patch.group # None =>
          \A s \in Subs : Live(s) /\ subs[s].group = g =>
              patch.group \in DefinitionOf(subs[s])
    /\ defaults' = [defaults EXCEPT ![g] = RowAt(patch, @.revision + 1)]
    /\ UNCHANGED <<tmpl, subs, rows>>

-----------------------------------------------------------------------------
(* Subscriptions and their override rows *)

\* createSubscriptionForUserP2
CreateForUser(s, selection) ==
    /\ subs[s] = None
    /\ Selectable(selection)
    /\ subs' = [subs EXCEPT ![s] = BoundAt(selection, 1)]
    /\ UNCHANGED <<tmpl, rows, defaults>>

\* SubscriptionRepo.UpdateForUser
UpdateForUser(s, seen, selection) ==
    /\ Live(s)
    /\ subs[s].revision = seen.revision
    /\ subs[s].revision < MaxSubRevision
    /\ Selectable(selection)
    /\ BoundOverridesFit(s, selection.format, DefinitionOf(selection))
    /\ subs' = [subs EXCEPT ![s] = BoundAt(selection, @.revision + 1)]
    /\ UNCHANGED <<tmpl, rows, defaults>>

\* SubscriptionRepo.DeleteForUser; the rows go with the subscription.
DeleteForUser(s) ==
    /\ Live(s)
    /\ subs' = [subs EXCEPT ![s] = Gone]
    /\ rows' = [rows EXCEPT ![s] = [k \in Keys |-> None]]
    /\ UNCHANGED <<tmpl, defaults>>

\* overrideRevisionForUpdate: an absent row has revision 0.
RowRevision(row) == IF row = None THEN 0 ELSE row.revision

RowIsEditable(s, k, seen) ==
    /\ Live(s)
    /\ RowRevision(rows[s][k]) = RowRevision(seen)
    /\ subs[s].revision < MaxSubRevision

\* saveOverrideForUserAtRevision with validateOverrideTargetTx: the row is
\* created at revision 1 or replaced, and the subscription's revision rises.
SaveOverride(s, k, seen, patch) ==
    /\ RowIsEditable(s, k, seen)
    /\ RowRevision(rows[s][k]) < MaxRowRevision
    /\ Fits(patch, subs[s].format, DefinitionOf(subs[s]))
    /\ rows' = [rows EXCEPT ![s][k] = RowAt(patch, RowRevision(@) + 1)]
    /\ subs' = [subs EXCEPT ![s].revision = @ + 1]
    /\ UNCHANGED <<tmpl, defaults>>

\* deleteOverrideForUser
DeleteOverride(s, k, seen) ==
    /\ RowIsEditable(s, k, seen)
    /\ rows[s][k] # None
    /\ rows' = [rows EXCEPT ![s][k] = None]
    /\ subs' = [subs EXCEPT ![s].revision = @ + 1]
    /\ UNCHANGED <<tmpl, defaults>>

-----------------------------------------------------------------------------
(* A form is filled by a GET and submitted later; the other requests come  *)
(* from a client that has just read what it edits.                         *)

SubscriptionView(s) == [revision |-> subs[s].revision, row |-> subs[s], overrides |-> rows[s]]

Open(kind, id, seen) ==
    /\ tab = None
    /\ tab' = [kind |-> kind, id |-> id, seen |-> seen]
    /\ UNCHANGED <<tmpl, subs, rows, defaults>>

Read ==
    \/ \E t \in Templates : tmpl[t] # None /\ Open("template", t, tmpl[t])
    \/ \E g \in NodeGroups : Open("defaults", g, defaults[g])
    \/ \E s \in Subs : Live(s) /\ Open("subscription", s, SubscriptionView(s))
    \/ \E s \in Subs, k \in Keys : Live(s) /\ Open("override", <<s, k>>, rows[s][k])

EditTemplate(t, seen) ==
    \/ \E f \in Formats, d \in Definition : Update(t, seen, f, d)
    \/ Publish(t, seen)
    \/ Archive(t, seen)

EditDefaults(g, seen) == \E p \in Patch : SaveGroupDefaults(g, seen, p)

EditSubscription(s, seen) == \E c \in Selection : UpdateForUser(s, seen, c)

EditOverride(s, k, seen) ==
    \/ \E p \in Patch : SaveOverride(s, k, seen, p)
    \/ DeleteOverride(s, k, seen)

\* The tab submits what it was filled with.
Submit ==
    /\ tab # None
    /\ tab' = None
    /\ \/ tab.kind = "template" /\ EditTemplate(tab.id, tab.seen)
       \/ tab.kind = "defaults" /\ EditDefaults(tab.id, tab.seen)
       \/ tab.kind = "subscription" /\ EditSubscription(tab.id, tab.seen)
       \/ tab.kind = "override" /\ EditOverride(tab.id[1], tab.id[2], tab.seen)

Request ==
    /\ UNCHANGED tab
    /\ \/ \E t \in Templates, f \in Formats, d \in Definition : Create(t, f, d)
       \/ \E source, t \in Templates : Copy(source, t)
       \/ \E t \in Templates : tmpl[t] # None /\ EditTemplate(t, tmpl[t])
       \/ \E g \in NodeGroups : EditDefaults(g, defaults[g])
       \/ \E s \in Subs, c \in Selection : CreateForUser(s, c)
       \/ \E s \in Subs : DeleteForUser(s)
       \/ \E s \in Subs : Live(s) /\ EditSubscription(s, subs[s])
       \/ \E s \in Subs, k \in Keys : EditOverride(s, k, rows[s][k])

Next == Read \/ Submit \/ Request

Spec == Init /\ [][Next]_vars

-----------------------------------------------------------------------------
(* Properties *)

\* Type invariant of the four tables.
TypeOK ==
    /\ \A t \in Templates : tmpl[t] # None =>
          /\ tmpl[t] \in Template
          /\ tmpl[t].published \in 0..Len(tmpl[t].versions)
    /\ \A s \in Subs : Live(s) => subs[s] \in Subscription
    /\ \A s \in Subs, k \in Keys : rows[s][k] # None => rows[s][k] \in Row
    /\ \A g \in NodeGroups : defaults[g] \in Row

\* What a subscription is bound to can always be resolved: the template is
\* not archived, has the subscription's format, and the pinned or published
\* version exists (Archive, Publish, UpdateForUser, createSubscriptionForUserP2
\* each check a part of it).
BoundIsAvailable ==
    \A s \in Subs : Live(s) => Selectable(subs[s])

\* Every override row fits the definition its subscription resolves to now,
\* whichever of publishing, switching or saving came last.
RowsFitTheirDefinition ==
    \A s \in Subs, k \in Keys : rows[s][k] # None =>
        Fits(rows[s][k], subs[s].format, DefinitionOf(subs[s]))

\* A subscription pinned to a version renders with the same definition and
\* format for as long as its selection stays (template_versions is immutable,
\* Update refuses another format).
PinnedStaysTheSame ==
    [][\A s \in Subs :
          (/\ Live(s)
           /\ subs[s].template # None
           /\ subs[s].version # 0
           /\ subs'[s] = subs[s])
          => /\ DefinitionOf(subs[s])' = DefinitionOf(subs[s])
             /\ tmpl'[subs[s].template].format = subs[s].format]_vars

\* A form that is accepted was filled with what it replaces: no edit of the
\* same template, defaults or subscription made since is lost (the
\* expectedRevision check of every handler).
EditsAreInformed ==
    [][(tab # None /\ tab' = None) =>
          CASE tab.kind = "template"     -> tab.seen = tmpl[tab.id]
            [] tab.kind = "defaults"     -> tab.seen = defaults[tab.id]
            [] tab.kind = "subscription" -> tab.seen = SubscriptionView(tab.id)
            [] OTHER                     -> TRUE]_vars
=============================================================================

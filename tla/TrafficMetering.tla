-------------------------- MODULE TrafficMetering --------------------------
(***************************************************************************)
(* The agent of one node samples the cumulative counters of its core and   *)
(* reports them; the panel turns them into usage.  The agent keeps its     *)
(* state in a file it replaces with a rename, resends a report until the   *)
(* panel accepts it, and starts a new epoch when it sees that the core was *)
(* restarted.  The panel refuses what is out of order, counts the          *)
(* difference to a cursor per series, and answers a repeated report from   *)
(* the row it kept.  A series is one user on one entry inbound.            *)
(*                                                                         *)
(* Time is counted in collection intervals of the agent (a minute or so):  *)
(* the five seconds by which the agent forgives a difference of uptime are *)
(* less than one.  PeriodLimit stands for the 24 hours a report may span,  *)
(* Retention for the 7 days report rows are kept.                          *)
(***************************************************************************)
EXTENDS Integers, FiniteSets, FiniteSetsExt

CONSTANTS
    Users,
    PeriodLimit, Retention,   \* in collection intervals
    MaxTime,                  \* bound: intervals of a behaviour
    MaxBytes,                 \* bound: bytes carried for a user
    MaxRestarts,              \* bound: restarts of the core or the agent
    MaxResets                 \* bound: resets of a user's quota period

ASSUME PeriodsArePositive ==
    /\ PeriodLimit \in Nat \ {0}
    /\ Retention \in Nat /\ Retention >= PeriodLimit

VARIABLES
    now,        \* the clock both sides read
    carried,    \* bytes the node has really carried for each user
    core,       \* counters of the running core; 0: not registered yet
    coreStart,  \* when the core started (its uptime is now - coreStart)
    disk,       \* content of <config>.traffic-state.json
    pc,         \* where collectTraffic is: "idle", "resend", "sample", "send"
    restarts,   \* restarts so far
    blurred,    \* a core was restarted within the interval in which it started
    sent,       \* every report ever handed to the network
    rows,       \* traffic_reports: the report and when it was received
    cursors,    \* traffic_cursors: [epoch, user, bytes, at]
    node,       \* traffic_node_state; epoch 0: no row
    used, lifetime, quotaEpoch,   \* traffic_accounts
    events,     \* traffic_account_events of kind reset
    known,      \* users that still have a credential on the inbound
    metered     \* ghost: what was carried when the last accepted report was sampled

agentVars == <<disk, pc>>
coreVars == <<carried, core, coreStart, restarts, blurred>>
panelVars == <<rows, cursors, node, used, lifetime, quotaEpoch, events, known, metered>>
vars == <<now, carried, core, coreStart, disk, pc, restarts, blurred, sent,
          rows, cursors, node, used, lifetime, quotaEpoch, events, known, metered>>

None == [seq |-> 0]

\* A report.  "truth" is not sent: it is what had been carried when it was
\* sampled, for the properties to compare with.
Report(e, n, start, complete, samples) ==
    [epoch |-> e, seq |-> n, start |-> start, end |-> now, complete |-> complete,
     samples |-> samples, truth |-> carried]

Init ==
    /\ now = 1
    /\ carried = [u \in Users |-> 0]
    /\ core = [u \in Users |-> 0]
    /\ coreStart = 1
    /\ disk = [epoch |-> 0, seq |-> 0, lastAt |-> 0, uptime |-> 0,
               counters |-> [u \in Users |-> 0], pending |-> None]
    /\ pc = "idle"
    /\ restarts = 0
    /\ blurred = FALSE
    /\ sent = {}
    /\ rows = {}
    /\ cursors = {}
    /\ node = [epoch |-> 0, seq |-> 0, status |-> "unsupported", received |-> 0]
    /\ used = [u \in Users |-> 0]
    /\ lifetime = [u \in Users |-> 0]
    /\ quotaEpoch = [u \in Users |-> 1]
    /\ events = {}
    /\ known = Users
    /\ metered = carried
-----------------------------------------------------------------------------
(* The node: the core carries traffic, things restart, time passes *)

Carry(u) ==
    /\ u \in known
    /\ carried[u] < MaxBytes
    /\ carried' = [carried EXCEPT ![u] = @ + 1]
    /\ core' = [core EXCEPT ![u] = @ + 1]
    /\ UNCHANGED <<now, coreStart, restarts, blurred, agentVars, sent, panelVars>>

Tick ==
    /\ now < MaxTime
    /\ now' = now + 1
    /\ UNCHANGED <<coreVars, agentVars, sent, panelVars>>

NewCore ==
    /\ restarts < MaxRestarts
    /\ restarts' = restarts + 1
    /\ core' = [u \in Users |-> 0]
    /\ coreStart' = now
    /\ blurred' = (blurred \/ coreStart = now)

\* The core alone is replaced: a new configuration, or it died.
CoreRestart ==
    /\ NewCore
    /\ UNCHANGED <<now, carried, agentVars, sent, panelVars>>

\* The agent owns the core: when it stops, both do.
AgentRestart ==
    /\ NewCore
    /\ pc' = "idle"
    /\ UNCHANGED <<now, carried, disk, sent, panelVars>>
-----------------------------------------------------------------------------
(* The agent: collectTraffic *)

Collect ==
    /\ pc = "idle"
    /\ pc' = IF disk.pending # None THEN "resend" ELSE "sample"
    /\ sent' = IF disk.pending # None THEN sent \union {disk.pending} ELSE sent
    /\ UNCHANGED <<now, coreVars, disk, panelVars>>

\* The answer does not come, or is not an acceptance: the report stays pending.
NoAnswer ==
    /\ pc \in {"resend", "send"}
    /\ pc' = "idle"
    /\ UNCHANGED <<now, coreVars, disk, sent, panelVars>>

\* Nothing to sample: the core does not answer, or the state cannot be saved.
SampleFails ==
    /\ pc = "sample"
    /\ pc' = "idle"
    /\ UNCHANGED <<now, coreVars, disk, sent, panelVars>>

Uptime == now - coreStart

\* A plausible bug: nothing but a missing file starts a new epoch.
FaultyCoreChanged == disk.epoch = 0

\* The core is not the one the stored counters came from: there are none yet,
\* its uptime says so, or a counter fell.  A counter that is not registered in
\* the new core is not compared.
CoreChanged ==
    \/ disk.epoch = 0
    \/ Uptime < disk.uptime
    \/ Uptime - disk.uptime < now - disk.lastAt
    \/ \E u \in Users : core[u] # 0 /\ core[u] < disk.counters[u]

\* Epochs are random identifiers: a fresh one is never one that was used.
FreshEpoch == 1 + Cardinality({r.epoch : r \in sent})

Sampled == {u \in Users : core[u] # 0}

\* collectTraffic after readStats: the report is saved before it is sent.  The
\* clock is finer than Tick, so two samples of one interval are not modelled.
Sample ==
    /\ pc = "sample"
    /\ disk.epoch # 0 => now > disk.lastAt
    /\ LET reset == CoreChanged
           epoch == IF reset THEN FreshEpoch ELSE disk.epoch
           seq == IF reset THEN 1 ELSE disk.seq + 1
           start == IF reset THEN now - 1 ELSE disk.lastAt
           report == Report(epoch, seq, start, ~reset, [u \in Sampled |-> core[u]])
       IN /\ disk' = [epoch |-> epoch, seq |-> seq, lastAt |-> now, uptime |-> Uptime,
                      counters |-> core, pending |-> report]
          /\ sent' = sent \union {report}
    /\ pc' = "send"
    /\ UNCHANGED <<now, coreVars, panelVars>>

\* A plausible bug: the accepted report is cleared in memory, never in the file.
FaultyAnswered ==
    /\ pc' = IF pc = "resend" THEN "sample" ELSE "idle"
    /\ UNCHANGED disk

\* sendTrafficReport returned true: the report is no longer pending.  The first
\* call of a collection goes on to sample, unless the file cannot be written.
Answered ==
    \/ /\ disk' = [disk EXCEPT !.pending = None]
       /\ pc' = IF pc = "resend" THEN "sample" ELSE "idle"
    \/ /\ pc' = "idle"
       /\ UNCHANGED disk
-----------------------------------------------------------------------------
(* The panel: Service.Ingest *)

Valid(r) ==
    /\ r.end > r.start
    /\ r.end - r.start <= PeriodLimit
    /\ r.start >= now - Retention

SameReport(r) == {row \in rows : row.report.epoch = r.epoch /\ row.report.seq = r.seq}

Duplicate(r) == \E row \in SameReport(r) : row.report = r

\* In order: the first report of a node, of a new epoch, or a later sequence.
InOrder(r) ==
    /\ SameReport(r) = {}
    /\ r.epoch = node.epoch => r.seq > node.seq
    /\ r.epoch # node.epoch =>
          /\ r.seq = 1
          /\ ~\E row \in rows : row.report.epoch = r.epoch

CursorOf(e, u) == {c \in cursors : c.epoch = e /\ c.user = u}

\* A plausible bug: the counter itself is added, not its difference to the cursor.
FaultyDelta(r, u) == IF u \notin DOMAIN r.samples THEN 0 ELSE r.samples[u]

\* What a sample of u adds: nothing when it is the baseline of its series.
Delta(r, u) == IF u \notin DOMAIN r.samples \/ CursorOf(r.epoch, u) = {} THEN 0
               ELSE LET c == CHOOSE c \in CursorOf(r.epoch, u) : TRUE
                    IN r.samples[u] - c.bytes

SamplesValid(r) ==
    \A u \in DOMAIN r.samples :
        /\ u \in known
        /\ \A c \in CursorOf(r.epoch, u) :
              /\ r.end > c.at
              /\ r.samples[u] >= c.bytes
              /\ r.end - c.at <= PeriodLimit

\* A plausible bug: the agent's own "incomplete" and new series are overlooked.
FaultyGap(r) == r.epoch = node.epoch /\ r.seq # node.seq + 1

Gap(r) == \/ ~r.complete
          \/ r.epoch # node.epoch
          \/ r.seq # node.seq + 1
          \/ \E u \in DOMAIN r.samples : CursorOf(r.epoch, u) = {}

\* The transaction commits as a whole or not at all.
Count(r) ==
    /\ Valid(r) /\ InOrder(r) /\ SamplesValid(r)
    /\ rows' = rows \union {[report |-> r, received |-> now]}
    /\ lifetime' = [u \in Users |-> lifetime[u] + Delta(r, u)]
    /\ used' = [u \in Users |-> used[u] + Delta(r, u)]
    /\ cursors' = {c \in cursors : c.epoch # r.epoch \/ c.user \notin DOMAIN r.samples}
                  \union {[epoch |-> r.epoch, user |-> u, bytes |-> r.samples[u], at |-> r.end]
                             : u \in DOMAIN r.samples}
    /\ node' = [epoch |-> r.epoch, seq |-> r.seq, received |-> now,
                status |-> IF Gap(r) THEN "gap" ELSE "collecting"]
    /\ metered' = r.truth
    /\ UNCHANGED <<quotaEpoch, events, known>>

Waiting(r) == pc \in {"resend", "send"} /\ disk.pending = r

\* A report arrives, for the first time or again, and is counted.  The agent
\* hears of it or not.
Ingest(r) ==
    /\ Count(r)
    /\ \/ Waiting(r) /\ Answered
       \/ UNCHANGED agentVars
    /\ UNCHANGED <<now, coreVars, sent>>

\* The report is one the panel still has a row of: it is accepted and nothing
\* else happens.
IngestDuplicate(r) ==
    /\ Valid(r) /\ Duplicate(r)
    /\ Waiting(r) /\ Answered
    /\ UNCHANGED <<now, coreVars, sent, panelVars>>

\* Service.Cleanup: report rows and the cursors of epochs that are over.
Cleanup ==
    LET old == {row \in rows : row.received < now - Retention}
        dead == {c \in cursors : c.at < now - Retention /\ c.epoch # node.epoch}
        stale == node.status = "collecting" /\ node.received < now - 1
    IN /\ old # {} \/ dead # {} \/ stale
       /\ rows' = rows \ old
       /\ cursors' = cursors \ dead
       /\ node' = IF stale THEN [node EXCEPT !.status = "stale"] ELSE node
       /\ UNCHANGED <<now, coreVars, agentVars, sent, used, lifetime, quotaEpoch,
                      events, known, metered>>

\* Service.Reset, as an administrator who saw quota epoch e asks for it.
Reset(u, e) ==
    /\ e < MaxResets + 1
    /\ e = quotaEpoch[u]
    /\ events' = events \union {[user |-> u, epoch |-> e, snapshot |-> used[u]]}
    /\ quotaEpoch' = [quotaEpoch EXCEPT ![u] = e + 1]
    /\ used' = [used EXCEPT ![u] = 0]
    /\ UNCHANGED <<now, coreVars, agentVars, sent, rows, cursors, node, lifetime,
                   known, metered>>

\* The inbound (or the user) goes, and its credentials with it.  Rows of
\* traffic_records keep it: only a series that never got past its baseline can.
RemoveCredential(u) ==
    /\ u \in known
    /\ \A row \in rows : \A other \in rows :
          row.report.epoch = other.report.epoch
             /\ u \in DOMAIN row.report.samples /\ u \in DOMAIN other.report.samples
          => row = other
    /\ lifetime[u] = 0
    /\ known' = known \ {u}
    /\ UNCHANGED <<now, coreVars, agentVars, sent, rows, cursors, node, used, lifetime,
                   quotaEpoch, events, metered>>
-----------------------------------------------------------------------------
Agent == Collect \/ NoAnswer \/ SampleFails \/ Sample
Panel == \/ \E r \in sent : Ingest(r) \/ IngestDuplicate(r)
         \/ Cleanup
         \/ \E u \in Users : RemoveCredential(u) \/ \E e \in 1..MaxResets : Reset(u, e)
World == (\E u \in Users : Carry(u)) \/ Tick \/ CoreRestart \/ AgentRestart

Next == Agent \/ Panel \/ World

Spec == Init /\ [][Next]_vars

Settle == /\ \E r \in sent : Waiting(r) /\ (Ingest(r) \/ IngestDuplicate(r))
          /\ disk'.pending = None

\* The agent's ticker keeps calling collectTraffic, and a report that is resent
\* again and again and would be accepted is accepted at last, with an answer.
FairSpec ==
    /\ Spec
    /\ WF_vars(Collect)
    /\ WF_vars(Sample \/ SampleFails)
    /\ SF_vars(Settle)


(* Properties *)

\* Type invariant: every variable keeps the shape its table or local has.
TypeOK ==
    /\ now \in 1..MaxTime
    /\ \A u \in Users : /\ carried[u] \in 0..MaxBytes
                         /\ core[u] \in 0..carried[u]
                         /\ used[u] \in 0..lifetime[u]
                         /\ quotaEpoch[u] \in 1..MaxResets + 1
    /\ coreStart \in 1..now
    /\ disk.lastAt <= now /\ disk.seq \in Nat
    /\ pc \in {"idle", "resend", "sample", "send"}
    /\ restarts \in 0..MaxRestarts
    /\ node.status \in {"unsupported", "collecting", "gap", "stale"}

closed == [u \in Users |-> MapThenSumSet(LAMBDA e : e.snapshot, {e \in events : e.user = u})]
Meter == INSTANCE ByteMeter

\* Whatever is lost, repeated, delayed or restarted, a byte is counted at most
\* once, and resets lose none of what was counted (Ingest, Reset).
MetersBytes == Meter!Spec

\* A report the panel is told is complete, and that fits without a gap, accounts
\* for every byte carried since the report before it: quality "collecting" is
\* never shown over bytes that were missed.  (Two cores started within one
\* interval look like one to the agent.)
CollectingIsExact ==
    [][rows \subseteq rows' /\ rows # rows' /\ node'.status = "collecting" /\ ~blurred
         => \A u \in Users : lifetime'[u] - lifetime[u] = metered'[u] - metered[u]]_vars

\* The agent and the panel never disagree about a report that is not too old:
\* either the panel still knows that it accepted it, or it can still take it in
\* its place.  Report rows are cleaned up, crashes repeat reports and sequence
\* numbers restart, and none of them makes the pending report a conflict.
PendingIsUnderstood ==
    disk.pending # None /\ ~blurred /\ Valid(disk.pending)
        => \/ Duplicate(disk.pending)
           \/ /\ InOrder(disk.pending)
              /\ \A u \in DOMAIN disk.pending.samples :
                    \A c \in CursorOf(disk.pending.epoch, u) :
                       disk.pending.end > c.at /\ disk.pending.samples[u] >= c.bytes

Acceptable(r) == Valid(r) /\ (Duplicate(r) \/ (InOrder(r) /\ SamplesValid(r)))

\* A report the panel can take does not stay pending: sampling goes on.
AcceptableIsSettled == []<>(disk.pending # None => ~Acceptable(disk.pending))
=============================================================================

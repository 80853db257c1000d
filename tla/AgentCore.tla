------------------------------ MODULE AgentCore ------------------------------
(***************************************************************************)
(* The agent of one node: how it brings a configuration into force, keeps  *)
(* the last good one on disk, and answers the panel's deployments.         *)
(*                                                                         *)
(* The agent is one loop. A step is a stretch of it that ends in a durable *)
(* write, in starting or stopping the core, or in talking to the panel; a  *)
(* crash, or the exit of the core, may come between any two.               *)
(*                                                                         *)
(* Operators named Faulty... are not part of the model: each is a mistake  *)
(* in the definition that follows it, which one of the properties tells.   *)
(***************************************************************************)
EXTENDS Naturals, Sequences

CONSTANTS Version,      \* configurations, named by the hash of their content
          None,         \* no configuration, no file, no deployment
          Pending,      \* the deployments the panel may ask this node for
          MaxMishaps    \* bound: crashes and failed durable writes

Phase == {"prepare", "apply", "rollback"}

ASSUME VersionAssumption == None \notin Version /\ None \notin Pending /\ None # "here"
ASSUME PendingAssumption ==
    \A p \in Pending : p.release \in Nat \ {0} /\ p.generation \in Nat \ {0} /\ p.phase \in Phase
ASSUME MishapAssumption == MaxMishaps \in Nat

VARIABLES disk,         \* the durable files of the configuration
          record,       \* the file .deployment.json: the last deployment done
          core,         \* what the child process runs, None if there is none
          lastApplied,  \* the agent's memory of the version in force
          pc, job,      \* where in the loop the agent is, and its locals
          desired,      \* what GET /api/agent/config serves, None if nothing
          mishaps,
          ran           \* history: the versions whose core has been ready here

vars == <<disk, record, core, lastApplied, pc, job, desired, mishaps, ran>>

File == {"state", "config", "version", "node"}
\* Mistake: the configuration before the state.
FaultyWriteOrder == <<"config", "state", "version", "node">>
WriteOrder == <<"state", "config", "version", "node">>
RemoveOrder == <<"config", "state", "version", "node">>

NoRecord == [release |-> 0, generation |-> 0, phase |-> "none"]
NewJob(v, p) == [version |-> v, old |-> None, step |-> 1, pending |-> p, failed |-> FALSE]
NoJob == NewJob(None, None)

\* The file .node holds the node's number, any other the version it belongs to.
Here == "here"
Content(f, v) == IF f = "node" THEN Here ELSE v

-----------------------------------------------------------------------------
(* What is on disk *)

\* readLastGood: the state file decides; without one, as an older agent left it,
\* the configuration counts if the version beside it matches.
LastGood ==
    IF disk["state"] # None THEN disk["state"]
    ELSE IF /\ disk["config"] # None /\ disk["version"] = disk["config"]
            /\ disk["node"] # None
         THEN disk["config"] ELSE None

\* Files that contradict each other: readLastGood's other errors.
Contradictory ==
    /\ disk["state"] = None
    /\ disk["config"] # None /\ disk["version"] # None
    /\ disk["version"] # disk["config"]

\* atomicWrite and removeDurable, the latter with value None. An error may come
\* before or after the rename.
Written(f, value) == disk' = [disk EXCEPT ![f] = value] /\ UNCHANGED mishaps
NotWritten(f, value) ==
    /\ mishaps < MaxMishaps
    /\ mishaps' = mishaps + 1
    /\ disk' \in {disk, [disk EXCEPT ![f] = value]}

-----------------------------------------------------------------------------
(* The loop *)

\* The end of applyConfig: back to the poll, which goes on whether it failed or not,
\* or to the deployment that asked.
Return(failed) ==
    IF job.pending = None
    THEN pc' = "heartbeat" /\ job' = NoJob
    ELSE pc' = "record" /\ job' = [NewJob(job.version, job.pending) EXCEPT !.failed = failed]

Goto(place, newJob) == pc' = place /\ job' = newJob

\* run: no answer, or one that is refused.
PollFails ==
    /\ pc = "idle"
    /\ Goto(IF core = None THEN "ensure" ELSE "heartbeat", NoJob)
    /\ UNCHANGED <<disk, record, core, lastApplied, desired, mishaps, ran>>

FaultyPollAnswered ==            \* mistake: the core is taken to run
    /\ pc = "idle" /\ desired # None
    /\ \/ desired = lastApplied /\ Goto("heartbeat", NoJob)
       \/ desired # lastApplied /\ Goto("check", NewJob(desired, None))
    /\ UNCHANGED <<disk, record, core, lastApplied, desired, mishaps, ran>>

\* run: the version in force needs only its core to run, any other is applied.
PollAnswered ==
    /\ pc = "idle" /\ desired # None
    /\ \/ /\ desired = lastApplied
          /\ Goto(IF core = None THEN "ensure" ELSE "heartbeat", NoJob)
       \/ /\ desired # lastApplied
          /\ Goto("check", NewJob(desired, None))
    /\ UNCHANGED <<disk, record, core, lastApplied, desired, mishaps, ran>>

\* ensureLastGoodRunning, up to the start: last good, checked, is put in place.
EnsureWrites(v) ==
    /\ pc = "ensure" /\ LastGood = v
    /\ Written("config", v)
    /\ Goto("ensure start", NewJob(v, None))
    /\ UNCHANGED <<record, core, lastApplied, desired, ran>>

EnsureFails ==
    /\ pc = "ensure"
    /\ \/ UNCHANGED <<disk, mishaps>>
       \/ LastGood # None /\ NotWritten("config", LastGood)
    /\ Goto("heartbeat", NoJob)
    /\ UNCHANGED <<record, core, lastApplied, desired, ran>>

FaultyEnsureStarts(v) ==         \* mistake: the version in force is not updated
    /\ pc = "ensure start" /\ job.version = v
    /\ core' = v /\ ran' = ran \union {v}
    /\ Goto("heartbeat", NoJob)
    /\ UNCHANGED <<disk, record, lastApplied, desired, mishaps>>

EnsureStarts(v) ==
    /\ pc = "ensure start" /\ job.version = v
    /\ core' = v /\ lastApplied' = v /\ ran' = ran \union {v}
    /\ Goto("heartbeat", NoJob)
    /\ UNCHANGED <<disk, record, desired, mishaps>>

EnsureStartFails ==
    /\ pc = "ensure start"
    /\ Goto("heartbeat", NoJob)
    /\ UNCHANGED <<disk, record, core, lastApplied, desired, mishaps, ran>>

-----------------------------------------------------------------------------
(* applyConfig *)

FaultyCheckPasses(v) ==          \* mistake: files of an older agent are not seen
    /\ pc = "check" /\ job.version = v
    /\ ~Contradictory
    /\ Goto("stop", [job EXCEPT !.old = disk["state"]])
    /\ UNCHANGED <<disk, record, core, lastApplied, desired, mishaps, ran>>

\* The last good is remembered, the candidate passes the core's own check.
CheckPasses(v) ==
    /\ pc = "check" /\ job.version = v
    /\ ~Contradictory
    /\ Goto("stop", [job EXCEPT !.old = LastGood])
    /\ UNCHANGED <<disk, record, core, lastApplied, desired, mishaps, ran>>

CheckFails ==
    /\ pc = "check"
    /\ Return(TRUE)
    /\ UNCHANGED <<disk, record, core, lastApplied, desired, mishaps, ran>>

StopCompletes(v) ==
    /\ pc = "stop" /\ job.version = v
    /\ core' = None
    /\ Goto("start", job)
    /\ UNCHANGED <<disk, record, lastApplied, desired, mishaps, ran>>

\* A core that has to be killed is an error, and it is gone all the same.
StopTimesOut ==
    /\ pc = "stop" /\ core # None
    /\ core' = None
    /\ Return(TRUE)
    /\ UNCHANGED <<disk, record, lastApplied, desired, mishaps, ran>>

CandidateStarts(v) ==
    /\ pc = "start" /\ job.version = v
    /\ core' = v /\ ran' = ran \union {v}
    /\ Goto("persist", job)
    /\ UNCHANGED <<disk, record, lastApplied, desired, mishaps>>

FaultyCandidateFails ==          \* mistake: the error is ignored
    /\ pc = "start"
    /\ Goto("persist", [job EXCEPT !.failed = TRUE])
    /\ UNCHANGED <<disk, record, core, lastApplied, desired, mishaps, ran>>

\* Not ready in time: what was on disk is written again and started again.
CandidateFails ==
    /\ pc = "start"
    /\ Goto("restore", [job EXCEPT !.failed = TRUE])
    /\ UNCHANGED <<disk, record, core, lastApplied, desired, mishaps, ran>>

\* Gone between readiness and adoption. The exit has been consumed by then, so
\* stopCore fails to signal, and the rollback ends before it has restored.
CandidateExits ==
    /\ pc = "start"
    /\ ran' = ran \union {job.version}
    /\ Return(TRUE)
    /\ UNCHANGED <<disk, record, core, lastApplied, desired, mishaps>>

\* The four durable writes, and the version in force once all are done.
Persist(v) ==
    /\ pc = "persist" /\ job.version = v
    /\ LET f == WriteOrder[job.step] IN Written(f, Content(f, v))
    /\ \/ /\ job.step < Len(WriteOrder)
          /\ Goto("persist", [job EXCEPT !.step = @ + 1])
          /\ UNCHANGED lastApplied
       \/ /\ job.step = Len(WriteOrder)
          /\ lastApplied' = v
          /\ Return(FALSE)
    /\ UNCHANGED <<record, core, desired, ran>>

PersistFails ==
    /\ pc = "persist"
    /\ LET f == WriteOrder[job.step] IN NotWritten(f, Content(f, job.version))
    /\ Goto("undo", [job EXCEPT !.step = 1])
    /\ UNCHANGED <<record, core, lastApplied, desired, ran>>

\* rollback: stop the candidate, which may take a kill and then ends the rollback.
Undo ==
    /\ pc = "undo"
    /\ \/ Goto("restore", job)
       \/ core # None /\ Return(TRUE)
    /\ core' = None
    /\ UNCHANGED <<disk, record, lastApplied, desired, mishaps, ran>>

\* restorePrevious writes the last good again, or removes every file.
RestoreOrder == IF job.old = None THEN RemoveOrder ELSE WriteOrder
Restoration(f) == IF job.old = None THEN None ELSE Content(f, job.old)

Restore ==
    /\ pc = "restore"
    /\ LET f == RestoreOrder[job.step] IN Written(f, Restoration(f))
    /\ Goto(IF job.step = Len(RestoreOrder) THEN "restart" ELSE "restore",
            [job EXCEPT !.step = IF @ = Len(RestoreOrder) THEN 1 ELSE @ + 1])
    /\ UNCHANGED <<record, core, lastApplied, desired, ran>>

\* After a failed start the error is dropped, after a failed write it is not.
RestoreFails ==
    /\ pc = "restore"
    /\ LET f == RestoreOrder[job.step] IN NotWritten(f, Restoration(f))
    /\ IF job.failed THEN Goto("restart", [job EXCEPT !.step = 1]) ELSE Return(TRUE)
    /\ UNCHANGED <<record, core, lastApplied, desired, ran>>

\* restartPrevious: whatever the configuration file holds is started as the old version.
Restart ==
    /\ pc = "restart"
    /\ job.old # None /\ disk["config"] # None
    /\ core' = disk["config"] /\ lastApplied' = job.old /\ ran' = ran \union {disk["config"]}
    /\ Return(TRUE)
    /\ UNCHANGED <<disk, record, desired, mishaps>>

RestartFails ==
    /\ pc = "restart"
    /\ Return(TRUE)
    /\ UNCHANGED <<disk, record, core, lastApplied, desired, mishaps, ran>>

-----------------------------------------------------------------------------
(* Heartbeat and deployments *)

\* The version a heartbeat reports.
Reported == IF core = None THEN None ELSE lastApplied

HeartbeatIdle ==
    /\ pc = "heartbeat"
    /\ Goto("idle", NoJob)
    /\ UNCHANGED <<disk, record, core, lastApplied, desired, mishaps, ran>>

FaultySuperseded(p) ==           \* mistake: the release is not compared
    \/ p.generation < record.generation
    \/ /\ p.generation = record.generation /\ p.phase = "prepare"
       /\ record.phase # "prepare"

\* handlePendingDeployment: what this agent has gone past is not done again.
Superseded(p) ==
    \/ p.generation < record.generation
    \/ p.generation = record.generation /\ record.release # p.release
    \/ /\ p.generation = record.generation /\ p.phase = "prepare"
       /\ record.phase # "prepare"

FaultyHandlePending(p, v) ==     \* mistake: the core is not asked
    /\ pc = "heartbeat" /\ ~Superseded(p)
    /\ \/ p.phase = "prepare" /\ Goto("prepare", NewJob(v, p))
       \/ p.phase # "prepare" /\ Goto(IF v = lastApplied THEN "record" ELSE "check", NewJob(v, p))
    /\ UNCHANGED <<disk, record, core, lastApplied, desired, mishaps, ran>>

HandlePending(p, v) ==
    /\ pc = "heartbeat" /\ ~Superseded(p)
    /\ \/ p.phase = "prepare" /\ Goto("prepare", NewJob(v, p))
       \/ /\ p.phase # "prepare"
          /\ Goto(IF v = lastApplied /\ core # None THEN "record" ELSE "check", NewJob(v, p))
    /\ UNCHANGED <<disk, record, core, lastApplied, desired, mishaps, ran>>

\* The candidate is checked and laid aside in a file that nothing reads.
Prepare ==
    /\ pc = "prepare"
    /\ \E failed \in BOOLEAN : Goto("record", [job EXCEPT !.failed = failed])
    /\ UNCHANGED <<disk, record, core, lastApplied, desired, mishaps, ran>>

RecordOf(p) == [release |-> p.release, generation |-> p.generation, phase |-> p.phase]

Record ==
    /\ pc = "record"
    /\ \/ /\ job.failed /\ UNCHANGED <<record, mishaps>>
          /\ Goto("acknowledge", job)
       \/ /\ ~job.failed
          /\ record' = RecordOf(job.pending) /\ UNCHANGED mishaps
          /\ Goto("acknowledge", job)
       \/ /\ ~job.failed
          /\ mishaps < MaxMishaps /\ mishaps' = mishaps + 1
          /\ record' \in {record, RecordOf(job.pending)}
          /\ Goto("acknowledge", [job EXCEPT !.failed = TRUE])
    /\ UNCHANGED <<disk, core, lastApplied, desired, ran>>

\* The acknowledgement is sent once; nobody looks at the answer.
SendAck ==
    /\ pc = "acknowledge"
    /\ Goto("idle", NoJob)
    /\ UNCHANGED <<disk, record, core, lastApplied, desired, mishaps, ran>>

-----------------------------------------------------------------------------
(* The environment *)

PanelServes(v) ==
    /\ desired' = v
    /\ UNCHANGED <<disk, record, core, lastApplied, pc, job, mishaps, ran>>

CoreExits ==
    /\ core # None /\ core' = None
    /\ UNCHANGED <<disk, record, lastApplied, pc, job, desired, mishaps, ran>>

\* The agent is the first process of its container: the core dies with it.
Crash ==
    /\ mishaps < MaxMishaps /\ mishaps' = mishaps + 1
    /\ core' = None /\ lastApplied' = LastGood
    /\ Goto("idle", NoJob)
    /\ UNCHANGED <<disk, record, desired, ran>>

\* A new node, or one that an agent without a state file has run on.
Init ==
    /\ \/ disk = [f \in File |-> None] /\ ran = {}
       \/ \E v \in Version :
             /\ disk = [f \in File |-> IF f = "state" THEN None ELSE Content(f, v)]
             /\ ran = {v}
    /\ record = NoRecord /\ core = None /\ lastApplied = LastGood
    /\ pc = "idle" /\ job = NoJob /\ desired = None /\ mishaps = 0

Poll == PollFails \/ PollAnswered
Ensure ==
    \/ EnsureFails \/ EnsureStartFails
    \/ \E v \in Version : EnsureWrites(v) \/ EnsureStarts(v)
Apply ==
    \/ CheckFails \/ StopTimesOut \/ CandidateFails \/ CandidateExits \/ PersistFails
    \/ \E v \in Version : CheckPasses(v) \/ StopCompletes(v) \/ CandidateStarts(v) \/ Persist(v)
Rollback == Undo \/ Restore \/ RestoreFails \/ Restart \/ RestartFails
Deploy ==
    \/ HeartbeatIdle \/ Prepare \/ Record \/ SendAck
    \/ \E p \in Pending, v \in Version : HandlePending(p, v)
Agent == Poll \/ Ensure \/ Apply \/ Rollback \/ Deploy
Environment == CoreExits \/ Crash \/ \E v \in Version : PanelServes(v)

Next == Agent \/ Environment
Spec == Init /\ [][Next]_vars

\* The ticker goes on, and each round of the loop ends.
FairSpec == Spec /\ WF_vars(Agent)

-----------------------------------------------------------------------------
(* Properties *)

Place == {"idle", "ensure", "ensure start", "check", "stop", "start", "persist", "undo",
          "restore", "restart", "heartbeat", "prepare", "record", "acknowledge"}
Job == [version : Version \union {None}, old : Version \union {None}, step : 1..4,
        pending : Pending \union {None}, failed : BOOLEAN]

\* Every variable has its type, and the locals that a place of the loop uses are set.
TypeOK ==
    /\ disk \in [File -> Version \union {None, Here}]
    /\ \A f \in File : disk[f] \in {None} \union (IF f = "node" THEN {Here} ELSE Version)
    /\ record \in {NoRecord} \union {RecordOf(p) : p \in Pending}
    /\ core \in Version \union {None} /\ lastApplied \in Version \union {None}
    /\ desired \in Version \union {None}
    /\ pc \in Place /\ job \in Job
    /\ pc \notin {"idle", "ensure", "heartbeat"} => job.version \in Version
    /\ pc \in {"prepare", "record", "acknowledge"} => job.pending \in Pending
    /\ mishaps \in 0..MaxMishaps
    /\ ran \subseteq Version

\* No crash and no failed write leaves files behind that readLastGood rejects: it
\* would refuse every later configuration too.
LastGoodIsReadable == ~Contradictory

\* What the agent would start after a crash has been ready on this node before.
LastGoodHasRun == LastGood \in ran \union {None}

\* A node that has a last good configuration keeps one: no crash and no failed write
\* takes it away, only the rollback of a first application takes away its own.
LastGoodIsKept ==
    [][LastGood # None => LastGood' # None \/ (pc = "restore" /\ LastGood = job.version)]_vars

\* One crash or one failed write does not make a heartbeat lie: the version it reports
\* is the one that runs, and the one that would run again after a crash.
ReportIsTrue ==
    pc = "heartbeat" /\ Reported # None => Reported = core /\ Reported = LastGood

\* Nor does one crash or failed write make an acknowledgement lie: applied and rolled_back
\* are sent of a configuration that was brought into force: nothing else runs, and it is
\* the one that would run again after a crash.
AckMeansApplied ==
    pc = "acknowledge" /\ ~job.failed /\ job.pending.phase # "prepare" =>
        core \in {None, job.version} /\ LastGood = job.version

\* Late commands of a superseded batch are not recorded as done, whatever
\* crashes in between: the record moves on, within a generation only in phase.
NoLateCommand ==
    [][record' # record =>
          \/ record'.generation > record.generation
          \/ /\ record'.generation = record.generation /\ record'.release = record.release
             /\ record'.phase # "prepare"]_vars

\* What can go wrong outside the agent: where it fails although what it needs is there.
Setback ==
    \/ CoreExits \/ PollFails \/ EnsureStartFails \/ StopTimesOut \/ CandidateFails
    \/ CandidateExits \/ (EnsureFails /\ LastGood # None) \/ (CheckFails /\ ~Contradictory)

\* Once the panel has settled on a version and nothing goes wrong any more, the node
\* comes to run that version and to report it, wherever earlier failures and
\* crashes have left its files, its memory and its core.
Converges ==
    \A v \in Version :
        /\ <>[](desired = v) /\ <>[][~Setback]_vars
        /\ <>[][\A p \in Pending, w \in Version : HandlePending(p, w) => w = v]_vars
        => <>[](Reported = v)
=============================================================================

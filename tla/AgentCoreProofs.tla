-------------------------- MODULE AgentCoreProofs --------------------------
(***************************************************************************)
(* What the agent's durable files promise, for any versions, deployments   *)
(* and number of crashes and failed writes.                                *)
(***************************************************************************)
EXTENDS AgentCore, TLAPS

Applying == {"stop", "start", "persist", "undo", "restore", "restart"}

\* Without a state file the others are those of an older agent, or no configuration.
FilesOK ==
    disk["state"] = None =>
       disk["config"] = None \/ (disk["version"] = disk["config"] /\ disk["node"] # None)

\* While a candidate is applied: what it found, and how far its writes have come.
CandidateOK ==
    /\ pc \in Applying =>
          /\ job.old \in ran \union {None}
          /\ job.old = None => LastGood \in {None, job.version}
    /\ pc \in {"check", "stop", "start", "undo"} => job.step = 1
    /\ pc = "persist" =>
          job.version \in ran /\ (job.step > 1 => disk["state"] = job.version)
    /\ pc = "restore" /\ job.step > 1 =>
          IF job.old = None THEN disk["config"] = None ELSE disk["state"] = job.old

\* A deployment under way has not been superseded.
DeploymentOK == job.pending # None /\ pc # "acknowledge" => ~Superseded(job.pending)

IInv == TypeOK /\ FilesOK /\ LastGoodHasRun /\ CandidateOK /\ DeploymentOK

-----------------------------------------------------------------------------
(* Files *)

Contents(f) == {None} \union (IF f = "node" THEN {Here} ELSE Version)

LEMMA Orders ==
    \A i \in 1..4 : WriteOrder[i] \in File /\ RemoveOrder[i] \in File /\ RestoreOrder[i] \in File
BY DEF WriteOrder, RemoveOrder, RestoreOrder, File

LEMMA Lengths == Len(WriteOrder) = 4 /\ Len(RestoreOrder) = 4
BY DEF WriteOrder, RemoveOrder, RestoreOrder

LEMMA ContentsOf == \A f \in File, v \in Version : Content(f, v) \in Contents(f)
BY DEF Content, Contents

\* A durable write leaves the old file or the new one, and the others alone.
LEMMA Writes ==
    ASSUME TypeOK, NEW f \in File, NEW value \in Contents(f),
           Written(f, value) \/ NotWritten(f, value)
    PROVE  /\ disk' \in {disk, [disk EXCEPT ![f] = value]}
           /\ disk' \in [File -> Version \union {None, Here}]
           /\ \A g \in File : disk'[g] \in Contents(g)
           /\ mishaps' \in 0..MaxMishaps
<1>1. disk' \in {disk, [disk EXCEPT ![f] = value]} /\ mishaps' \in 0..MaxMishaps
  BY MishapAssumption DEF Written, NotWritten, TypeOK
<1>2. \A g \in File : disk[g] \in Contents(g)
  BY DEF TypeOK, Contents
<1>3. value \in Version \union {None, Here}
  BY DEF Contents
<1> QED BY <1>1, <1>2, <1>3 DEF TypeOK

LEMMA LastGoodType == TypeOK => LastGood \in Version \union {None}
BY DEF TypeOK, LastGood, File

-----------------------------------------------------------------------------
(* Types *)

Is(j, v, p) == j \in Job /\ j.version = v /\ j.pending = p

LEMMA NewJobs ==
    /\ \A v \in Version \union {None}, p \in Pending \union {None} :
          /\ Is(NewJob(v, p), v, p) /\ NewJob(v, p).old = None
          /\ NewJob(v, p).step = 1 /\ NewJob(v, p).failed = FALSE
    /\ Is(NoJob, None, None)
BY DEF NewJob, NoJob, Job, Is

LEMMA Setters ==
    ASSUME NEW j \in Job
    PROVE  /\ \A b \in BOOLEAN :
                 /\ Is([j EXCEPT !.failed = b], j.version, j.pending)
                 /\ [j EXCEPT !.failed = b].old = j.old /\ [j EXCEPT !.failed = b].step = j.step
                 /\ [j EXCEPT !.failed = b].failed = b
           /\ \A i \in 1..4 :
                 /\ Is([j EXCEPT !.step = i], j.version, j.pending)
                 /\ [j EXCEPT !.step = i].old = j.old /\ [j EXCEPT !.step = i].step = i
                 /\ [j EXCEPT !.step = i].failed = j.failed
           /\ \A v \in Version \union {None} :
                 /\ Is([j EXCEPT !.old = v], j.version, j.pending)
                 /\ [j EXCEPT !.old = v].old = v /\ [j EXCEPT !.old = v].step = j.step
                 /\ [j EXCEPT !.old = v].failed = j.failed
BY DEF Job, Is

\* Where the loop is or goes next, and with which locals.
Placed(place, j) ==
    /\ place \in Place /\ j \in Job
    /\ place \notin {"idle", "ensure", "heartbeat"} => j.version \in Version
    /\ place \in {"prepare", "record", "acknowledge"} => j.pending \in Pending

LEMMA Returned ==
    ASSUME job \in Job, job.version \in Version, NEW failed \in BOOLEAN, Return(failed)
    PROVE  /\ Placed(pc', job') /\ pc' \in {"heartbeat", "record"}
           /\ job'.pending \in {None, job.pending}
<1>1. job.pending \in Pending \union {None}
  BY DEF Job
<1>2. CASE job.pending = None
  BY <1>2, NewJobs DEF Return, Placed, Place, Is
<1>3. CASE job.pending # None
  <2>1. pc' = "record" /\ job' = [NewJob(job.version, job.pending) EXCEPT !.failed = failed]
    BY <1>3 DEF Return
  <2>2. Is(NewJob(job.version, job.pending), job.version, job.pending)
    BY <1>1, NewJobs
  <2> DEFINE new == NewJob(job.version, job.pending)
  <2>3. Is(job', job.version, job.pending)
    <3>1. new \in Job /\ new.version = job.version /\ new.pending = job.pending
      BY <2>2 DEF Is
    <3> HIDE DEF new
    <3>2. Is([new EXCEPT !.failed = failed], new.version, new.pending)
      BY <3>1, Setters
    <3>3. job' = [new EXCEPT !.failed = failed]
      BY <2>1 DEF new
    <3> QED BY <3>1, <3>2, <3>3
  <2> QED BY <1>1, <1>3, <2>1, <2>3 DEF Placed, Place, Is
<1> QED BY <1>2, <1>3

LEMMA WithoutJob ==
    ASSUME NEW place \in {"idle", "ensure", "heartbeat"}, Goto(place, NoJob)
    PROVE  Placed(pc', job')
BY NewJobs DEF Goto, Placed, Place, Is

LEMMA WithJob ==
    ASSUME NEW place \in Place, NEW j \in Job, Goto(place, j), j.version \in Version,
           place \in {"prepare", "record", "acknowledge"} => j.pending \in Pending
    PROVE  Placed(pc', job')
BY DEF Goto, Placed

LEMMA PlacedNext == TypeOK /\ Next => Placed(pc', job')
<1> SUFFICES ASSUME TypeOK, Next PROVE Placed(pc', job')
  OBVIOUS
<1>1. /\ LastGood \in Version \union {None} /\ desired \in Version \union {None}
      /\ Placed(pc, job)
  BY LastGoodType DEF TypeOK, Placed
<1>2. CASE Poll
  <2>1. ASSUME NEW place \in {"ensure", "heartbeat"}, Goto(place, NoJob) PROVE Placed(pc', job')
    BY <2>1, WithoutJob
  <2>2. CASE desired \in Version /\ Goto("check", NewJob(desired, None))
    <3>1. Is(NewJob(desired, None), desired, None)
      BY <2>2, NewJobs
    <3> QED BY <2>2, <3>1, WithJob DEF Is, Place
  <2> QED BY <1>1, <1>2, <2>1, <2>2 DEF Poll, PollFails, PollAnswered
<1>3. CASE Ensure
  <2>1. CASE Goto("heartbeat", NoJob)
    BY <2>1, WithoutJob
  <2>2. ASSUME NEW v \in Version, Goto("ensure start", NewJob(v, None)) PROVE Placed(pc', job')
    <3>1. Is(NewJob(v, None), v, None)
      BY NewJobs
    <3> QED BY <2>2, <3>1, WithJob DEF Is, Place
  <2> QED BY <1>3, <2>1, <2>2
          DEF Ensure, EnsureFails, EnsureStartFails, EnsureWrites, EnsureStarts
<1>4. CASE Apply \/ Rollback
  <2>1. /\ job \in Job /\ job.version \in Version
        /\ job.step \in 1..4 /\ (job.step # 4 => job.step + 1 \in 1..4)
    <3>1. pc \notin {"idle", "ensure", "heartbeat"}
      BY <1>4 DEF Apply, Rollback, CheckFails, StopTimesOut, CandidateFails, CandidateExits,
                  PersistFails, CheckPasses, StopCompletes, CandidateStarts, Persist,
                  Undo, Restore, RestoreFails, Restart, RestartFails
    <3>2. job.step \in 1..4
      BY <1>1 DEF Placed, Job
    <3> QED BY <1>1, <3>1, <3>2 DEF Placed
  <2>2. CASE Return(TRUE) \/ Return(FALSE)
    BY <2>1, <2>2, Returned
  <2>3. ASSUME NEW place \in {"start", "persist", "restore"}, Goto(place, job)
        PROVE  Placed(pc', job')
    BY <2>1, <2>3, WithJob DEF Place
  <2>4. CASE Goto("stop", [job EXCEPT !.old = LastGood])
    <3>1. Is([job EXCEPT !.old = LastGood], job.version, job.pending)
      BY <1>1, <2>1, Setters
    <3> QED BY <2>1, <2>4, <3>1, WithJob DEF Place, Is
  <2>5. CASE Goto("restore", [job EXCEPT !.failed = TRUE])
    <3>1. Is([job EXCEPT !.failed = TRUE], job.version, job.pending)
      BY <2>1, Setters
    <3> QED BY <2>1, <2>5, <3>1, WithJob DEF Place, Is
  <2>6. ASSUME NEW place \in {"persist", "undo", "restore", "restart"}, NEW i \in 1..4,
               Goto(place, [job EXCEPT !.step = i])
        PROVE  Placed(pc', job')
    <3>1. Is([job EXCEPT !.step = i], job.version, job.pending)
      BY <2>1, Setters
    <3> QED BY <2>1, <2>6, <3>1, WithJob DEF Place, Is
  <2>7. CASE Persist(job.version)
    <3>1. CASE job.step = 4
      BY <2>2, <2>7, <3>1, Lengths DEF Persist
    <3>2. CASE job.step # 4
      <4>1. Goto("persist", [job EXCEPT !.step = job.step + 1])
        BY <2>7, <3>2, Lengths DEF Persist
      <4> QED BY <2>1, <2>6, <3>2, <4>1
    <3> QED BY <3>1, <3>2
  <2>8. CASE Restore
    <3>1. CASE job.step = 4
      <4>1. Goto("restart", [job EXCEPT !.step = 1])
        BY <2>8, <3>1, Lengths DEF Restore
      <4> QED BY <2>6, <4>1
    <3>2. CASE job.step # 4
      <4>1. Goto("restore", [job EXCEPT !.step = job.step + 1])
        BY <2>8, <3>2, Lengths DEF Restore
      <4> QED BY <2>1, <2>6, <3>2, <4>1
    <3> QED BY <3>1, <3>2
  <2>9. CASE PersistFails \/ RestoreFails
    <3>1. \/ Return(TRUE)
          \/ Goto("undo", [job EXCEPT !.step = 1]) \/ Goto("restart", [job EXCEPT !.step = 1])
      BY <2>9 DEF PersistFails, RestoreFails
    <3>2. CASE Goto("undo", [job EXCEPT !.step = 1])
      BY <2>6, <3>2
    <3>3. CASE Goto("restart", [job EXCEPT !.step = 1])
      BY <2>6, <3>3
    <3> QED BY <2>2, <3>1, <3>2, <3>3
  <2> QED BY <1>4, <2>2, <2>3, <2>4, <2>5, <2>7, <2>8, <2>9
          DEF Apply, Rollback, CheckFails, StopTimesOut, CandidateFails, CandidateExits,
              CheckPasses, StopCompletes, CandidateStarts, Persist, Undo, Restart, RestartFails
<1>5. CASE Deploy
  <2>1. CASE HeartbeatIdle \/ SendAck
    BY <2>1, WithoutJob DEF HeartbeatIdle, SendAck
  <2>2. ASSUME NEW place \in {"record", "acknowledge"}, NEW b \in BOOLEAN,
               pc \in {"prepare", "record"},
               Goto(place, job) \/ Goto(place, [job EXCEPT !.failed = b])
        PROVE  Placed(pc', job')
    <3>1. job \in Job /\ job.version \in Version /\ job.pending \in Pending
      BY <1>1, <2>2 DEF Placed
    <3>2. Is([job EXCEPT !.failed = b], job.version, job.pending)
      BY <3>1, Setters
    <3> QED BY <2>2, <3>1, <3>2, WithJob DEF Place, Is
  <2>3. CASE Prepare \/ Record
    BY <2>2, <2>3 DEF Prepare, Record
  <2>4. ASSUME NEW p \in Pending, NEW v \in Version, HandlePending(p, v) PROVE Placed(pc', job')
    <3>1. Is(NewJob(v, p), v, p)
      BY NewJobs
    <3>2. \E place \in {"prepare", "record", "check"} : Goto(place, NewJob(v, p))
      BY <2>4 DEF HandlePending
    <3> QED BY <3>1, <3>2, WithJob DEF Place, Is
  <2> QED BY <1>5, <2>1, <2>3, <2>4 DEF Deploy
<1>6. CASE Environment
  <2>1. CASE Goto("idle", NoJob)
    BY <2>1, WithoutJob
  <2>2. CASE UNCHANGED <<pc, job>>
    BY <1>1, <2>2
  <2> QED BY <1>6, <2>1, <2>2 DEF Environment, CoreExits, Crash, PanelServes
<1> QED BY <1>2, <1>3, <1>4, <1>5, <1>6 DEF Next, Agent

\* The steps that write a file of the configuration, and what they write.
Writing(f, value) ==
    \/ pc = "ensure" /\ LastGood # None /\ f = "config" /\ value = LastGood
    \/ pc = "persist" /\ f = WriteOrder[job.step] /\ value = Content(f, job.version)
    \/ pc = "restore" /\ f = RestoreOrder[job.step] /\ value = Restoration(f)

LEMMA DiskNext ==
    ASSUME TypeOK, Next
    PROVE  \/ /\ UNCHANGED disk
              /\ mishaps' = mishaps \/ (mishaps < MaxMishaps /\ mishaps' = mishaps + 1)
           \/ \E f \in File : \E value \in Contents(f) :
                 Writing(f, value) /\ (Written(f, value) \/ NotWritten(f, value))
<1>1. \A i \in 1..4 : WriteOrder[i] \in File /\ RestoreOrder[i] \in File
  BY Orders
<1>2. job.step \in 1..4 /\ job.old \in Version \union {None}
  BY DEF TypeOK, Job
<1>3. CASE \/ \E v \in Version : EnsureWrites(v)
           \/ EnsureFails /\ LastGood # None /\ NotWritten("config", LastGood)
  <2>1. "config" \in File /\ LastGood \in Contents("config") /\ LastGood # None
    BY <1>3, LastGoodType, VersionAssumption DEF File, Contents, EnsureWrites
  <2>2. Writing("config", LastGood)
    BY <1>3, <2>1 DEF Writing, EnsureWrites, EnsureFails
  <2> QED BY <1>3, <2>1, <2>2 DEF EnsureWrites
<1>4. CASE PersistFails \/ \E v \in Version : Persist(v)
  <2> DEFINE f == WriteOrder[job.step]
  <2>1. f \in File
    BY <1>1, <1>2
  <2>2. pc = "persist" /\ (Written(f, Content(f, job.version)) \/ NotWritten(f, Content(f, job.version)))
    BY <1>4 DEF PersistFails, Persist
  <2>3. Content(f, job.version) \in Contents(f)
    BY <2>1, <2>2, ContentsOf DEF TypeOK
  <2> HIDE DEF f
  <2>4. f = WriteOrder[job.step]
    BY DEF f
  <2>5. Writing(f, Content(f, job.version))
    BY <2>2, <2>4 DEF Writing
  <2> QED BY <2>1, <2>2, <2>3, <2>5
<1>5. CASE Restore \/ RestoreFails
  <2> DEFINE f == RestoreOrder[job.step]
  <2>1. f \in File
    BY <1>1, <1>2
  <2>2. pc = "restore" /\ (Written(f, Restoration(f)) \/ NotWritten(f, Restoration(f)))
    BY <1>5 DEF Restore, RestoreFails
  <2>3. Restoration(f) \in Contents(f)
    BY <1>2, <2>1, ContentsOf DEF Restoration, Contents
  <2> HIDE DEF f
  <2>4. f = RestoreOrder[job.step]
    BY DEF f
  <2>5. Writing(f, Restoration(f))
    BY <2>2, <2>4 DEF Writing
  <2> QED BY <2>1, <2>2, <2>3, <2>5
<1>6. CASE \/ Poll \/ EnsureStartFails \/ (\E v \in Version : EnsureStarts(v))
           \/ EnsureFails /\ UNCHANGED <<disk, mishaps>>
           \/ CheckFails \/ StopTimesOut \/ CandidateFails \/ CandidateExits
           \/ \E v \in Version : CheckPasses(v) \/ StopCompletes(v) \/ CandidateStarts(v)
           \/ Undo \/ Restart \/ RestartFails \/ Deploy \/ Environment
  BY <1>6 DEF Poll, PollFails, PollAnswered, EnsureStartFails, EnsureStarts, CheckFails,
              StopTimesOut, CandidateFails, CandidateExits, CheckPasses, StopCompletes,
              CandidateStarts, Undo, Restart, RestartFails, Deploy, HeartbeatIdle, Prepare,
              Record, SendAck, HandlePending, Environment, CoreExits, Crash, PanelServes
<1> QED
  <2>1. CASE EnsureFails
    BY <1>3, <1>6, <2>1 DEF EnsureFails
  <2> QED BY <1>3, <1>4, <1>5, <1>6, <2>1 DEF Next, Agent, Ensure, Apply, Rollback

LEMMA TypeNext == TypeOK /\ [Next]_vars => TypeOK'
<1> SUFFICES ASSUME TypeOK, Next PROVE TypeOK'
  BY DEF vars, TypeOK, LastGood
<1>1. Placed(pc', job')
  BY PlacedNext
<1>2. /\ disk' \in [File -> Version \union {None, Here}]
      /\ \A f \in File : disk'[f] \in Contents(f)
      /\ mishaps' \in 0..MaxMishaps
  <2>1. CASE \E f \in File : \E value \in Contents(f) : Written(f, value) \/ NotWritten(f, value)
    BY <2>1, Writes
  <2>2. CASE /\ UNCHANGED disk
             /\ mishaps' = mishaps \/ (mishaps < MaxMishaps /\ mishaps' = mishaps + 1)
    BY <2>2, MishapAssumption DEF TypeOK, Contents
  <2> QED BY <2>1, <2>2, DiskNext
<1>3. record' \in {NoRecord} \union {RecordOf(p) : p \in Pending}
  <2>1. CASE Record
    <3>1. job.pending \in Pending /\ record' \in {record, RecordOf(job.pending)}
      BY <2>1 DEF Record, TypeOK
    <3> QED BY <3>1 DEF TypeOK
  <2>2. UNCHANGED record \/ Record
    BY DEF Next, Agent, Environment, Poll, PollFails, PollAnswered, Ensure, EnsureFails,
           EnsureStartFails, EnsureWrites, EnsureStarts, Apply, CheckFails, StopTimesOut,
           CandidateFails, CandidateExits, PersistFails, CheckPasses, StopCompletes,
           CandidateStarts, Persist, Rollback, Undo, Restore, RestoreFails, Restart,
           RestartFails, Deploy, HeartbeatIdle, Prepare, SendAck, HandlePending,
           CoreExits, Crash, PanelServes
  <2> QED BY <2>1, <2>2 DEF TypeOK
<1>4. /\ core' \in Version \union {None} /\ lastApplied' \in Version \union {None}
      /\ desired' \in Version \union {None} /\ ran' \subseteq Version
  <2>1. LastGood \in Version \union {None} /\ job.old \in Version \union {None}
    BY LastGoodType DEF TypeOK, Job
  <2>2. disk["config"] \in Version \union {None}
    BY DEF TypeOK, File
  <2>3. CandidateExits => job.version \in Version
    BY DEF CandidateExits, TypeOK
  <2> QED
    BY <2>1, <2>2, <2>3
       DEF TypeOK, Next, Agent, Environment, Poll, PollFails, PollAnswered, Ensure, EnsureFails,
           EnsureStartFails, EnsureWrites, EnsureStarts, Apply, CheckFails, StopTimesOut,
           CandidateFails, CandidateExits, PersistFails, CheckPasses, StopCompletes,
           CandidateStarts, Persist, Rollback, Undo, Restore, RestoreFails, Restart,
           RestartFails, Deploy, HeartbeatIdle, Prepare, Record, SendAck, HandlePending,
           CoreExits, Crash, PanelServes
<1> QED BY <1>1, <1>2, <1>3, <1>4 DEF TypeOK, Placed, Contents

-----------------------------------------------------------------------------
(* The last good configuration *)

\* Which file a step of the two orders stands for.
LEMMA OrderSteps ==
    /\ WriteOrder[1] = "state" /\ WriteOrder[2] = "config"
    /\ WriteOrder[3] = "version" /\ WriteOrder[4] = "node"
    /\ RemoveOrder[1] = "config" /\ RemoveOrder[2] = "state"
    /\ RemoveOrder[3] = "version" /\ RemoveOrder[4] = "node"
BY DEF WriteOrder, RemoveOrder

LEMMA WriteEffect ==
    ASSUME IInv, NEW f \in File, NEW value \in Contents(f), Writing(f, value),
           disk' = [disk EXCEPT ![f] = value]
    PROVE  /\ FilesOK'
           /\ \/ LastGood' = LastGood
              \/ pc = "persist" /\ LastGood' = job.version
              \/ pc = "restore" /\ job.old # None /\ LastGood' = job.old
              \/ pc = "restore" /\ job.old = None /\ LastGood' = None
           /\ pc = "persist" => disk'["state"] = job.version
           /\ pc = "restore" =>
                 IF job.old = None THEN disk'["config"] = None ELSE disk'["state"] = job.old
<1>1. /\ \A g \in File : disk'[g] = IF g = f THEN value ELSE disk[g]
      /\ File = {"state", "config", "version", "node"}
  BY DEF IInv, TypeOK, File
<1>2. CASE pc = "ensure"
  <2>1. f = "config" /\ value = LastGood /\ LastGood # None
    BY <1>2 DEF Writing
  <2> QED BY <1>1, <1>2, <2>1 DEF IInv, FilesOK, LastGood
<1>3. CASE pc = "persist"
  <2>1. job.version \in Version /\ job.version # None /\ job.step \in 1..4
    BY <1>3, VersionAssumption DEF IInv, TypeOK, Job
  <2>2. f = WriteOrder[job.step] /\ value = Content(f, job.version)
    BY <1>3 DEF Writing
  <2>3. CASE job.step = 1
    <3>1. f = "state" /\ value = job.version
      BY <2>2, <2>3, OrderSteps DEF Content
    <3> QED BY <1>1, <1>3, <2>1, <3>1 DEF FilesOK, LastGood
  <2>4. CASE job.step # 1
    <3>1. f # "state" /\ disk["state"] = job.version
      BY <1>3, <2>1, <2>2, <2>4, OrderSteps DEF IInv, CandidateOK
    <3> QED BY <1>1, <1>3, <2>1, <3>1 DEF FilesOK, LastGood
  <2> QED BY <2>3, <2>4
<1>4. CASE pc = "restore" /\ job.old # None
  <2>1. job.step \in 1..4
    BY DEF IInv, TypeOK, Job
  <2>2. f = WriteOrder[job.step] /\ value = Content(f, job.old)
    BY <1>4 DEF Writing, RestoreOrder, Restoration
  <2>3. CASE job.step = 1
    <3>1. f = "state" /\ value = job.old
      BY <2>2, <2>3, OrderSteps DEF Content
    <3> QED BY <1>1, <1>4, <3>1 DEF FilesOK, LastGood
  <2>4. CASE job.step # 1
    <3>1. f # "state" /\ disk["state"] = job.old
      BY <1>4, <2>1, <2>2, <2>4, OrderSteps DEF IInv, CandidateOK
    <3> QED BY <1>1, <1>4, <3>1 DEF FilesOK, LastGood
  <2> QED BY <2>3, <2>4
<1>5. CASE pc = "restore" /\ job.old = None
  <2>1. job.step \in 1..4
    BY DEF IInv, TypeOK, Job
  <2>2. f = RemoveOrder[job.step] /\ value = None
    BY <1>5 DEF Writing, RestoreOrder, Restoration
  <2>3. disk'["config"] = None
    <3>1. CASE job.step = 1
      BY <1>1, <2>2, <3>1, OrderSteps
    <3>2. CASE job.step # 1
      BY <1>1, <1>5, <2>1, <2>2, <3>2 DEF IInv, CandidateOK
    <3> QED BY <3>1, <3>2
  <2>4. disk'["state"] \in {None, disk["state"]}
    BY <1>1, <2>2
  <2> QED BY <1>5, <2>3, <2>4 DEF FilesOK, LastGood
<1> QED BY <1>2, <1>3, <1>4, <1>5 DEF Writing

LEMMA RanGrows == TypeOK /\ [Next]_vars => ran \subseteq ran'
BY DEF vars, Next, Agent, Environment, Poll, PollFails, PollAnswered, Ensure, EnsureFails,
       EnsureStartFails, EnsureWrites, EnsureStarts, Apply, CheckFails, StopTimesOut,
       CandidateFails, CandidateExits, PersistFails, CheckPasses, StopCompletes,
       CandidateStarts, Persist, Rollback, Undo, Restore, RestoreFails, Restart,
       RestartFails, Deploy, HeartbeatIdle, Prepare, Record, SendAck, HandlePending,
       CoreExits, Crash, PanelServes

\* What a step does to the last good configuration.
LEMMA LastGoodNext ==
    ASSUME IInv, Next
    PROVE  /\ FilesOK'
           /\ \/ LastGood' = LastGood
              \/ pc = "persist" /\ LastGood' = job.version
              \/ pc = "restore" /\ job.old # None /\ LastGood' = job.old
              \/ pc = "restore" /\ job.old = None /\ LastGood' = None
<1>1. CASE UNCHANGED disk
  BY <1>1 DEF IInv, FilesOK, LastGood
<1>2. CASE \E f \in File : \E value \in Contents(f) :
              Writing(f, value) /\ disk' = [disk EXCEPT ![f] = value]
  BY <1>2, WriteEffect
<1> QED BY <1>1, <1>2, DiskNext DEF IInv, Written, NotWritten

LEMMA LastGoodHasRunNext == IInv /\ Next => LastGoodHasRun'
<1> SUFFICES ASSUME IInv, Next PROVE LastGoodHasRun'
  OBVIOUS
<1>1. ran \subseteq ran' /\ LastGood \in ran \union {None}
  BY RanGrows DEF IInv, LastGoodHasRun
<1>2. /\ pc = "persist" => job.version \in ran
      /\ pc = "restore" => job.old \in ran \union {None}
  BY DEF IInv, CandidateOK, Applying
<1> QED BY <1>1, <1>2, LastGoodNext DEF LastGoodHasRun

\* How an application comes to, or stays at, the two places that write files.
ContinuesPersist ==
    \/ pc = "persist" /\ UNCHANGED <<job, disk>>
    \/ pc = "start" /\ job'.step = 1 /\ \E v \in Version : CandidateStarts(v)
    \/ Persist(job.version)
ContinuesRestore ==
    \/ pc = "restore" /\ UNCHANGED <<job, disk>>
    \/ pc \in {"start", "undo"} /\ job'.step = 1
    \/ Restore

\* Where a step of an application leads, and which of its locals it changes.
LEMMA ApplyingNext ==
    ASSUME IInv, Next, pc' \in Applying
    PROVE  \/ /\ pc = "check" /\ pc' = "stop" /\ job'.old = LastGood
              /\ job'.version = job.version /\ job'.step = 1 /\ UNCHANGED disk
           \/ /\ pc \in Applying /\ job'.old = job.old /\ job'.version = job.version
              /\ pc' \in {"stop", "start", "undo"} => job'.step = 1
              /\ (pc' = "persist" => ContinuesPersist)
              /\ (pc' = "restore" => ContinuesRestore)
<1>1. job \in Job /\ LastGood \in Version \union {None} /\ job.step \in 1..4
  BY LastGoodType DEF IInv, TypeOK, Job
<1>2. pc \in {"check", "stop", "start", "undo"} => job.step = 1
  BY DEF IInv, CandidateOK
<1>3. ~Return(TRUE) /\ ~Return(FALSE) /\ ~Goto("idle", NoJob) /\ ~Goto("heartbeat", NoJob)
  BY DEF Return, Goto, Applying
<1>4. CASE Poll \/ Ensure \/ Deploy
  BY <1>4 DEF Poll, PollFails, PollAnswered, Ensure, EnsureFails, EnsureStartFails, EnsureWrites,
              EnsureStarts, Deploy, HeartbeatIdle, Prepare, Record, SendAck, HandlePending,
              Goto, Applying
<1>5. CASE \E v \in Version : CheckPasses(v)
  <2>1. pc = "check" /\ pc' = "stop" /\ UNCHANGED disk /\ job' = [job EXCEPT !.old = LastGood]
    BY <1>5 DEF CheckPasses, Goto
  <2>2. Is(job', job.version, job.pending) /\ job'.old = LastGood /\ job'.step = job.step
    BY <1>1, <2>1, Setters
  <2> QED BY <1>2, <2>1, <2>2 DEF Is
<1>6. CASE \E v \in Version : StopCompletes(v) \/ CandidateStarts(v)
  BY <1>2, <1>6 DEF StopCompletes, CandidateStarts, Goto, Applying, ContinuesPersist
<1>7. CASE CandidateFails
  <2>1. pc = "start" /\ pc' = "restore" /\ job' = [job EXCEPT !.failed = TRUE]
    BY <1>7 DEF CandidateFails, Goto
  <2>2. Is(job', job.version, job.pending) /\ job'.old = job.old /\ job'.step = job.step
    BY <1>1, <2>1, Setters
  <2> QED BY <1>2, <2>1, <2>2 DEF Is, Applying, ContinuesRestore
<1>8. CASE \E v \in Version : Persist(v)
  <2>1. Persist(job.version) /\ pc = "persist"
    BY <1>8 DEF Persist
  <2>2. /\ job.step < 4 /\ pc' = "persist"
        /\ job' = [job EXCEPT !.step = job.step + 1]
    <3>1. job.step < Len(WriteOrder) /\ Goto("persist", [job EXCEPT !.step = job.step + 1])
      BY <1>3, <2>1 DEF Persist
    <3> QED BY <3>1, Lengths DEF Goto
  <2> DEFINE i == job.step + 1
  <2>4. i \in 1..4
    BY <1>1, <2>2
  <2> HIDE DEF i
  <2>5. job' = [job EXCEPT !.step = i]
    BY <2>2 DEF i
  <2>3. Is(job', job.version, job.pending) /\ job'.old = job.old
    BY <1>1, <2>4, <2>5, Setters
  <2> QED BY <2>1, <2>2, <2>3 DEF Is, Applying, ContinuesPersist
<1>9. CASE PersistFails \/ RestoreFails
  <2>1. /\ pc \in {"persist", "restore"} /\ pc' \in {"undo", "restart"}
        /\ job' = [job EXCEPT !.step = 1]
    BY <1>3, <1>9 DEF PersistFails, RestoreFails, Goto
  <2>2. Is(job', job.version, job.pending) /\ job'.old = job.old /\ job'.step = 1
    <3> DEFINE i == 1
    <3>1. i \in 1..4
      OBVIOUS
    <3>2. i = 1
      OBVIOUS
    <3>3. job' = [job EXCEPT !.step = i]
      BY <2>1
    <3> HIDE DEF i
    <3>4. Is([job EXCEPT !.step = i], job.version, job.pending)
      BY <1>1, <3>1, Setters
    <3>5. [job EXCEPT !.step = i].old = job.old
      BY <1>1, <3>1, Setters
    <3>6. [job EXCEPT !.step = i].step = i
      BY <1>1, <3>1, Setters
    <3> QED BY <3>2, <3>3, <3>4, <3>5, <3>6
  <2> QED BY <2>1, <2>2 DEF Is, Applying
<1>10. CASE Undo
  BY <1>2, <1>3, <1>10 DEF Undo, Goto, Applying, ContinuesRestore
<1>11. CASE Restore
  <2>1. pc = "restore" /\ pc' \in {"restore", "restart"}
    BY <1>11 DEF Restore, Goto
  <2>2. \E i \in 1..4 : job' = [job EXCEPT !.step = i]
    BY <1>1, <1>11, Lengths DEF Restore, Goto
  <2>3. PICK i \in 1..4 : job' = [job EXCEPT !.step = i]
    BY <2>2
  <2>4. /\ Is([job EXCEPT !.step = i], job.version, job.pending)
        /\ [job EXCEPT !.step = i].old = job.old
    BY <1>1, Setters
  <2>5. Is(job', job.version, job.pending) /\ job'.old = job.old
    BY <2>3, <2>4
  <2> QED BY <1>11, <2>1, <2>5 DEF Is, Applying, ContinuesRestore
<1>12. CASE CheckFails \/ StopTimesOut \/ CandidateExits \/ Restart \/ RestartFails
  BY <1>3, <1>12 DEF CheckFails, StopTimesOut, CandidateExits, Restart, RestartFails
<1>13. CASE Environment
  <2>1. pc' = pc /\ job' = job /\ disk' = disk
    BY <1>3, <1>13 DEF Environment, CoreExits, Crash, PanelServes
  <2>2. pc \in Applying /\ job'.old = job.old /\ job'.version = job.version
    BY <2>1
  <2>3. pc' \in {"stop", "start", "undo"} => job'.step = 1
    BY <1>2, <2>1
  <2>4. (pc' = "persist" => ContinuesPersist) /\ (pc' = "restore" => ContinuesRestore)
    BY <2>1 DEF ContinuesPersist, ContinuesRestore
  <2> QED BY <2>2, <2>3, <2>4
<1> QED BY <1>4, <1>5, <1>6, <1>7, <1>8, <1>9, <1>10, <1>11, <1>12, <1>13
        DEF Next, Agent, Apply, Rollback

LEMMA Checking ==
    IInv /\ Next /\ pc' = "check" => job'.step = 1
<1> SUFFICES ASSUME IInv, Next, pc' = "check" PROVE job'.step = 1
  OBVIOUS
<1>1. \/ pc = "check" /\ job' = job
      \/ \E v \in Version \union {None}, p \in Pending \union {None} : job' = NewJob(v, p)
  BY DEF Next, Agent, Environment, Poll, PollFails, PollAnswered, Ensure, EnsureFails,
         EnsureStartFails, EnsureWrites, EnsureStarts, Apply, CheckFails, StopTimesOut,
         CandidateFails, CandidateExits, PersistFails, CheckPasses, StopCompletes,
         CandidateStarts, Persist, Rollback, Undo, Restore, RestoreFails, Restart,
         RestartFails, Deploy, HeartbeatIdle, Prepare, Record, SendAck, HandlePending,
         CoreExits, Crash, PanelServes, Goto, Return, IInv, TypeOK
<1> QED BY <1>1, NewJobs DEF IInv, CandidateOK

\* What the writes of an application have established after each step.
LEMMA PersistEffect ==
    ASSUME IInv, Persist(job.version) PROVE disk'["state"] = job.version
<1>1. job.step \in 1..4 /\ job.version \in Version /\ pc = "persist"
  BY DEF IInv, TypeOK, Job, Persist
<1> DEFINE f == WriteOrder[job.step]
<1>2. f \in File /\ f = WriteOrder[job.step]
  BY <1>1, Orders
<1>3. disk' = [disk EXCEPT ![f] = Content(f, job.version)]
  BY DEF Persist, Written
<1> HIDE DEF f
<1>4. Writing(f, Content(f, job.version)) /\ Content(f, job.version) \in Contents(f)
  BY <1>1, <1>2, ContentsOf DEF Writing
<1> QED BY <1>1, <1>2, <1>3, <1>4, WriteEffect

LEMMA RestoreEffect ==
    ASSUME IInv, Restore
    PROVE  IF job.old = None THEN disk'["config"] = None ELSE disk'["state"] = job.old
<1>1. job.step \in 1..4 /\ job.old \in Version \union {None} /\ pc = "restore"
  BY DEF IInv, TypeOK, Job, Restore
<1> DEFINE f == RestoreOrder[job.step]
<1>2. f \in File /\ f = RestoreOrder[job.step]
  BY <1>1, Orders
<1>3. disk' = [disk EXCEPT ![f] = Restoration(f)]
  BY DEF Restore, Written
<1> HIDE DEF f
<1>4. Writing(f, Restoration(f)) /\ Restoration(f) \in Contents(f)
  BY <1>1, <1>2, ContentsOf DEF Writing, Restoration, Contents
<1> QED BY <1>1, <1>2, <1>3, <1>4, WriteEffect

LEMMA CandidateNext == IInv /\ Next => CandidateOK'
<1> SUFFICES ASSUME IInv, Next PROVE CandidateOK'
  OBVIOUS
<1>1. ran \subseteq ran'
  BY RanGrows DEF IInv
<1>2. ASSUME pc' \in Applying
      PROVE  /\ job'.old \in ran' \union {None}
             /\ job'.old = None => LastGood' \in {None, job'.version}
  <2>1. CASE /\ pc = "check" /\ pc' = "stop" /\ job'.old = LastGood
             /\ job'.version = job.version /\ job'.step = 1 /\ UNCHANGED disk
    <3>1. LastGood' = LastGood
      BY <2>1 DEF LastGood
    <3> QED BY <1>1, <2>1, <3>1 DEF IInv, LastGoodHasRun
  <2>2. CASE pc \in Applying /\ job'.old = job.old /\ job'.version = job.version
    <3>1. job.old \in ran \union {None} /\ (job.old = None => LastGood \in {None, job.version})
      BY <2>2 DEF IInv, CandidateOK
    <3> QED BY <1>1, <2>2, <3>1, LastGoodNext
  <2> QED BY <1>2, <2>1, <2>2, ApplyingNext
<1>3. pc' \in {"check", "stop", "start", "undo"} => job'.step = 1
  BY Checking, ApplyingNext DEF Applying
<1>4. ASSUME pc' = "persist"
      PROVE  job'.version \in ran' /\ (job'.step > 1 => disk'["state"] = job'.version)
  <2>1. job'.version = job.version /\ ContinuesPersist
    BY <1>4, ApplyingNext DEF Applying
  <2>2. CASE pc = "persist" /\ UNCHANGED <<job, disk>>
    BY <1>1, <2>2 DEF IInv, CandidateOK
  <2>3. CASE pc = "start" /\ job'.step = 1 /\ \E v \in Version : CandidateStarts(v)
    BY <2>1, <2>3 DEF CandidateStarts
  <2>4. CASE Persist(job.version)
    <3>1. job.version \in ran
      BY <2>4 DEF Persist, IInv, CandidateOK
    <3> QED BY <1>1, <2>1, <2>4, <3>1, PersistEffect
  <2> QED BY <2>1, <2>2, <2>3, <2>4 DEF ContinuesPersist
<1>5. ASSUME pc' = "restore", job'.step > 1
      PROVE  IF job'.old = None THEN disk'["config"] = None ELSE disk'["state"] = job'.old
  <2>1. job'.old = job.old /\ ContinuesRestore
    BY <1>5, ApplyingNext DEF Applying
  <2>2. CASE pc = "restore" /\ UNCHANGED <<job, disk>>
    BY <1>5, <2>2 DEF IInv, CandidateOK
  <2>3. CASE Restore
    BY <2>1, <2>3, RestoreEffect
  <2> QED BY <1>5, <2>1, <2>2, <2>3 DEF ContinuesRestore
<1> QED BY <1>2, <1>3, <1>4, <1>5 DEF CandidateOK

-----------------------------------------------------------------------------
(* Deployments *)

\* The record moves only where a deployment ends.
LEMMA RecordNext ==
    ASSUME Next
    PROVE  \/ UNCHANGED record
           \/ pc = "record" /\ pc' = "acknowledge" /\ record' = RecordOf(job.pending)
BY DEF Next, Agent, Environment, Poll, PollFails, PollAnswered, Ensure, EnsureFails,
       EnsureStartFails, EnsureWrites, EnsureStarts, Apply, CheckFails, StopTimesOut,
       CandidateFails, CandidateExits, PersistFails, CheckPasses, StopCompletes,
       CandidateStarts, Persist, Rollback, Undo, Restore, RestoreFails, Restart,
       RestartFails, Deploy, HeartbeatIdle, Prepare, Record, SendAck, HandlePending,
       CoreExits, Crash, PanelServes, Goto

\* The deployment under way stays the same until it is acknowledged, and a new one
\* has passed the comparison with the record.
LEMMA PendingNext ==
    ASSUME IInv, Next
    PROVE  \/ job'.pending = None
           \/ pc' = "acknowledge"
           \/ job'.pending = job.pending /\ pc # "acknowledge"
           \/ ~Superseded(job'.pending)
<1>1. job \in Job /\ LastGood \in Version \union {None} /\ job.step \in 1..4
  BY LastGoodType DEF IInv, TypeOK, Job
<1>2. CASE Poll \/ Ensure \/ HeartbeatIdle \/ SendAck
  <2>1. job' = NoJob \/ \E v \in Version \union {None} : job' = NewJob(v, None)
    BY <1>1, <1>2 DEF Poll, PollFails, PollAnswered, Ensure, EnsureFails, EnsureStartFails,
                EnsureWrites, EnsureStarts, HeartbeatIdle, SendAck, Goto, IInv, TypeOK
  <2> QED BY <2>1, NewJobs DEF Is
<1>3. CASE Apply \/ Rollback
  <2>1. pc # "acknowledge" /\ job.version \in Version
    BY <1>3 DEF IInv, TypeOK, Apply, Rollback, CheckFails, StopTimesOut, CandidateFails,
                CandidateExits, PersistFails, CheckPasses, StopCompletes, CandidateStarts,
                Persist, Undo, Restore, RestoreFails, Restart, RestartFails
  <2>2. CASE Return(TRUE) \/ Return(FALSE)
    BY <1>1, <2>1, <2>2, Returned
  <2>3. CASE job' = job
    BY <2>1, <2>3
  <2>4. CASE job' = [job EXCEPT !.failed = TRUE]
    BY <1>1, <2>1, <2>4, Setters DEF Is
  <2>5. CASE job' = [job EXCEPT !.old = LastGood]
    BY <1>1, <2>1, <2>5, Setters DEF Is
  <2>6. ASSUME NEW i \in 1..4, job' = [job EXCEPT !.step = i] PROVE job'.pending = job.pending
    BY <1>1, <2>6, Setters DEF Is
  <2>7. CASE PersistFails \/ RestoreFails
    <3>1. CASE job' = [job EXCEPT !.step = 1]
      <4>1. 1 \in 1..4
        OBVIOUS
      <4> QED BY <2>1, <2>6, <3>1, <4>1
    <3>2. Return(TRUE) \/ job' = [job EXCEPT !.step = 1]
      BY <2>7 DEF PersistFails, RestoreFails, Goto
    <3> QED BY <2>2, <3>1, <3>2
  <2>8. CASE \E v \in Version : Persist(v)
    <3>1. CASE job.step < 4 /\ job' = [job EXCEPT !.step = job.step + 1]
      <4>1. job.step + 1 \in 1..4
        BY <1>1, <3>1
      <4> QED BY <2>1, <2>6, <3>1, <4>1
    <3> QED BY <2>2, <2>8, <3>1, Lengths DEF Persist, Goto
  <2>9. CASE Restore
    <3>1. \E i \in 1..4 : job' = [job EXCEPT !.step = i]
      BY <1>1, <2>9, Lengths DEF Restore, Goto
    <3> QED BY <2>1, <2>6, <3>1
  <2> QED BY <1>3, <2>2, <2>3, <2>4, <2>5, <2>7, <2>8, <2>9
          DEF Apply, Rollback, CheckFails, StopTimesOut, CandidateFails, CandidateExits,
              CheckPasses, StopCompletes, CandidateStarts, Undo, Restart, RestartFails, Goto
<1>4. CASE Prepare
  <2>1. PICK b \in BOOLEAN : pc = "prepare" /\ job' = [job EXCEPT !.failed = b]
    BY <1>4 DEF Prepare, Goto
  <2>2. Is([job EXCEPT !.failed = b], job.version, job.pending)
    BY <1>1, Setters
  <2> QED BY <2>1, <2>2 DEF Is
<1>5. CASE Record
  BY <1>5 DEF Record, Goto
<1>6. ASSUME NEW p \in Pending, NEW v \in Version, HandlePending(p, v)
      PROVE  ~Superseded(job'.pending)
  <2>1. ~Superseded(p) /\ job' = NewJob(v, p)
    BY <1>6 DEF HandlePending, Goto
  <2>2. Is(NewJob(v, p), v, p)
    BY NewJobs
  <2> QED BY <2>1, <2>2 DEF Is
<1>7. CASE Environment
  BY <1>7, NewJobs DEF Environment, CoreExits, Crash, PanelServes, Goto, Is
<1> QED BY <1>2, <1>3, <1>4, <1>5, <1>6, <1>7 DEF Next, Agent, Deploy

LEMMA DeploymentNext == IInv /\ Next => DeploymentOK'
<1> SUFFICES ASSUME IInv, Next, job'.pending # None, pc' # "acknowledge" PROVE DeploymentOK'
  BY DEF DeploymentOK
<1>1. UNCHANGED record
  BY RecordNext
<1>2. ~Superseded(job'.pending)
  BY PendingNext DEF IInv, DeploymentOK
<1> QED BY <1>1, <1>2 DEF Superseded, DeploymentOK

-----------------------------------------------------------------------------
(* What the agent says of itself, with one mishap at most: a second one    *)
(* may hit the repair of the first.                                        *)

\* A core that runs outside of an application is the version in force and the last good.
InForceOK ==
    /\ pc \notin {"start", "persist", "undo", "restore", "restart"} /\ core # None =>
          lastApplied = core /\ LastGood = core
    /\ pc \in {"start", "restore", "restart"} => core = None
    /\ pc = "persist" => core \in {None, job.version}
    /\ pc = "ensure start" => LastGood = job.version

\* What an acknowledgement is going to say.
VerdictOK ==
    /\ pc = "prepare" => job.pending.phase = "prepare"
    /\ pc \in {"record", "acknowledge"} /\ ~job.failed /\ job.pending.phase # "prepare" =>
          core \in {None, job.version} /\ LastGood = job.version

\* What restartPrevious starts is the last good.
RestoredOK ==
    /\ pc = "restore" /\ job.old # None /\ job.step > 2 => disk["config"] = job.old
    /\ pc = "restart" /\ job.old # None => LastGood = job.old /\ disk["config"] = job.old

\* Before the first mishap the files agree, but for those an application is writing.
UnharmedOK ==
    mishaps = 0 =>
       /\ pc # "undo"
       /\ pc \in {"stop", "start", "restore"} => LastGood = job.old
       /\ pc = "restore" => job.failed
       /\ pc = "persist" /\ job.step > 2 => disk["config"] = job.version
       /\ pc # "persist" /\ LastGood # None => disk["config"] = LastGood

TrustOK == InForceOK /\ VerdictOK /\ RestoredOK /\ UnharmedOK

LEMMA ReturnedWith ==
    ASSUME job \in Job, job.version \in Version, NEW failed \in BOOLEAN, Return(failed)
    PROVE  /\ pc' \in {"heartbeat", "record"}
           /\ pc' = "record" =>
                 job'.version = job.version /\ job'.pending = job.pending /\ job'.failed = failed
<1>1. CASE job.pending = None
  BY <1>1 DEF Return
<1>2. CASE job.pending # None
  <2> DEFINE new == NewJob(job.version, job.pending)
  <2>1. pc' = "record" /\ job' = [new EXCEPT !.failed = failed]
    BY <1>2 DEF Return
  <2>2. new \in Job /\ new.version = job.version /\ new.pending = job.pending
    BY NewJobs DEF Job, Is
  <2> HIDE DEF new
  <2> QED BY <2>1, <2>2, Setters DEF Is
<1> QED BY <1>1, <1>2

\* Back in the loop, with what runs and what is on disk as they are.
LEMMA Settles ==
    ASSUME pc' \in {"idle", "ensure", "heartbeat", "check", "record", "acknowledge"},
           core' # None => lastApplied' = core' /\ LastGood' = core',
           pc' \in {"record", "acknowledge"} /\ ~job'.failed /\ job'.pending.phase # "prepare" =>
              core' \in {None, job'.version} /\ LastGood' = job'.version,
           mishaps' = 0 /\ LastGood' # None => disk'["config"] = LastGood'
    PROVE  TrustOK'
BY DEF TrustOK, InForceOK, VerdictOK, RestoredOK, UnharmedOK

LEMMA Failed ==
    ASSUME job \in Job, job.version \in Version, Return(TRUE),
           core' # None => lastApplied' = core' /\ LastGood' = core',
           mishaps' = 0 /\ LastGood' # None => disk'["config"] = LastGood'
    PROVE  TrustOK'
<1>1. pc' \in {"heartbeat", "record"} /\ (pc' = "record" => job'.failed)
  BY ReturnedWith
<1> QED BY <1>1, Settles

LEMMA LoopTrust ==
    ASSUME IInv, TrustOK, Poll \/ Ensure \/ Deploy
    PROVE  TrustOK'
<1>1. UNCHANGED disk => LastGood' = LastGood
  BY DEF LastGood
<1>2. job \in Job /\ NoJob.version = None /\ NoJob.pending = None
  BY NewJobs DEF IInv, TypeOK, Is
<1>3. CASE PollFails \/ PollAnswered \/ HeartbeatIdle \/ SendAck \/ EnsureStartFails
  <2>1. /\ pc \in {"idle", "heartbeat", "acknowledge", "ensure start"}
        /\ pc' \in {"idle", "ensure", "heartbeat", "check"}
        /\ UNCHANGED <<disk, core, lastApplied, mishaps>>
    BY <1>3 DEF PollFails, PollAnswered, HeartbeatIdle, SendAck, EnsureStartFails, Goto
  <2> QED BY <1>1, <2>1, Settles DEF TrustOK, InForceOK, UnharmedOK
<1>4. CASE EnsureFails \/ \E v \in Version : EnsureWrites(v)
  <2>1. pc = "ensure" /\ UNCHANGED <<core, lastApplied>> /\ (mishaps' = 0 => mishaps = 0)
    <3>1. mishaps \in Nat
      BY MishapAssumption DEF IInv, TypeOK
    <3>2. /\ pc = "ensure" /\ UNCHANGED <<core, lastApplied>>
          /\ mishaps' = mishaps \/ mishaps' = mishaps + 1
      BY <1>4 DEF EnsureFails, EnsureWrites, Written, NotWritten
    <3> QED BY <3>1, <3>2
  <2>2. LastGood' = LastGood
    BY <1>4, LastGoodNext, <2>1 DEF Next, Agent, Ensure
  <2>3. \/ disk' = disk /\ pc' = "heartbeat"
        \/ LastGood # None /\ disk' = [disk EXCEPT !["config"] = LastGood] /\ pc' = "heartbeat"
        \/ LastGood # None /\ disk' = [disk EXCEPT !["config"] = LastGood] /\ pc' = "ensure start"
           /\ job'.version = LastGood
    <3>1. CASE EnsureFails
      BY <3>1 DEF EnsureFails, NotWritten, Goto
    <3>2. ASSUME NEW v \in Version, EnsureWrites(v)
          PROVE  /\ LastGood # None /\ disk' = [disk EXCEPT !["config"] = LastGood]
                 /\ pc' = "ensure start" /\ job'.version = LastGood
      <4>1. LastGood = v /\ disk' = [disk EXCEPT !["config"] = v] /\ pc' = "ensure start"
            /\ job' = NewJob(v, None)
        BY <3>2 DEF EnsureWrites, Written, Goto
      <4> QED BY <4>1, VersionAssumption DEF NewJob
    <3> QED BY <1>4, <3>1, <3>2
  <2>4. disk' = disk \/ disk'["config"] = LastGood
    BY <2>3 DEF IInv, TypeOK, File
  <2>5. mishaps' = 0 /\ LastGood' # None => disk'["config"] = LastGood'
    BY <2>1, <2>2, <2>4 DEF TrustOK, UnharmedOK
  <2>6. core' # None => lastApplied' = core' /\ LastGood' = core'
    BY <2>1, <2>2 DEF TrustOK, InForceOK
  <2>7. CASE pc' = "heartbeat"
    BY <2>5, <2>6, <2>7, Settles
  <2>8. CASE pc' = "ensure start" /\ job'.version = LastGood
    BY <2>2, <2>5, <2>6, <2>8 DEF TrustOK, InForceOK, VerdictOK, RestoredOK, UnharmedOK
  <2> QED BY <2>3, <2>7, <2>8
<1>5. CASE \E v \in Version : EnsureStarts(v)
  <2>1. /\ pc = "ensure start" /\ pc' = "heartbeat" /\ core' = job.version /\ lastApplied' = job.version
        /\ UNCHANGED <<disk, mishaps>>
    BY <1>5 DEF EnsureStarts, Goto
  <2> QED BY <1>1, <2>1, Settles DEF TrustOK, InForceOK, UnharmedOK
<1>6. ASSUME NEW p \in Pending, NEW v \in Version, HandlePending(p, v)
      PROVE  TrustOK'
  <2>1. /\ pc = "heartbeat" /\ UNCHANGED <<disk, core, lastApplied, mishaps>>
        /\ \/ p.phase = "prepare" /\ pc' = "prepare"
           \/ pc' = "record" /\ v = lastApplied /\ core # None
           \/ pc' = "check"
        /\ job' = NewJob(v, p)
    BY <1>6 DEF HandlePending, Goto
  <2>2. job'.version = v /\ job'.pending = p
    BY <2>1, NewJobs DEF Is
  <2>3. CASE pc' = "prepare" /\ p.phase = "prepare"
    BY <1>1, <2>1, <2>2, <2>3 DEF TrustOK, InForceOK, VerdictOK, RestoredOK, UnharmedOK
  <2>4. CASE pc' # "prepare"
    <3>1. core' # None => lastApplied' = core' /\ LastGood' = core'
      BY <1>1, <2>1 DEF TrustOK, InForceOK
    <3>2. pc' \in {"record", "check"} /\ (pc' = "record" => core' = v /\ LastGood' = v)
      BY <1>1, <2>1, <2>4 DEF TrustOK, InForceOK
    <3>3. mishaps' = 0 /\ LastGood' # None => disk'["config"] = LastGood'
      BY <1>1, <2>1 DEF TrustOK, UnharmedOK
    <3> QED BY <2>2, <3>1, <3>2, <3>3, Settles
  <2> QED BY <2>1, <2>3, <2>4
<1>7. CASE Prepare
  <2>1. PICK b \in BOOLEAN : /\ pc = "prepare" /\ pc' = "record" /\ job' = [job EXCEPT !.failed = b]
                             /\ UNCHANGED <<disk, core, lastApplied, mishaps>>
    BY <1>7 DEF Prepare, Goto
  <2>2. job'.pending = job.pending
    BY <1>2, <2>1, Setters DEF Is
  <2> QED BY <1>1, <2>1, <2>2, Settles DEF TrustOK, InForceOK, VerdictOK, UnharmedOK
<1>8. CASE Record
  <2>1. /\ pc = "record" /\ pc' = "acknowledge" /\ job' \in {job, [job EXCEPT !.failed = TRUE]}
        /\ UNCHANGED <<disk, core, lastApplied>> /\ (mishaps' = 0 => mishaps = 0)
    BY <1>8, MishapAssumption DEF Record, Goto, IInv, TypeOK
  <2>2. job' = job \/ job'.failed
    <3>1. [job EXCEPT !.failed = TRUE].failed
      BY <1>2, Setters
    <3> QED BY <2>1, <3>1
  <2> QED BY <1>1, <2>1, <2>2, Settles DEF TrustOK, InForceOK, VerdictOK, UnharmedOK
<1> QED BY <1>3, <1>4, <1>5, <1>6, <1>7, <1>8 DEF Poll, Ensure, Deploy

LEMMA ApplyTrust ==
    ASSUME MaxMishaps <= 1, IInv, TrustOK, Apply
    PROVE  TrustOK'
<1>1. UNCHANGED disk => LastGood' = LastGood
  BY DEF LastGood
<1>2. job \in Job /\ job.version \in Version /\ job.step \in 1..4 /\ mishaps \in Nat /\ MaxMishaps \in Nat
  <2>1. pc \in {"check", "stop", "start", "persist"}
    BY DEF Apply, CheckFails, StopTimesOut, CandidateFails, CandidateExits, PersistFails,
           CheckPasses, StopCompletes, CandidateStarts, Persist
  <2>2. job \in Job /\ job.version \in Version /\ mishaps \in Nat /\ MaxMishaps \in Nat
    BY <2>1, MishapAssumption DEF IInv, TypeOK
  <2> QED BY <2>2 DEF Job
<1>3. CASE CheckFails
  <2>1. pc = "check" /\ Return(TRUE) /\ UNCHANGED <<disk, core, lastApplied, mishaps>>
    BY <1>3 DEF CheckFails
  <2> QED BY <1>1, <1>2, <2>1, Failed DEF TrustOK, InForceOK, UnharmedOK
<1>4. CASE \E v \in Version : CheckPasses(v)
  <2>1. /\ pc = "check" /\ pc' = "stop" /\ job' = [job EXCEPT !.old = LastGood]
        /\ UNCHANGED <<disk, core, lastApplied, mishaps>>
    BY <1>4 DEF CheckPasses, Goto
  <2>2. job'.old = LastGood
    BY <1>2, <2>1, LastGoodType, Setters DEF IInv
  <2> QED BY <1>1, <2>1, <2>2 DEF TrustOK, InForceOK, VerdictOK, RestoredOK, UnharmedOK
<1>5. CASE \E v \in Version : StopCompletes(v)
  <2>1. /\ pc = "stop" /\ pc' = "start" /\ job' = job /\ core' = None
        /\ UNCHANGED <<disk, lastApplied, mishaps>>
    BY <1>5 DEF StopCompletes, Goto
  <2> QED BY <1>1, <2>1 DEF TrustOK, InForceOK, VerdictOK, RestoredOK, UnharmedOK
<1>6. CASE StopTimesOut \/ CandidateExits
  <2>1. /\ pc \in {"stop", "start"} /\ Return(TRUE) /\ core' = None
        /\ UNCHANGED <<disk, lastApplied, mishaps>>
    BY <1>6 DEF StopTimesOut, CandidateExits, TrustOK, InForceOK
  <2> QED BY <1>1, <1>2, <2>1, Failed DEF TrustOK, UnharmedOK
<1>7. CASE \E v \in Version : CandidateStarts(v)
  <2>1. /\ pc = "start" /\ pc' = "persist" /\ job' = job /\ core' = job.version /\ job.step = 1
        /\ UNCHANGED <<disk, lastApplied, mishaps>>
    BY <1>7 DEF CandidateStarts, Goto, IInv, CandidateOK
  <2> QED BY <1>1, <2>1 DEF TrustOK, InForceOK, VerdictOK, RestoredOK, UnharmedOK
<1>8. CASE CandidateFails
  <2>1. /\ pc = "start" /\ pc' = "restore" /\ job' = [job EXCEPT !.failed = TRUE] /\ job.step = 1
        /\ UNCHANGED <<disk, core, lastApplied, mishaps>>
    BY <1>8 DEF CandidateFails, Goto, IInv, CandidateOK
  <2>2. job'.failed /\ job'.old = job.old /\ job'.step = 1
    BY <1>2, <2>1, Setters
  <2> QED BY <1>1, <2>1, <2>2 DEF TrustOK, InForceOK, VerdictOK, RestoredOK, UnharmedOK
<1>9. CASE PersistFails
  <2>1. /\ pc = "persist" /\ pc' = "undo" /\ mishaps' # 0
    BY <1>2, <1>9 DEF PersistFails, Goto, NotWritten
  <2> QED BY <2>1 DEF TrustOK, InForceOK, VerdictOK, RestoredOK, UnharmedOK
<1>10. CASE \E v \in Version : Persist(v)
  <2>1. Persist(job.version) /\ pc = "persist"
    BY <1>10 DEF Persist
  <2> DEFINE f == WriteOrder[job.step]
  <2>2. /\ disk' = [disk EXCEPT ![f] = Content(f, job.version)] /\ mishaps' = mishaps /\ core' = core
        /\ \/ /\ job.step < 4 /\ pc' = "persist" /\ job' = [job EXCEPT !.step = job.step + 1]
           \/ /\ job.step = 4 /\ lastApplied' = job.version /\ Return(FALSE)
    BY <2>1, Lengths DEF Persist, Written, Goto
  <2>3. f \in File /\ (job.step = 2 => f = "config") /\ (job.step > 2 => f # "config")
    BY <1>2, Orders, OrderSteps
  <2> HIDE DEF f
  <2>4. disk'["state"] = job.version /\ LastGood' = job.version
    BY <1>2, <2>1, PersistEffect, VersionAssumption DEF LastGood
  <2>5. mishaps = 0 /\ job.step > 1 => disk'["config"] = job.version
    <3>1. disk'["config"] = IF f = "config" THEN Content("config", job.version) ELSE disk["config"]
      BY <2>2, <2>3 DEF IInv, TypeOK, File
    <3>2. Content("config", job.version) = job.version
      BY DEF Content
    <3>3. mishaps = 0 /\ job.step > 2 => disk["config"] = job.version
      BY <2>1 DEF TrustOK, UnharmedOK
    <3> QED BY <1>2, <2>3, <3>1, <3>2, <3>3
  <2>6. core \in {None, job.version}
    BY <2>1 DEF TrustOK, InForceOK
  <2>7. CASE job.step < 4 /\ pc' = "persist" /\ job' = [job EXCEPT !.step = job.step + 1]
    <3> DEFINE i == job.step + 1
    <3>1. i \in 1..4 /\ (i > 2 => job.step > 1)
      BY <1>2, <2>7
    <3>2. job' = [job EXCEPT !.step = i]
      BY <2>7
    <3> HIDE DEF i
    <3>3. job'.version = job.version /\ job'.step = i
      BY <1>2, <3>1, <3>2, Setters DEF Is
    <3> QED BY <2>2, <2>5, <2>6, <2>7, <3>1, <3>3 DEF TrustOK, InForceOK, VerdictOK, RestoredOK, UnharmedOK
  <2>8. CASE job.step = 4 /\ lastApplied' = job.version /\ Return(FALSE)
    <3>1. pc' \in {"heartbeat", "record"} /\ (pc' = "record" => job'.version = job.version)
      BY <1>2, <2>8, ReturnedWith
    <3>2. job.step > 1
      BY <2>8
    <3> QED BY <2>2, <2>4, <2>5, <2>6, <2>8, <3>1, <3>2, Settles
  <2> QED BY <2>2, <2>7, <2>8
<1> QED BY <1>3, <1>4, <1>5, <1>6, <1>7, <1>8, <1>9, <1>10 DEF Apply

LEMMA RollbackTrust ==
    ASSUME MaxMishaps <= 1, IInv, TrustOK, Rollback
    PROVE  TrustOK'
<1>1. UNCHANGED disk => LastGood' = LastGood
  BY DEF LastGood
<1>2. job \in Job /\ job.version \in Version /\ job.step \in 1..4 /\ mishaps \in Nat /\ MaxMishaps \in Nat
      /\ job.old \in Version \union {None}
  <2>1. pc \in {"undo", "restore", "restart"}
    BY DEF Rollback, Undo, Restore, RestoreFails, Restart, RestartFails
  <2>2. job \in Job /\ job.version \in Version /\ mishaps \in Nat /\ MaxMishaps \in Nat
    BY <2>1, MishapAssumption DEF IInv, TypeOK
  <2> QED BY <2>2 DEF Job
<1>3. CASE Undo
  <2>1. pc = "undo" /\ mishaps # 0 /\ core' = None /\ UNCHANGED <<disk, lastApplied, mishaps>> /\ job.step = 1
    BY <1>3 DEF Undo, TrustOK, UnharmedOK, IInv, CandidateOK
  <2>2. CASE Return(TRUE)
    BY <1>2, <2>1, <2>2, Failed
  <2>3. CASE pc' = "restore" /\ job' = job
    BY <1>1, <2>1, <2>3 DEF TrustOK, InForceOK, VerdictOK, RestoredOK, UnharmedOK
  <2> QED BY <1>3, <2>2, <2>3 DEF Undo, Goto
<1>4. ASSUME pc = "restore", NEW f \in File, f = RestoreOrder[job.step],
             disk' \in {disk, [disk EXCEPT ![f] = Restoration(f)]}, job.old # None
      PROVE  /\ mishaps = 0 => LastGood' = job.old /\ disk'["config"] = job.old
             /\ job.step > 2 => disk'["config"] = job.old
             /\ job.step > 1 => LastGood' = job.old
  <2>1. /\ RestoreOrder = WriteOrder /\ Restoration("config") = job.old
        /\ Restoration("state") = job.old /\ RestoreOrder[2] = "config" /\ RestoreOrder[1] = "state"
        /\ (job.step > 2 => f # "config") /\ (job.step > 1 => f # "state")
    BY <1>2, <1>4, OrderSteps DEF RestoreOrder, Restoration, Content
  <2>2. \A g \in File : disk'[g] = disk[g] \/ (g = f /\ disk'[g] = Restoration(g))
    <3>1. disk \in [File -> Version \union {None, Here}]
      BY DEF IInv, TypeOK
    <3>2. disk' = disk \/ disk' = [disk EXCEPT ![f] = Restoration(f)]
      BY <1>4
    <3> DEFINE value == Restoration(f)
    <3>3. ASSUME NEW g \in File, disk' = [disk EXCEPT ![f] = value]
          PROVE  disk'[g] = disk[g] \/ (g = f /\ disk'[g] = value)
      <4> HIDE DEF value
      <4> QED BY <3>1, <3>3
    <3> QED BY <3>2, <3>3
  <2>3. {"state", "config", "version", "node"} = File
    BY DEF File
  <2>4. /\ job.step > 1 => disk["state"] = job.old
        /\ job.step > 2 => disk["config"] = job.old
        /\ mishaps = 0 => LastGood = job.old /\ disk["config"] = job.old
    BY <1>4 DEF IInv, CandidateOK, TrustOK, RestoredOK, UnharmedOK
  <2>5. LastGood' \in {LastGood, job.old}
    <3>1. Restoration(f) \in Contents(f) /\ Writing(f, Restoration(f))
      BY <1>2, <1>4, ContentsOf DEF Restoration, Contents, Writing
    <3>2. CASE disk' = [disk EXCEPT ![f] = Restoration(f)]
      BY <1>4, <3>1, <3>2, WriteEffect
    <3> QED BY <1>1, <1>4, <3>2
  <2>6. job.step > 1 => LastGood' = job.old
    <3> SUFFICES ASSUME job.step > 1 PROVE LastGood' = job.old
      OBVIOUS
    <3>1. disk'["state"] = job.old
      BY <2>1, <2>2, <2>3, <2>4
    <3> QED BY <1>4, <3>1 DEF LastGood
  <2>7. job.step > 2 => disk'["config"] = job.old
    BY <2>1, <2>2, <2>3, <2>4
  <2>8. mishaps = 0 => disk'["config"] = job.old
    BY <2>1, <2>2, <2>3, <2>4
  <2> QED BY <2>4, <2>5, <2>6, <2>7, <2>8
<1>5. CASE Restore
  <2> DEFINE f == RestoreOrder[job.step]
             i == IF job.step = 4 THEN 1 ELSE job.step + 1
  <2>1. /\ pc = "restore" /\ disk' = [disk EXCEPT ![f] = Restoration(f)]
        /\ pc' = (IF job.step = 4 THEN "restart" ELSE "restore") /\ job' = [job EXCEPT !.step = i]
        /\ UNCHANGED <<core, lastApplied, mishaps>>
    BY <1>5, Lengths DEF Restore, Written, Goto
  <2>2. f \in File /\ i \in 1..4
    BY <1>2, Orders
  <2> HIDE DEF i
  <2>3. /\ job'.old = job.old /\ job'.step = i /\ job'.failed = job.failed
    BY <1>2, <2>1, <2>2, Setters
  <2>4. core' = None
    BY <2>1 DEF TrustOK, InForceOK
  <2>5. CASE job.old # None
    <3>1. /\ mishaps = 0 => LastGood' = job.old /\ disk'["config"] = job.old
          /\ job.step > 2 => disk'["config"] = job.old
          /\ job.step > 1 => LastGood' = job.old
      BY <1>4, <2>1, <2>2, <2>5
    <3>2. job.step = 2 => disk'["config"] = job.old
      <4>1. job.step = 2 => f = "config" /\ Restoration(f) = job.old
        BY <2>5, OrderSteps DEF RestoreOrder, Restoration, Content
      <4> QED BY <2>1, <4>1 DEF IInv, TypeOK, File
    <3>3. i > 2 => job.step >= 2
      BY <1>2 DEF i
    <3> QED BY <2>1, <2>3, <2>4, <2>5, <3>1, <3>2, <3>3, <1>2
            DEF TrustOK, InForceOK, VerdictOK, RestoredOK, UnharmedOK
  <2>6. CASE job.old = None
    <3>1. mishaps = 0 => LastGood' = None
      BY <1>5, <2>1, <2>6, LastGoodNext DEF Next, Agent, Rollback, TrustOK, UnharmedOK
    <3> QED BY <2>1, <2>3, <2>4, <2>6, <3>1 DEF TrustOK, InForceOK, VerdictOK, RestoredOK, UnharmedOK
  <2> QED BY <2>5, <2>6
<1>6. CASE RestoreFails
  <2> DEFINE f == RestoreOrder[job.step]
             i == 1
  <2>1. /\ pc = "restore" /\ mishaps < MaxMishaps /\ mishaps' = mishaps + 1
        /\ disk' \in {disk, [disk EXCEPT ![f] = Restoration(f)]}
        /\ IF job.failed THEN pc' = "restart" /\ job' = [job EXCEPT !.step = i] ELSE Return(TRUE)
        /\ UNCHANGED <<core, lastApplied>>
    BY <1>6 DEF RestoreFails, NotWritten, Goto
  <2>2. f \in File /\ i \in 1..4 /\ mishaps = 0 /\ mishaps' # 0
    BY <1>2, <2>1, Orders
  <2> HIDE DEF i
  <2>3. job.failed /\ pc' = "restart" /\ job'.old = job.old /\ core' = None
    <3>1. job.failed /\ core = None
      BY <2>1, <2>2 DEF TrustOK, InForceOK, UnharmedOK
    <3>2. [job EXCEPT !.step = i].old = job.old
      BY <1>2, <2>2, Setters
    <3> QED BY <2>1, <3>1, <3>2
  <2>4. job.old # None => LastGood' = job.old /\ disk'["config"] = job.old
    BY <1>4, <2>1, <2>2
  <2> QED BY <2>2, <2>3, <2>4 DEF TrustOK, InForceOK, VerdictOK, RestoredOK, UnharmedOK
<1>7. CASE Restart \/ RestartFails
  <2>1. /\ pc = "restart" /\ Return(TRUE) /\ UNCHANGED <<disk, mishaps>>
        /\ \/ core' = core /\ core = None
           \/ job.old # None /\ core' = disk["config"] /\ lastApplied' = job.old
    BY <1>7 DEF Restart, RestartFails, TrustOK, InForceOK
  <2>2. core' # None => lastApplied' = core' /\ LastGood' = core'
    BY <1>1, <2>1 DEF TrustOK, RestoredOK
  <2> QED BY <1>1, <1>2, <2>1, <2>2, Failed DEF TrustOK, UnharmedOK
<1> QED BY <1>3, <1>5, <1>6, <1>7 DEF Rollback

LEMMA TrustNext ==
    ASSUME MaxMishaps <= 1, IInv, TrustOK, [Next]_vars
    PROVE  TrustOK'
<1>1. UNCHANGED disk => LastGood' = LastGood
  BY DEF LastGood
<1>2. CASE CoreExits
  <2>1. core' = None /\ UNCHANGED <<disk, lastApplied, pc, job, mishaps>>
    BY <1>2 DEF CoreExits
  <2> QED BY <1>1, <2>1 DEF TrustOK, InForceOK, VerdictOK, RestoredOK, UnharmedOK
<1>3. CASE Crash
  <2>1. core' = None /\ pc' = "idle" /\ mishaps' # 0 /\ UNCHANGED disk
    BY <1>3, MishapAssumption DEF Crash, Goto, IInv, TypeOK
  <2> QED BY <2>1, Settles
<1>4. CASE (\E v \in Version : PanelServes(v)) \/ UNCHANGED vars
  <2>1. UNCHANGED <<disk, core, lastApplied, pc, job, mishaps>>
    BY <1>4 DEF PanelServes, vars
  <2> QED BY <1>1, <2>1 DEF TrustOK, InForceOK, VerdictOK, RestoredOK, UnharmedOK
<1> QED BY <1>2, <1>3, <1>4, LoopTrust, ApplyTrust, RollbackTrust DEF Next, Agent, Environment

LEMMA TrustInitially == Init => TrustOK
<1> SUFFICES ASSUME Init PROVE TrustOK
  OBVIOUS
<1>1. pc = "idle" /\ core = None
  BY DEF Init
<1>2. LastGood # None => disk["config"] = LastGood
  BY DEF Init, LastGood, File, Content
<1> QED BY <1>1, <1>2 DEF TrustOK, InForceOK, VerdictOK, RestoredOK, UnharmedOK

-----------------------------------------------------------------------------
(* Theorems *)

LEMMA Initially == Init => IInv
<1> SUFFICES ASSUME Init PROVE IInv
  OBVIOUS
<1>1. job = NoJob /\ Is(NoJob, None, None) /\ NoJob.pending = None /\ pc = "idle"
  BY NewJobs DEF Init, Is
<1>2. disk \in [File -> Version \union {None, Here}]
      /\ \A f \in File : disk[f] \in {None} \union (IF f = "node" THEN {Here} ELSE Version)
  BY DEF Init, Content
<1>3. FilesOK /\ LastGood \in ran \union {None} /\ ran \subseteq Version
  BY VersionAssumption DEF Init, FilesOK, LastGood, Content, File, Here
<1>4. TypeOK
  BY <1>1, <1>2, <1>3, MishapAssumption DEF Init, TypeOK, Is, Place
<1> QED BY <1>1, <1>3, <1>4
        DEF IInv, LastGoodHasRun, CandidateOK, DeploymentOK, Applying

\* Whatever crashes and fails, the files and the locals of the agent keep IInv.
THEOREM Invariance == Spec => []IInv
<1>1. Init => IInv
  BY Initially
<1>2. IInv /\ [Next]_vars => IInv'
  <2> SUFFICES ASSUME IInv, [Next]_vars PROVE IInv'
    OBVIOUS
  <2>1. CASE Next
    BY <2>1, TypeNext, LastGoodNext, LastGoodHasRunNext, CandidateNext, DeploymentNext DEF IInv
  <2>2. CASE UNCHANGED vars
    BY <2>2 DEF vars, IInv, TypeOK, FilesOK, LastGoodHasRun, CandidateOK, DeploymentOK,
                LastGood, Superseded
  <2> QED BY <2>1, <2>2
<1> QED BY <1>1, <1>2, PTL DEF Spec

\* Every variable keeps its type: no place of the loop uses a local that is not set.
THEOREM TypeCorrect == Spec => []TypeOK
<1>1. IInv => TypeOK
  BY DEF IInv
<1> QED BY <1>1, Invariance, PTL

\* No crash and no failed write leaves files behind that readLastGood rejects.
THEOREM Readable == Spec => []LastGoodIsReadable
<1>1. IInv => LastGoodIsReadable
  BY DEF IInv, FilesOK, LastGoodIsReadable, Contradictory
<1> QED BY <1>1, Invariance, PTL

\* The configuration a restart would run has been ready on this node before.
THEOREM HasRun == Spec => []LastGoodHasRun
<1>1. IInv => LastGoodHasRun
  BY DEF IInv
<1> QED BY <1>1, Invariance, PTL

\* Only the rollback of a node's first application takes its last good away.
THEOREM Kept == Spec => LastGoodIsKept
<1> DEFINE Keeps == LastGood # None => LastGood' # None \/ (pc = "restore" /\ LastGood = job.version)
<1>1. IInv /\ [Next]_vars => [Keeps]_vars
  <2> SUFFICES ASSUME IInv, Next, LastGood # None, LastGood' = None
               PROVE  pc = "restore" /\ LastGood = job.version
    OBVIOUS
  <2>1. pc = "persist" => job.version # None
    BY VersionAssumption DEF IInv, TypeOK
  <2>2. pc = "restore" /\ job.old = None
    BY <2>1, LastGoodNext
  <2> QED BY <2>2 DEF IInv, CandidateOK, Applying
<1> QED BY <1>1, Invariance, PTL DEF Spec, LastGoodIsKept

\* The record of what was done never goes back to a superseded deployment.
THEOREM NoLate == Spec => NoLateCommand
<1> DEFINE Moves ==
      record' # record =>
          \/ record'.generation > record.generation
          \/ /\ record'.generation = record.generation /\ record'.release = record.release
             /\ record'.phase # "prepare"
<1>1. IInv /\ [Next]_vars => [Moves]_vars
  <2> SUFFICES ASSUME IInv, Next, record' # record PROVE Moves
    OBVIOUS
  <2>1. pc = "record" /\ record' = RecordOf(job.pending)
    BY RecordNext
  <2>2. job.pending \in Pending /\ ~Superseded(job.pending)
    BY <2>1, VersionAssumption DEF IInv, TypeOK, DeploymentOK
  <2>3. job.pending.generation \in Nat /\ record.generation \in Nat
    BY <2>2, PendingAssumption DEF IInv, TypeOK, NoRecord, RecordOf
  <2> DEFINE p == job.pending
  <2>4. record' = [release |-> p.release, generation |-> p.generation, phase |-> p.phase]
    BY <2>1 DEF RecordOf
  <2>5. /\ p.generation >= record.generation
        /\ p.generation = record.generation =>
              record.release = p.release /\ (p.phase = "prepare" => record.phase = "prepare")
    BY <2>2, <2>3 DEF Superseded
  <2>6. record = [release |-> record.release, generation |-> record.generation,
                  phase |-> record.phase]
    BY DEF IInv, TypeOK, NoRecord, RecordOf
  <2> HIDE DEF p
  <2>7. CASE p.generation = record.generation /\ p.phase = "prepare"
    BY <2>4, <2>5, <2>6, <2>7
  <2>8. CASE p.generation > record.generation
    BY <2>4, <2>8
  <2>9. CASE p.generation = record.generation /\ p.phase # "prepare"
    BY <2>4, <2>5, <2>9
  <2>10. p.generation > record.generation \/ p.generation = record.generation
    BY <2>3, <2>5 DEF p
  <2> QED BY <2>7, <2>8, <2>9, <2>10
<1> QED BY <1>1, Invariance, PTL DEF Spec, NoLateCommand

\* While at most one crash or failed write comes in between, files, core and verdicts agree.
THEOREM Trust == ASSUME MaxMishaps <= 1 PROVE Spec => []TrustOK
<1>1. Init => TrustOK
  BY TrustInitially
<1>2. IInv /\ TrustOK /\ [Next]_vars => TrustOK'
  BY TrustNext
<1> QED BY <1>1, <1>2, Invariance, PTL DEF Spec

\* A heartbeat reports the version that runs and that would run again after a crash.
THEOREM ReportTrue == ASSUME MaxMishaps <= 1 PROVE Spec => []ReportIsTrue
<1>1. TrustOK => ReportIsTrue
  BY DEF TrustOK, InForceOK, ReportIsTrue, Reported
<1> QED BY <1>1, Trust, PTL

\* Applied and rolled_back are sent only of a configuration that was brought into force.
THEOREM AckTrue == ASSUME MaxMishaps <= 1 PROVE Spec => []AckMeansApplied
<1>1. TrustOK => AckMeansApplied
  BY DEF TrustOK, VerdictOK, AckMeansApplied
<1> QED BY <1>1, Trust, PTL

=============================================================================

----------------------------- MODULE MailQueue -----------------------------
(***************************************************************************)
(* Alerts about the traffic quota of one user and the queue that delivers  *)
(* them.  A scan compares the known usage with the thresholds of the rule  *)
(* that applies to the user and writes one notification record per         *)
(* (quota epoch, limit, threshold).  Workers claim a record under a lease, *)
(* check again that it still holds, hand it to the mail server and record  *)
(* the result; a worker may crash between any two of these.  Expiry        *)
(* reminders take the same path, with the expiry date in place of epoch    *)
(* and limit and the days that remain in place of the usage.               *)
(***************************************************************************)
EXTENDS Integers, FiniteSets, FiniteSetsExt

CONSTANTS
    Workers,      \* loops of Service.Run
    Thresholds,   \* percentages a rule may hold
    Limits,       \* quota limits in bytes; 0: unlimited
    MaxUsed,      \* bound: bytes used in the first quota epoch, one less in each later one
    MaxEpoch,     \* bound: quota epochs
    MaxEdits,     \* bound: edits of rules, preferences and limits, resets, retries
    MaxFaults,    \* bound: crashes, lost answers of the mail server, expired leases
    AttemptLimit  \* attempts after which a record is dead (5)

ASSUME ThresholdsArePercentages == Thresholds \subseteq 1..100 /\ AttemptLimit \in Nat \ {0}
ASSUME WorkersAreFinite == IsFiniteSet(Workers)
ASSUME LimitsAreBytes == Limits \subseteq Nat /\ Max(Limits) \in Limits

VARIABLES
    user,     \* [verified, limit, epoch, used, enabled] of users, accounts, preferences
    rules,    \* alert_rules: [enabled, thresholds] of the user's own rule and of the default
    record,   \* notification_records by dedupe key
    worker,   \* what each worker holds between its transactions
    inbox,    \* ghost: the number of mails the server accepted for each record
    edits,    \* edits so far
    faults    \* ghost: faults of each record so far

vars == <<user, rules, record, worker, inbox, edits, faults>>

Scopes == {"user", "all"}
Keys == [epoch : 1..MaxEpoch, limit : Limits \ {0}, threshold : Thresholds]
Final == {"sent", "dead", "suppressed", "blocked_recipient"}

NoRecord == [state |-> "none", rule |-> "all", attempts |-> 0,
             sealed |-> FALSE, tombstone |-> FALSE]
Idle == [step |-> "idle", key |-> {}, attempt |-> 0]

Init ==
    /\ user = [verified |-> FALSE, limit |-> Max(Limits), epoch |-> 1,
                used |-> 0, enabled |-> TRUE]
    /\ rules = [s \in Scopes |-> [enabled |-> s = "all", thresholds |-> Thresholds]]
    /\ record = [k \in Keys |-> NoRecord]
    /\ worker = [w \in Workers |-> Idle]
    /\ inbox = [k \in Keys |-> 0]
    /\ edits = 0
    /\ faults = [k \in Keys |-> 0]
-----------------------------------------------------------------------------
(* What the alerts depend on, changed by others *)

\* Traffic is ingested.
Use == /\ user.used + user.epoch <= MaxUsed
       /\ user' = [user EXCEPT !.used = @ + 1]
       /\ UNCHANGED <<rules, record, worker, inbox, edits, faults>>

\* Challenge and Confirm of an existing address.
Verify == /\ ~user.verified
          /\ user' = [user EXCEPT !.verified = TRUE]
          /\ UNCHANGED <<rules, record, worker, inbox, edits, faults>>

Edit == edits < MaxEdits /\ edits' = edits + 1

\* SetQuota, Reset.
EditUser == /\ Edit
            /\ user' \in {[user EXCEPT !.limit = l] : l \in Limits \ {user.limit}}
                  \union {[user EXCEPT !.epoch = e, !.used = 0] :
                             e \in {user.epoch + 1} \intersect 1..MaxEpoch}
            /\ UNCHANGED <<rules, record, worker, inbox, faults>>

SavePreferences == /\ Edit
                   /\ user' = [user EXCEPT !.enabled = ~@]
                   /\ UNCHANGED <<rules, record, worker, inbox, faults>>

\* SaveRule and DeleteRule (which only disables); a rule has a threshold at least.
EditRule(s) == /\ Edit
               /\ rules' \in {[rules EXCEPT ![s].enabled = FALSE]}
                     \union {[rules EXCEPT ![s] = [enabled |-> TRUE, thresholds |-> t]] :
                                t \in SUBSET Thresholds \ {{}}}
               /\ rules' # rules
               /\ UNCHANGED <<user, record, worker, inbox, faults>>
-----------------------------------------------------------------------------
(* ScanAlerts, evaluateUser *)

Reached(t) == user.limit > 0 /\ user.used * 100 >= user.limit * t

\* The most urgent threshold a rule has reached; 0: none.
Urgent(s) == Max({0} \union {t \in rules[s].thresholds : Reached(t)})

\* The user's own rule comes before the default.
RuleFor == IF rules["user"].enabled THEN {"user"}
           ELSE IF rules["all"].enabled THEN {"all"} ELSE {}

\* Only the most urgent threshold is worth a mail; the others are written off.
StateFor(t, s) == IF t # Urgent(s) \/ ~user.enabled THEN "suppressed"
                  ELSE IF user.verified THEN "queued" ELSE "blocked_recipient"

Written(old, state, s) ==
    IF old.state = "none"
    THEN [NoRecord EXCEPT !.state = state, !.rule = s, !.sealed = (state = "queued")]
    ELSE IF old.state = "blocked_recipient" /\ state = "queued"
    THEN [old EXCEPT !.state = "queued", !.sealed = TRUE]
    ELSE old

Scan ==
    /\ user.limit # 0
    /\ \E s \in RuleFor :
          record' = [k \in Keys |->
             IF /\ k.epoch = user.epoch /\ k.limit = user.limit
                /\ k.threshold \in rules[s].thresholds /\ Reached(k.threshold)
             THEN Written(record[k], StateFor(k.threshold, s), s)
             ELSE record[k]]
    /\ record' # record
    /\ UNCHANGED <<user, rules, worker, inbox, edits, faults>>
-----------------------------------------------------------------------------
(* The workers: DeliverOne *)

\* A plausible bug: a lesser threshold is still sent after a greater was reached.
FaultyEligible(k) ==
    LET r == record[k] IN
    /\ user.verified /\ user.enabled
    /\ rules[r.rule].enabled
    /\ ~r.tombstone /\ k.threshold \in rules[r.rule].thresholds
    /\ Reached(k.threshold)
    /\ k.epoch = user.epoch /\ k.limit = user.limit

\* The event of a record still holds, and is the most urgent one of its rule.  A
\* tombstone no longer says which threshold it was about.
Eligible(k) ==
    LET r == record[k] IN
    /\ user.verified /\ user.enabled
    /\ rules[r.rule].enabled
    /\ ~r.tombstone /\ k.threshold \in rules[r.rule].thresholds
    /\ k.threshold = Urgent(r.rule)
    /\ k.epoch = user.epoch /\ k.limit = user.limit

\* A plausible bug: a result is recorded whatever became of the record.
FaultyMine(w, k) == TRUE

\* The result counts only while the record is still being sent, in this attempt.
Mine(w, k) == record[k].state = "sending" /\ record[k].attempts = worker[w].attempt

\* The worker that holds a record; a worker that crashed holds none.
Holder(k) == {w \in Workers : worker[w].key = {k} /\ Mine(w, k)}

Fault(k) == /\ MapThenSumSet(LAMBDA j : faults[j], Keys) < MaxFaults
            /\ faults' = [faults EXCEPT ![k] = @ + 1]

\* A plausible bug: a record being sent is never claimed again.
FaultyTake(w, k) ==
    /\ worker[w].step = "idle"
    /\ record[k].state \in {"queued", "retry"}
    /\ UNCHANGED faults

\* A plausible bug: a record is claimed although the lease of its worker still runs.
EagerTake(w, k) ==
    /\ worker[w].step = "idle"
    /\ record[k].state \in {"queued", "retry", "sending"}
    /\ UNCHANGED faults

\* The next due record: delays pass at any time, and the lease of one that is being
\* sent has run out.  Sending is bounded by 45 of the 60 seconds, so to lose the
\* lease of a worker that is still there takes a fault.
Take(w, k) ==
    /\ worker[w].step = "idle"
    /\ record[k].state \in {"queued", "retry", "sending"}
    /\ IF record[k].state = "sending" /\ Holder(k) # {} THEN Fault(k) ELSE UNCHANGED faults

Claim(w, k) ==
    /\ Take(w, k)
    /\ Eligible(k)
    /\ record' = [record EXCEPT ![k].state = "sending", ![k].attempts = @ + 1]
    /\ worker' = [worker EXCEPT ![w] = [step |-> "claimed", key |-> {k},
                                        attempt |-> record[k].attempts + 1]]
    /\ UNCHANGED <<user, rules, inbox, edits>>

Suppress(w, k) ==
    /\ Take(w, k)
    /\ ~Eligible(k)
    /\ record' = [record EXCEPT ![k].state = "suppressed", ![k].sealed = FALSE]
    /\ UNCHANGED <<user, rules, worker, inbox, edits>>

\* The server accepts the mail and says so.
SendOk(w, k) ==
    /\ worker[w].step = "claimed" /\ worker[w].key = {k}
    /\ inbox' = [inbox EXCEPT ![k] = @ + 1]
    /\ worker' = [worker EXCEPT ![w].step = "sent"]
    /\ UNCHANGED <<user, rules, record, edits, faults>>

SendFails(w, k) ==
    /\ worker[w].step = "claimed" /\ worker[w].key = {k}
    /\ worker' = [worker EXCEPT ![w].step = "failed"]
    /\ UNCHANGED <<user, rules, record, inbox, edits, faults>>

\* The connection is lost after the server took the mail: smtp_acceptance_unknown.
SendUnknown(w, k) ==
    /\ worker[w].step = "claimed" /\ worker[w].key = {k}
    /\ Fault(k)
    /\ inbox' = [inbox EXCEPT ![k] = @ + 1]
    /\ worker' = [worker EXCEPT ![w].step = "failed"]
    /\ UNCHANGED <<user, rules, record, edits>>

Result(w) == IF worker[w].step = "sent" THEN "sent"
             ELSE IF worker[w].attempt >= AttemptLimit THEN "dead" ELSE "retry"

Finish(w, k) ==
    /\ worker[w].step \in {"sent", "failed"} /\ worker[w].key = {k}
    /\ record' = IF Mine(w, k)
                 THEN [record EXCEPT ![k].state = Result(w)]
                 ELSE record
    /\ worker' = [worker EXCEPT ![w] = Idle]
    /\ UNCHANGED <<user, rules, inbox, edits, faults>>

\* A crash, or a database error in the last transaction.
Crash(w, k) ==
    /\ worker[w].key = {k}
    /\ Fault(k)
    /\ worker' = [worker EXCEPT ![w] = Idle]
    /\ UNCHANGED <<user, rules, record, inbox, edits>>

\* An administrator retries a dead record whose content is still there.
Retry(k) ==
    /\ Edit
    /\ record[k].state = "dead" /\ record[k].sealed /\ Eligible(k)
    /\ record' = [record EXCEPT ![k].state = "retry"]
    /\ UNCHANGED <<user, rules, worker, inbox, faults>>

\* Cleanup: a day after a record is final its content goes, after 90 days the
\* snapshot of the event is replaced by a tombstone.  Nothing reads either again in
\* a record that was sent or suppressed, so only the other two are told apart.
Cleanup(k) ==
    /\ record[k].state \in {"dead", "blocked_recipient"}
    /\ \E old \in BOOLEAN :
          record' = [record EXCEPT ![k].sealed = FALSE, ![k].tombstone = @ \/ old]
    /\ record' # record
    /\ UNCHANGED <<user, rules, worker, inbox, edits, faults>>
-----------------------------------------------------------------------------
Work(w, k) == \/ Claim(w, k) \/ Suppress(w, k) \/ SendOk(w, k) \/ SendFails(w, k)
              \/ SendUnknown(w, k) \/ Finish(w, k) \/ Crash(w, k)

Next == \/ Use \/ Verify \/ EditUser \/ SavePreferences
        \/ \E s \in Scopes : EditRule(s)
        \/ Scan
        \/ \E k \in Keys : Retry(k) \/ Cleanup(k)
        \/ \E w \in Workers, k \in Keys : Work(w, k)

Spec == Init /\ [][Next]_vars

\* The tickers of Run and RunAlerts fire, leases and delays run out, and an
\* attempt comes to an end.
FairSpec ==
    /\ Spec
    /\ WF_vars(Scan)
    /\ WF_vars(\E w \in Workers, k \in Keys : Claim(w, k) \/ Suppress(w, k))
    /\ \A w \in Workers : WF_vars(\E k \in Keys : SendOk(w, k) \/ SendFails(w, k) \/ Finish(w, k))
-----------------------------------------------------------------------------
(* Properties *)

States == {"none", "queued", "sending", "retry"} \union Final

\* Type invariant: every variable keeps the shape its table or local has.
TypeOK ==
    /\ user.used \in 0..MaxUsed /\ user.epoch \in 1..MaxEpoch /\ user.limit \in Limits
    /\ \A k \in Keys : /\ record[k].state \in States
                       /\ record[k].state \in {"queued", "retry", "sending"} => record[k].sealed
    /\ \A w \in Workers : worker[w].step # "idle" => Cardinality(worker[w].key) = 1
    /\ edits \in 0..MaxEdits

\* One event is one mail, however often it is scanned, retried and claimed by
\* several workers; each further copy is owed to a crash, to an answer the mail
\* server never gave or to a worker that outlived its lease.
DuplicatesAreFaults == \A k \in Keys : inbox[k] <= 1 + faults[k]

\* What is sent, written off or given up stays so, but for a retry asked for by an
\* administrator: no late worker reopens it.
FinalIsFinal ==
    [][\A k \in Keys :
         /\ record[k].state \in {"sent", "suppressed"} => record'[k].state = record[k].state
         /\ record[k].state = "dead" => \/ record'[k].state = "dead"
                                        \/ record'[k].state = "retry" /\ edits' # edits]_vars

\* While nobody edits rules, preferences and limits, no worker starts to tell a user
\* of a threshold below one the user was told of.
MostUrgentLast ==
    [][\A k, told \in Keys :
         /\ edits = 0 /\ record'[k].attempts > record[k].attempts
         /\ inbox[told] > 0
         => told.threshold <= k.threshold]_vars

\* No record stays in the queue for ever: again and again the queue is empty.
QueueDrains == []<>(\A k \in Keys : record[k].state \notin {"queued", "retry", "sending"})
=============================================================================

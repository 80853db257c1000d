--------------------------- MODULE MailQueueProofs ---------------------------
(***************************************************************************)
(* Theorems about MailQueue, for any number of workers, thresholds,        *)
(* limits, epochs, edits, attempts and faults.                             *)
(***************************************************************************)
EXTENDS MailQueue, FiniteSetTheorems, WellFoundedInduction, TLAPS

-----------------------------------------------------------------------------
(* The inductive invariant *)

User == [verified : BOOLEAN, limit : Limits, epoch : Nat, used : Nat, enabled : BOOLEAN]
Rule == [enabled : BOOLEAN, thresholds : SUBSET Thresholds]
Entry == [state : States, rule : Scopes, attempts : Nat, sealed : BOOLEAN, tombstone : BOOLEAN]
Hand == [step : {"idle", "claimed", "sent", "failed"}, key : SUBSET Keys, attempt : Nat]

Typed ==
    /\ user \in User
    /\ rules \in [Scopes -> Rule]
    /\ record \in [Keys -> Entry]
    /\ worker \in [Workers -> Hand]
    /\ inbox \in [Keys -> Nat]
    /\ edits \in Nat
    /\ faults \in [Keys -> Nat]

\* What a worker holds was claimed in an attempt of its own: no two workers are
\* in the same attempt of one record, so at most one of them is heard.
Claimed ==
    /\ \A k \in Keys : record[k].state = "none" => record[k].attempts = 0
    /\ \A w \in Workers : worker[w].step = "idle" => worker[w].key = {}
    /\ \A w \in Workers, k \in Keys : worker[w].key = {k} =>
          1 <= worker[w].attempt /\ worker[w].attempt <= record[k].attempts
    /\ \A k \in Keys, v, w \in Workers :
          v # w /\ worker[v].key = {k} /\ worker[w].key = {k} =>
              worker[v].attempt # worker[w].attempt

\* The workers that are about to hand the mail of a record to the server.
Sending(k) == {w \in Workers : worker[w].step = "claimed" /\ worker[w].key = {k}}

\* A record that can be claimed again, now or after its worker reports a failure,
\* without a further fault.
Claimable(k) ==
    \/ record[k].state \notin {"sending", "sent", "suppressed"}
    \/ record[k].state = "sending" /\ \A w \in Holder(k) : worker[w].step = "failed"

\* The copies that were delivered, those under way and the one that may still be
\* begun: one more than there were faults at most.
CopiesOf(k) == Cardinality(Sending(k)) + (IF Claimable(k) THEN 1 ELSE 0)
Accounted == \A k \in Keys : inbox[k] + CopiesOf(k) <= 1 + faults[k]

\* A mail in an inbox was claimed before; and as long as nobody has edited anything,
\* only the default rule is there, and what was claimed is about a threshold that is
\* reached, for usage only grows.
Attempted == \A k \in Keys : inbox[k] > 0 => record[k].attempts > 0
Calm ==
    edits = 0 =>
        /\ rules["all"].thresholds = Thresholds /\ ~rules["user"].enabled
        /\ \A k \in Keys : /\ record[k].rule = "all"
                           /\ record[k].attempts > 0 => Reached(k.threshold)

IInv == Typed /\ Claimed /\ Accounted /\ Attempted /\ Calm

-----------------------------------------------------------------------------
(* The most urgent threshold *)

LEMMA LargestOf ==
    ASSUME NEW S \in SUBSET (0..100), S # {}
    PROVE  Max(S) \in S /\ \A x \in S : x <= Max(S)
<1> DEFINE Above == {n \in Nat : \A x \in S : x <= n}
<1>1. Above \in SUBSET Nat /\ 100 \in Above
  OBVIOUS
<1>2. PICK n \in Above : \A m \in Above : ~(<<m, n>> \in OpToRel(<, Nat))
  BY <1>1, NatLessThanWellFounded, WFMin, Zenon
<1>3. \A m \in Above : ~(m < n)
  <2>1. \A m \in Above : <<m, n>> \in Nat \X Nat
    OBVIOUS
  <2> QED BY <1>2, <2>1, Zenon DEF OpToRel
<1>4. n \in S
  <2>1. SUFFICES ASSUME n \notin S PROVE FALSE
    OBVIOUS
  <2>2. PICK x \in S : TRUE
    OBVIOUS
  <2>3. \A y \in S : y <= n - 1
    BY <2>1
  <2>4. n - 1 \in Above
    BY <2>2, <2>3
  <2> QED BY <1>3, <2>4
<1>5. \E x \in S : \A y \in S : x >= y
  BY <1>4
<1>6. Max(S) \in S /\ \A y \in S : Max(S) >= y
  BY <1>5, Zenon DEF Max
<1> QED BY <1>6

LEMMA MostUrgent ==
    ASSUME Typed, NEW s \in Scopes
    PROVE  /\ Urgent(s) \in Nat
           /\ \A t \in rules[s].thresholds : Reached(t) => t <= Urgent(s)
           /\ Urgent(s) > 0 => Reached(Urgent(s))
<1> DEFINE S == {0} \union {t \in rules[s].thresholds : Reached(t)}
<1>1. rules[s].thresholds \subseteq 1..100
  BY ThresholdsArePercentages DEF Typed, Rule
<1>2. S \in SUBSET (0..100) /\ S # {}
  BY <1>1
<1>3. Urgent(s) \in S /\ \A x \in S : x <= Urgent(s)
  <2>1. Urgent(s) = Max(S)
    BY DEF Urgent
  <2> HIDE DEF S
  <2> QED BY <1>2, <2>1, LargestOf
<1> QED BY <1>2, <1>3

\* What has been reached stays reached while only the usage grows.
LEMMA StaysReached ==
    ASSUME Typed, Typed', NEW t \in Nat, Reached(t),
           user'.limit = user.limit, user'.used >= user.used
    PROVE  Reached(t)'
<1> DEFINE amount == user.limit * t
<1>1. user.limit \in Nat /\ user.used \in Nat /\ user'.used \in Nat
  BY LimitsAreBytes DEF Typed, User
<1>2. amount \in Nat
  BY <1>1
<1>3. user.limit > 0 /\ user.used * 100 >= amount
  BY DEF Reached
<1>4. user'.used * 100 >= amount
  <2> HIDE DEF amount
  <2> QED BY <1>1, <1>2, <1>3
<1> QED BY <1>3, <1>4 DEF Reached

LEMMA KeyThreshold == \A k \in Keys : k.threshold \in 1..100 /\ k.threshold \in Thresholds
BY ThresholdsArePercentages DEF Keys

-----------------------------------------------------------------------------
(* What the actions do to a record and to a worker *)

\* Another record and its mails are left alone.
Aside(k) ==
    \A j \in Keys : j # k => /\ record'[j] = record[j] /\ inbox'[j] = inbox[j]
                             /\ faults'[j] = faults[j]
Others(w) == \A v \in Workers : v # w => worker'[v] = worker[v]

LEMMA FaultCounts ==
    ASSUME Typed, NEW k \in Keys, Fault(k)
    PROVE  /\ faults' \in [Keys -> Nat] /\ faults'[k] = faults[k] + 1
           /\ \A j \in Keys : j # k => faults'[j] = faults[j]
BY DEF Typed, Fault

LEMMA TakeCounts ==
    ASSUME Typed, NEW w \in Workers, NEW k \in Keys, Take(w, k)
    PROVE  /\ faults' \in [Keys -> Nat]
           /\ \A j \in Keys : j # k => faults'[j] = faults[j]
           /\ \/ faults'[k] = faults[k] /\ (record[k].state = "sending" => Holder(k) = {})
              \/ faults'[k] = faults[k] + 1 /\ record[k].state = "sending"
           /\ worker[w].step = "idle" /\ record[k].state \in {"queued", "retry", "sending"}
<1>1. CASE Fault(k) /\ record[k].state = "sending"
  BY <1>1, FaultCounts DEF Take
<1>2. CASE UNCHANGED faults /\ (record[k].state = "sending" => Holder(k) = {})
  BY <1>2 DEF Take, Typed
<1> QED BY <1>1, <1>2 DEF Take

LEMMA ClaimEffect ==
    ASSUME Typed, NEW w \in Workers, NEW k \in Keys, Claim(w, k)
    PROVE  /\ Typed' /\ Aside(k) /\ Others(w) /\ UNCHANGED <<user, rules, inbox, edits>>
           /\ record'[k].state = "sending" /\ record'[k].attempts = record[k].attempts + 1
           /\ record'[k].rule = record[k].rule
           /\ worker'[w].step = "claimed" /\ worker'[w].key = {k}
           /\ worker'[w].attempt = record[k].attempts + 1
<1> DEFINE hand == [step |-> "claimed", key |-> {k}, attempt |-> record[k].attempts + 1]
           entry == [record[k] EXCEPT !.state = "sending", !.attempts = record[k].attempts + 1]
<1>1. record \in [Keys -> Entry] /\ record[k] \in Entry
  BY DEF Typed
<1>2. /\ entry \in Entry /\ entry.state = "sending" /\ entry.rule = record[k].rule
      /\ entry.attempts = record[k].attempts + 1
  <2>1. "sending" \in States /\ record[k].attempts + 1 \in Nat
    BY <1>1 DEF Entry, States
  <2> QED BY <1>1, <2>1 DEF Entry
<1>3. record' = [record EXCEPT ![k] = entry]
  BY <1>1 DEF Claim, Entry
<1>4. hand \in Hand
  BY <1>1 DEF Entry, Hand
<1>5. worker' = [worker EXCEPT ![w] = hand]
  BY DEF Claim
<1>6. hand.step = "claimed" /\ hand.key = {k} /\ hand.attempt = record[k].attempts + 1
  OBVIOUS
<1> HIDE DEF hand, entry
<1>7. /\ faults' \in [Keys -> Nat] /\ \A j \in Keys : j # k => faults'[j] = faults[j]
  BY TakeCounts DEF Claim
<1>8. record'[k] = entry /\ record' \in [Keys -> Entry]
      /\ \A j \in Keys : j # k => record'[j] = record[j]
  BY <1>1, <1>2, <1>3
<1>9. worker'[w] = hand /\ worker' \in [Workers -> Hand] /\ Others(w)
  BY <1>4, <1>5 DEF Typed, Others
<1>10. UNCHANGED <<user, rules, inbox, edits>>
  BY DEF Claim
<1> QED BY <1>2, <1>6, <1>7, <1>8, <1>9, <1>10 DEF Typed, Aside

LEMMA SuppressEffect ==
    ASSUME Typed, NEW w \in Workers, NEW k \in Keys, Suppress(w, k)
    PROVE  /\ Typed' /\ Aside(k) /\ UNCHANGED <<user, rules, worker, inbox, edits>>
           /\ record'[k].state = "suppressed" /\ record'[k].attempts = record[k].attempts
           /\ record'[k].rule = record[k].rule /\ faults'[k] >= faults[k]
<1> DEFINE entry == [record[k] EXCEPT !.state = "suppressed", !.sealed = FALSE]
<1>1. record \in [Keys -> Entry] /\ record[k] \in Entry
  BY DEF Typed
<1>2. /\ entry \in Entry /\ entry.state = "suppressed" /\ entry.rule = record[k].rule
      /\ entry.attempts = record[k].attempts
  BY <1>1 DEF Entry, States, Final
<1>3. record' = [record EXCEPT ![k] = entry]
  BY <1>1 DEF Suppress, Entry
<1> HIDE DEF entry
<1>4. /\ faults' \in [Keys -> Nat] /\ \A j \in Keys : j # k => faults'[j] = faults[j]
      /\ faults'[k] >= faults[k]
  BY TakeCounts DEF Suppress, Typed
<1>5. record'[k] = entry /\ record' \in [Keys -> Entry]
      /\ \A j \in Keys : j # k => record'[j] = record[j]
  BY <1>1, <1>2, <1>3
<1>6. UNCHANGED <<user, rules, worker, inbox, edits>>
  BY DEF Suppress
<1> QED BY <1>2, <1>4, <1>5, <1>6 DEF Typed, Aside

\* The three ends of a hand-over to the mail server.
LEMMA SendEffect ==
    ASSUME Typed, NEW w \in Workers, NEW k \in Keys,
           SendOk(w, k) \/ SendFails(w, k) \/ SendUnknown(w, k)
    PROVE  /\ Typed' /\ Aside(k) /\ Others(w) /\ UNCHANGED <<user, rules, record, edits>>
           /\ worker[w].step = "claimed" /\ worker[w].key = {k}
           /\ worker'[w].key = {k} /\ worker'[w].attempt = worker[w].attempt
           /\ \/ /\ worker'[w].step = "sent"
                 /\ inbox'[k] = inbox[k] + 1 /\ faults'[k] = faults[k]
              \/ /\ worker'[w].step = "failed"
                 /\ inbox'[k] = inbox[k] /\ faults'[k] = faults[k]
              \/ /\ worker'[w].step = "failed"
                 /\ inbox'[k] = inbox[k] + 1 /\ faults'[k] = faults[k] + 1
<1>1. worker[w] \in Hand /\ worker[w].step = "claimed" /\ worker[w].key = {k}
      /\ UNCHANGED <<user, rules, record, edits>>
  BY DEF Typed, SendOk, SendFails, SendUnknown
<1>2. ASSUME NEW step \in {"sent", "failed"}, worker' = [worker EXCEPT ![w].step = step]
      PROVE  /\ worker' \in [Workers -> Hand] /\ Others(w) /\ worker'[w].step = step
             /\ worker'[w].key = {k} /\ worker'[w].attempt = worker[w].attempt
  BY <1>1, <1>2 DEF Typed, Hand, Others
<1>3. ASSUME inbox' = [inbox EXCEPT ![k] = @ + 1]
      PROVE  /\ inbox' \in [Keys -> Nat] /\ inbox'[k] = inbox[k] + 1
             /\ \A j \in Keys : j # k => inbox'[j] = inbox[j]
  BY <1>3 DEF Typed
<1>4. CASE SendOk(w, k)
  BY <1>1, <1>2, <1>3, <1>4 DEF SendOk, Typed, Aside
<1>5. CASE SendFails(w, k)
  BY <1>1, <1>2, <1>5 DEF SendFails, Typed, Aside
<1>6. CASE SendUnknown(w, k)
  BY <1>1, <1>2, <1>3, <1>6, FaultCounts DEF SendUnknown, Typed, Aside
<1> QED BY <1>4, <1>5, <1>6

LEMMA FinishEffect ==
    ASSUME Typed, NEW w \in Workers, NEW k \in Keys, Finish(w, k)
    PROVE  /\ Typed' /\ Aside(k) /\ Others(w) /\ worker'[w] = Idle
           /\ UNCHANGED <<user, rules, inbox, edits, faults>>
           /\ record'[k].attempts = record[k].attempts /\ record'[k].rule = record[k].rule
           /\ worker[w].key = {k}
           /\ \/ ~Mine(w, k) /\ record'[k] = record[k] /\ worker[w].step # "claimed"
              \/ Mine(w, k) /\ worker[w].step = "sent" /\ record'[k].state = "sent"
              \/ /\ Mine(w, k) /\ worker[w].step = "failed"
                 /\ record'[k].state \in {"dead", "retry"}
<1>1. record \in [Keys -> Entry] /\ record[k] \in Entry /\ Result(w) \in States
  BY DEF Typed, Result, States, Final
<1>2. Idle \in Hand
  BY DEF Idle, Hand
<1>3. worker' \in [Workers -> Hand] /\ Others(w) /\ worker'[w] = Idle
  BY <1>2 DEF Finish, Typed, Others
<1>4. worker[w].step \in {"sent", "failed"} /\ worker[w].key = {k}
      /\ UNCHANGED <<user, rules, inbox, edits, faults>>
  BY DEF Finish
<1>5. CASE ~Mine(w, k)
  BY <1>1, <1>3, <1>4, <1>5 DEF Finish, Typed, Aside
<1>6. CASE Mine(w, k)
  <2> DEFINE entry == [record[k] EXCEPT !.state = Result(w)]
  <2>1. entry \in Entry /\ entry.state = Result(w) /\ entry.rule = record[k].rule
        /\ entry.attempts = record[k].attempts
    BY <1>1 DEF Entry
  <2>2. record' = [record EXCEPT ![k] = entry]
    BY <1>1, <1>6 DEF Finish, Entry
  <2> HIDE DEF entry
  <2>3. record' \in [Keys -> Entry] /\ record'[k] = entry
        /\ \A j \in Keys : j # k => record'[j] = record[j]
    BY <1>1, <2>1, <2>2
  <2>4. worker[w].step = "sent" => Result(w) = "sent"
    BY DEF Result
  <2>5. worker[w].step = "failed" => Result(w) \in {"dead", "retry"}
    BY DEF Result
  <2> QED BY <1>3, <1>4, <1>6, <2>1, <2>3, <2>4, <2>5 DEF Typed, Aside
<1> QED BY <1>5, <1>6

LEMMA CrashEffect ==
    ASSUME Typed, NEW w \in Workers, NEW k \in Keys, Crash(w, k)
    PROVE  /\ Typed' /\ Aside(k) /\ Others(w) /\ worker'[w] = Idle
           /\ UNCHANGED <<user, rules, record, inbox, edits>>
           /\ worker[w].key = {k} /\ faults'[k] = faults[k] + 1
<1>1. Idle \in Hand
  BY DEF Idle, Hand
<1>2. worker' \in [Workers -> Hand] /\ Others(w) /\ worker'[w] = Idle
  BY <1>1 DEF Crash, Typed, Others
<1>3. Fault(k) /\ worker[w].key = {k} /\ UNCHANGED <<user, rules, record, inbox, edits>>
  BY DEF Crash
<1> QED BY <1>2, <1>3, FaultCounts DEF Typed, Aside

\* A scan, a retry and the cleanup write records that no worker is sending.
Rests(k) ==
    /\ record'[k].attempts = record[k].attempts
    /\ record[k].state # "none" => record'[k].rule = record[k].rule
    /\ record'[k].state # record[k].state =>
          \/ /\ record[k].state \in {"none", "blocked_recipient"}
             /\ record'[k].state \notin {"none", "sending"}
          \/ record[k].state = "dead" /\ record'[k].state = "retry" /\ edits' # edits

LEMMA ScanEffect ==
    ASSUME Typed, Claimed, Scan
    PROVE  /\ Typed' /\ UNCHANGED <<user, rules, worker, inbox, edits, faults>>
           /\ \A k \in Keys : Rests(k)
           /\ \A k \in Keys : record'[k].rule = record[k].rule \/ record'[k].rule \in RuleFor
<1>1. PICK s \in RuleFor :
          record' = [k \in Keys |->
             IF /\ k.epoch = user.epoch /\ k.limit = user.limit
                /\ k.threshold \in rules[s].thresholds /\ Reached(k.threshold)
             THEN Written(record[k], StateFor(k.threshold, s), s)
             ELSE record[k]]
  BY DEF Scan
<1>2. s \in Scopes
  BY DEF RuleFor, Scopes
<1>3. UNCHANGED <<user, rules, worker, inbox, edits, faults>>
  BY DEF Scan
<1> DEFINE new(k) == Written(record[k], StateFor(k.threshold, s), s)
<1>4. ASSUME NEW k \in Keys
      PROVE  /\ new(k) \in Entry /\ new(k).attempts = record[k].attempts
             /\ record[k].state # "none" => new(k).rule = record[k].rule
             /\ new(k).rule \in {record[k].rule, s}
             /\ new(k).state # record[k].state =>
                   /\ record[k].state \in {"none", "blocked_recipient"}
                   /\ new(k).state \notin {"none", "sending"}
  <2> DEFINE state == StateFor(k.threshold, s)
             old == record[k]
             first == [NoRecord EXCEPT !.state = state, !.rule = s, !.sealed = (state = "queued")]
             again == [old EXCEPT !.state = "queued", !.sealed = TRUE]
  <2>1. state \in {"suppressed", "queued", "blocked_recipient"} /\ state \in States
    BY DEF StateFor, States, Final
  <2>2. old \in Entry /\ (old.state = "none" => old.attempts = 0)
    BY DEF Typed, Claimed
  <2>3. first \in Entry /\ first.attempts = 0 /\ first.rule = s /\ first.state = state
    <3> HIDE DEF state
    <3> QED BY <1>2, <2>1 DEF NoRecord, Entry
  <2>4. /\ again \in Entry /\ again.attempts = old.attempts /\ again.rule = old.rule
        /\ again.state = "queued"
    BY <2>2 DEF Entry, States
  <2>5. new(k) = IF old.state = "none" THEN first
                 ELSE IF old.state = "blocked_recipient" /\ state = "queued" THEN again ELSE old
    BY DEF Written
  <2> HIDE DEF first, again, state, old, new
  <2>6. \/ new(k) = first /\ old.state = "none"
        \/ new(k) = old
        \/ new(k) = again /\ old.state = "blocked_recipient"
    BY <2>5
  <2> QED BY <2>1, <2>2, <2>3, <2>4, <2>6 DEF old
<1>5. \A k \in Keys : record'[k] = new(k) \/ record'[k] = record[k]
  BY <1>1
<1>6. record' = [k \in Keys |-> record'[k]]
  BY <1>1
<1> HIDE DEF new
<1>7. record' \in [Keys -> Entry]
  BY <1>4, <1>5, <1>6 DEF Typed
<1>8. \A k \in Keys : Rests(k)
  BY <1>4, <1>5 DEF Rests
<1>9. \A k \in Keys : record'[k].rule = record[k].rule \/ record'[k].rule \in RuleFor
  BY <1>4, <1>5
<1> QED BY <1>3, <1>7, <1>8, <1>9 DEF Typed

LEMMA AdministerEffect ==
    ASSUME Typed, NEW k \in Keys, Retry(k) \/ Cleanup(k)
    PROVE  /\ Typed' /\ UNCHANGED <<user, rules, worker, inbox, faults>>
           /\ edits' = edits \/ edits' = edits + 1
           /\ \A j \in Keys : Rests(j) /\ record'[j].rule = record[j].rule
<1>1. record \in [Keys -> Entry] /\ record[k] \in Entry /\ edits \in Nat
  BY DEF Typed
<1>2. CASE Retry(k)
  <2> DEFINE entry == [record[k] EXCEPT !.state = "retry"]
  <2>1. entry \in Entry /\ entry.state = "retry" /\ entry.rule = record[k].rule
        /\ entry.attempts = record[k].attempts
    BY <1>1 DEF Entry, States
  <2>2. record' = [record EXCEPT ![k] = entry] /\ record[k].state = "dead" /\ edits' = edits + 1
    BY <1>1, <1>2 DEF Retry, Entry, Edit
  <2> HIDE DEF entry
  <2> QED BY <1>1, <1>2, <2>1, <2>2 DEF Retry, Typed, Rests
<1>3. CASE Cleanup(k)
  <2>1. PICK old \in BOOLEAN :
           record' = [record EXCEPT ![k].sealed = FALSE, ![k].tombstone = @ \/ old]
    BY <1>3 DEF Cleanup
  <2> DEFINE grave == record[k].tombstone \/ old
             entry == [record[k] EXCEPT !.sealed = FALSE, !.tombstone = grave]
  <2>2. grave \in BOOLEAN
    BY <1>1, <2>1, Zenon DEF Entry
  <2>3. record' = [record EXCEPT ![k] = entry]
    BY <1>1, <2>1 DEF Entry
  <2> HIDE DEF grave
  <2>4. entry \in Entry /\ entry.state = record[k].state /\ entry.rule = record[k].rule
        /\ entry.attempts = record[k].attempts
    BY <1>1, <2>2 DEF Entry
  <2> HIDE DEF entry
  <2> QED BY <1>1, <1>3, <2>3, <2>4 DEF Cleanup, Typed, Rests
<1> QED BY <1>2, <1>3

\* What changes around the queue touches neither records nor workers.
Around == Use \/ Verify \/ EditUser \/ SavePreferences \/ \E s \in Scopes : EditRule(s)

LEMMA AroundEffect ==
    ASSUME Typed, Around
    PROVE  /\ Typed' /\ UNCHANGED <<record, worker, inbox, faults>>
           /\ \/ edits' = edits + 1
              \/ /\ UNCHANGED <<rules, edits>>
                 /\ user'.limit = user.limit /\ user'.used >= user.used
<1>1. user \in User /\ rules \in [Scopes -> Rule] /\ edits \in Nat
  BY DEF Typed
<1>2. CASE Use
  <2>1. user' = [user EXCEPT !.used = user.used + 1]
    BY <1>2 DEF Use
  <2>2. user' \in User /\ user'.limit = user.limit /\ user'.used >= user.used
    BY <1>1, <2>1 DEF User
  <2> QED BY <1>2, <2>2 DEF Use, Typed
<1>3. CASE Verify
  <2>1. user' = [user EXCEPT !.verified = TRUE]
    BY <1>3 DEF Verify
  <2>2. user' \in User /\ user'.limit = user.limit /\ user'.used = user.used
    BY <1>1, <2>1 DEF User
  <2>3. user.used \in Nat
    BY <1>1 DEF User
  <2> QED BY <1>3, <2>2, <2>3 DEF Verify, Typed
<1>4. CASE EditUser
  <2>1. \/ \E l \in Limits : user' = [user EXCEPT !.limit = l]
        \/ \E e \in {user.epoch + 1} : user' = [user EXCEPT !.epoch = e, !.used = 0]
    BY <1>4 DEF EditUser
  <2>2. user' \in User
    <3>1. CASE \E l \in Limits : user' = [user EXCEPT !.limit = l]
      BY <1>1, <3>1 DEF User
    <3>2. CASE user' = [user EXCEPT !.epoch = user.epoch + 1, !.used = 0]
      <4> DEFINE e == user.epoch + 1
      <4>1. e \in Nat /\ 0 \in Nat
        BY <1>1 DEF User
      <4> HIDE DEF e
      <4> QED BY <1>1, <3>2, <4>1 DEF User, e
    <3> QED BY <2>1, <3>1, <3>2
  <2>3. edits' = edits + 1 /\ UNCHANGED <<rules, record, worker, inbox, faults>>
    BY <1>4 DEF EditUser, Edit
  <2> QED BY <1>1, <2>2, <2>3 DEF Typed
<1>5. CASE SavePreferences
  <2> DEFINE other == ~user.enabled
  <2>1. other \in BOOLEAN
    OBVIOUS
  <2>2. user' = [user EXCEPT !.enabled = other]
    BY <1>5 DEF SavePreferences
  <2> HIDE DEF other
  <2>3. user' \in User
    BY <1>1, <2>1, <2>2 DEF User
  <2> QED BY <1>1, <1>5, <2>3 DEF SavePreferences, Edit, Typed
<1>6. CASE \E s \in Scopes : EditRule(s)
  <2>1. PICK s \in Scopes : EditRule(s)
    BY <1>6
  <2>2. CASE rules' = [rules EXCEPT ![s].enabled = FALSE]
    <3>1. [rules[s] EXCEPT !.enabled = FALSE] \in Rule
      BY <1>1 DEF Rule
    <3>2. rules' = [rules EXCEPT ![s] = [rules[s] EXCEPT !.enabled = FALSE]]
      BY <2>2
    <3>3. rules' \in [Scopes -> Rule]
      BY <1>1, <3>1, <3>2
    <3> QED BY <1>1, <2>1, <3>3 DEF EditRule, Edit, Typed
  <2>3. CASE \E t \in SUBSET Thresholds : rules' = [rules EXCEPT ![s] = [enabled |-> TRUE, thresholds |-> t]]
    <3>1. rules' \in [Scopes -> Rule]
      BY <1>1, <2>3 DEF Rule
    <3> QED BY <1>1, <2>1, <3>1 DEF EditRule, Edit, Typed
  <2> QED BY <2>1, <2>2, <2>3 DEF EditRule
<1> QED BY <1>2, <1>3, <1>4, <1>5, <1>6 DEF Around

-----------------------------------------------------------------------------
(* Attempts *)

LEMMA ClaimedNext ==
    ASSUME Typed, Claimed, Next
    PROVE  Claimed'
<1>1. CASE Around
  BY <1>1, AroundEffect DEF Claimed
<1>2. ASSUME UNCHANGED worker, \A k \in Keys : Rests(k)
      PROVE  Claimed'
  BY <1>2 DEF Claimed, Rests
<1>3. CASE Scan
  BY <1>2, <1>3, ScanEffect
<1>4. CASE \E k \in Keys : Retry(k) \/ Cleanup(k)
  BY <1>2, <1>4, AdministerEffect
<1>5. ASSUME NEW w \in Workers, NEW k \in Keys, Claim(w, k)
      PROVE  Claimed'
  <2>1. /\ Aside(k) /\ Others(w)
        /\ record'[k].state = "sending" /\ record'[k].attempts = record[k].attempts + 1
        /\ worker'[w].step = "claimed" /\ worker'[w].key = {k}
        /\ worker'[w].attempt = record[k].attempts + 1
    BY <1>5, ClaimEffect
  <2>2. \A j \in Keys : record[j].attempts \in Nat
    BY DEF Typed, Entry
  <2>3. \A v \in Workers : worker[v].attempt \in Nat
    BY DEF Typed, Hand
  <2>4. ASSUME NEW j \in Keys PROVE record'[j].state = "none" => record'[j].attempts = 0
    BY <2>1 DEF Claimed, Aside
  <2>5. ASSUME NEW v \in Workers PROVE worker'[v].step = "idle" => worker'[v].key = {}
    BY <2>1 DEF Claimed, Others
  <2>6. ASSUME NEW v \in Workers, NEW j \in Keys, worker'[v].key = {j}
        PROVE  1 <= worker'[v].attempt /\ worker'[v].attempt <= record'[j].attempts
    <3>1. CASE v = w
      BY <2>1, <2>2, <2>6, <3>1
    <3>2. CASE v # w
      <4>1. worker[v].key = {j} /\ worker'[v].attempt = worker[v].attempt
        BY <2>1, <2>6, <3>2 DEF Others
      <4>2. record'[j].attempts >= record[j].attempts
        BY <2>1, <2>2 DEF Aside
      <4>3. record'[j].attempts \in Nat
        BY <2>1, <2>2 DEF Aside
      <4> QED BY <2>2, <2>3, <4>1, <4>2, <4>3 DEF Claimed
    <3> QED BY <3>1, <3>2
  <2>7. ASSUME NEW j \in Keys, NEW v \in Workers, NEW u \in Workers,
               v # u, worker'[v].key = {j}, worker'[u].key = {j}
        PROVE  worker'[v].attempt # worker'[u].attempt
    <3>1. ASSUME NEW x \in Workers, x # w, worker'[x].key = {k}
          PROVE  worker'[x].attempt # worker'[w].attempt
      <4>1. worker[x].key = {k} /\ worker'[x].attempt = worker[x].attempt
        BY <2>1, <3>1 DEF Others
      <4> QED BY <2>1, <2>2, <2>3, <4>1 DEF Claimed
    <3>2. CASE v = w \/ u = w
      BY <2>1, <2>7, <3>1, <3>2
    <3>3. CASE v # w /\ u # w
      BY <2>1, <2>7, <3>3 DEF Others, Claimed
    <3> QED BY <3>2, <3>3
  <2> QED BY <2>4, <2>5, <2>6, <2>7 DEF Claimed
<1>6. ASSUME NEW w \in Workers, NEW k \in Keys, Others(w), worker'[w] = Idle,
             \A j \in Keys : record'[j].attempts = record[j].attempts
                             /\ (record'[j].state = "none" => record[j].state = "none")
      PROVE  Claimed'
  BY <1>6 DEF Claimed, Others, Idle
<1>7. ASSUME NEW w \in Workers, NEW k \in Keys, Suppress(w, k) PROVE Claimed'
  BY <1>7, SuppressEffect DEF Claimed, Aside
<1>8. ASSUME NEW w \in Workers, NEW k \in Keys, SendOk(w, k) \/ SendFails(w, k) \/ SendUnknown(w, k)
      PROVE  Claimed'
  <2>1. /\ Others(w) /\ record' = record /\ worker[w].key = {k}
        /\ worker'[w].step # "idle" /\ worker'[w].key = worker[w].key
        /\ worker'[w].attempt = worker[w].attempt
    BY <1>8, SendEffect
  <2>2. \A v \in Workers : worker'[v].key = worker[v].key /\ worker'[v].attempt = worker[v].attempt
                           /\ (worker'[v].step = "idle" => worker[v].step = "idle")
    BY <2>1 DEF Others
  <2> QED BY <2>1, <2>2 DEF Claimed
<1>9. ASSUME NEW w \in Workers, NEW k \in Keys, Finish(w, k) PROVE Claimed'
  <2>1. /\ Others(w) /\ worker'[w] = Idle /\ Aside(k)
        /\ record'[k].attempts = record[k].attempts
        /\ record'[k] = record[k] \/ record'[k].state # "none"
    BY <1>9, FinishEffect
  <2> QED BY <1>6, <2>1 DEF Aside
<1>10. ASSUME NEW w \in Workers, NEW k \in Keys, Crash(w, k) PROVE Claimed'
  BY <1>6, <1>10, CrashEffect
<1> QED BY <1>1, <1>3, <1>4, <1>5, <1>7, <1>8, <1>9, <1>10 DEF Next, Work, Around

-----------------------------------------------------------------------------
(* Copies *)

LEMMA Unmoved ==
    ASSUME NEW j \in Keys, record'[j] = record[j],
           \A v \in Workers : \/ worker'[v] = worker[v]
                              \/ worker'[v].key # {j} /\ worker[v].key # {j}
    PROVE  CopiesOf(j)' = CopiesOf(j)
<1>1. Sending(j)' = Sending(j)
  BY DEF Sending
<1>2. Claimable(j)' <=> Claimable(j)
  BY DEF Claimable, Holder, Mine
<1> QED BY <1>1, <1>2 DEF CopiesOf

LEMMA SendingCounts ==
    ASSUME NEW k \in Keys, NEW w \in Workers, Others(w)
    PROVE  /\ IsFiniteSet(Sending(k)) /\ Cardinality(Sending(k)) \in Nat
           /\ Cardinality(Sending(k)') \in Nat
           /\ w \notin Sending(k) /\ w \in Sending(k)' =>
                 Cardinality(Sending(k)') = Cardinality(Sending(k)) + 1
           /\ w \in Sending(k) /\ w \notin Sending(k)' =>
                 Cardinality(Sending(k)') = Cardinality(Sending(k)) - 1
           /\ w \notin Sending(k) /\ w \notin Sending(k)' =>
                 Cardinality(Sending(k)') = Cardinality(Sending(k))
<1> DEFINE S == Sending(k)  T == Sending(k)'
<1>1. S \subseteq Workers /\ T \subseteq Workers
  BY DEF Sending
<1>2. IsFiniteSet(S) /\ IsFiniteSet(T) /\ Cardinality(S) \in Nat /\ Cardinality(T) \in Nat
  <2> HIDE DEF S, T
  <2> QED BY <1>1, WorkersAreFinite, FS_Subset, FS_CardinalityType
<1>3. \A v \in Workers : v # w => (v \in S <=> v \in T)
  BY DEF Sending, Others
<1> HIDE DEF S, T
<1>4. CASE w \notin S /\ w \in T
  <2>1. T = S \cup {w}
    BY <1>1, <1>3, <1>4
  <2> QED BY <1>2, <1>4, <2>1, FS_AddElement DEF S, T
<1>5. CASE w \in S /\ w \notin T
  <2>1. T = S \ {w}
    BY <1>1, <1>3, <1>5
  <2> QED BY <1>2, <1>5, <2>1, FS_RemoveElement DEF S, T
<1>6. CASE w \notin S /\ w \notin T
  <2>1. T = S
    BY <1>1, <1>3, <1>6
  <2> QED BY <1>2, <1>6, <2>1 DEF S, T
<1> QED BY <1>2, <1>4, <1>5, <1>6 DEF S, T

\* An attempt has one worker: nobody else is heard on the record.
LEMMA OneHolder ==
    ASSUME Claimed, NEW k \in Keys, NEW w \in Workers, worker[w].key = {k}, Mine(w, k)
    PROVE  Holder(k) = {w}
BY DEF Claimed, Holder, Mine

AccountedFor(k) == inbox[k] + CopiesOf(k) <= 1 + faults[k]

LEMMA ClaimAccounts ==
    ASSUME Typed, Claimed, NEW w \in Workers, NEW k \in Keys, Claim(w, k), AccountedFor(k)
    PROVE  AccountedFor(k)'
<1>1. /\ Typed' /\ Others(w) /\ record'[k].state = "sending"
      /\ record'[k].attempts = record[k].attempts + 1
      /\ worker'[w].step = "claimed" /\ worker'[w].key = {k}
      /\ worker'[w].attempt = record[k].attempts + 1 /\ inbox'[k] = inbox[k]
  BY ClaimEffect
<1>2. /\ worker[w].step = "idle"
      /\ \/ faults'[k] = faults[k] /\ Claimable(k)
         \/ faults'[k] = faults[k] + 1
  <2>1. Take(w, k)
    BY DEF Claim
  <2> QED BY <2>1, TakeCounts DEF Claimable
<1>3. ~Claimable(k)'
  <2>1. w \in Holder(k)'
    BY <1>1 DEF Holder, Mine
  <2> QED BY <1>1, <2>1 DEF Claimable
<1>4. w \notin Sending(k) /\ w \in Sending(k)'
  BY <1>1, <1>2 DEF Sending
<1>5. Cardinality(Sending(k)') = Cardinality(Sending(k)) + 1 /\ Cardinality(Sending(k)) \in Nat
  BY <1>1, <1>4, SendingCounts
<1>6. inbox[k] \in Nat /\ faults[k] \in Nat
  BY DEF Typed
<1> QED BY <1>1, <1>2, <1>3, <1>5, <1>6 DEF AccountedFor, CopiesOf

LEMMA SendAccounts ==
    ASSUME Typed, Claimed, NEW w \in Workers, NEW k \in Keys,
           SendOk(w, k) \/ SendFails(w, k) \/ SendUnknown(w, k), AccountedFor(k)
    PROVE  AccountedFor(k)'
<1>1. /\ Others(w) /\ UNCHANGED record
      /\ worker[w].step = "claimed" /\ worker[w].key = {k} /\ worker'[w].key = {k}
      /\ worker'[w].attempt = worker[w].attempt /\ worker'[w].step \in {"sent", "failed"}
      /\ \/ worker'[w].step = "sent" /\ inbox'[k] = inbox[k] + 1 /\ faults'[k] = faults[k]
         \/ inbox'[k] = inbox[k] /\ faults'[k] = faults[k]
         \/ inbox'[k] = inbox[k] + 1 /\ faults'[k] = faults[k] + 1
  BY SendEffect
<1>2. w \in Sending(k) /\ w \notin Sending(k)'
  BY <1>1 DEF Sending
<1>3. Cardinality(Sending(k)') = Cardinality(Sending(k)) - 1 /\ Cardinality(Sending(k)) \in Nat
  BY <1>1, <1>2, SendingCounts
<1>4. ASSUME worker'[w].step = "sent", Claimable(k)' PROVE Claimable(k)
  <2>1. \A v \in Workers : v \in Holder(k)' <=> v \in Holder(k)
    BY <1>1 DEF Holder, Mine, Others
  <2>2. CASE record[k].state = "sending"
    <3>1. \A v \in Holder(k)' : worker'[v].step = "failed"
      BY <1>1, <1>4, <2>2 DEF Claimable
    <3>2. \A v \in Holder(k) : v \in Workers /\ v # w /\ worker[v].step = "failed"
      BY <1>1, <1>4, <2>1, <3>1 DEF Others, Holder
    <3> QED BY <2>2, <3>2 DEF Claimable
  <2>3. CASE record[k].state # "sending"
    BY <1>1, <1>4, <2>3 DEF Claimable
  <2> QED BY <2>2, <2>3
<1>5. inbox[k] \in Nat /\ faults[k] \in Nat
  BY DEF Typed
<1> QED BY <1>1, <1>3, <1>4, <1>5 DEF AccountedFor, CopiesOf

LEMMA FinishAccounts ==
    ASSUME Typed, Claimed, NEW w \in Workers, NEW k \in Keys, Finish(w, k), AccountedFor(k)
    PROVE  AccountedFor(k)'
<1>1. /\ Others(w) /\ worker'[w] = Idle /\ worker[w].key = {k}
      /\ inbox'[k] = inbox[k] /\ faults'[k] = faults[k]
      /\ \/ ~Mine(w, k) /\ record'[k] = record[k] /\ worker[w].step # "claimed"
         \/ Mine(w, k) /\ worker[w].step = "sent" /\ record'[k].state = "sent"
         \/ /\ Mine(w, k) /\ worker[w].step = "failed"
            /\ record'[k].state \in {"dead", "retry"}
  BY FinishEffect
<1>2. w \notin Sending(k) /\ w \notin Sending(k)'
  BY <1>1 DEF Sending, Idle
<1>3. Cardinality(Sending(k)') = Cardinality(Sending(k))
  BY <1>1, <1>2, SendingCounts
<1>4. Claimable(k)' => Claimable(k)
  <2>1. CASE ~Mine(w, k) /\ record'[k] = record[k]
    <3>1. Holder(k)' = Holder(k) /\ w \notin Holder(k)
      BY <1>1, <2>1 DEF Holder, Mine, Others, Idle
    <3>2. \A v \in Holder(k) : worker'[v] = worker[v]
      BY <1>1, <3>1 DEF Holder, Others
    <3> QED BY <2>1, <3>1, <3>2 DEF Claimable
  <2>2. CASE record'[k].state = "sent"
    BY <2>2 DEF Claimable
  <2>3. CASE Mine(w, k) /\ worker[w].step = "failed"
    BY <1>1, <2>3, OneHolder DEF Claimable, Mine
  <2> QED BY <1>1, <2>1, <2>2, <2>3
<1>5. inbox[k] \in Nat /\ faults[k] \in Nat /\ Cardinality(Sending(k)) \in Nat
  BY <1>1, SendingCounts DEF Typed
<1> QED BY <1>1, <1>3, <1>4, <1>5 DEF AccountedFor, CopiesOf

LEMMA CrashAccounts ==
    ASSUME Typed, NEW w \in Workers, NEW k \in Keys, Crash(w, k), AccountedFor(k)
    PROVE  AccountedFor(k)'
<1>1. /\ Others(w) /\ worker'[w] = Idle
      /\ inbox'[k] = inbox[k] /\ faults'[k] = faults[k] + 1
  BY CrashEffect
<1>2. w \notin Sending(k)'
  BY <1>1 DEF Sending, Idle
<1>3. /\ Cardinality(Sending(k)') <= Cardinality(Sending(k))
      /\ Cardinality(Sending(k)') \in Nat /\ Cardinality(Sending(k)) \in Nat
  BY <1>1, <1>2, SendingCounts
<1>4. inbox[k] \in Nat /\ faults[k] \in Nat
  BY DEF Typed
<1> QED BY <1>1, <1>3, <1>4 DEF AccountedFor, CopiesOf

LEMMA AccountedNext ==
    ASSUME Typed, Claimed, Accounted, Next
    PROVE  Accounted'
<1>1. ASSUME NEW k \in Keys, UNCHANGED worker, inbox'[k] = inbox[k], faults'[k] >= faults[k],
             faults'[k] \in Nat, Claimable(k)' => Claimable(k)
      PROVE  AccountedFor(k)'
  <2>1. Sending(k)' = Sending(k)
    BY <1>1 DEF Sending
  <2>2. Cardinality(Sending(k)) \in Nat /\ inbox[k] \in Nat /\ faults[k] \in Nat
    <3>1. Sending(k) \subseteq Workers
      BY DEF Sending
    <3> QED BY <3>1, WorkersAreFinite, FS_Subset, FS_CardinalityType DEF Typed
  <2> QED BY <1>1, <2>1, <2>2 DEF Accounted, AccountedFor, CopiesOf
<1>2. CASE Around
  <2>1. UNCHANGED <<record, worker, inbox, faults>>
    BY <1>2, AroundEffect
  <2> QED BY <2>1 DEF Accounted, CopiesOf, Sending, Claimable, Holder, Mine
<1>3. ASSUME UNCHANGED <<worker, inbox, faults>>, \A k \in Keys : Rests(k)
      PROVE  Accounted'
  <2>1. ASSUME NEW k \in Keys PROVE Claimable(k)' => Claimable(k)
    <3>1. CASE record'[k].state = record[k].state
      <4>1. Holder(k)' = Holder(k)
        BY <1>3, <3>1 DEF Holder, Mine, Rests
      <4> QED BY <1>3, <3>1, <4>1 DEF Claimable
    <3>2. CASE record'[k].state # record[k].state
      BY <1>3, <3>2 DEF Claimable, Rests
    <3> QED BY <3>1, <3>2
  <2>2. \A k \in Keys : faults[k] \in Nat
    BY DEF Typed
  <2>3. \A k \in Keys : AccountedFor(k)'
    BY <1>1, <1>3, <2>1, <2>2
  <2> QED BY <2>3 DEF Accounted, AccountedFor
<1>4. CASE Scan
  BY <1>3, <1>4, ScanEffect
<1>5. CASE \E k \in Keys : Retry(k) \/ Cleanup(k)
  BY <1>3, <1>5, AdministerEffect
<1>6. ASSUME NEW w \in Workers, NEW k \in Keys, Aside(k), AccountedFor(k)',
             \/ UNCHANGED worker
             \/ /\ Others(w) /\ worker[w].key \in {{}, {k}} /\ worker'[w].key \in {{}, {k}}
      PROVE  Accounted'
  <2>1. ASSUME NEW j \in Keys, j # k PROVE AccountedFor(j)'
    <3>1. {j} # {k} /\ {j} # {}
      BY <2>1
    <3>2. CopiesOf(j)' = CopiesOf(j)
      BY <1>6, <2>1, <3>1, Unmoved DEF Aside, Others
    <3> QED BY <1>6, <2>1, <3>2 DEF Accounted, AccountedFor, Aside
  <2> QED BY <1>6, <2>1 DEF Accounted, AccountedFor
<1>7. ASSUME NEW w \in Workers, NEW k \in Keys, Claim(w, k) PROVE Accounted'
  <2>1. AccountedFor(k)'
    BY <1>7, ClaimAccounts DEF Accounted, AccountedFor
  <2>2. worker[w].key = {}
    BY <1>7 DEF Claim, Take, Claimed
  <2> QED BY <1>6, <1>7, <2>1, <2>2, ClaimEffect
<1>8. ASSUME NEW w \in Workers, NEW k \in Keys, Suppress(w, k) PROVE Accounted'
  <2>1. /\ Typed' /\ Aside(k) /\ UNCHANGED <<worker, inbox>>
        /\ record'[k].state = "suppressed" /\ faults'[k] >= faults[k]
    BY <1>8, SuppressEffect
  <2>2. faults'[k] \in Nat
    BY <2>1 DEF Typed
  <2>3. Claimable(k)' => Claimable(k)
    BY <2>1 DEF Claimable
  <2>4. worker' = worker /\ inbox'[k] = inbox[k] /\ faults'[k] >= faults[k]
    BY <2>1
  <2>5. AccountedFor(k)'
    BY <1>1, <2>2, <2>3, <2>4
  <2> QED BY <1>6, <2>1, <2>5
<1>9. ASSUME NEW w \in Workers, NEW k \in Keys, SendOk(w, k) \/ SendFails(w, k) \/ SendUnknown(w, k)
      PROVE  Accounted'
  <2>1. AccountedFor(k)'
    BY <1>9, SendAccounts DEF Accounted, AccountedFor
  <2> QED BY <1>6, <1>9, <2>1, SendEffect
<1>10. ASSUME NEW w \in Workers, NEW k \in Keys, Finish(w, k) PROVE Accounted'
  <2>1. AccountedFor(k)'
    BY <1>10, FinishAccounts DEF Accounted, AccountedFor
  <2>2. Aside(k) /\ Others(w) /\ worker'[w].key = {} /\ worker[w].key = {k}
    BY <1>10, FinishEffect DEF Idle
  <2> QED BY <1>6, <2>1, <2>2
<1>11. ASSUME NEW w \in Workers, NEW k \in Keys, Crash(w, k) PROVE Accounted'
  <2>1. AccountedFor(k)'
    BY <1>11, CrashAccounts DEF Accounted, AccountedFor
  <2>2. Aside(k) /\ Others(w) /\ worker'[w].key = {} /\ worker[w].key = {k}
    BY <1>11, CrashEffect DEF Idle
  <2> QED BY <1>6, <2>1, <2>2
<1> QED BY <1>2, <1>4, <1>5, <1>7, <1>8, <1>9, <1>10, <1>11 DEF Next, Work, Around

-----------------------------------------------------------------------------
(* Thresholds *)

LEMMA AttemptedNext ==
    ASSUME Typed, Claimed, Attempted, Next
    PROVE  Attempted'
<1>1. \A k \in Keys : record[k].attempts \in Nat /\ inbox[k] \in Nat
  BY DEF Typed, Entry
<1>2. CASE Around
  BY <1>2, AroundEffect DEF Attempted
<1>3. CASE Scan
  BY <1>3, ScanEffect DEF Attempted, Rests
<1>4. CASE \E k \in Keys : Retry(k) \/ Cleanup(k)
  BY <1>4, AdministerEffect DEF Attempted, Rests
<1>5. ASSUME NEW w \in Workers, NEW k \in Keys, Work(w, k) PROVE Attempted'
  <2>1. CASE Claim(w, k)
    BY <1>1, <2>1, ClaimEffect DEF Attempted, Aside
  <2>2. CASE Suppress(w, k)
    BY <2>2, SuppressEffect DEF Attempted, Aside
  <2>3. CASE SendOk(w, k) \/ SendFails(w, k) \/ SendUnknown(w, k)
    <3>1. Aside(k) /\ UNCHANGED record /\ worker[w].key = {k}
      BY <2>3, SendEffect
    <3>2. record[k].attempts > 0
      <4>1. worker[w].attempt \in Nat
        BY DEF Typed, Hand
      <4> QED BY <1>1, <3>1, <4>1 DEF Claimed
    <3> QED BY <3>1, <3>2 DEF Attempted, Aside
  <2>4. CASE Finish(w, k)
    BY <2>4, FinishEffect DEF Attempted, Aside
  <2>5. CASE Crash(w, k)
    BY <2>5, CrashEffect DEF Attempted, Aside
  <2> QED BY <1>5, <2>1, <2>2, <2>3, <2>4, <2>5 DEF Work
<1> QED BY <1>2, <1>3, <1>4, <1>5 DEF Next, Around

\* A claim is about the most urgent threshold that its rule has reached.
LEMMA ClaimIsUrgent ==
    ASSUME Typed, Calm, edits = 0, NEW w \in Workers, NEW k \in Keys, Claim(w, k)
    PROVE  /\ Reached(k.threshold)
           /\ \A told \in Keys : Reached(told.threshold) => told.threshold <= k.threshold
<1>1. "all" \in Scopes /\ rules["all"].thresholds = Thresholds /\ record[k].rule = "all"
  BY DEF Scopes, Calm
<1>2. k.threshold = Urgent("all")
  BY <1>1 DEF Claim, Eligible
<1>3. \A told \in Keys : told.threshold \in Thresholds /\ told.threshold \in 1..100
  BY KeyThreshold
<1>4. Urgent("all") > 0
  BY <1>2, <1>3
<1> QED BY <1>1, <1>2, <1>3, <1>4, MostUrgent

LEMMA CalmNext ==
    ASSUME Typed, Claimed, Calm, Next
    PROVE  Calm'
<1>1. edits \in Nat /\ \A k \in Keys : record[k].attempts \in Nat /\ k.threshold \in Nat
  BY KeyThreshold DEF Typed, Entry
<1>2. CASE Around
  <2>1. Typed' /\ UNCHANGED record
    BY <1>2, AroundEffect
  <2>2. CASE edits' = edits + 1
    BY <1>1, <2>2 DEF Calm
  <2>3. CASE UNCHANGED <<rules, edits>> /\ user'.limit = user.limit /\ user'.used >= user.used
    <3>1. \A t \in Nat : Reached(t) => Reached(t)'
      BY <2>1, <2>3, StaysReached
    <3> QED BY <1>1, <2>1, <2>3, <3>1 DEF Calm
  <2> QED BY <1>2, <2>2, <2>3, AroundEffect
<1>3. ASSUME UNCHANGED user PROVE \A t : Reached(t)' <=> Reached(t)
  BY <1>3 DEF Reached
<1>4. CASE Scan
  <2>1. /\ UNCHANGED <<user, rules, edits>> /\ \A k \in Keys : Rests(k)
        /\ \A k \in Keys : record'[k].rule = record[k].rule \/ record'[k].rule \in RuleFor
    BY <1>4, ScanEffect
  <2>2. edits = 0 => RuleFor \subseteq {"all"}
    BY DEF Calm, RuleFor
  <2> QED BY <1>3, <2>1, <2>2 DEF Calm, Rests
<1>5. CASE \E k \in Keys : Retry(k) \/ Cleanup(k)
  <2>1. /\ UNCHANGED <<user, rules>> /\ (edits' = edits \/ edits' = edits + 1)
        /\ \A j \in Keys : Rests(j) /\ record'[j].rule = record[j].rule
    BY <1>5, AdministerEffect
  <2> QED BY <1>1, <1>3, <2>1 DEF Calm, Rests
<1>6. ASSUME UNCHANGED <<user, rules, edits>>,
             \A j \in Keys : record'[j].attempts = record[j].attempts
                             /\ record'[j].rule = record[j].rule
      PROVE  Calm'
  BY <1>3, <1>6 DEF Calm
<1>7. ASSUME NEW w \in Workers, NEW k \in Keys, Work(w, k) PROVE Calm'
  <2>1. CASE Claim(w, k)
    <3>1. /\ Aside(k) /\ UNCHANGED <<user, rules, edits>> /\ record'[k].rule = record[k].rule
      BY <2>1, ClaimEffect
    <3>2. edits = 0 => Reached(k.threshold)
      BY <2>1, ClaimIsUrgent
    <3> QED BY <1>3, <3>1, <3>2 DEF Calm, Aside
  <2>2. CASE Suppress(w, k)
    BY <1>6, <2>2, SuppressEffect DEF Aside
  <2>3. CASE SendOk(w, k) \/ SendFails(w, k) \/ SendUnknown(w, k)
    BY <1>6, <2>3, SendEffect
  <2>4. CASE Finish(w, k)
    BY <1>6, <2>4, FinishEffect DEF Aside
  <2>5. CASE Crash(w, k)
    BY <1>6, <2>5, CrashEffect
  <2> QED BY <1>7, <2>1, <2>2, <2>3, <2>4, <2>5 DEF Work
<1> QED BY <1>2, <1>4, <1>5, <1>7 DEF Next, Around

LEMMA TypedNext ==
    ASSUME Typed, Claimed, Next
    PROVE  Typed'
BY AroundEffect, ScanEffect, AdministerEffect, ClaimEffect, SuppressEffect, SendEffect,
   FinishEffect, CrashEffect DEF Next, Around, Work

LEMMA InvInit == Init => IInv
<1> SUFFICES ASSUME Init PROVE IInv
  OBVIOUS
<1>1. Typed
  <2>1. user \in User
    BY LimitsAreBytes DEF Init, User
  <2>2. rules \in [Scopes -> Rule]
    <3>1. \A s \in Scopes : [enabled |-> s = "all", thresholds |-> Thresholds] \in Rule
      BY DEF Rule
    <3> QED BY <3>1 DEF Init
  <2>3. NoRecord \in Entry /\ Idle \in Hand
    BY DEF NoRecord, Entry, States, Scopes, Idle, Hand
  <2> QED BY <2>1, <2>2, <2>3 DEF Init, Typed
<1>2. /\ \A k \in Keys : /\ record[k].state = "none" /\ record[k].attempts = 0
                         /\ record[k].rule = "all"
      /\ \A w \in Workers : worker[w].step = "idle" /\ worker[w].key = {}
  BY DEF Init, NoRecord, Idle
<1>3. Claimed
  BY <1>2 DEF Claimed
<1>4. Accounted
  <2>1. ASSUME NEW k \in Keys PROVE Sending(k) = {} /\ Claimable(k)
    BY <1>2 DEF Sending, Claimable
  <2>2. \A k \in Keys : CopiesOf(k) = 1
    BY <2>1, FS_EmptySet DEF CopiesOf
  <2> QED BY <2>2 DEF Init, Accounted
<1>5. Attempted
  BY DEF Init, Attempted
<1>6. Calm
  <2>1. "user" \in Scopes /\ "all" \in Scopes
    BY DEF Scopes
  <2>2. rules["all"].thresholds = Thresholds
    BY <2>1 DEF Init
  <2>3. rules["user"].enabled = ("user" = "all")
    BY <2>1 DEF Init
  <2>4. ~rules["user"].enabled
    BY <2>3
  <2> QED BY <1>2, <2>2, <2>4 DEF Calm
<1> QED BY <1>1, <1>3, <1>4, <1>5, <1>6 DEF IInv

-----------------------------------------------------------------------------
(* Theorems *)

\* Whatever is scanned, claimed, lost and repeated, the copies of a mail stay accounted
\* for, and no two workers are in the same attempt.
THEOREM Invariance == Spec => []IInv
<1>1. IInv /\ [Next]_vars => IInv'
  <2> SUFFICES ASSUME IInv, [Next]_vars PROVE IInv'
    OBVIOUS
  <2>1. CASE Next
    BY <2>1, TypedNext, ClaimedNext, AccountedNext, AttemptedNext, CalmNext DEF IInv
  <2>2. CASE UNCHANGED vars
    BY <2>2 DEF vars, IInv, Typed, Claimed, Accounted, Attempted, Calm, CopiesOf, Sending,
                Claimable, Holder, Mine, Reached
  <2> QED BY <2>1, <2>2
<1> QED BY <1>1, InvInit, PTL DEF Spec

\* No reminder is delivered more often than once and once for each crash, lost answer
\* or lost lease, however many workers share the queue.
THEOREM CopiesAreOwed == Spec => []DuplicatesAreFaults
<1>1. IInv => DuplicatesAreFaults
  <2> SUFFICES ASSUME IInv, NEW k \in Keys PROVE inbox[k] <= 1 + faults[k]
    BY DEF DuplicatesAreFaults
  <2>1. Sending(k) \subseteq Workers
    BY DEF Sending
  <2>2. Cardinality(Sending(k)) \in Nat
    BY <2>1, WorkersAreFinite, FS_Subset, FS_CardinalityType
  <2> QED BY <2>2 DEF IInv, Accounted, CopiesOf, Typed
<1> QED BY <1>1, Invariance, PTL

\* No late worker, scan or cleanup reopens a record that is sent, written off or dead.
THEOREM FinalStays == Spec => FinalIsFinal
<1>1. IInv /\ [Next]_vars =>
        [\A k \in Keys :
           /\ record[k].state \in {"sent", "suppressed"} => record'[k].state = record[k].state
           /\ record[k].state = "dead" => \/ record'[k].state = "dead"
                                          \/ record'[k].state = "retry" /\ edits' # edits]_vars
  <2> SUFFICES ASSUME IInv, Next, NEW k \in Keys,
                      record[k].state \in {"sent", "suppressed", "dead"},
                      record'[k].state # record[k].state
               PROVE  /\ record[k].state = "dead" /\ record'[k].state = "retry"
                      /\ edits' # edits
    OBVIOUS
  <2> USE DEF IInv
  <2>1. CASE Around
    BY <2>1, AroundEffect
  <2>2. CASE Scan
    BY <2>2, ScanEffect DEF Rests
  <2>3. CASE \E j \in Keys : Retry(j) \/ Cleanup(j)
    BY <2>3, AdministerEffect DEF Rests
  <2>4. ASSUME NEW w \in Workers, NEW j \in Keys, Work(w, j) PROVE FALSE
    <3>1. CASE Claim(w, j) \/ Suppress(w, j)
      BY <3>1, TakeCounts, ClaimEffect, SuppressEffect DEF Claim, Suppress, Aside
    <3>2. CASE SendOk(w, j) \/ SendFails(w, j) \/ SendUnknown(w, j)
      BY <3>2, SendEffect
    <3>3. CASE Finish(w, j)
      BY <3>3, FinishEffect DEF Aside, Mine
    <3>4. CASE Crash(w, j)
      BY <3>4, CrashEffect
    <3> QED BY <2>4, <3>1, <3>2, <3>3, <3>4 DEF Work
  <2> QED BY <2>1, <2>2, <2>3, <2>4 DEF Next, Around
<1> QED BY <1>1, Invariance, PTL DEF Spec, FinalIsFinal

\* While nobody edits anything, no reminder is begun that is milder than one delivered.
THEOREM UrgencyGrows == Spec => MostUrgentLast
<1>1. IInv /\ [Next]_vars =>
        [\A k, told \in Keys :
           /\ edits = 0 /\ record'[k].attempts > record[k].attempts
           /\ inbox[told] > 0
           => told.threshold <= k.threshold]_vars
  <2> SUFFICES ASSUME IInv, Next, NEW k \in Keys, NEW told \in Keys, edits = 0,
                      record'[k].attempts > record[k].attempts, inbox[told] > 0
               PROVE  told.threshold <= k.threshold
    OBVIOUS
  <2> USE DEF IInv
  <2>1. record[k].attempts \in Nat
    BY DEF Typed, Entry
  <2>2. record'[k].attempts # record[k].attempts
    BY <2>1
  <2>3. PICK w \in Workers : Claim(w, k)
    <3>1. ~Around
      BY <2>2, AroundEffect
    <3>2. ~Scan
      BY <2>2, ScanEffect DEF Rests
    <3>3. ~\E j \in Keys : Retry(j) \/ Cleanup(j)
      BY <2>2, AdministerEffect DEF Rests
    <3>4. ASSUME NEW w \in Workers, NEW j \in Keys, Work(w, j) PROVE Claim(w, j) /\ j = k
      <4>1. ~Suppress(w, j)
        BY <2>2, SuppressEffect DEF Aside
      <4>2. ~(SendOk(w, j) \/ SendFails(w, j) \/ SendUnknown(w, j))
        BY <2>2, SendEffect
      <4>3. ~Finish(w, j) /\ ~Crash(w, j)
        BY <2>2, FinishEffect, CrashEffect DEF Aside
      <4>4. Claim(w, j)
        BY <3>4, <4>1, <4>2, <4>3 DEF Work
      <4> QED BY <2>2, <4>4, ClaimEffect DEF Aside
    <3> QED BY <3>1, <3>2, <3>3, <3>4 DEF Next, Around
  <2>4. Reached(told.threshold)
    BY DEF Attempted, Calm
  <2> QED BY <2>3, <2>4, ClaimIsUrgent
<1> QED BY <1>1, Invariance, PTL DEF Spec, MostUrgentLast
=============================================================================

------------------------------ MODULE Accounts ------------------------------
(***************************************************************************)
(* How accounts come to be: the first owner, invitation codes, challenges  *)
(* that prove an e-mail address, and registration.  Every client runs      *)
(* transactions on the database; a transaction takes row or advisory locks *)
(* one after the other, sees what others have committed when it takes a    *)
(* lock, and may be rolled back before it commits.  What a transaction has *)
(* written itself is visible to others only through the locks it holds.    *)
(***************************************************************************)
EXTENDS Integers, FiniteSets

CONSTANTS
    Clients,         \* requests that are served at a time
    Emails,          \* addresses, lower case and trimmed
    Invites,         \* invitation codes
    Requests,        \* request ids under which an administrator mails invitations
    MaxUses,         \* max_uses of a code
    ChallengeLimit,  \* challenges per address and hour (3)
    MailLimit,       \* invitations mailed per administrator and hour (20)
    MaxChallenges    \* bound: challenges

ASSUME LimitsArePositive == /\ MaxUses \in Nat \ {0} /\ ChallengeLimit \in Nat \ {0}
                            /\ MailLimit \in Nat \ {0} /\ MaxChallenges \in Nat

ASSUME SetsAreFinite == IsFiniteSet(Emails) /\ IsFiniteSet(Requests)

VARIABLES
    required,   \* Config.RequireVerification
    owners,     \* rows of users with the role owner
    invite,     \* invite_codes: [state, used]
    account,    \* users by address: the code, the challenge, whether the address is verified
    challenge,  \* email_verifications, oldest first
    invitation, \* notification_records of kind invitation: the code, by request id
    session     \* the transaction of each client

vars == <<required, owners, invite, account, challenge, invitation, session>>

Ids == 1..MaxChallenges
Rank == [new |-> 1, expired |-> 2, old |-> 3]   \* under 30 minutes, under an hour, older

Nobody == [invite |-> {}, ticket |-> 0, verified |-> FALSE]
NoChallenge == [state |-> "none", purpose |-> "register", email |-> {}, invite |-> {},
                age |-> "new", mailed |-> FALSE, ticket |-> FALSE, known |-> FALSE]
Idle == [step |-> "idle", purpose |-> "none", email |-> {}, invite |-> {}, id |-> 0]

Init ==
    /\ required \in BOOLEAN
    /\ owners = 0
    /\ invite = [i \in Invites |-> [state |-> "none", used |-> 0]]
    /\ account = [e \in Emails |-> Nobody]
    /\ challenge = [c \in Ids |-> NoChallenge]
    /\ invitation = [r \in Requests |-> {}]
    /\ session = [k \in Clients |-> Idle]

Registered(e) == account[e] # Nobody
Usable(i) == invite[i].state = "open" /\ invite[i].used < MaxUses

\* The clients whose transaction is in one of some steps, and works on v in field f.
At(steps, f, v) == {k \in Clients : session[k].step \in steps /\ session[k][f] = v}

Enter(k, step) == session' = [session EXCEPT ![k].step = step]
Leave(k) == session' = [session EXCEPT ![k] = Idle]
Begin(k, s) == session[k] = Idle /\ session' = [session EXCEPT ![k] = s]
-----------------------------------------------------------------------------
(* BootstrapOwner, CreateInvite *)

\* Takes the bootstrap lock and looks for a user.
Bootstrap(k) ==
    /\ At({"owner"}, "purpose", "bootstrap") = {}
    /\ owners = 0 /\ \A e \in Emails : ~Registered(e)
    /\ Begin(k, [Idle EXCEPT !.step = "owner", !.purpose = "bootstrap"])
    /\ UNCHANGED <<required, owners, invite, account, challenge, invitation>>

CommitOwner(k) ==
    /\ session[k].step = "owner"
    /\ owners' = owners + 1
    /\ Leave(k)
    /\ UNCHANGED <<required, invite, account, challenge, invitation>>

CreateInvite(i) ==
    /\ owners > 0 /\ invite[i].state = "none"
    /\ invite' = [invite EXCEPT ![i].state = "open"]
    /\ UNCHANGED <<required, owners, account, challenge, invitation, session>>

ExpireInvite(i) ==
    /\ invite[i].state = "open"
    /\ invite' = [invite EXCEPT ![i].state = "expired"]
    /\ UNCHANGED <<required, owners, account, challenge, invitation, session>>
-----------------------------------------------------------------------------
(* Challenge: check the request, take the lock of the address and count, insert *)

AskToRegister(k, e, i) ==
    /\ Usable(i) /\ ~Registered(e)
    /\ Begin(k, [Idle EXCEPT !.step = "ask", !.purpose = "register",
                             !.email = {e}, !.invite = {i}])
    /\ UNCHANGED <<required, owners, invite, account, challenge, invitation>>

AskToVerify(k, e) ==
    /\ Registered(e)
    /\ Begin(k, [Idle EXCEPT !.step = "ask", !.purpose = "verify_existing", !.email = {e}])
    /\ UNCHANGED <<required, owners, invite, account, challenge, invitation>>

Used == {c \in Ids : challenge[c].state # "none"}
Recent(e) == {c \in Used : challenge[c].email = {e} /\ challenge[c].age # "old"}

\* A plausible bug: challenges are counted without the lock.
FaultyAddressIsFree(k) == TRUE

\* pg_advisory_xact_lock on the hash of the address.
AddressIsFree(k) == At({"counted"}, "email", session[k].email) = {}

Count(k) ==
    /\ session[k].step = "ask"
    /\ AddressIsFree(k)
    /\ \E e \in session[k].email :
          IF Cardinality(Recent(e)) < ChallengeLimit THEN Enter(k, "counted") ELSE Leave(k)
    /\ UNCHANGED <<required, owners, invite, account, challenge, invitation>>

CommitChallenge(k) ==
    /\ session[k].step = "counted"
    /\ \E c \in Ids \ Used :
          /\ 1..(c - 1) \subseteq Used
          /\ challenge' = [challenge EXCEPT ![c] =
                [NoChallenge EXCEPT !.state = "pending", !.purpose = session[k].purpose,
                                    !.email = session[k].email, !.invite = session[k].invite]]
    /\ Leave(k)
    /\ UNCHANGED <<required, owners, invite, account, invitation>>
-----------------------------------------------------------------------------
(* The mail queue delivers the token while the challenge is still wanted; Confirm *)

Pending(c) == challenge[c].state = "pending" /\ challenge[c].age = "new"

\* A transaction holds the row of a challenge.
RowIsFree(c) == At({"ticket", "code", "inserted"}, "id", c) = {}

Deliver(c) ==
    /\ Pending(c) /\ ~challenge[c].mailed
    /\ challenge' = [challenge EXCEPT ![c].mailed = TRUE]
    /\ UNCHANGED <<required, owners, invite, account, invitation, session>>

\* Whoever has the token confirms; the answer, and with it the ticket, may be lost.
ConfirmNew(c) ==
    /\ challenge[c].mailed /\ challenge[c].purpose = "register"
    /\ Pending(c) /\ RowIsFree(c)
    /\ \E arrives \in BOOLEAN :
          challenge' = [challenge EXCEPT ![c].state = "verified", ![c].ticket = TRUE,
                                         ![c].known = arrives]
    /\ UNCHANGED <<required, owners, invite, account, invitation, session>>

ConfirmExisting(c) ==
    /\ challenge[c].mailed /\ challenge[c].purpose = "verify_existing"
    /\ Pending(c) /\ RowIsFree(c)
    /\ challenge' = [challenge EXCEPT ![c].state = "consumed"]
    /\ account' = [e \in Emails |-> IF challenge[c].email = {e} /\ Registered(e)
                                    THEN [account[e] EXCEPT !.verified = TRUE]
                                    ELSE account[e]]
    /\ UNCHANGED <<required, owners, invite, invitation, session>>

\* Ten minutes after it was handed out.
ExpireTicket(c) ==
    /\ challenge[c].ticket
    /\ challenge' = [challenge EXCEPT ![c].ticket = FALSE]
    /\ UNCHANGED <<required, owners, invite, account, invitation, session>>

\* Challenges grow old in the order they were made.
GrowOld(c) ==
    /\ challenge[c].state # "none"
    /\ \E age \in DOMAIN Rank :
          /\ Rank[age] = Rank[challenge[c].age] + 1
          /\ \A d \in 1..(c - 1) : Rank[challenge[d].age] >= Rank[age]
          /\ age = "old" => ~challenge[c].ticket
          /\ challenge' = [challenge EXCEPT ![c].age = age]
    /\ UNCHANGED <<required, owners, invite, account, invitation, session>>
-----------------------------------------------------------------------------
(* Register and RegisterWithInvite: the ticket, the code, the user, the commit *)

\* A plausible bug: the ticket is not compared with the address of the request.
FaultyTicketFits(c, e, i) ==
    challenge[c].state = "verified" /\ challenge[c].ticket /\ challenge[c].invite = {i}

TicketFits(c, e, i) ==
    /\ challenge[c].state = "verified" /\ challenge[c].ticket
    /\ challenge[c].email = {e} /\ challenge[c].invite = {i}

TakeTicket(k, c, e, i) ==
    /\ required
    /\ challenge[c].known /\ TicketFits(c, e, i) /\ RowIsFree(c)
    /\ Begin(k, [Idle EXCEPT !.step = "ticket", !.purpose = "register",
                             !.email = {e}, !.invite = {i}, !.id = c])
    /\ UNCHANGED <<required, owners, invite, account, challenge, invitation>>

\* Without verification a registration starts with the code.
StartWithCode(k, e, i) ==
    /\ ~required
    /\ Begin(k, [Idle EXCEPT !.step = "ticket", !.purpose = "register",
                             !.email = {e}, !.invite = {i}])
    /\ UNCHANGED <<required, owners, invite, account, challenge, invitation>>

\* A plausible bug: the row of the code is read without FOR UPDATE.
FaultyCodeIsFree(i) == TRUE

CodeIsFree(i) == At({"code", "inserted"}, "invite", {i}) = {}

TakeCode(k) ==
    /\ session[k].step = "ticket"
    /\ \E i \in Invites : /\ session[k].invite = {i}
                          /\ CodeIsFree(i)
                          /\ IF Usable(i) THEN Enter(k, "code") ELSE Leave(k)
    /\ UNCHANGED <<required, owners, invite, account, challenge, invitation>>

\* The unique index on the address waits for a transaction that inserts the same one.
Insert(k) ==
    /\ session[k].step = "code"
    /\ At({"inserted"}, "email", session[k].email) = {}
    /\ \E e \in session[k].email : IF Registered(e) THEN Leave(k) ELSE Enter(k, "inserted")
    /\ UNCHANGED <<required, owners, invite, account, challenge, invitation>>

CommitUser(k) ==
    /\ session[k].step = "inserted"
    /\ LET s == session[k] IN
       /\ account' = [e \in Emails |-> IF s.email = {e}
                         THEN [invite |-> s.invite, ticket |-> s.id, verified |-> s.id # 0]
                         ELSE account[e]]
       /\ invite' = [i \in Invites |-> IF s.invite = {i}
                        THEN [invite[i] EXCEPT !.used = @ + 1] ELSE invite[i]]
       /\ challenge' = [c \in Ids |-> IF s.id = c
                           THEN [challenge[c] EXCEPT !.state = "consumed"] ELSE challenge[c]]
    /\ Leave(k)
    /\ UNCHANGED <<required, owners, invitation>>
-----------------------------------------------------------------------------
(* SendInvite: the code and the request id are looked up, then the rate is checked *)

Known(r) == invitation[r] # {}

AskToMail(k, r, i) ==
    /\ Usable(i) /\ ~Known(r)
    /\ Begin(k, [Idle EXCEPT !.step = "mail", !.purpose = "invitation",
                             !.invite = {i}, !.id = r])
    /\ UNCHANGED <<required, owners, invite, account, challenge, invitation>>

Mailed == {r \in Requests : Known(r)}

CheckRate(k) ==
    /\ session[k].step = "mail"
    /\ At({"rated"}, "purpose", "invitation") = {}
    /\ IF Cardinality(Mailed) < MailLimit THEN Enter(k, "rated") ELSE Leave(k)
    /\ UNCHANGED <<required, owners, invite, account, challenge, invitation>>

\* Enqueue looks the request id up once more.
CommitMail(k) ==
    /\ session[k].step = "rated"
    /\ LET r == session[k].id IN
       invitation' = IF Known(r) THEN invitation
                     ELSE [invitation EXCEPT ![r] = session[k].invite]
    /\ Leave(k)
    /\ UNCHANGED <<required, owners, invite, account, challenge>>
-----------------------------------------------------------------------------
\* An error, a cancelled request or a crash: nothing of the transaction stays.
Rollback(k) ==
    /\ session[k] # Idle
    /\ Leave(k)
    /\ UNCHANGED <<required, owners, invite, account, challenge, invitation>>

Next ==
    \/ \E i \in Invites : CreateInvite(i) \/ ExpireInvite(i)
    \/ \E c \in Ids : \/ Deliver(c) \/ ConfirmNew(c) \/ ConfirmExisting(c)
                      \/ ExpireTicket(c) \/ GrowOld(c)
    \/ \E k \in Clients :
          \/ Bootstrap(k) \/ CommitOwner(k) \/ Count(k) \/ CommitChallenge(k)
          \/ TakeCode(k) \/ Insert(k) \/ CommitUser(k)
          \/ CheckRate(k) \/ CommitMail(k) \/ Rollback(k)
          \/ \E e \in Emails : AskToVerify(k, e)
          \/ \E e \in Emails, i \in Invites :
                \/ AskToRegister(k, e, i) \/ StartWithCode(k, e, i)
                \/ \E c \in Ids : TakeTicket(k, c, e, i)
          \/ \E r \in Requests, i \in Invites : AskToMail(k, r, i)

Spec == Init /\ [][Next]_vars
-----------------------------------------------------------------------------
(* Properties *)

\* Type invariant: every variable keeps the shape its table or local has.
TypeOK ==
    /\ owners \in 0..1
    /\ \A i \in Invites : invite[i].state \in {"none", "open", "expired"}
    /\ \A c \in Ids : /\ challenge[c].state \in {"none", "pending", "verified", "consumed"}
                      /\ challenge[c].ticket => challenge[c].state \in {"verified", "consumed"}

\* A code is worth MaxUses accounts, and counts those that were made with it, no
\* matter how many registrations race for it or fail half-way.
InviteCountsAccounts ==
    \A i \in Invites : LET made == {e \in Emails : account[e].invite = {i}} IN
        invite[i].used = Cardinality(made) /\ invite[i].used <= MaxUses

\* An address counts as verified only if a token mailed to it was confirmed; a
\* ticket makes one account, with the address and the code it was handed out for.
VerifiedWasProven ==
    \A e \in Emails : account[e].verified =>
        \E c \in Ids : /\ challenge[c].mailed /\ challenge[c].state = "consumed"
                       /\ challenge[c].email = {e}
                       /\ challenge[c].purpose = "register" =>
                             account[e].ticket = c /\ challenge[c].invite = account[e].invite

\* However many clients ask at once, an address gets no more challenges in an hour
\* than allowed, nor does an administrator mail more invitations.
RateHolds == /\ \A e \in Emails : Cardinality(Recent(e)) <= ChallengeLimit
             /\ Cardinality(Mailed) <= MailLimit
=============================================================================

--------------------------- MODULE AccountsProofs ---------------------------
(***************************************************************************)
(* Theorems about Accounts, for any number of clients, addresses, codes    *)
(* and requests, and for all limits.                                       *)
(***************************************************************************)
EXTENDS Accounts, FiniteSetTheorems, TLAPS

-----------------------------------------------------------------------------
(* The inductive invariant *)

Steps == {"idle", "owner", "ask", "counted", "ticket", "code", "inserted", "mail", "rated"}
Purposes == {"none", "bootstrap", "register", "verify_existing", "invitation"}
IdOrNone == Ids \union Requests \union {0}

Session == [step : Steps, purpose : Purposes, email : SUBSET Emails,
            invite : SUBSET Invites, id : IdOrNone]
Account == [invite : SUBSET Invites, ticket : IdOrNone, verified : BOOLEAN]
Invite == [state : {"none", "open", "expired"}, used : Nat]
ChallengeRow == [state : {"none", "pending", "verified", "consumed"},
              purpose : {"register", "verify_existing"},
              email : SUBSET Emails, invite : SUBSET Invites, age : DOMAIN Rank,
              mailed : BOOLEAN, ticket : BOOLEAN, known : BOOLEAN]

Typed ==
    /\ session \in [Clients -> Session]
    /\ account \in [Emails -> Account]
    /\ invite \in [Invites -> Invite]
    /\ challenge \in [Ids -> ChallengeRow]
    /\ invitation \in [Requests -> SUBSET Invites]

\* A client whose transaction has got as far as some step.
In(k, steps) == session[k].step \in steps

\* The locks exclude each other: the address of a challenge, the row of a ticket, the
\* row of a code, the address of a new account, and the lock of the invitations.
Apart(j, k) ==
    /\ In(j, {"counted"}) /\ In(k, {"counted"}) => session[j].email # session[k].email
    /\ In(j, {"ticket", "code", "inserted"}) /\ In(k, {"ticket", "code", "inserted"})
          => session[j].id # session[k].id \/ session[j].id = 0
    /\ In(j, {"code", "inserted"}) /\ In(k, {"code", "inserted"})
          => session[j].invite # session[k].invite
    /\ In(j, {"inserted"}) /\ In(k, {"inserted"}) => session[j].email # session[k].email
    /\ ~(In(j, {"rated"}) /\ In(k, {"rated"}))
Exclusive == \A j, k \in Clients : j # k => Apart(j, k)

\* What a transaction works on, and what it knows while it holds its locks.
Working(k) ==
    LET s == session[k] IN
    /\ s.step \in {"ask", "counted", "ticket", "code", "inserted"} => \E e \in Emails : s.email = {e}
    /\ s.step \in {"ticket", "code", "inserted"} =>
          /\ s.id \in Ids \union {0}
          /\ \E i \in Invites : s.invite = {i}
    /\ s.step \in {"code", "inserted"} => \A i \in Invites : s.invite = {i} => invite[i].used < MaxUses
    /\ s.step = "inserted" => \A e \in Emails : s.email = {e} => ~Registered(e)
    /\ s.step \in {"ask", "counted"} => s.purpose \in {"register", "verify_existing"}
    /\ s.step \in {"mail", "rated"} => s.id \in Requests /\ s.purpose = "invitation"
Prepared == \A k \in Clients : Working(k)

Made(i) == {e \in Emails : account[e].invite = {i}}
Spent(i) == invite[i].used = Cardinality(Made(i)) /\ invite[i].used <= MaxUses

\* A ticket is handed out to whoever read the mail, and its row stays as it is until
\* the transaction that holds it ends.
TicketHeld(k) ==
    In(k, {"ticket", "code", "inserted"}) /\ session[k].id # 0 =>
        LET c == challenge[session[k].id] IN
        /\ c.state = "verified" /\ c.purpose = "register"
        /\ c.email = session[k].email /\ c.invite = session[k].invite
Confirmed(c) ==
    /\ challenge[c].state \in {"verified", "consumed"} => challenge[c].mailed
    /\ challenge[c].state = "verified" => challenge[c].purpose = "register"
Proof(e, c) ==
    /\ challenge[c].mailed /\ challenge[c].state = "consumed" /\ challenge[c].email = {e}
    /\ challenge[c].purpose = "register" =>
          account[e].ticket = c /\ challenge[c].invite = account[e].invite
Proven ==
    /\ \A c \in Ids : Confirmed(c)
    /\ \A k \in Clients : TicketHeld(k)
    /\ \A e \in Emails : account[e].verified => \E c \in Ids : Proof(e, c)

\* Who has counted may still insert.
HasRoom(k) ==
    /\ In(k, {"counted"}) => \A e \in Emails :
          session[k].email = {e} => Cardinality(Recent(e)) < ChallengeLimit
    /\ In(k, {"rated"}) => Cardinality(Mailed) < MailLimit
Rated == RateHolds /\ \A k \in Clients : HasRoom(k)

IInv == Typed /\ Exclusive /\ Prepared /\ InviteCountsAccounts /\ Proven /\ Rated

-----------------------------------------------------------------------------
(* What a step may do: move one client, change one table, or both *)

tables == <<invite, account, challenge, invitation>>

\* A client that begins, or takes one lock more, changes no table.
Takes(k, s) ==
    /\ UNCHANGED tables
    /\ \/ s.step = "owner"
       \/ s.step = "ask" /\ s.purpose \in {"register", "verify_existing"} /\ \E e \in Emails : s.email = {e}
       \/ s.step = "mail" /\ s.purpose = "invitation" /\ s.id \in Requests
       \/ /\ session[k].step = "ask" /\ s = [session[k] EXCEPT !.step = "counted"]
          /\ At({"counted"}, "email", session[k].email) = {}
          /\ \E e \in Emails : session[k].email = {e} /\ Cardinality(Recent(e)) < ChallengeLimit
       \/ /\ s.step = "ticket"
          /\ \E e \in Emails, i \in Invites :
                /\ s.email = {e} /\ s.invite = {i}
                /\ \/ s.id = 0
                   \/ s.id \in Ids /\ TicketFits(s.id, e, i) /\ RowIsFree(s.id)
       \/ /\ session[k].step = "ticket" /\ s = [session[k] EXCEPT !.step = "code"]
          /\ \E i \in Invites : session[k].invite = {i} /\ CodeIsFree(i) /\ Usable(i)
       \/ /\ session[k].step = "code" /\ s = [session[k] EXCEPT !.step = "inserted"]
          /\ At({"inserted"}, "email", session[k].email) = {}
          /\ \E e \in Emails : session[k].email = {e} /\ ~Registered(e)
       \/ /\ session[k].step = "mail" /\ s = [session[k] EXCEPT !.step = "rated"]
          /\ At({"rated"}, "purpose", "invitation") = {}
          /\ Cardinality(Mailed) < MailLimit

Moves(k) == \E s \in Session : session' = [session EXCEPT ![k] = s] /\ Takes(k, s)
Commits(k) == CommitUser(k) \/ CommitChallenge(k) \/ CommitMail(k)
Ends(k) == session' = [session EXCEPT ![k] = Idle] /\ (UNCHANGED tables \/ Commits(k))

\* A step outside all transactions.
Outside == /\ session' = session
           /\ \/ \E i \in Invites : CreateInvite(i) \/ ExpireInvite(i)
              \/ \E c \in Ids : \/ Deliver(c) \/ ConfirmNew(c) \/ ConfirmExisting(c)
                                \/ ExpireTicket(c) \/ GrowOld(c)

LEMMA IdleTyped == Idle \in Session
  BY DEF Idle, Session, Steps, Purposes, IdOrNone

LEMMA Movement ==
  ASSUME Typed, Prepared, Next
  PROVE  Outside \/ \E k \in Clients : Moves(k) \/ Ends(k)
<1> USE IdleTyped DEF Typed, Prepared, Working
<1>1. ASSUME NEW k \in Clients, Bootstrap(k) PROVE Moves(k)
  <2> DEFINE s == [Idle EXCEPT !.step = "owner", !.purpose = "bootstrap"]
  <2>1. s \in Session
    BY DEF Idle, Session, Steps, Purposes, IdOrNone
  <2>2. Begin(k, s) /\ Takes(k, s)
    BY <1>1 DEF Bootstrap, Takes, tables, Idle
  <2> QED
    BY <2>1, <2>2 DEF Begin, Moves
<1>2. ASSUME NEW k \in Clients, CommitOwner(k) PROVE Ends(k)
  BY <1>2 DEF CommitOwner, Leave, Ends, tables
<1>3. ASSUME NEW k \in Clients, NEW e \in Emails, NEW i \in Invites, AskToRegister(k, e, i)
      PROVE  Moves(k)
  <2> DEFINE s == [Idle EXCEPT !.step = "ask", !.purpose = "register",
                             !.email = {e}, !.invite = {i}]
  <2>1. s \in Session
    BY DEF Idle, Session, Steps, Purposes, IdOrNone
  <2>2. Begin(k, s) /\ Takes(k, s)
    BY <1>3 DEF AskToRegister, Takes, tables, Idle
  <2> QED
    BY <2>1, <2>2 DEF Begin, Moves
<1>4. ASSUME NEW k \in Clients, NEW e \in Emails, AskToVerify(k, e) PROVE Moves(k)
  <2> DEFINE s == [Idle EXCEPT !.step = "ask", !.purpose = "verify_existing", !.email = {e}]
  <2>1. s \in Session
    BY DEF Idle, Session, Steps, Purposes, IdOrNone
  <2>2. Begin(k, s) /\ Takes(k, s)
    BY <1>4 DEF AskToVerify, Takes, tables, Idle
  <2> QED
    BY <2>1, <2>2 DEF Begin, Moves
<1>5. ASSUME NEW k \in Clients, Count(k) PROVE Moves(k) \/ Ends(k)
  <2>1. PICK e \in session[k].email :
           IF Cardinality(Recent(e)) < ChallengeLimit THEN Enter(k, "counted") ELSE Leave(k)
    BY <1>5 DEF Count
  <2> QED
    BY <1>5, <2>1 DEF Count, AddressIsFree, Enter, Leave, Moves, Ends, Takes, tables, Session, Steps
<1>6. ASSUME NEW k \in Clients, CommitChallenge(k) PROVE Ends(k)
  BY <1>6 DEF CommitChallenge, Leave, Ends, Commits
<1>7. ASSUME NEW k \in Clients, NEW c \in Ids, NEW e \in Emails, NEW i \in Invites,
             TakeTicket(k, c, e, i)
      PROVE  Moves(k)
  <2> DEFINE s == [Idle EXCEPT !.step = "ticket", !.purpose = "register",
                             !.email = {e}, !.invite = {i}, !.id = c]
  <2>1. s \in Session
    BY DEF Idle, Session, Steps, Purposes, IdOrNone
  <2>2. Begin(k, s) /\ Takes(k, s)
    BY <1>7 DEF TakeTicket, Takes, tables, Idle
  <2> QED
    BY <2>1, <2>2 DEF Begin, Moves
<1>8. ASSUME NEW k \in Clients, NEW e \in Emails, NEW i \in Invites, StartWithCode(k, e, i)
      PROVE  Moves(k)
  <2> DEFINE s == [Idle EXCEPT !.step = "ticket", !.purpose = "register",
                             !.email = {e}, !.invite = {i}]
  <2>1. s \in Session
    BY DEF Idle, Session, Steps, Purposes, IdOrNone
  <2>2. Begin(k, s) /\ Takes(k, s)
    BY <1>8 DEF StartWithCode, Takes, tables, Idle
  <2> QED
    BY <2>1, <2>2 DEF Begin, Moves
<1>9. ASSUME NEW k \in Clients, TakeCode(k) PROVE Moves(k) \/ Ends(k)
  BY <1>9 DEF TakeCode, Enter, Leave, Moves, Ends, Takes, tables, Session, Steps
<1>10. ASSUME NEW k \in Clients, Insert(k) PROVE Moves(k) \/ Ends(k)
  <2>1. PICK e \in session[k].email :
           IF Registered(e) THEN Leave(k) ELSE Enter(k, "inserted")
    BY <1>10 DEF Insert
  <2> QED
    BY <1>10, <2>1 DEF Insert, Enter, Leave, Moves, Ends, Takes, tables, Session, Steps
<1>11. ASSUME NEW k \in Clients, CommitUser(k) PROVE Ends(k)
  BY <1>11 DEF CommitUser, Leave, Ends, Commits
<1>12. ASSUME NEW k \in Clients, NEW r \in Requests, NEW i \in Invites, AskToMail(k, r, i)
       PROVE  Moves(k)
  <2> DEFINE s == [Idle EXCEPT !.step = "mail", !.purpose = "invitation",
                             !.invite = {i}, !.id = r]
  <2>1. s \in Session
    BY DEF Idle, Session, Steps, Purposes, IdOrNone
  <2>2. Begin(k, s) /\ Takes(k, s)
    BY <1>12 DEF AskToMail, Takes, tables, Idle
  <2> QED
    BY <2>1, <2>2 DEF Begin, Moves
<1>13. ASSUME NEW k \in Clients, CheckRate(k) PROVE Moves(k) \/ Ends(k)
  BY <1>13 DEF CheckRate, Enter, Leave, Moves, Ends, Takes, tables, Session, Steps
<1>14. ASSUME NEW k \in Clients, CommitMail(k) PROVE Ends(k)
  BY <1>14 DEF CommitMail, Leave, Ends, Commits
<1>15. ASSUME NEW k \in Clients, Rollback(k) PROVE Ends(k)
  BY <1>15 DEF Rollback, Leave, Ends, tables
<1>16. ASSUME NEW i \in Invites, CreateInvite(i) \/ ExpireInvite(i) PROVE Outside
  BY <1>16 DEF Outside, CreateInvite, ExpireInvite
<1>17. ASSUME NEW c \in Ids, \/ Deliver(c) \/ ConfirmNew(c) \/ ConfirmExisting(c)
                             \/ ExpireTicket(c) \/ GrowOld(c)
       PROVE  Outside
  BY <1>17 DEF Outside, Deliver, ConfirmNew, ConfirmExisting, ExpireTicket, GrowOld
<1> QED
  BY <1>1, <1>2, <1>3, <1>4, <1>5, <1>6, <1>7, <1>8, <1>9, <1>10, <1>11, <1>12, <1>13, <1>14,
     <1>15, <1>16, <1>17 DEF Next

-----------------------------------------------------------------------------
(* The types *)

LEMMA TypedStep ==
  ASSUME Typed, Prepared, Next
  PROVE  Typed'
<1> USE IdleTyped
<1>1. ASSUME NEW k \in Clients, Moves(k) PROVE Typed'
  BY <1>1 DEF Moves, Takes, tables, Typed
<1>2. ASSUME NEW k \in Clients, Ends(k) PROVE Typed'
  <2>1. session' \in [Clients -> Session]
    BY <1>2 DEF Ends, Typed
  <2>2. CASE UNCHANGED tables
    BY <2>1, <2>2 DEF tables, Typed
  <2>3. CASE CommitUser(k)
    <3>1. session[k].id \in IdOrNone /\ session[k].invite \in SUBSET Invites
      BY DEF Typed, Session
    <3>2. account' \in [Emails -> Account]
      BY <2>3, <3>1 DEF CommitUser, Typed, Account
    <3>3. invite' \in [Invites -> Invite]
      BY <2>3 DEF CommitUser, Typed, Invite
    <3>4. challenge' \in [Ids -> ChallengeRow]
      BY <2>3 DEF CommitUser, Typed, ChallengeRow
    <3> QED
      BY <2>1, <2>3, <3>2, <3>3, <3>4 DEF CommitUser, Typed
  <2>4. CASE CommitChallenge(k)
    <3>1. PICK c \in Ids :
             challenge' = [challenge EXCEPT ![c] =
                [NoChallenge EXCEPT !.state = "pending", !.purpose = session[k].purpose,
                                    !.email = session[k].email, !.invite = session[k].invite]]
      BY <2>4 DEF CommitChallenge
    <3>2. /\ session[k].purpose \in {"register", "verify_existing"}
          /\ session[k].email \in SUBSET Emails /\ session[k].invite \in SUBSET Invites
      BY <2>4 DEF CommitChallenge, Prepared, Working, Typed, Session
    <3>3. [NoChallenge EXCEPT !.state = "pending", !.purpose = session[k].purpose,
                !.email = session[k].email, !.invite = session[k].invite] \in ChallengeRow
      BY <3>2 DEF NoChallenge, ChallengeRow, Rank
    <3>4. challenge' \in [Ids -> ChallengeRow]
      BY <3>1, <3>3 DEF Typed
    <3> QED
      BY <2>1, <2>4, <3>4 DEF CommitChallenge, Typed
  <2>5. CASE CommitMail(k)
    <3>1. session[k].invite \in SUBSET Invites
      BY DEF Typed, Session
    <3> QED
      BY <2>1, <2>5, <3>1 DEF CommitMail, Typed
  <2> QED
    BY <1>2, <2>2, <2>3, <2>4, <2>5 DEF Ends, Commits
<1>3. ASSUME Outside PROVE Typed'
  <2>1. session' = session
    BY <1>3 DEF Outside
  <2>2. ASSUME NEW i \in Invites, CreateInvite(i) \/ ExpireInvite(i) PROVE Typed'
    BY <2>1, <2>2 DEF CreateInvite, ExpireInvite, Typed, Invite
  <2>3. ASSUME NEW c \in Ids, Deliver(c) \/ ConfirmNew(c) \/ ExpireTicket(c) PROVE Typed'
    <3>1. challenge' \in [Ids -> ChallengeRow]
      <4>1. CASE Deliver(c)
        BY <4>1 DEF Deliver, Typed, ChallengeRow
      <4>2. CASE ConfirmNew(c)
        <5>1. PICK arrives \in BOOLEAN :
                 challenge' = [challenge EXCEPT ![c].state = "verified", ![c].ticket = TRUE,
                                                ![c].known = arrives]
          BY <4>2 DEF ConfirmNew
        <5> DEFINE row == [challenge[c] EXCEPT !.state = "verified", !.ticket = TRUE, !.known = arrives]
        <5>2. row \in ChallengeRow
          BY DEF Typed, ChallengeRow
        <5>3. challenge' = [challenge EXCEPT ![c] = row]
          BY <5>1 DEF Typed
        <5> HIDE DEF row
        <5> QED
          BY <5>2, <5>3 DEF Typed
      <4>3. CASE ExpireTicket(c)
        BY <4>3 DEF ExpireTicket, Typed, ChallengeRow
      <4> QED
        BY <2>3, <4>1, <4>2, <4>3
    <3> QED
      BY <2>1, <2>3, <3>1 DEF Deliver, ConfirmNew, ExpireTicket, Typed
  <2>4. ASSUME NEW c \in Ids, ConfirmExisting(c) PROVE Typed'
    <3>1. challenge' \in [Ids -> ChallengeRow]
      BY <2>4 DEF ConfirmExisting, Typed, ChallengeRow
    <3>2. account' \in [Emails -> Account]
      <4>1. \A e \in Emails : [account[e] EXCEPT !.verified = TRUE] \in Account
        BY DEF Typed, Account
      <4> QED
        BY <2>4, <4>1 DEF ConfirmExisting, Typed
    <3> QED
      BY <2>1, <2>4, <3>1, <3>2 DEF ConfirmExisting, Typed
  <2>5. ASSUME NEW c \in Ids, GrowOld(c) PROVE Typed'
    BY <2>1, <2>5 DEF GrowOld, Typed, ChallengeRow
  <2> QED
    BY <1>3, <2>2, <2>3, <2>4, <2>5 DEF Outside
<1> QED
  BY <1>1, <1>2, <1>3, Movement

-----------------------------------------------------------------------------
(* The locks *)

LEMMA Moved ==
  ASSUME Typed, NEW k \in Clients, NEW s, session' = [session EXCEPT ![k] = s]
  PROVE  \A j \in Clients : session'[j] = IF j = k THEN s ELSE session[j]
  BY DEF Typed

LEMMA ExclusiveStep ==
  ASSUME Typed, Exclusive, Prepared, Next
  PROVE  Exclusive'
<1>1. ASSUME Outside PROVE Exclusive'
  BY <1>1 DEF Outside, Exclusive, Apart, In
<1>2. ASSUME NEW k \in Clients, Ends(k) PROVE Exclusive'
  <2>1. \A j \in Clients : session'[j] = IF j = k THEN Idle ELSE session[j]
    BY <1>2, Moved DEF Ends
  <2> QED
    BY <2>1 DEF Exclusive, Apart, In, Idle
<1>3. ASSUME NEW k \in Clients, Moves(k) PROVE Exclusive'
  <2>1. PICK s \in Session : session' = [session EXCEPT ![k] = s] /\ Takes(k, s)
    BY <1>3 DEF Moves
  <2>2. \A j \in Clients : session'[j] = IF j = k THEN s ELSE session[j]
    BY <2>1, Moved
  <2>3. CASE s.step \in {"owner", "ask", "mail"}
    BY <2>2, <2>3 DEF Exclusive, Apart, In
  <2>4. CASE /\ s = [session[k] EXCEPT !.step = "counted"]
             /\ At({"counted"}, "email", session[k].email) = {}
    <3>1. s.step = "counted" /\ s.email = session[k].email
      BY <2>4 DEF Typed, Session
    <3>2. \A j \in Clients : In(j, {"counted"}) => session[j].email # s.email
      BY <2>4, <3>1 DEF At, In
    <3> QED
      BY <2>2, <3>1, <3>2 DEF Exclusive, Apart, In
  <2>5. CASE s.step = "ticket" /\ (s.id = 0 \/ RowIsFree(s.id))
    <3>1. s.id # 0 => \A j \in Clients :
                        In(j, {"ticket", "code", "inserted"}) => session[j].id # s.id
      BY <2>5 DEF RowIsFree, At, In
    <3> QED
      BY <2>2, <2>5, <3>1 DEF Exclusive, Apart, In
  <2>6. CASE /\ session[k].step = "ticket" /\ s = [session[k] EXCEPT !.step = "code"]
             /\ \E i \in Invites : session[k].invite = {i} /\ CodeIsFree(i)
    <3>1. s.step = "code" /\ s.invite = session[k].invite /\ s.id = session[k].id
      BY <2>6 DEF Typed, Session
    <3>2. \A j \in Clients : In(j, {"code", "inserted"}) => session[j].invite # s.invite
      BY <2>6, <3>1 DEF CodeIsFree, At, In
    <3>3. \A j \in Clients : j # k => Apart(j, k) /\ Apart(k, j)
      BY DEF Exclusive
    <3>4. ASSUME NEW j \in Clients, j # k PROVE Apart(j, k)' /\ Apart(k, j)'
      <4>1. session'[j] = session[j] /\ session'[k] = s
        BY <2>2, <3>4
      <4>2. Apart(j, k) /\ Apart(k, j)
        BY <3>3, <3>4
      <4> QED
        BY <2>6, <3>1, <3>2, <4>1, <4>2 DEF Apart, In
    <3>5. \A j, l \in Clients : j # k /\ l # k /\ Apart(j, l) => Apart(j, l)'
      BY <2>2 DEF Apart, In
    <3> QED
      BY <3>4, <3>5 DEF Exclusive
  <2>7. CASE /\ session[k].step = "code" /\ s = [session[k] EXCEPT !.step = "inserted"]
             /\ At({"inserted"}, "email", session[k].email) = {}
    <3>1. /\ s.step = "inserted" /\ s.invite = session[k].invite
          /\ s.id = session[k].id /\ s.email = session[k].email
      BY <2>7 DEF Typed, Session
    <3>2. \A j \in Clients : In(j, {"inserted"}) => session[j].email # s.email
      BY <2>7, <3>1 DEF At, In
    <3>3. \A j \in Clients : j # k => Apart(j, k) /\ Apart(k, j)
      BY DEF Exclusive
    <3>4. ASSUME NEW j \in Clients, j # k PROVE Apart(j, k)' /\ Apart(k, j)'
      <4>1. session'[j] = session[j] /\ session'[k] = s
        BY <2>2, <3>4
      <4>2. Apart(j, k) /\ Apart(k, j)
        BY <3>3, <3>4
      <4> QED
        BY <2>7, <3>1, <3>2, <4>1, <4>2 DEF Apart, In
    <3>5. \A j, l \in Clients : j # k /\ l # k /\ Apart(j, l) => Apart(j, l)'
      BY <2>2 DEF Apart, In
    <3> QED
      BY <3>4, <3>5 DEF Exclusive
  <2>8. CASE s = [session[k] EXCEPT !.step = "rated"] /\ At({"rated"}, "purpose", "invitation") = {}
    <3>1. s.step = "rated"
      BY <2>8 DEF Typed, Session
    <3>2. \A j \in Clients : ~In(j, {"rated"})
      BY <2>8 DEF At, In, Prepared, Working
    <3> QED
      BY <2>2, <3>1, <3>2 DEF Exclusive, Apart, In
  <2> QED
    BY <2>1, <2>3, <2>4, <2>5, <2>6, <2>7, <2>8 DEF Takes
<1> QED
  BY <1>1, <1>2, <1>3, Movement

-----------------------------------------------------------------------------
(* What a transaction knows *)

\* Outside transactions no code is spent and no account made.
LEMMA OutsideTables ==
  ASSUME Typed, Outside
  PROVE  /\ \A i \in Invites : invite'[i].used = invite[i].used
         /\ \A e \in Emails : /\ account'[e].invite = account[e].invite
                              /\ account'[e].ticket = account[e].ticket
                              /\ ~Registered(e) => account'[e] = account[e]
<1>1. ASSUME NEW i \in Invites, CreateInvite(i) \/ ExpireInvite(i)
      PROVE  account' = account /\ \A j \in Invites : invite'[j].used = invite[j].used
  BY <1>1 DEF CreateInvite, ExpireInvite, Typed, Invite
<1>2. ASSUME NEW c \in Ids, Deliver(c) \/ ConfirmNew(c) \/ ExpireTicket(c) \/ GrowOld(c)
      PROVE  account' = account /\ invite' = invite
  BY <1>2 DEF Deliver, ConfirmNew, ExpireTicket, GrowOld
<1>3. ASSUME NEW c \in Ids, ConfirmExisting(c)
      PROVE  /\ invite' = invite
             /\ \A e \in Emails : /\ account'[e].invite = account[e].invite
                                  /\ account'[e].ticket = account[e].ticket
                                  /\ ~Registered(e) => account'[e] = account[e]
  BY <1>3 DEF ConfirmExisting, Typed, Account
<1> QED
  BY <1>1, <1>2, <1>3 DEF Outside

\* Who spends a code, and makes an account, holds both alone.
LEMMA CommittedUser ==
  ASSUME Typed, Prepared, NEW k \in Clients, CommitUser(k)
  PROVE  \E e \in Emails, i \in Invites :
            /\ session[k].email = {e} /\ session[k].invite = {i}
            /\ ~Registered(e) /\ invite[i].used < MaxUses
            /\ account' = [account EXCEPT ![e] =
                              [invite |-> {i}, ticket |-> session[k].id,
                               verified |-> session[k].id # 0]]
            /\ invite' = [invite EXCEPT ![i].used = @ + 1]
<1>1. PICK e \in Emails, i \in Invites :
         /\ session[k].email = {e} /\ session[k].invite = {i}
         /\ ~Registered(e) /\ invite[i].used < MaxUses
  BY DEF CommitUser, Prepared, Working
<1>2. account' = [account EXCEPT ![e] = [invite |-> {i}, ticket |-> session[k].id,
                                         verified |-> session[k].id # 0]]
  BY <1>1 DEF CommitUser, Typed
<1>3. invite' = [invite EXCEPT ![i].used = @ + 1]
  BY <1>1 DEF CommitUser, Typed
<1> QED
  BY <1>1, <1>2, <1>3

LEMMA StillWorking ==
  ASSUME NEW j \in Clients, Working(j), session'[j] = session[j],
         \A i \in Invites : In(j, {"code", "inserted"}) /\ session[j].invite = {i}
            => invite'[i].used = invite[i].used,
         \A e \in Emails : In(j, {"inserted"}) /\ session[j].email = {e} /\ ~Registered(e)
            => account'[e] = account[e]
  PROVE  Working(j)'
  BY DEF Working, In, Registered

LEMMA PreparedStep ==
  ASSUME Typed, Exclusive, Prepared, Next
  PROVE  Prepared'
<1>1. ASSUME Outside PROVE Prepared'
  <2>1. session' = session
    BY <1>1 DEF Outside
  <2> QED
    BY <1>1, <2>1, OutsideTables, StillWorking DEF Prepared
<1>2. ASSUME NEW k \in Clients, Moves(k) PROVE Prepared'
  <2>1. PICK s \in Session : session' = [session EXCEPT ![k] = s] /\ Takes(k, s)
    BY <1>2 DEF Moves
  <2>2. \A j \in Clients : session'[j] = IF j = k THEN s ELSE session[j]
    BY <2>1, Moved
  <2>3. invite' = invite /\ account' = account
    BY <2>1 DEF Takes, tables
  <2>4. ASSUME NEW j \in Clients, j # k PROVE Working(j)'
    BY <2>2, <2>3, <2>4, StillWorking DEF Prepared
  <2>5. Working(k)'
    <3>1. Working(k) /\ session'[k] = s
      BY <2>2 DEF Prepared
    <3>2. CASE s.step \in {"owner", "ask", "mail"}
      BY <2>1, <3>1, <3>2 DEF Working, Takes, Typed, Session
    <3>3. CASE s.step = "ticket"
      BY <2>1, <3>1, <3>3 DEF Working, Takes, Typed, Session
    <3>4. CASE s.step \in {"counted", "rated"}
      BY <2>1, <3>1, <3>4 DEF Working, Takes, Typed, Session
    <3>5. CASE s.step = "code"
      BY <2>1, <2>3, <3>1, <3>5 DEF Working, Takes, Usable, Typed, Session
    <3>6. CASE s.step = "inserted"
      BY <2>1, <2>3, <3>1, <3>6 DEF Working, Takes, Registered, Typed, Session
    <3>7. s.step \in {"owner", "ask", "mail", "ticket", "counted", "rated", "code", "inserted"}
      BY <2>1 DEF Takes, Typed, Session
    <3> QED
      BY <3>2, <3>3, <3>4, <3>5, <3>6, <3>7
  <2> QED
    BY <2>4, <2>5 DEF Prepared
<1>3. ASSUME NEW k \in Clients, Ends(k) PROVE Prepared'
  <2>1. \A j \in Clients : session'[j] = IF j = k THEN Idle ELSE session[j]
    BY <1>3, Moved DEF Ends
  <2>2. Working(k)'
    BY <2>1 DEF Working, Idle
  <2>3. ASSUME NEW j \in Clients, j # k PROVE Working(j)'
    <3>1. Working(j) /\ session'[j] = session[j] /\ Apart(j, k)
      BY <2>1, <2>3 DEF Prepared, Exclusive
    <3>2. CASE UNCHANGED tables \/ CommitChallenge(k) \/ CommitMail(k)
      BY <3>1, <3>2, StillWorking DEF tables, CommitChallenge, CommitMail
    <3>3. CASE CommitUser(k)
      <4>1. PICK e \in Emails, i \in Invites :
               /\ session[k].email = {e} /\ session[k].invite = {i}
               /\ account' = [account EXCEPT ![e] = [invite |-> {i}, ticket |-> session[k].id,
                                                     verified |-> session[k].id # 0]]
               /\ invite' = [invite EXCEPT ![i].used = @ + 1]
        BY <3>3, CommittedUser
      <4>2. In(k, {"inserted"}) /\ In(k, {"code", "inserted"})
        BY <3>3 DEF CommitUser, In
      <4>3. \A d \in Emails : In(j, {"inserted"}) /\ session[j].email = {d} => account'[d] = account[d]
        BY <3>1, <4>1, <4>2 DEF Apart, Typed
      <4>4. \A h \in Invites : In(j, {"code", "inserted"}) /\ session[j].invite = {h}
                                => invite'[h].used = invite[h].used
        BY <3>1, <4>1, <4>2 DEF Apart, Typed
      <4> QED
        BY <3>1, <4>3, <4>4, StillWorking
    <3> QED
      BY <1>3, <3>2, <3>3 DEF Ends, Commits
  <2> QED
    BY <2>2, <2>3 DEF Prepared
<1> QED
  BY <1>1, <1>2, <1>3, Movement

-----------------------------------------------------------------------------
(* A code is worth what it says *)

LEMMA CountStep ==
  ASSUME Typed, Exclusive, Prepared, InviteCountsAccounts, Next
  PROVE  InviteCountsAccounts'
<1> USE DEF InviteCountsAccounts
<1>1. ASSUME NEW i \in Invites, Made(i)' = Made(i), invite'[i].used = invite[i].used
      PROVE  Spent(i)'
  BY <1>1 DEF Spent, Made
<1>2. ASSUME Outside PROVE InviteCountsAccounts'
  BY <1>1, <1>2, OutsideTables DEF Made, Spent
<1>3. ASSUME account' = account, invite' = invite PROVE InviteCountsAccounts'
  BY <1>3
<1>4. ASSUME NEW k \in Clients, CommitUser(k) PROVE InviteCountsAccounts'
  <2>1. PICK e \in Emails, i \in Invites :
           /\ ~Registered(e) /\ invite[i].used < MaxUses
           /\ account' = [account EXCEPT ![e] = [invite |-> {i}, ticket |-> session[k].id,
                                                 verified |-> session[k].id # 0]]
           /\ invite' = [invite EXCEPT ![i].used = @ + 1]
    BY <1>4, CommittedUser
  <2>2. account[e].invite = {}
    BY <2>1 DEF Registered, Nobody
  <2>3. \A d \in Emails : account'[d].invite = IF d = e THEN {i} ELSE account[d].invite
    BY <2>1 DEF Typed
  <2>4. ASSUME NEW j \in Invites, j # i PROVE Spent(j)'
    <3>1. Made(j)' = Made(j)
      BY <2>2, <2>3, <2>4 DEF Made
    <3>2. invite'[j].used = invite[j].used
      BY <2>1, <2>4 DEF Typed
    <3> QED
      BY <1>1, <3>1, <3>2
  <2>5. Spent(i)'
    <3>1. Made(i)' = Made(i) \union {e} /\ e \notin Made(i)
      BY <2>2, <2>3 DEF Made
    <3>2. IsFiniteSet(Made(i))
      BY SetsAreFinite, FS_Subset DEF Made
    <3>3. Cardinality(Made(i)') = Cardinality(Made(i)) + 1
      BY <3>1, <3>2, FS_AddElement
    <3>4. invite'[i].used = invite[i].used + 1 /\ invite[i].used \in Nat
      BY <2>1 DEF Typed, Invite
    <3>5. invite[i].used = Cardinality(Made(i))
      BY DEF Made
    <3> QED
      BY <2>1, <3>3, <3>4, <3>5, LimitsArePositive DEF Spent
  <2> QED
    BY <2>4, <2>5 DEF Spent, Made
<1> QED
  BY <1>2, <1>3, <1>4, Movement
     DEF Moves, Takes, Ends, Commits, tables, CommitChallenge, CommitMail

-----------------------------------------------------------------------------
(* What a token proves *)

\* A challenge never changes what it is about, nor goes back.
Advances(c) ==
    /\ challenge'[c].purpose = challenge[c].purpose
    /\ challenge'[c].email = challenge[c].email /\ challenge'[c].invite = challenge[c].invite
    /\ challenge[c].mailed => challenge'[c].mailed

LEMMA OutsideChallenges ==
  ASSUME Typed, Outside, NEW d \in Ids, Confirmed(d)
  PROVE  /\ Advances(d) /\ Confirmed(d)'
         /\ challenge[d].state \in {"verified", "consumed"} => challenge'[d].state = challenge[d].state
<1> DEFINE Goal == /\ Advances(d) /\ Confirmed(d)'
                   /\ challenge[d].state \in {"verified", "consumed"}
                         => challenge'[d].state = challenge[d].state
<1>1. ASSUME NEW i \in Invites, CreateInvite(i) \/ ExpireInvite(i) PROVE Goal
  BY <1>1 DEF CreateInvite, ExpireInvite, Advances, Confirmed
<1>2. ASSUME NEW c \in Ids, Deliver(c) \/ ExpireTicket(c) PROVE Goal
  BY <1>2 DEF Deliver, ExpireTicket, Advances, Confirmed, Typed, ChallengeRow
<1>3. ASSUME NEW c \in Ids, GrowOld(c) PROVE Goal
  BY <1>3 DEF GrowOld, Advances, Confirmed, Typed, ChallengeRow
<1>4. ASSUME NEW c \in Ids, ConfirmNew(c) PROVE Goal
  BY <1>4 DEF ConfirmNew, Pending, Advances, Confirmed, Typed, ChallengeRow
<1>5. ASSUME NEW c \in Ids, ConfirmExisting(c) PROVE Goal
  BY <1>5 DEF ConfirmExisting, Pending, Advances, Confirmed, Typed, ChallengeRow
<1> QED
  BY <1>1, <1>2, <1>3, <1>4, <1>5 DEF Outside

LEMMA StillHeld ==
  ASSUME NEW j \in Clients, TicketHeld(j), session'[j] = session[j],
         In(j, {"ticket", "code", "inserted"}) /\ session[j].id # 0 =>
            /\ challenge'[session[j].id].state = "verified"
            /\ challenge'[session[j].id].purpose = challenge[session[j].id].purpose
            /\ challenge'[session[j].id].email = challenge[session[j].id].email
            /\ challenge'[session[j].id].invite = challenge[session[j].id].invite
  PROVE  TicketHeld(j)'
  BY DEF TicketHeld, In

LEMMA HeldTicket ==
  ASSUME Prepared, Proven, NEW j \in Clients,
         In(j, {"ticket", "code", "inserted"}), session[j].id # 0
  PROVE  session[j].id \in Ids /\ challenge[session[j].id].state = "verified"
  BY DEF Prepared, Working, Proven, TicketHeld, In

LEMMA ProvenOutside ==
  ASSUME Typed, Prepared, Proven, Outside
  PROVE  Proven'
<1>1. \A c \in Ids : /\ Advances(c) /\ Confirmed(c)'
                     /\ challenge[c].state \in {"verified", "consumed"}
                           => challenge'[c].state = challenge[c].state
  BY OutsideChallenges DEF Proven
<1>2. ASSUME NEW j \in Clients PROVE TicketHeld(j)'
  <2>1. session'[j] = session[j] /\ TicketHeld(j)
    BY DEF Outside, Proven
  <2> QED
    BY <1>1, <2>1, HeldTicket, StillHeld DEF Advances
<1>3. ASSUME NEW e \in Emails, account'[e].verified PROVE \E c \in Ids : Proof(e, c)'
  <2>1. CASE account[e].verified
    <3>1. PICK c \in Ids : Proof(e, c)
      BY <2>1 DEF Proven
    <3>2. Proof(e, c)'
      BY <1>1, <3>1, OutsideTables DEF Proof, Advances
    <3> QED
      BY <3>2
  <2>2. CASE ~account[e].verified
    <3>1. PICK c \in Ids : ConfirmExisting(c)
      BY <1>3, <2>2 DEF Outside, CreateInvite, ExpireInvite, Deliver, ConfirmNew, ExpireTicket, GrowOld
    <3>2. challenge[c].email = {e}
      BY <1>3, <2>2, <3>1 DEF ConfirmExisting, Typed
    <3>3. /\ challenge'[c].state = "consumed" /\ challenge'[c].mailed
          /\ challenge'[c].purpose = "verify_existing" /\ challenge'[c].email = {e}
      BY <3>1, <3>2 DEF ConfirmExisting, Typed, ChallengeRow
    <3> QED
      BY <3>3 DEF Proof
  <2> QED
    BY <2>1, <2>2
<1> QED
  BY <1>1, <1>2, <1>3 DEF Proven

LEMMA ProvenMoves ==
  ASSUME Typed, Prepared, Proven, NEW k \in Clients, Moves(k)
  PROVE  Proven'
<1>1. PICK s \in Session : session' = [session EXCEPT ![k] = s] /\ Takes(k, s)
  BY DEF Moves
<1>2. \A j \in Clients : session'[j] = IF j = k THEN s ELSE session[j]
  BY <1>1, Moved
<1>3. challenge' = challenge /\ account' = account
  BY <1>1 DEF Takes, tables
<1>4. ASSUME NEW j \in Clients, j # k PROVE TicketHeld(j)'
  BY <1>2, <1>3, <1>4, HeldTicket, StillHeld DEF Proven
<1>5. TicketHeld(k)'
  <2>1. session'[k] = s /\ TicketHeld(k)
    BY <1>2 DEF Proven
  <2>2. CASE s.step = "ticket"
    <3>1. PICK e \in Emails, i \in Invites :
             /\ s.email = {e} /\ s.invite = {i}
             /\ s.id = 0 \/ (s.id \in Ids /\ TicketFits(s.id, e, i))
      BY <1>1, <2>2 DEF Takes, Typed, Session
    <3>2. s.id # 0 => challenge[s.id].purpose = "register"
      BY <3>1 DEF TicketFits, Proven, Confirmed
    <3> QED
      BY <1>3, <2>1, <3>1, <3>2 DEF TicketHeld, TicketFits
  <2>3. CASE s.step \in {"code", "inserted"}
    <3>1. /\ session[k].step \in {"ticket", "code"}
          /\ s.email = session[k].email /\ s.invite = session[k].invite /\ s.id = session[k].id
      BY <1>1, <2>3 DEF Takes, Typed, Session
    <3> QED
      BY <1>3, <2>1, <3>1 DEF TicketHeld, In
  <2> QED
    BY <2>1, <2>2, <2>3 DEF TicketHeld, In
<1> QED
  BY <1>3, <1>4, <1>5 DEF Proven, Confirmed, Proof

LEMMA ProvenEnds ==
  ASSUME Typed, Exclusive, Prepared, Proven, NEW k \in Clients, Ends(k)
  PROVE  Proven'
<1>1. \A j \in Clients : session'[j] = IF j = k THEN Idle ELSE session[j]
  BY Moved DEF Ends
<1>2. TicketHeld(k)'
  BY <1>1 DEF TicketHeld, In, Idle
<1>3. CASE challenge' = challenge /\ account' = account
  <2>1. ASSUME NEW j \in Clients, j # k PROVE TicketHeld(j)'
    BY <1>1, <1>3, <2>1, HeldTicket, StillHeld DEF Proven
  <2> QED
    BY <1>2, <1>3, <2>1 DEF Proven, Confirmed, Proof
<1>4. CASE CommitChallenge(k)
  <2>1. PICK c \in Ids :
           /\ challenge[c].state = "none"
           /\ \A d \in Ids : d # c => challenge'[d] = challenge[d]
           /\ challenge'[c].state = "pending"
    BY <1>4 DEF CommitChallenge, Used, NoChallenge, Typed
  <2>2. account' = account
    BY <1>4 DEF CommitChallenge
  <2>3. ASSUME NEW j \in Clients, j # k PROVE TicketHeld(j)'
    BY <1>1, <2>1, <2>3, HeldTicket, StillHeld DEF Proven
  <2>4. ASSUME NEW d \in Ids PROVE Confirmed(d)'
    <3>1. CASE d = c
      BY <2>1, <3>1 DEF Confirmed
    <3>2. CASE d # c
      <4>1. Confirmed(d) /\ challenge'[d] = challenge[d]
        BY <2>1, <3>2 DEF Proven
      <4> QED
        BY <4>1 DEF Confirmed
    <3> QED
      BY <3>1, <3>2
  <2>5. \A d \in Ids, e \in Emails : Proof(e, d) => Proof(e, d)'
    BY <2>1, <2>2 DEF Proof
  <2> QED
    BY <1>2, <2>2, <2>3, <2>4, <2>5 DEF Proven
<1>5. CASE CommitUser(k)
  <2>1. PICK e \in Emails, i \in Invites :
           /\ session[k].email = {e} /\ session[k].invite = {i} /\ ~Registered(e)
           /\ account' = [account EXCEPT ![e] = [invite |-> {i}, ticket |-> session[k].id,
                                                 verified |-> session[k].id # 0]]
    BY <1>5, CommittedUser
  <2>2. /\ challenge' = [c \in Ids |-> IF session[k].id = c
                           THEN [challenge[c] EXCEPT !.state = "consumed"] ELSE challenge[c]]
        /\ In(k, {"ticket", "code", "inserted"}) /\ TicketHeld(k)
    BY <1>5 DEF CommitUser, In, Proven
  <2>3. \A d \in Ids : Advances(d)
    BY <2>2 DEF Advances, Typed, ChallengeRow
  <2>4. \A d \in Ids : challenge'[d].state = IF session[k].id = d THEN "consumed" ELSE challenge[d].state
    BY <2>2 DEF Typed, ChallengeRow
  <2>5. ASSUME NEW j \in Clients, j # k PROVE TicketHeld(j)'
    <3>1. Apart(j, k) /\ session'[j] = session[j] /\ TicketHeld(j)
      BY <1>1, <2>5 DEF Exclusive, Proven
    <3>2. In(j, {"ticket", "code", "inserted"}) /\ session[j].id # 0 => session[j].id # session[k].id
      BY <2>2, <3>1 DEF Apart
    <3> QED
      BY <2>3, <2>4, <3>1, <3>2, HeldTicket, StillHeld DEF Advances
  <2>6. session[k].id # 0 => /\ session[k].id \in Ids
                             /\ challenge[session[k].id].state = "verified"
                             /\ challenge[session[k].id].email = {e}
                             /\ challenge[session[k].id].invite = {i}
                             /\ challenge[session[k].id].mailed
    BY <2>1, <2>2, HeldTicket DEF TicketHeld, Proven, Confirmed
  <2>7. 0 \notin Ids
    BY DEF Ids
  <2>8. \A d \in Ids : Confirmed(d)'
    BY <2>3, <2>4, <2>6, <2>7 DEF Proven, Confirmed, Advances
  <2>9. ASSUME NEW d \in Emails, account'[d].verified PROVE \E c \in Ids : Proof(d, c)'
    <3>1. CASE d = e
      <4>1. /\ session[k].id # 0 /\ account'[e].ticket = session[k].id
            /\ account'[e].invite = {i}
        BY <2>1, <2>9, <3>1 DEF Typed
      <4> QED
        BY <2>3, <2>4, <2>6, <3>1, <4>1 DEF Proof, Advances
    <3>2. CASE d # e
      <4>1. account'[d] = account[d]
        BY <2>1, <3>2 DEF Typed
      <4>2. PICK c \in Ids : Proof(d, c)
        BY <2>9, <4>1 DEF Proven
      <4> QED
        BY <2>3, <2>4, <4>1, <4>2 DEF Proof, Advances
    <3> QED
      BY <3>1, <3>2
  <2> QED
    BY <1>2, <2>5, <2>8, <2>9 DEF Proven
<1> QED
  BY <1>3, <1>4, <1>5 DEF Ends, Commits, tables, CommitMail

LEMMA ProvenStep ==
  ASSUME Typed, Exclusive, Prepared, Proven, Next
  PROVE  Proven'
  BY Movement, ProvenOutside, ProvenMoves, ProvenEnds

LEMMA ProvenEnough == Proven => VerifiedWasProven
  BY DEF Proven, Proof, VerifiedWasProven

-----------------------------------------------------------------------------
(* Limits hold although they are checked before the row is written *)

\* What is counted becomes less as time passes.
LEMMA FewerRecent ==
  ASSUME NEW e \in Emails, \A c \in Ids : c \in Recent(e)' => c \in Recent(e)
  PROVE  /\ IsFiniteSet(Recent(e)) /\ Cardinality(Recent(e)) \in Nat
         /\ Cardinality(Recent(e)') \in Nat
         /\ Cardinality(Recent(e)') <= Cardinality(Recent(e))
<1>1. IsFiniteSet(Ids) /\ Recent(e) \in SUBSET Ids
  BY LimitsArePositive, FS_Interval DEF Ids, Recent, Used
<1>2. IsFiniteSet(Recent(e))
  BY <1>1, FS_Subset
<1>3. Recent(e)' \in SUBSET Recent(e)
  BY DEF Recent, Used
<1> QED
  BY <1>2, <1>3, FS_Subset, FS_CardinalityType

LEMMA OutsideAges ==
  ASSUME Typed, Outside
  PROVE  \A e \in Emails, c \in Ids : c \in Recent(e)' => c \in Recent(e)
<1> DEFINE Older(d) == /\ challenge'[d].email = challenge[d].email
                       /\ challenge'[d].state # "none" => challenge[d].state # "none"
                       /\ challenge'[d].age # "old" => challenge[d].age # "old"
<1>1. ASSUME NEW i \in Invites, CreateInvite(i) \/ ExpireInvite(i) PROVE challenge' = challenge
  BY <1>1 DEF CreateInvite, ExpireInvite
<1>2. ASSUME NEW c \in Ids, \/ Deliver(c) \/ ConfirmNew(c) \/ ConfirmExisting(c)
                            \/ ExpireTicket(c) \/ GrowOld(c)
      PROVE  \A d \in Ids : Older(d)
  <2>1. CASE Deliver(c) \/ ExpireTicket(c)
    BY <2>1 DEF Deliver, ExpireTicket, Typed, ChallengeRow
  <2>2. CASE ConfirmNew(c) \/ ConfirmExisting(c)
    BY <2>2 DEF ConfirmNew, ConfirmExisting, Pending, Typed, ChallengeRow
  <2>3. CASE GrowOld(c)
    <3>1. PICK age \in DOMAIN Rank :
             /\ Rank[age] = Rank[challenge[c].age] + 1
             /\ challenge' = [challenge EXCEPT ![c].age = age]
      BY <2>3 DEF GrowOld
    <3>2. challenge[c].age # "old"
      BY <3>1 DEF Rank
    <3> QED
      BY <3>1, <3>2 DEF Typed, ChallengeRow
  <2> QED
    BY <1>2, <2>1, <2>2, <2>3
<1>3. \A d \in Ids : Older(d)
  BY <1>1, <1>2 DEF Outside
<1> QED
  BY <1>3 DEF Recent, Used

\* Those that have counted keep their place as long as nobody else writes.
LEMMA StillRated ==
  ASSUME NEW j \in Clients, session'[j] = session[j], invitation' = invitation,
         \A e \in Emails, c \in Ids : c \in Recent(e)' => c \in Recent(e),
         HasRoom(j)
  PROVE  HasRoom(j)'
<1>1. Mailed' = Mailed
  BY DEF Mailed, Known
<1>2. \A e \in Emails : Cardinality(Recent(e)) < ChallengeLimit
                          => Cardinality(Recent(e)') < ChallengeLimit
  BY FewerRecent, LimitsArePositive
<1>3. ASSUME NEW e \in Emails, In(j, {"counted"})', session'[j].email = {e}
      PROVE  Cardinality(Recent(e)') < ChallengeLimit
  BY <1>2, <1>3 DEF HasRoom, In
<1>4. In(j, {"rated"})' => Cardinality(Mailed') < MailLimit
  BY <1>1 DEF HasRoom, In
<1> QED
  BY <1>3, <1>4 DEF HasRoom

LEMMA StillHolds ==
  ASSUME RateHolds, invitation' = invitation,
         \A e \in Emails, c \in Ids : c \in Recent(e)' => c \in Recent(e)
  PROVE  RateHolds'
<1>1. Mailed' = Mailed
  BY DEF Mailed, Known
<1>2. \A e \in Emails : Cardinality(Recent(e)') <= ChallengeLimit
  BY FewerRecent, LimitsArePositive DEF RateHolds
<1> QED
  BY <1>1, <1>2 DEF RateHolds

\* A challenge is written for an address that still has room, by the only client that
\* has counted for it.
LEMMA RatedChallenge ==
  ASSUME Typed, Exclusive, Prepared, Rated, NEW k \in Clients, Ends(k), CommitChallenge(k)
  PROVE  Rated'
<1>1. \A j \in Clients : session'[j] = IF j = k THEN Idle ELSE session[j]
  BY Moved DEF Ends
<1>2. PICK e \in Emails : session[k].email = {e}
  BY DEF CommitChallenge, Prepared, Working
<1>3. Cardinality(Recent(e)) < ChallengeLimit
  BY <1>2 DEF CommitChallenge, Rated, HasRoom, In
<1>4. PICK c \in Ids :
         /\ challenge[c].state = "none"
         /\ \A d \in Ids : d # c => challenge'[d] = challenge[d]
         /\ challenge'[c].email = {e}
  BY <1>2 DEF CommitChallenge, Used, NoChallenge, Typed
<1>5. /\ Recent(e)' \in SUBSET (Recent(e) \union {c}) /\ c \notin Recent(e)
  BY <1>4 DEF Recent, Used
<1>6. Cardinality(Recent(e)') <= ChallengeLimit
  <2>1. IsFiniteSet(Recent(e)) /\ Cardinality(Recent(e)) \in Nat
    <3>1. IsFiniteSet(Ids) /\ Recent(e) \in SUBSET Ids
      BY LimitsArePositive, FS_Interval DEF Ids, Recent, Used
    <3> QED
      BY <3>1, FS_Subset, FS_CardinalityType
  <2>2. /\ IsFiniteSet(Recent(e) \union {c})
        /\ Cardinality(Recent(e) \union {c}) = Cardinality(Recent(e)) + 1
    BY <1>5, <2>1, FS_AddElement
  <2>3. IsFiniteSet(Recent(e)') /\ Cardinality(Recent(e)') <= Cardinality(Recent(e)) + 1
    BY <1>5, <2>2, FS_Subset
  <2>4. Cardinality(Recent(e)') \in Nat
    BY <2>3, FS_CardinalityType
  <2> QED
    BY <1>3, <2>1, <2>3, <2>4, LimitsArePositive
<1>7. \A d \in Emails : d # e => Recent(d)' = Recent(d)
  BY <1>4 DEF Recent, Used
<1>8. Mailed' = Mailed
  BY DEF CommitChallenge, Mailed, Known
<1>9. RateHolds'
  BY <1>6, <1>7, <1>8 DEF Rated, RateHolds
<1>10. HasRoom(k)'
  BY <1>1 DEF HasRoom, In, Idle
<1>11. ASSUME NEW j \in Clients, j # k PROVE HasRoom(j)'
  <2>1. HasRoom(j) /\ session'[j] = session[j]
    BY <1>1, <1>11 DEF Rated
  <2>2. In(j, {"counted"}) => session[j].email # {e}
    BY <1>2, <1>11 DEF CommitChallenge, Exclusive, Apart, In
  <2> QED
    BY <1>7, <1>8, <2>1, <2>2 DEF HasRoom, In
<1> QED
  BY <1>9, <1>10, <1>11 DEF Rated

\* The same of an invitation and the only client that has looked at the rate.
LEMMA RatedMail ==
  ASSUME Typed, Exclusive, Prepared, Rated, NEW k \in Clients, Ends(k), CommitMail(k)
  PROVE  Rated'
<1>1. \A j \in Clients : session'[j] = IF j = k THEN Idle ELSE session[j]
  BY Moved DEF Ends
<1>2. In(k, {"rated"}) /\ session[k].id \in Requests
  BY DEF CommitMail, In, Prepared, Working
<1>3. Mailed' \in SUBSET (Mailed \union {session[k].id})
  BY <1>2 DEF CommitMail, Mailed, Known, Typed
<1>4. Cardinality(Mailed) < MailLimit
  BY <1>2 DEF Rated, HasRoom
<1>5. IsFiniteSet(Mailed) /\ Cardinality(Mailed) \in Nat
  BY SetsAreFinite, FS_Subset, FS_CardinalityType DEF Mailed
<1>6. /\ IsFiniteSet(Mailed \union {session[k].id})
      /\ Cardinality(Mailed \union {session[k].id}) <= Cardinality(Mailed) + 1
  <2>1. /\ IsFiniteSet(Mailed \union {session[k].id})
        /\ Cardinality(Mailed \union {session[k].id})
             = IF session[k].id \in Mailed THEN Cardinality(Mailed) ELSE Cardinality(Mailed) + 1
    BY <1>5, FS_AddElement
  <2> QED
    BY <1>5, <2>1
<1>7. Cardinality(Mailed') <= MailLimit
  <2>1. /\ IsFiniteSet(Mailed')
        /\ Cardinality(Mailed') <= Cardinality(Mailed \union {session[k].id})
    BY <1>3, <1>6, FS_Subset
  <2>2. Cardinality(Mailed') \in Nat /\ Cardinality(Mailed \union {session[k].id}) \in Nat
    BY <1>6, <2>1, FS_CardinalityType
  <2> QED
    BY <1>4, <1>5, <1>6, <2>1, <2>2, LimitsArePositive
<1>8. challenge' = challenge
  BY DEF CommitMail
<1>9. RateHolds'
  BY <1>7, <1>8 DEF Rated, RateHolds, Recent, Used
<1>10. HasRoom(k)'
  BY <1>1 DEF HasRoom, In, Idle
<1>11. ASSUME NEW j \in Clients, j # k PROVE HasRoom(j)'
  <2>1. HasRoom(j) /\ session'[j] = session[j]
    BY <1>1, <1>11 DEF Rated
  <2>2. ~In(j, {"rated"})
    BY <1>2, <1>11 DEF Exclusive, Apart
  <2> QED
    BY <1>8, <2>1, <2>2 DEF HasRoom, In, Recent, Used
<1> QED
  BY <1>9, <1>10, <1>11 DEF Rated

LEMMA RatedStep ==
  ASSUME Typed, Exclusive, Prepared, Proven, Rated, Next
  PROVE  Rated'
<1>1. ASSUME Outside PROVE Rated'
  <2>1. session' = session /\ invitation' = invitation
    BY <1>1 DEF Outside, CreateInvite, ExpireInvite, Deliver, ConfirmNew, ConfirmExisting,
                ExpireTicket, GrowOld
  <2> QED
    BY <1>1, <2>1, OutsideAges, StillRated, StillHolds DEF Rated
<1>2. ASSUME NEW k \in Clients, Moves(k) PROVE Rated'
  <2>1. PICK s \in Session : session' = [session EXCEPT ![k] = s] /\ Takes(k, s)
    BY <1>2 DEF Moves
  <2>2. \A j \in Clients : session'[j] = IF j = k THEN s ELSE session[j]
    BY <2>1, Moved
  <2>3. /\ invitation' = invitation /\ challenge' = challenge
    BY <2>1 DEF Takes, tables
  <2>4. /\ Mailed' = Mailed /\ \A e \in Emails : Recent(e)' = Recent(e)
    BY <2>3 DEF Mailed, Known, Recent, Used
  <2>5. RateHolds'
    BY <2>4 DEF Rated, RateHolds
  <2>6. ASSUME NEW j \in Clients, j # k PROVE HasRoom(j)'
    BY <2>2, <2>3, <2>4, <2>6, StillRated DEF Rated
  <2>7. HasRoom(k)'
    <3>1. session'[k] = s
      BY <2>2
    <3>2. s.step = "counted" => \E e \in Emails : s.email = {e} /\ Cardinality(Recent(e)) < ChallengeLimit
      BY <2>1 DEF Takes, Typed, Session
    <3>3. s.step = "rated" => Cardinality(Mailed) < MailLimit
      BY <2>1 DEF Takes, Typed, Session
    <3>4. ASSUME s.step = "counted", NEW e \in Emails, s.email = {e}
          PROVE  Cardinality(Recent(e)') < ChallengeLimit
      BY <2>4, <3>2, <3>4
    <3>5. s.step = "rated" => Cardinality(Mailed') < MailLimit
      BY <2>4, <3>3
    <3> QED
      BY <3>1, <3>4, <3>5 DEF HasRoom, In
  <2> QED
    BY <2>5, <2>6, <2>7 DEF Rated
<1>3. ASSUME NEW k \in Clients, Ends(k) PROVE Rated'
  <2>1. ASSUME UNCHANGED tables \/ CommitUser(k) PROVE Rated'
    <3>1. \A j \in Clients : session'[j] = IF j = k THEN Idle ELSE session[j]
      BY <1>3, Moved DEF Ends
    <3>2. invitation' = invitation
      BY <2>1 DEF tables, CommitUser
    <3>3. \A e \in Emails, c \in Ids : c \in Recent(e)' => c \in Recent(e)
      <4>1. CASE UNCHANGED tables
        BY <4>1 DEF tables, Recent, Used
      <4>2. CASE CommitUser(k)
        <5>1. In(k, {"ticket", "code", "inserted"}) /\ 0 \notin Ids
          BY <4>2 DEF CommitUser, In, Ids
        <5>2. session[k].id \in Ids => challenge[session[k].id].state = "verified"
          BY <5>1, HeldTicket
        <5>3. challenge' = [c \in Ids |-> IF session[k].id = c
                             THEN [challenge[c] EXCEPT !.state = "consumed"] ELSE challenge[c]]
          BY <4>2 DEF CommitUser
        <5> QED
          BY <5>2, <5>3 DEF Recent, Used, Typed, ChallengeRow
      <4> QED
        BY <2>1, <4>1, <4>2
    <3>4. RateHolds'
      BY <3>2, <3>3, StillHolds DEF Rated
    <3>5. ASSUME NEW j \in Clients, j # k PROVE HasRoom(j)'
      BY <3>1, <3>2, <3>3, <3>5, StillRated DEF Rated
    <3>6. HasRoom(k)'
      BY <3>1 DEF HasRoom, In, Idle
    <3> QED
      BY <3>4, <3>5, <3>6 DEF Rated
  <2> QED
    BY <1>3, <2>1, RatedChallenge, RatedMail DEF Ends, Commits
<1> QED
  BY <1>1, <1>2, <1>3, Movement

-----------------------------------------------------------------------------
(* Theorems *)

LEMMA Initially == Init => IInv
<1> SUFFICES ASSUME Init PROVE IInv
  OBVIOUS
<1>1. Typed
  BY IdleTyped DEF Init, Typed, Nobody, NoChallenge, Account, Invite, ChallengeRow, IdOrNone, Rank
<1>2. \A k \in Clients : session[k].step = "idle"
  BY DEF Init, Idle
<1>3. Exclusive /\ Prepared
  BY <1>2 DEF Exclusive, Apart, In, Prepared, Working
<1>4. InviteCountsAccounts
  <2>1. \A i \in Invites : {e \in Emails : account[e].invite = {i}} = {} /\ invite[i].used = 0
    BY DEF Init, Nobody
  <2>2. Cardinality({}) = 0 /\ 0 <= MaxUses
    BY FS_EmptySet, LimitsArePositive
  <2> QED
    BY <2>1, <2>2 DEF InviteCountsAccounts
<1>5. Proven
  BY <1>2 DEF Init, Proven, Confirmed, TicketHeld, In, NoChallenge, Nobody
<1>6. Rated
  <2>1. (\A e \in Emails : Recent(e) = {}) /\ Mailed = {}
    BY DEF Init, Recent, Used, NoChallenge, Mailed, Known
  <2> QED
    BY <1>2, <2>1, FS_EmptySet, LimitsArePositive DEF Rated, RateHolds, HasRoom, In
<1> QED
  BY <1>1, <1>3, <1>4, <1>5, <1>6 DEF IInv

LEMMA Unmoved == IInv /\ UNCHANGED vars => IInv'
<1> SUFFICES ASSUME IInv, UNCHANGED vars PROVE IInv'
  OBVIOUS
<1> USE DEF vars
<1>1. Typed' /\ Exclusive' /\ Prepared'
  BY DEF IInv, Typed, Exclusive, Apart, In, Prepared, Working, Registered
<1>2. InviteCountsAccounts' /\ Proven'
  BY DEF IInv, InviteCountsAccounts, Proven, Confirmed, TicketHeld, In, Proof
<1>3. Rated'
  BY DEF IInv, Rated, RateHolds, HasRoom, In, Recent, Used, Mailed, Known
<1> QED
  BY <1>1, <1>2, <1>3 DEF IInv

\* The locks, what a transaction knows under them and what the tables say hold together
\* in every behaviour (every transaction of users.go and verification.go that Accounts has).
THEOREM Invariance == Spec => []IInv
<1>1. IInv /\ Next => IInv'
  BY TypedStep, ExclusiveStep, PreparedStep, CountStep, ProvenStep, RatedStep DEF IInv
<1> QED
  BY Initially, Unmoved, <1>1, PTL DEF Spec

\* A code is worth MaxUses accounts for any number of clients that race for it
\* (RegisterWithInvite, FOR UPDATE on invite_codes).
THEOREM InvitesAreWorthTheirUses == Spec => []InviteCountsAccounts
  BY Invariance, PTL DEF IInv

\* A verified address was proven with a token mailed to it, and a ticket makes one
\* account (Confirm, Register).
THEOREM VerifiedIsProven == Spec => []VerifiedWasProven
<1>1. IInv => VerifiedWasProven
  BY ProvenEnough DEF IInv
<1> QED
  BY Invariance, <1>1, PTL

\* The limits on challenges and on mailed invitations hold for any number of clients
\* that ask at once (Challenge, SendInvite and their advisory locks).
THEOREM LimitsHold == Spec => []RateHolds
<1>1. IInv => RateHolds
  BY DEF IInv, Rated
<1> QED
  BY Invariance, <1>1, PTL
=============================================================================

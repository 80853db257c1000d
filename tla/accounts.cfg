SPECIFICATION Spec
CONSTANTS
    k1 = k1
    k2 = k2
    e1 = e1
    e2 = e2
    i1 = i1
    i2 = i2
    r1 = r1
    r2 = r2
    Clients <- TwoClients
    Emails <- TwoEmails
    Invites <- OneInvite
    Requests <- TwoRequests
    MaxUses = 1
    ChallengeLimit = 1
    MailLimit = 1
    MaxChallenges = 3
SYMMETRY Interchangeable
INVARIANTS InviteCountsAccounts VerifiedWasProven RateHolds
CHECK_DEADLOCK FALSE

\* Two threads under fairness, two passwords; logouts, expiry and restarts;
\* queries fail.
CONSTANTS
    Thread = {t1, t2}
    Email = {alice}
    Passwd = {p1, p2}
    Lifetime = 1
    MaxTime = 2
    Unreliable = TRUE
    None = None

SPECIFICATION FairSpec
INVARIANTS TypeOK AccountKept
PROPERTIES LoggedOutStaysOut Responds

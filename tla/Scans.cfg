CONSTANTS
    u1 = u1
    u2 = u2
    p1 = p1
    p2 = p2
    telegram = telegram
    webhook = webhook
    job = job
    r1 = r1
    r2 = r2
    Job = job
    User = {u1}
    Pair = {p1}
    Direct = {telegram}
    Webhook = {webhook}
    Request = {r1}
    Serial = {1, 2, 3, 4, 5, 6, 7, 8, 9}
    MaxFaults = 1
SPECIFICATION Spec
INVARIANTS AlertsBounded SentIsLogged RunsTrackJob

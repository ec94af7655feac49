CONSTANTS
    u1 = u1
    u2 = u2
    p1 = p1
    p2 = p2
    telegram = telegram
    webhook = webhook
    job = job
    r1 = r1
    r2 = r2
    Job = job
    User = {u1}
    Pair = {p1}
    Direct = {telegram}
    Webhook = {}
    Request = {r1}
    Serial = {1, 2, 3, 4, 5, 6}
    MaxFaults = 0
SPECIFICATION Spec
INVARIANTS AlertedOnce

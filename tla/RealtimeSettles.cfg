CONSTANTS
    u1 = u1
    u2 = u2
    btc = btc
    eth = eth
    long = long
    trend = trend
    zone = zone
    retest = retest
    t1 = t1
    t2 = t2
    User = {u1}
    Pair = {btc}
    Direction = {long}
    Gate = {trend}
    Context = {trend}
    Channel = {t1}
    Owner <- OneOwner
    MaxCount = 2
    MaxFaults = 1
SPECIFICATION FairSpec
PROPERTIES PendingSettles

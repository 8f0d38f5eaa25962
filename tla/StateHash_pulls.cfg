CONSTANTS 
p1 = p1
p2 = p2
Depth = 2
Movers = {m1}
Pullers = {p1,p2}
MaxChanges = 1
MaxEpoch = 2
Asks <- AuditAndDigest
SPECIFICATION Spec
INVARIANTS BelievedIsTrue AuditFindsNothing
PROPERTIES DigestNotTorn
CHECK_DEADLOCK FALSE

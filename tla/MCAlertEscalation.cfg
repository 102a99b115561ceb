SPECIFICATION FairSpec
CONSTANTS
  a1 = a1 a2 = a2 s1 = s1 p1 = p1 p2 = p2 x1 = x1 x2 = x2
  NoAlert = NoAlert NoPolicy = NoPolicy NoStep = NoStep
  Alerts = {a1}
  Services = {s1}
  Policies = {p1, p2}
  Steps = {x1, x2}
  ServiceOf <- MCServiceOf
  MaxRepeat = 1
  MaxRequests = 1
  MaxChanges = 3
INVARIANTS OnlyActivePolicy NeverWithoutNext 
PROPERTIES ClosedIsFinal EscalationServed

CONSTANTS
  Reqs = {r1, r2}
  Bots = {b1, b2}
  Hooked = {b1}
  None = None
  MaxClients = 1
  MaxCalls = 3
SPECIFICATION FairSpec
PROPERTY WebhookSurvives
CHECK_DEADLOCK FALSE

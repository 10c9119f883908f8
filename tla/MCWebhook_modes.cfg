CONSTANTS
  Setters = {s1, s2}
  Deleters = {d1}
  Pollers = {p1, p2}
  Urls = {u1}
  Filters = {all, few}
  Default = all
  None = None
  MaxCalls = 3
SPECIFICATION FairSpec
INVARIANT TypeOK
INVARIANT RunsExact
INVARIANT RowAgrees
INVARIANT FilterAgrees
INVARIANT OneLongPoll
INVARIANT PollsBesideWebhookAreOld
INVARIANT WebhookInv
PROPERTY RequestsEnd
CHECK_DEADLOCK FALSE

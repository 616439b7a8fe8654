SPECIFICATION FairSpec
CONSTANTS
  h1 = h1  h2 = h2  p1 = p1  p2 = p2  a = a  b = b  x = x  st = st  c1 = c1  c2 = c2
  Handlers = {h1, h2}
  Payloads = {p1, p2}
  Content <- MCContent
  Messages = {a, b, x}
  Statuses = {st}
  Conversations = {c1}
  ConversationOf <- MCConversationOf
  SubjectOf <- MCSubjectOf
  RankOf <- MCRankOf
  Active = {a, b, st}
  MaxFailures = 1
  MaxPurges = 1
INVARIANTS WebhookTypeOK CountedOnce RecordedIsStored AcknowledgedIsStored
PROPERTIES ImplementsInbox EveryPostEnds

CONSTANTS
  s1 = s1
  s2 = s2
  h1 = h1
  h2 = h2
  Syncers = {s1, s2}
  Senders = {s1}
  Topic = {s1}
  Tracker = {s1}
  Subscribers = {h1, h2}
  TopicOf <- BothOfFirst
  sendLast <- FirstUnbuffered
  WarnDuration = 1
  ErrorDuration = 2
  MaxNow = 3
  StorageRetryCount = 2
  Settings <- Either
  MaxStores = 2
SPECIFICATION Spec
INVARIANTS NoSendOnClosed NothingMissed
PROPERTIES NoFalseAlarm  ProcessEnds
CHECK_DEADLOCK FALSE

SPECIFICATION FairSpec
CONSTANTS
  Requests = {opening, reply, again, more}
  opening = opening reply = reply again = again more = more
  Workloads <- MCWorkloads
  MaxAttempts = 1
  MaxSentences <- MCMaxSentences
  MaxDrops = 1
  MaxFaults = 1
  None = None
INVARIANTS TypeOK PlaysInOrder NoOldVoice NothingSkipped
PROPERTIES HeardInTheEnd SpeakingEnds ProcessingEnds
CHECK_DEADLOCK FALSE

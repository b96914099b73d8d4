SPECIFICATION FairSpec
CONSTANTS
  owner = owner guest = guest
  create = create update = update end = end restart = restart remove = remove force = force replay = replay recompute = recompute
  say = say invite = invite hang = hang greet = greet wait = wait
  None = None
  Users = {owner, guest}
  Owner = owner
  Commands = {create, update, end, restart, remove, force, replay, recompute}
  OpOf <- MCOpOf
  Workloads <- MCWorkloads
  Talked <- MCTalked
  Costs = {1, 2}
  Repeats = {create, restart}
  MaxActual = 1
  MaxIterations = 3
  Requests = {say, invite, hang, greet, wait}
  UserOf <- MCUserOf
  AsAssistant = {invite, hang, greet, wait}
  Voice = {invite}
  TtsPermits = 1
  MaxDeltas <- MCMaxDeltas
  MaxStreams = 1
INVARIANTS TypeOK OneActiveIteration SettlesWhatItHeld AssessedIsClosed CompletedIsSaved OneEnding SpeechBounded
PROPERTIES StreamsEnd SeenIsSaved
CHECK_DEADLOCK FALSE

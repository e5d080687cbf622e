CONSTANTS
  None = None
  NoThread = None
  t1 = t1
  t2 = t2
  s1 = s1
  p1 = p1
  here = here
  there = there
  Thread = {t1, t2}
  Msg = {1, 2, 3}
  mail <- Mails
  Topic <- Topics
  Local = {here, there}
  Opened = {1, 2}
  Sends <- Asked
  strategy = "auto"
  maxSessionWakes = 2
  maxSessionAge = 2
  topicIdleReset = 2
  archiveIdle = 2
  maxPoolSize = 1
  routingEnabled = TRUE
  ttl = 1
  maxRoutes = 1
  MAX_IDS_PER_ROUTE = 1
  batchLimit = 2
  cooldown = 0
  threadCooldown = 1
  maxThreadWakes = 1
  threadWindow = 1
  wakeHour = 2
  maxWakesPerHour = 2
  ArchivesPerTick = 1
  MaxTime = 2
  MaxFaults = 1
SPECIFICATION Spec
INVARIANTS TypeOK NothingSkipped LoopGuard SessionsAccounted RetiredStaysRetired
PROPERTIES WokenOnce AnswerReachesAsker
CHECK_DEADLOCK FALSE

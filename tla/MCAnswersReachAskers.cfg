CONSTANTS
  None = None
  NoThread = None
  t1 = t1
  t2 = t2
  s1 = s1
  p1 = p1
  here = here
  there = there
  Thread = {t1, t2}
  Msg = {1, 2}
  mail <- Answers
  Topic <- Topics
  Local = {here, there}
  Opened = {1, 2}
  Sends <- AskedApart
  strategy = "auto"
  maxSessionWakes = 2
  maxSessionAge = 2
  topicIdleReset = 2
  archiveIdle = 2
  maxPoolSize = 1
  routingEnabled = TRUE
  ttl = 1
  maxRoutes = 2
  MAX_IDS_PER_ROUTE = 1
  batchLimit = 2
  cooldown = 0
  threadCooldown = 0
  maxThreadWakes = 1
  threadWindow = 1
  wakeHour = 3
  maxWakesPerHour = 2
  ArchivesPerTick = 1
  MaxTime = 3
  MaxFaults = 0
SPECIFICATION Spec
CONSTRAINT AnsweredAfter
PROPERTY AnswersReachAskers
CHECK_DEADLOCK FALSE

CONSTANTS
  Council = {c1, c2, c3}
  Threshold = 2
  NoticePeriod = 1
  Masters = {m1, m2}
  t1 = t1
  t2 = t2
  NoTarget = none
  FirstTarget = t1
  Targets = {t1, t2}
  Announcements <- AnnouncementsDef
  MaxNow = 3
  MaxVersion = 1
  MaxManaged = 4
SPECIFICATION ServicesFairSpec
INVARIANTS
    PathsVerify
    RestoredAsExecuted
    NoExitWithoutPayment
PROPERTIES
    InstalledAsAnnounced
    PaidInTimeIsServed
CHECK_DEADLOCK FALSE

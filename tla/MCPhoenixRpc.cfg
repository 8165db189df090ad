\* Two terminals at one UE, which knows one of two data networks; one poll after the change and one
\* more, since the limit is looked at after the poll.
CONSTANTS
  t1 = t1
  t2 = t2
  d1 = d1
  d2 = d2
  Invocations = {t1, t2}
  Names = {d1, d2}
  Configured = {d1}
  MaxDnn = 2
  Timeout = 1
  Interval = 2
  MaxReleases = 1
SPECIFICATION FairSpec
INVARIANTS
  TypeOK
  Established
PROPERTIES
  Ends
CHECK_DEADLOCK FALSE

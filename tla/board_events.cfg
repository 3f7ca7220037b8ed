SPECIFICATION MCSpec
CONSTANTS
  Calls = {c1, c2, c3, c4}
  c1 = c1
  c2 = c2
  c3 = c3
  c4 = c4
  None = None
  Regimes <- AllRegimes
  asha = asha
  ravi = ravi
  Users = {asha, ravi}
  Leader = Leader
  early = early
  DueDates = {early}
  TeamRequests <- TeamWork
  TaskRequests <- TaskWork
  venue = venue
  talks = talks
  agenda = agenda
  PlanTeams = 2
  Template <- Checklist
  BatchSize = 1
  EventDays = {0, 4, 40}
  MaxDay = 1
  EventRequests <- EventWork
  s1 = s1
  s2 = s2
  Speakers0 = {s1, s2}
  MaxTasks = 5
  MaxIncidents = 1
  Total = 200
  Amounts = {149, 151, 179, 201}
  Registered = 20
  Gaps = {2, 3}
INVARIANTS
  BoardTypeOK MemberCountIsAccounted TaskIsConsistent
  CommittedIsApproved RunsFollowTheirRecords ListingIsTrue
PROPERTIES
  TaskWritersAreEntitled LifecycleIsOneWay DeadlinesAreUsable PlansAreWhole ScoreIsSound
CHECK_DEADLOCK FALSE

SPECIFICATION MCSpec
CONSTANTS
  Calls = {c1, c2, c3, c4}
  c1 = c1
  c2 = c2
  c3 = c3
  c4 = c4
  x1 = x1
  x2 = x2
  look = look
  draft = draft
  announce = announce
  spend = spend
  authorise = authorise
  None = None
  Regimes <- AllRegimes
  IncidentRequests <- IncidentWork
  ResponseRetries = 2
  Deciders = {c1, c2}
  Executions = {x1, x2}
  SpeakerRequests <- SpeakerWork
  FollowupRetries = 2
  Tools = {look, draft, announce, spend, authorise}
  Catalogue <- Kit
  MaxToolTurns = 2
  HistoryTurns = 1
  MaxHistoryTurns = 2
INVARIANTS
  ResponseTypeOK IncidentIsConsistent SeriousNeedsApproval FollowupsAreAccounted ConfirmedAfterResponse
  ActsWithinAuthority AnswersReportApprovals CallsAreAudited FollowUpsMakeSense
PROPERTY StartedWorkEnds
CHECK_DEADLOCK FALSE

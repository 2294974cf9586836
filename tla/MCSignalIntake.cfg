SPECIFICATION FairIntakeSpec
CONSTANTS
  Messages = {1, 2, 3}
  Content <- MCContent
  NoSignal = "no signal"
  Topics <- MCTopics
  MaxFailures = 1
CHECK_DEADLOCK FALSE
INVARIANTS IntakeTypeOK RowsAndSignalsAgree CheckpointLeavesNothingBehind InOrderSignalsAreTaken
PROPERTIES SignalsEndByEdit BackfillCatchesUp

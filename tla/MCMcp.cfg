SPECIFICATION Spec
CONSTANTS
  Listeners = {l1}
  Lines <- MCLines
  MaxLines = 3
INVARIANTS AnsweredInTurn NothingBegunAfterCancel 
PROPERTIES AnsweredOrEnded CancelledEnds
CHECK_DEADLOCK FALSE

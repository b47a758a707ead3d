SPECIFICATION Spec
CONSTANT Retries <- MCRetries
INVARIANTS SuccessIsDelivered DeliveredOnce LateAttemptSendsNothing
PROPERTIES EveryCallEnds
CHECK_DEADLOCK FALSE

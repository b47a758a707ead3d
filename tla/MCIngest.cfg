SPECIFICATION IngestSpec
CONSTANT Bodies = {"object", "attributed", "array", "text", "null", "empty", "base64null"}
INVARIANTS PushPullAgree RoutesAgree AttributesMatchFields
CHECK_DEADLOCK FALSE

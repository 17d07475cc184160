\* A configuration altered: TopicWorkspace.tsx:134 never comes to its notice.
SPECIFICATION Spec
CONSTANTS
  Default = "default"
  Values = {"default", "v1"}
  None = None
  MaxAlters = 1
INVARIANTS AlteredIsReported
CHECK_DEADLOCK FALSE

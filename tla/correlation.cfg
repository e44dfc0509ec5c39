CONSTANTS
    None = None
    Status = {200, 404, 503}
    MaxSpans = 2
SPECIFICATION Spec
INVARIANTS
    ErrorsAreCorrelated
CHECK_DEADLOCK FALSE

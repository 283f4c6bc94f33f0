SPECIFICATION Spec
CONSTANTS
    Handler = {"h1"}
    MaxSessions = 1
INVARIANTS AccountProfilesDestroyed

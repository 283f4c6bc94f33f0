SPECIFICATION FairSpec
CONSTANTS
    Handler = {"h1", "h2"}
    MaxSessions = 2
INVARIANTS TypeOK ProcessesAreHeld ProfilesAreHeld OneBrowser
PROPERTIES OnlyItsOwnEnd LaunchesEnd SessionsEnd

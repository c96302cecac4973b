\* Two spawns of one conversation, and seven configurations to go through.
SPECIFICATION Spec
CONSTANTS
    Spawns = {s1, s2}
    Folders = {1, 2, 3}
    Slugs = {1, 2, 3, 4, 5}
    SlugOf <- MCSlugOf
    Long = {3}
    HomeSlug = 1
    GuestSlug = 5
    Configs <- MCConfigs
    MaxTurns = 3
INVARIANTS
    TypeOK
    ResumeFindsConversation
    NoTornTranscript
    SteadySessionResumesLatest
PROPERTY NothingOverwritten
SYMMETRY Symmetry

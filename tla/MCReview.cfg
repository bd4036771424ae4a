CONSTANTS
    None = None
    Absent = Absent
    Export <- MCExport
    TraceHash <- MCTraceHash
    SpanHash <- MCSpanHash
    SafeTexts = {"m1"}
    Agendas <- MCAgendas
    Requests <- MCRequests
    Ids = {"i1", "i2", "c1", "c2", "c3"}
    Answers <- MCAnswers
    CasePolicy <- MCCasePolicy
    MaxRetention = 2
    MaxFaults = 2
    MaxHands = 2
    Bases <- MCBases
    Heads <- MCHeads
    Commit <- MCCommit
    Patterns <- MCPatterns
    Expected <- MCExpected
    DefaultPolicy <- MCStrict
    Settings <- MCSettings
    PullFilesPerPage = 1
    MaxPullFiles = 2
    Runs = {"r1"}
    MaxAttempts = 2
    AzureReviews <- MCReviews
    Keys = {"k1", "k2"}
    TrustedKey <- MCTrustedKey
    MaximumAge = 1
    AuthenticationWindow = 4
    IssueWindow = 1
    Lifetime = 4
    MaxRevocationAge = 1
    ClockSkew = 1
    Backdates = {1}
    MaxTime = 5
    MaxReceipts = 1
    MaxAssertions = 1
    MaxLists = 2
    DocumentCase <- MCDocumentCase
    DocumentPolicy <- MCDocumentPolicy
    Environments <- MCEnvironments
    PublicationWindow = 1
    PublicationAge = 1
    RequestWindow = 0
    PostWindow = 0
    MaxClock = 4
    MaxJobs = 1
    MaxGates = 2
    MaxPublications = 2
    MaxVerifications = 1
    MaxRequests = 1
    Outputs = {"o1", "o2"}
    Jobs <- MCJobs
    OutcomeLists <- MCOutcomeLists
    MaxCases = 2
    MaxCost = 2
    MaxVersion = 1
    MaxCrashes = 1
    CanaryPlans <- MCPlans
    CanaryReviews <- MCChanges
    Metered = {"success", "failure"}
    Batches <- MCBatches
    BatchSize = 20
    ZSquared <- MCZSquared
    SecondsPerStep = 60
    MaxElapsed = 2
    MaxPlans = 2
    MaxReviews = 1
    MaxBatches = 2
    MaxLooks = 2
    Contents = {"bytes1", "bytes2"}
    Signers <- MCSigners
    Terms <- MCTerms
    TrustStores <- MCTrustStores
    Offsets <- MCOffsets
    ListAgeLimit = 0
    SkewLimit = 1
    LastInstant = 4
    AttestationLimit = 1
    ListLimit = 3
    MaxEdits = 2

SPECIFICATION Spec

INVARIANTS
    CasesNameTheirEvidence
    ReceiptsStand
    FinishedFoldersStand
    ChecksMatchTheirCommit
    ExitsTellTheTruth
    AcceptedApprovalsStand
    DeliveredReviewsHold
    PromptStepsAccepted
    ReceiptNamesWhatRan
    CaseComesLast
    ChildEndsWithCall
    VerdictIsEarned
    ResultsReadBack

CHECK_DEADLOCK FALSE

CONSTANTS
    None = None
    CliExport = CliExport
    Principals <- MCPrincipals
    PolicyDocs <- MCPolicyDocs
    Policy <- MCPolicy
    Artifacts <- MCArtifacts
    Intents <- MCIntents
    Payloads <- MCPayloads
    Agendas <- MCAgendas
    MaxAge = 1
    MaxEvents = 4
    MaxObservations = 2
    PageSize = 1
    Reader = "alice"
    Operator = "alice"
    Investigations = {"A", "B"}
    Cases = {"c1", "c2"}
    Workers = {w1, w2}
    Initializers = {i1, i2}
    BackupOperators = {o1, o2}
    HostConfigs = {h1, h2, bad}
    UsableConfigs = {h1, h2}
    MaxCommands = 3
    MaxServiceFaults = 2
    MaxConfigEdits = 1

SPECIFICATION DeploymentSpec

INVARIANTS
    LinksResolve
    DecisionsUsedOnce
    RecordsMatchEvents
    RetryAppliesOnce
    WalkMissesOnlyRevised
    ServiceReportsHold

PROPERTIES
    ImplementsAtomicTeam
    BackupsKept

CHECK_DEADLOCK FALSE

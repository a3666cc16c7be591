SPECIFICATION FairSpec
CONSTANTS
    p1 = p1
    p2 = p2
    p3 = p3
    d1 = d1
    d2 = d2
    d3 = d3
    Pods = {p1, p2, p3}
    Settled = {p3}
    Casts = {{p1, p2}, {p1, p3}}
    Scopes = {all, d2}
    Datasets = {d1, d2, d3}
    NameOf <- MCNameOf
    NamespaceOf <- MCNamespaceOf
    Labelled <- MCLabelled
    Template <- MCTemplate
    Home <- MCHome
    Rules <- MCRules
    Samples <- MCSamples
    Drivers <- MCDrivers
    Settings <- MCSettings
    Malformed <- MCMalformed
    ProtectedNamespaces = {"kube-system"}
    Nil = nil
    Unreadable = unreadable
    All = all
    None = none
    MaxEvents = 1
    MaxTroubles = 1
INVARIANTS
    PublishedIsWatched
    AdmittedOnce
    TypeOK
    OwnDatasetsOnly
    RulesAgree
    AcceptedRulesAreRead
    ReadableIsAccepted
PROPERTIES
    RepairedIsTrue
    FullCheckCountsAll
    CompleteIsEarned
    RecurringChecksHeal
CHECK_DEADLOCK FALSE

SPECIFICATION Spec
CONSTANTS
    p1 = p1
    p2 = p2
    p3 = p3
    d1 = d1
    d2 = d2
    d3 = d3
    Pods = {p3}
    Settled = {}
    Casts = {{p3}}
    Scopes = {all}
    Datasets = {d3}
    NameOf <- MCNameOf
    NamespaceOf <- MCNamespaceOf
    Labelled <- MCLabelled
    Template <- MCTemplate
    Home <- MCHome
    Rules <- MCRulesByGenerateName
    Samples = {}
    Drivers <- MCDrivers
    Settings <- MCSettings
    Malformed <- MCMalformed
    ProtectedNamespaces = {"kube-system"}
    Nil = nil
    Unreadable = unreadable
    All = all
    None = none
    MaxEvents = 0
    MaxTroubles = 0
INVARIANT SatisfiedRulesMount
CHECK_DEADLOCK FALSE

SPECIFICATION FairSpec
CONSTANTS
    daemonset = daemonset
    statefulset = statefulset
    d1 = d1
    s1 = s1
    n1 = n1
    n2 = n2
    Order <- MCOrder
    Stateful = statefulset
    WorkloadOf <- MCWorkloadOf
    NodeOf <- MCNodeOf
    Pods = {s1}
    MaxTroubles = 2
INVARIANT TypeOK
PROPERTIES
    LossesAreReported
    RecordedNeverGoesBack
    StatusConverges
    UpgradeReachesPods
    EveryPodIsAnnounced

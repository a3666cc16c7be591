------------------------------- MODULE PodWebhook ------------------------------
(***************************************************************************)
(* The admission of new pods: a pod in a namespace that has the claim gets *)
(* the volume of the datasets, and each of its containers a mount of it.   *)
(***************************************************************************)
EXTENDS Naturals, Sequences

CONSTANTS
    ProtectedNamespaces,   \* those whose names begin with "openshift-" or "kube-"
    Nil                    \* no driver

DatasetVolume == [name |-> "redhat-marketplace-datasets", claim |-> "csi-rhm-cos-pvc"]
DefaultMountPath == "/var/rhm/datasets"

\* Mutant: only the name is looked at.
IsDatasetVolumeByName(vol) == vol.name = DatasetVolume.name

IsDatasetVolume(vol) == vol.name = DatasetVolume.name \/ vol.claim = DatasetVolume.claim

\* Only the claim that is found counts, not the one that cannot be read.
isMutationRequired(pod, claimFound) ==
    claimFound /\ ~\E i \in DOMAIN pod.volumes : IsDatasetVolume(pod.volumes[i])

\* The containers are lists of mounts; init containers get none.
mutate(pod, driver) ==
    LET path == IF driver.mountRootPath # "" THEN driver.mountRootPath ELSE DefaultMountPath
        mount == [name |-> DatasetVolume.name, path |-> path]
    IN [pod EXCEPT !.volumes = Append(@, DatasetVolume),
                   !.containers = [i \in DOMAIN @ |-> Append(@[i], mount)]]

\* The pod that is admitted.  No failure keeps a pod from being admitted.
Handle(pod, namespace, driver, claimFound) ==
    IF namespace \in ProtectedNamespaces \/ driver = Nil \/ ~isMutationRequired(pod, claimFound)
    THEN pod ELSE mutate(pod, driver)

================================================================================

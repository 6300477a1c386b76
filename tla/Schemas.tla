------------------------------- MODULE Schemas -------------------------------
(***************************************************************************)
(* The Mongoose schemas of src/database/models.js: the pieces that the     *)
(* kinds share, down to the schema of a pod.  Kinds.tla has the kinds.     *)
(*                                                                         *)
(* A schema is the set of its fields.  A field has the path of its name    *)
(* (a list is the element "*" of the path), what it is declared as         *)
(*   "scalar"   by a type alone: String, Number, Boolean or a list of them *)
(*   "typed"    by an object { type: ... } without a default               *)
(*   "default"  by an object { type: ..., default: ... }                   *)
(*   "mixed"    Schema.Types.Mixed: anything at or below the path          *)
(* and `needs`, the innermost list element or sub-document around it: the  *)
(* part of a document that must be there for the default to be filled in.  *)
(* A default of null or undefined counts as none.                          *)
(*                                                                         *)
(* How Mongoose reads a declaration is external to the repository; the     *)
(* comments of models.js (78-89, 1077-1088, 2580-2585) say what it does.   *)
(***************************************************************************)
EXTENDS Naturals, Sequences

Fields(names, as) == {[path |-> <<n>>, is |-> as, needs |-> <<>>] : n \in names}

Scalars(names)  == Fields(names, "scalar")
Typed(names)    == Fields(names, "typed")
Defaults(names) == Fields(names, "default")
Mixed(names)    == Fields(names, "mixed")

(* An object with a key `type` that is declared by a type alone is not     *)
(* nested: Mongoose takes the key for the type of the whole object, which  *)
(* so becomes one scalar.  `type: { type: String }` avoids it.             *)
Collapses(S) == \E f \in S : f.path = <<"type">> /\ f.is = "scalar"

Below(prefix, base, f) ==
  [f EXCEPT !.path = prefix \o @, !.needs = IF @ = <<>> THEN base ELSE prefix \o @]

(* name: { ... }                                                           *)
In(names, S) ==
  IF Collapses(S) THEN Scalars(names) ELSE {Below(<<n>>, <<>>, f) : n \in names, f \in S}

(* name: [{ ... }]                                                         *)
Each(names, S) ==
  IF Collapses(S) THEN Scalars(names)
  ELSE {Below(<<n, "*">>, <<n, "*">>, f) : n \in names, f \in S}

(* name: aSchema, a sub-document that is absent unless it was sent         *)
Sub(names, S) == {Below(<<n>>, <<n>>, f) : n \in names, f \in S}

IsPrefix(p, q) == Len(p) <= Len(q) /\ SubSeq(q, 1, Len(p)) = p

(* { ...S, key: ... }: the fields of S that the keys do not replace        *)
Without(S, keys) == {f \in S : \A k \in keys : ~ IsPrefix(k, f.path)}

-----------------------------------------------------------------------------
ownerReference ==
  Scalars({"apiVersion", "kind", "name", "uid", "controller", "blockOwnerDeletion"})

ref ==
  UNION {
    Scalars({"ip", "nodeName"}),
    In({"targetRef"}, Scalars({"kind", "namespace", "name"}) \union Defaults({"uid"})) }

metadata ==
  UNION {
    Scalars({"name", "generateName", "deletionGracePeriodSeconds", "deletionTimestamp",
       "finalizers", "namespace", "selfLink"}),
    Defaults({"creationTimestamp", "uid", "resourceVersion", "generation"}),
    Mixed({"annotations", "labels"}),
    Each({"managedFields"},
      UNION {
        Scalars({"apiVersion", "fieldsType", "fieldsV1", "manager", "operation",
           "subresource"}),
        Defaults({"time"}) }),
    Each({"ownerReferences"}, ownerReference) }

(* What almost every kind begins with: apiVersion, kind, metadata          *)
Kind(S) == UNION {Defaults({"apiVersion", "kind"}), In({"metadata"}, metadata), S}

glusterfs == Scalars({"endpoints", "endpointsNamespace", "path", "readOnly"})

labelSelector ==
  UNION {
    Mixed({"matchLabels"}),
    Each({"matchExpressions"}, Scalars({"key", "operator", "values"})) }

objectFieldSelector == Scalars({"fieldPath", "apiVersion"})

resourceFieldSelector == Scalars({"resource", "containerName", "divisor"})

(* Mutant: httpGet and tcpSocket are declared inside exec only             *)
lifecycleHandlerInExec ==
  In({"exec"}, UNION {Scalars({"command"}), In({"httpGet"}, Mixed({"port"})), In({"tcpSocket"}, Mixed({"port"}))})

lifecycleHandler ==
  UNION {
    Mixed({"httpGet", "tcpSocket"}),
    In({"exec"},
      UNION {
        Scalars({"command"}),
        In({"httpGet"},
          UNION {
            Scalars({"host", "path", "scheme"}),
            Mixed({"port"}),
            In({"httpHeaders"}, Scalars({"name", "value"})) }),
        In({"tcpSocket"}, Scalars({"host"}) \union Mixed({"port"})) }) }

configMapInfo ==
  UNION {
    Scalars({"kubeletConfigKey", "name", "namespace", "resourceVersion"}),
    Defaults({"uid"}) }

lifecycle == In({"postStart", "preStop"}, lifecycleHandler)

statusConditions ==
  UNION {
    Scalars({"message", "reason"}),
    Typed({"type"}),
    Defaults({"status", "lastTransitionTime"}) }

volumeDevices == Scalars({"devicePath", "name"})

volumeMounts ==
  Scalars({"mountPath", "mountPropagation", "name", "readOnly", "subPath",
     "subPathExpr"})

probe ==
  UNION {
    lifecycleHandler,
    Defaults({"initialDelaySeconds", "terminationGracePeriodSeconds", "periodSeconds",
       "timeoutSeconds", "failureThreshold", "dsuccessThreshold"}),
    In({"grpc"}, Scalars({"service"}) \union Mixed({"port"})) }

containerPortInfo ==
  Scalars({"protocol", "hostIP", "name"}) \union Defaults({"containerPort", "hostPort"})

env ==
  UNION {
    Scalars({"name", "value"}),
    In({"valueFrom"},
      UNION {
        In({"configMapKeyRef", "secretKeyRef"}, Scalars({"key", "name", "optional"})),
        In({"fieldRef"}, objectFieldSelector),
        In({"resourceFieldRef"}, resourceFieldSelector) }) }

envFrom ==
  UNION {
    Scalars({"prefix"}),
    In({"configMapRef", "secretRef"}, Scalars({"name", "optional"})) }

iscsi ==
  UNION {
    Scalars({"chapAuthDiscovery", "chapAuthSession", "fsType", "initiatorName", "iqn",
       "iscsiInterface", "portals", "readOnly", "targetPortal"}),
    Defaults({"lun"}),
    In({"secretRef"}, Scalars({"name", "namespace"})) }

container ==
  UNION {
    Scalars({"name", "image", "terminationMessagePath", "terminationMessagePolicy",
       "restartPolicy", "stdin", "stdinOnce", "tty", "command", "args", "workingDir",
       "imagePullPolicy"}),
    Each({"ports"}, containerPortInfo),
    Each({"env"}, env),
    Each({"envFrom"}, envFrom),
    Each({"volumeMounts"}, volumeMounts),
    Each({"volumeDevices"}, volumeDevices),
    In({"resources"}, Mixed({"limits", "requests"}) \union Each({"claims"}, Scalars({"name"}))),
    Each({"resizePolicy"}, Scalars({"resourceName", "restartPolicy"})),
    In({"lifecycle"}, lifecycle),
    In({"livenessProbe", "readinessProbe", "startupProbe"}, probe),
    In({"securityContext"},
      UNION {
        Scalars({"runAsNonRoot", "readOnlyRootFilesystem", "procMount", "privileged",
           "allowPrivilegeEscalation"}),
        Defaults({"runAsUser", "runAsGroup"}),
        In({"capabilities"}, Scalars({"add", "drop"})),
        In({"seccompProfile"}, Scalars({"type", "localhostProfile"})),
        In({"seLinuxOptions"}, Scalars({"level", "role", "type", "user"})),
        In({"windowsOptions"}, Scalars({"gmsaCredentialSpec", "hostProcess", "runAsUserName"})) }) }

metricInfo == In({"metric"}, Scalars({"name"}) \union In({"selector"}, labelSelector))

targetMetricInfo ==
  UNION {
    metricInfo,
    In({"target"},
      Scalars({"averageValue", "type", "value"}) \union Defaults({"averageUtilization"})) }

currentMetricInfo ==
  UNION {
    metricInfo,
    In({"current"}, Scalars({"averageValue", "value"}) \union Defaults({"averageUtilization"})) }

podFailurePolicy ==
  Each({"rules"},
    UNION {
      Scalars({"action"}),
      In({"onExitCodes"}, Scalars({"containerName", "operator", "values"})),
      Each({"onPodConditions"}, Scalars({"status", "type"})) })

metrics ==
  UNION {
    Scalars({"type"}),
    In({"containerResource"},
      UNION {
        Scalars({"container", "name"}),
        In({"current"}, Scalars({"averageValue", "value"}) \union Defaults({"averageUtilization"})) }),
    In({"external", "pods"}, currentMetricInfo),
    In({"object"},
      UNION {
        currentMetricInfo,
        In({"describedObject"}, Scalars({"apiVersion", "kind", "name"})) }),
    In({"resource"},
      UNION {
        Scalars({"name"}),
        In({"current"}, Scalars({"averageValue", "value"}) \union Defaults({"averageUtilization"})) }) }

fieldSelector == Each({"matchExpressions", "matchFields"}, Scalars({"key", "operator", "values"}))

nodeAffinity == In({"required"}, Each({"nodeSelectorTerms"}, fieldSelector))

rbd ==
  UNION {
    Scalars({"fsType", "image", "keyring", "monitors", "pool", "readOnly", "user"}),
    In({"secretRef"}, Scalars({"name", "namespace"})) }

containerStatus ==
  UNION {
    Scalars({"containerID", "image", "imageID", "name", "ready", "started"}),
    Defaults({"restartCount"}),
    Mixed({"allocatedResources"}),
    In({"lastState", "state"},
      UNION {
        In({"running"}, Scalars({"startedAt"})),
        In({"terminated"},
          Scalars({"containerID", "exitCode", "finishedAt", "message", "reason", "signal",
             "startedAt"})),
        In({"waiting"}, Scalars({"message", "reason"})) }),
    In({"resources"}, Mixed({"limits", "requests"}) \union Each({"claims"}, Scalars({"name"}))) }

nfs == Scalars({"path", "readOnly", "server"})

volumeInfo ==
  UNION {
    In({"awsElasticBlockStore"},
      Scalars({"fsType", "readOnly", "volumeID"}) \union Defaults({"partition"})),
    In({"azureDisk"},
      Scalars({"cachingMode", "diskName", "diskURI", "fsType", "kind", "readOnly"})),
    In({"azureFile"}, Scalars({"readOnly", "secretName", "shareName"})),
    In({"cephfs"},
      UNION {
        Scalars({"monitors", "path", "readOnly", "secretFile", "user"}),
        In({"secretRef"}, Scalars({"name"})) }),
    In({"cinder"},
      Scalars({"fsType", "readOnly", "volumeID"}) \union In({"secretRef"}, Scalars({"name"}))),
    In({"csi"},
      UNION {
        Scalars({"driver", "fsType", "readOnly"}),
        Mixed({"volumeAttributes"}),
        In({"nodePublishSecretRef"}, Scalars({"name"})) }),
    In({"fc"}, Scalars({"fsType", "readOnly", "targetWWNs", "wwids"}) \union Defaults({"lun"})),
    In({"flexVolume"},
      UNION {
        Scalars({"driver", "fsType", "readOnly"}),
        Mixed({"options"}),
        In({"secretRef"}, Scalars({"name"})) }),
    In({"flocker"}, Scalars({"datasetName", "datasetUUID"})),
    In({"gcePersistentDisk"},
      Scalars({"fsType", "pdName", "readOnly"}) \union Defaults({"partition"})),
    In({"glusterfs"}, glusterfs),
    In({"hostPath"}, Scalars({"path", "type"})),
    In({"iscsi"}, iscsi),
    In({"nfs"}, nfs),
    In({"photonPersistentDisk"}, Scalars({"fsType", "pdID"})),
    In({"portworxVolume"}, Scalars({"fsType", "readOnly", "volumeID"})),
    In({"quobyte"}, Scalars({"group", "readOnly", "registry", "tenant", "user", "volume"})),
    In({"rbd"},
      UNION {
        Scalars({"fsType", "image", "keyring", "monitors", "pool", "readOnly", "user"}),
        In({"secretRef"}, Scalars({"name"})) }),
    In({"scaleIO"},
      UNION {
        Scalars({"fsType", "gateway", "protectionDomain", "readOnly", "sslEnabled",
           "storageMode", "storagePool", "system", "volumeName"}),
        In({"secretRef"}, Scalars({"name"})) }),
    In({"storageos"},
      UNION {
        Scalars({"fsType", "readOnly", "volumeName", "volumeNamespace"}),
        In({"secretRef"}, Scalars({"name"})) }),
    In({"vsphereVolume"},
      Scalars({"fsType", "storagePolicyID", "storagePolicyName", "volumePath"})) }

podAffinity ==
  UNION {
    Each({"preferredDuringSchedulingIgnoredDuringExecution"},
      UNION {
        Defaults({"weight"}),
        In({"podAffinityTerm"},
          UNION {
            Scalars({"namespaces", "topologyKey"}),
            In({"labelSelector", "namespaceSelector"}, labelSelector) }) }),
    Each({"requiredDuringSchedulingIgnoredDuringExecution"},
      UNION {
        Scalars({"namespaces", "topologyKey"}),
        In({"labelSelector", "namespaceSelector"}, labelSelector) }) }

persistentVolumeClaimSchema ==
  Kind(UNION {
    In({"spec"},
      UNION {
        Scalars({"accessModes", "storageClassName", "volumeMode", "volumeName"}),
        In({"dataSource"}, Scalars({"apiGroup", "kind", "name"})),
        In({"dataSourceRef"}, Scalars({"apiGroup", "kind", "name", "namespace"})),
        In({"resources"}, Mixed({"limits", "requests"}) \union Each({"claims"}, Scalars({"name"}))),
        In({"selector"}, labelSelector) }),
    In({"status"},
      UNION {
        Scalars({"accessModes", "phase", "resizeStatus"}),
        Mixed({"allocatedResources", "capacity"}),
        Each({"conditions"}, statusConditions \union Defaults({"lastProbeTime"})) }) })

volumeSchema ==
  UNION {
    volumeInfo,
    Scalars({"name"}),
    In({"configMap"},
      UNION {
        Scalars({"name", "optional"}),
        Defaults({"defaultMode"}),
        Each({"items"}, Scalars({"key", "path"}) \union Defaults({"mode"})),
        In({"localObjectReference"}, Scalars({"name"})) }),
    In({"downwardAPI"},
      UNION {
        Defaults({"defaultMode"}),
        Each({"items"},
          UNION {
            Scalars({"path"}),
            Defaults({"mode"}),
            In({"fieldRef"}, objectFieldSelector),
            In({"resourceFieldRef"}, resourceFieldSelector) }) }),
    In({"emptyDir"}, Scalars({"medium", "sizeLimit"})),
    In({"ephemeral"}, Sub({"volumeClaimTemplate"}, persistentVolumeClaimSchema)),
    In({"gitRepo"}, Scalars({"directory", "repository", "revision"})),
    In({"persistentVolumeClaim"}, Scalars({"claimName", "readOnly"})),
    In({"projected"},
      UNION {
        Defaults({"defaultMode"}),
        Each({"sources"},
          UNION {
            In({"configMap", "secret"},
              UNION {
                Scalars({"name", "optional"}),
                Each({"items"}, Scalars({"key", "path"}) \union Defaults({"mode"})) }),
            In({"downwardAPI"},
              Each({"items"},
                UNION {
                  Scalars({"path"}),
                  Defaults({"mode"}),
                  In({"fieldRef"}, objectFieldSelector),
                  In({"resourceFieldRef"}, resourceFieldSelector) })),
            In({"serviceAccountToken"},
              Scalars({"audience", "path"}) \union Defaults({"expirationSeconds"})) }) }),
    In({"secret"},
      UNION {
        Scalars({"optional", "secretName"}),
        Defaults({"defaultMode"}),
        Each({"items"}, Scalars({"key", "path"}) \union Defaults({"mode"})) }) }

podSecurityContext ==
  UNION {
    Scalars({"fsGroupChangePolicy", "runAsNonRoot", "supplementalGroups"}),
    Defaults({"fsGroup", "runAsGroup", "runAsUser"}),
    In({"seLinuxOptions"}, Scalars({"level", "role", "type", "user"})),
    In({"seccompProfile"}, Scalars({"localhostProfile", "type"})),
    Each({"sysctls"}, Scalars({"name", "value"})),
    In({"windowsOptions"},
      Scalars({"gmsaCredentialSpec", "gmsaCredentialSpecName", "hostProcess",
         "runAsUserName"})) }

podVolumes ==
  UNION {
    Scalars({"name"}),
    Mixed({"configMap", "secret", "emptyDir", "hostPath", "persistentVolumeClaim",
       "projected", "downwardAPI"}),
    Sub({"volumeSource"}, volumeSchema) }

podStatus ==
  UNION {
    Scalars({"hostIP", "message", "nominatedNodeName", "podIP", "qosClass", "reason",
       "resize", "startTime"}),
    Defaults({"phase"}),
    Each({"conditions"},
      UNION {
        Without(statusConditions, {<<"lastTransitionTime">>}),
        Scalars({"lastTransitionTime"}) }),
    Each({"containerStatuses", "ephemeralContainerStatuses", "initContainerStatuses"},
      containerStatus),
    Each({"podIPs"}, Scalars({"ip"})) }

pod ==
  Kind(UNION {
    In({"spec"},
      UNION {
        Scalars({"automountServiceAccountToken", "dnsPolicy", "enableServiceLinks",
           "hostIPC", "hostNetwork", "hostPID", "hostUsers", "hostname", "nodeName",
           "preemptionPolicy", "priorityClassName", "restartPolicy", "runtimeClassName",
           "schedulerName", "serviceAccount", "serviceAccountName", "setHostnameAsFQDN",
           "shareProcessNamespace", "subdomain"}),
        Defaults({"activeDeadlineSeconds", "priority", "terminationGracePeriodSeconds"}),
        Mixed({"nodeSelector", "overhead"}),
        In({"affinity"},
          UNION {
            In({"nodeAffinity"},
              UNION {
                Each({"preferredDuringSchedulingIgnoredDuringExecution"},
                  Defaults({"weight"}) \union In({"preference"}, fieldSelector)),
                In({"requiredDuringSchedulingIgnoredDuringExecution"},
                  Each({"nodeSelectorTerms"}, fieldSelector)) }),
            In({"podAffinity", "podAntiAffinity"}, podAffinity) }),
        Each({"containers", "ephemeralContainers", "initContainers"}, container),
        In({"dnsConfig"},
          UNION {
            Scalars({"nameservers", "searches"}),
            Each({"options"}, Scalars({"name", "value"})) }),
        Each({"hostAliases"}, Scalars({"hostnames", "ip"})),
        Each({"imagePullSecrets", "schedulingGates"}, Scalars({"name"})),
        In({"os"}, Scalars({"name"})),
        Each({"readinessGates"}, Scalars({"conditionType"})),
        Each({"resourceClaims"},
          UNION {
            Scalars({"name"}),
            In({"source"}, Scalars({"resourceClaimName", "resourceClaimTemplateName"})) }),
        In({"securityContext"}, podSecurityContext),
        Each({"tolerations"},
          UNION {
            Scalars({"effect", "key", "operator", "value"}),
            Defaults({"tolerationSeconds"}) }),
        Each({"topologySpreadConstraints"},
          UNION {
            Scalars({"matchLabelKeys", "nodeAffinityPolicy", "nodeTaintsPolicy", "topologyKey",
               "whenUnsatisfiable"}),
            Defaults({"maxSkew", "minDomains"}),
            In({"labelSelector"},
              UNION {
                Mixed({"matchLabels"}),
                Each({"matchExpressions"}, Scalars({"key", "operator", "values"})) }) }),
        Each({"volumes"}, podVolumes) }),
    In({"status"}, podStatus) })

typedLocalObjectReference == Scalars({"apiGroup", "kind", "name"})

ingressServiceBackend ==
  Scalars({"name"}) \union In({"port"}, Scalars({"name"}) \union Defaults({"number"}))

jobInfo ==
  UNION {
    In({"metadata"}, metadata),
    In({"spec"},
      UNION {
        Scalars({"completionMode", "manualSelector", "suspend"}),
        Defaults({"activeDeadlineSeconds", "backoffLimit", "completions", "parallelism",
           "ttlSecondsAfterFinished"}),
        In({"podFailurePolicy"}, podFailurePolicy),
        In({"selector"}, labelSelector),
        In({"template"}, pod) }),
    In({"status"},
      UNION {
        Scalars({"completedIndexes"}),
        Defaults({"active", "completionTime", "failed", "ready", "startTime", "succeeded"}),
        Each({"conditions"}, statusConditions),
        In({"uncountedTerminatedPods"}, Scalars({"failed", "succeeded"})) }) }

=============================================================================

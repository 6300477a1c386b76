-------------------------------- MODULE Kinds --------------------------------
(***************************************************************************)
(* The schema of every kind in src/database/models.js and the table of     *)
(* models at its end.  Schemas.tla has the notation and the shared pieces. *)
(***************************************************************************)
EXTENDS Schemas

podTemplateSchema == Kind(In({"template"}, pod))

namespaceSchema ==
  Kind(In({"spec"}, Defaults({"finalizers"})) \union In({"status"}, Defaults({"phase"})))

deploymentSchema ==
  Kind(UNION {
    In({"spec"},
      UNION {
        Defaults({"minReadySeconds", "paused", "progressDeadlineSeconds", "replicas",
           "revisionHistoryLimit"}),
        In({"fieldSelector"}, fieldSelector),
        In({"selector"}, labelSelector),
        In({"strategy"},
          UNION {
            Defaults({"type"}),
            In({"rollingUpdate"}, Defaults({"maxSurge", "maxUnavailable"})) }),
        In({"template"}, pod) }),
    In({"status"},
      UNION {
        Defaults({"availableReplicas", "collisionCount", "observedGeneration",
           "readyReplicas", "replicas", "unavailableReplicas", "updatedReplicas"}),
        Each({"conditions"}, statusConditions \union Scalars({"lastUpdateTime"})) }) })

podSchema == pod

ingressLoadBalancerStatus ==
  Each({"ingress"},
    UNION {
      Scalars({"hostname", "ip"}),
      Each({"ports"}, Scalars({"error", "protocol"}) \union Defaults({"port"})) })

serviceSchema ==
  Kind(UNION {
    In({"spec"},
      UNION {
        Scalars({"allocateLoadBalancerNodePorts", "clusterIP", "externalName",
           "externalTrafficPolicy", "healthCheckNodePort", "ipFamilyPolicy",
           "loadBalancerClass", "loadBalancerIP", "loadBalancerSourceRanges",
           "publishNotReadyAddresses"}),
        Defaults({"clusterIPs", "externalIPs", "internalTrafficPolicy", "ipFamilies",
           "sessionAffinity", "type"}),
        Mixed({"selector"}),
        Each({"ports"},
          UNION {
            Scalars({"appProtocol", "name", "port", "protocol"}),
            Defaults({"nodePort"}),
            Mixed({"targetPort"}) }),
        In({"sessionAffinityConfig"}, In({"clientIP"}, Defaults({"timeoutSeconds"}))) }),
    In({"status"}, statusConditions \union In({"loadBalancer"}, ingressLoadBalancerStatus)) })

apiServiceSchema ==
  Kind(UNION {
    In({"spec"},
      UNION {
        Scalars({"caBundle", "group", "insecureSkipTLSVerify", "version"}),
        Defaults({"groupPriorityMinimum", "versionPriority"}),
        In({"service"}, Scalars({"name", "namespace"}) \union Defaults({"port"})) }),
    In({"status"}, Each({"conditions"}, statusConditions)) })

dns == Scalars({"name", "class", "ttl", "address"}) \union Typed({"type"})

secretSchema ==
  Kind(Scalars({"immutable"}) \union Defaults({"type"}) \union Mixed({"data", "stringData"}))

configMapSchema == Kind(Scalars({"immutable"}) \union Mixed({"data", "binaryData"}))

endpointsSchema ==
  Kind(Each({"subsets"},
    UNION {
      Each({"addresses", "notReadyAddresses"}, ref),
      Each({"ports"}, Scalars({"name", "protocol"}) \union Defaults({"port"})) }))

role ==
  Kind(Each({"rules"},
    Scalars({"apiGroups", "resources", "verbs", "resourceNames", "nonResourceURLs"})))

roleSchema == role

clusterRoleSchema ==
  role \union In({"aggregationRule"}, Each({"clusterRoleSelectors"}, labelSelector))

roleBindingSchema ==
  Kind(UNION {
    In({"roleRef"}, Scalars({"apiGroup", "kind", "name"})),
    Each({"subjects"}, Scalars({"apiGroups", "kind", "namespace", "name"})) })

clusterRoleBindingSchema == roleBindingSchema

certificateSigningRequestSchema ==
  Kind(UNION {
    In({"spec"},
      UNION {
        Scalars({"groups", "request", "signerName", "usages", "username"}),
        Defaults({"expirationSeconds", "uid"}),
        Mixed({"extra"}) }),
    In({"status"}, statusConditions \union Scalars({"certificate"})) })

nodeSchema ==
  Kind(UNION {
    In({"spec"},
      UNION {
        Scalars({"externalID", "podCIDR", "podCIDRs", "providerID"}),
        Defaults({"unschedulable"}),
        In({"configSource"}, In({"configMap"}, configMapInfo)),
        Each({"taints"}, Scalars({"effect", "key", "timeAdded", "value"})) }),
    In({"status"},
      UNION {
        Scalars({"error", "phase", "volumesInUse"}),
        Mixed({"allocatable", "capacity"}),
        Each({"addresses"}, Scalars({"address"}) \union Typed({"type"})),
        Each({"conditions"}, statusConditions \union Defaults({"lastHeartbeatTime"})),
        In({"config"}, In({"active"}, In({"configMap"}, configMapInfo))),
        In({"assigned", "lastKnownGood"}, In({"configMap"}, configMapInfo)),
        In({"daemonEndpoints"}, In({"kubeletEndpoint"}, Defaults({"Port"}))),
        Each({"images"}, Scalars({"names"}) \union Defaults({"sizeBytes"})),
        In({"nodeInfo"},
          Scalars({"architecture", "bootID", "containerRuntimeVersion", "kernelVersion",
             "kubeProxyVersion", "kubeletVersion", "machineID", "operatingSystem", "osImage",
             "systemUUID"})),
        Each({"volumesAttached"}, Scalars({"devicePath", "name"})) }) })

objectReferenceSchema ==
  UNION {
    Scalars({"namespace", "name", "resourceVersion", "fieldPath"}),
    Defaults({"kind", "uid", "apiVersion"}) }

eventSchema ==
  Kind(UNION {
    Scalars({"action", "note", "reason", "reportingController", "reportingInstance",
       "message", "firstTimestamp", "lastTimestamp", "eventTime", "count",
       "reportingComponent"}),
    Typed({"type"}),
    Defaults({"deprecatedCount", "deprecatedFirstTimestamp", "deprecatedLastTimestamp"}),
    In({"deprecatedSource", "source"}, Scalars({"component", "host"})),
    Sub({"regarding", "related", "involvedObject"}, objectReferenceSchema),
    In({"series"}, Defaults({"count", "lastObservedTime"})) })

replicaSetSchema ==
  Kind(UNION {
    In({"spec"},
      UNION {
        Defaults({"minReadySeconds", "replicas"}),
        In({"selector"}, labelSelector),
        In({"template"}, pod) }),
    In({"status"},
      UNION {
        Defaults({"replicas", "availableReplicas", "readyReplicas", "fullyLabeledReplicas",
           "observedGeneration"}),
        Each({"conditions"}, statusConditions) }) })

daemonSetSchema ==
  Kind(UNION {
    In({"spec"},
      UNION {
        Defaults({"minReadySeconds", "revisionHistoryLimit"}),
        In({"selector"}, labelSelector),
        In({"template"}, pod),
        In({"updateStrategy"},
          Typed({"type"}) \union In({"rollingUpdate"}, Scalars({"maxSurge", "maxUnavailable"}))) }),
    In({"status"},
      UNION {
        Defaults({"numberReady", "numberAvailable", "numberUnavailable",
           "numberMisschedule", "desiredNumberScheduled", "currentNumberScheduled",
           "updatedNumberScheduled", "collisionCount", "observedGeneration"}),
        Each({"conditions"}, statusConditions) }) })

replicationControllerSchema ==
  Kind(UNION {
    In({"spec"},
      UNION {
        Defaults({"minReadySeconds", "replicas"}),
        Mixed({"selector"}),
        In({"template"}, pod) }),
    In({"status"},
      UNION {
        Defaults({"availableReplicas", "fullyLabeledReplicas", "observedGeneration",
           "readyReplicas", "replicas"}),
        Each({"conditions"}, statusConditions) }) })

bindingSchema == Kind(In({"target"}, ref))

csiDriverSchema ==
  Kind(In({"spec"},
    UNION {
      Scalars({"attachRequired", "fsGroupPolicy", "podInfoOnMount", "requiresRepublish",
         "seLinuxMount", "storageCapacity", "volumeLifecycleModes"}),
      Each({"tokenRequests"}, Scalars({"audience"}) \union Defaults({"expirationSeconds"})) }))

csiNodeSchema ==
  Kind(In({"spec"},
    Each({"drivers"},
      UNION {
        Scalars({"name", "nodeID", "topologyKeys"}),
        In({"allocatable"}, Defaults({"count"})) })))

csiStorageCapacitySchema ==
  Kind(UNION {
    Scalars({"capacity", "maximumVolumeSize", "storageClassName"}),
    In({"nodeTopology"}, labelSelector) })

componentStatusSchema ==
  Kind(Each({"conditions"}, Scalars({"error", "message", "status", "type"})))

controllerRevisionSchema == Kind(Defaults({"revision"}))

jobSchema ==
  Kind(UNION {
    In({"spec"}, jobInfo),
    In({"status"},
      UNION {
        Scalars({"completedIndexes"}),
        Defaults({"active", "completionTime", "failed", "ready", "startTime", "succeeded"}),
        Each({"conditions"}, statusConditions),
        In({"uncountedTerminatedPods"}, Scalars({"failed", "succeeded"})) }) })

cronJobSchema ==
  Kind(UNION {
    In({"spec"},
      UNION {
        Scalars({"concurrencyPolicy", "schedule", "suspend", "timeZone"}),
        Defaults({"failedJobsHistoryLimit", "startingDeadlineSeconds",
           "successfulJobsHistoryLimit"}),
        In({"jobTemplate"}, jobInfo) }),
    In({"status"},
      Defaults({"lastScheduleTime", "lastSuccessfulTime"}) \union Each({"active"}, ref)) })

endpointSliceSchema ==
  Kind(UNION {
    Scalars({"addressType"}),
    Each({"endpoints"},
      UNION {
        Scalars({"addresses", "hostname", "nodeName", "zone"}),
        Mixed({"deprecatedTopology"}),
        In({"conditions"}, Scalars({"ready", "serving", "terminating"})),
        In({"hints"}, Each({"forZones"}, Scalars({"name"}))),
        In({"targetRef"}, Scalars({"kind", "namespace", "name", "uid"})) }),
    Each({"ports"}, Scalars({"appProtocol", "name", "protocol"}) \union Defaults({"port"})) })

horizontalPodAutoscalerSchema ==
  Kind(UNION {
    In({"spec"},
      UNION {
        Defaults({"maxReplicas", "minReplicas"}),
        In({"behavior"},
          In({"scaleDown", "scaleUp"},
            UNION {
              Scalars({"selectPolicy"}),
              Defaults({"stabilizationWindowSeconds"}),
              Each({"policies"}, Scalars({"type"}) \union Defaults({"periodSeconds", "value"})) })),
        Each({"metrics"}, metrics),
        In({"scaleTargetRef"}, Scalars({"apiVersion", "kind", "name"})) }),
    In({"status"},
      UNION {
        Defaults({"currentReplicas", "desiredReplicas", "lastScaleTime",
           "observedGeneration"}),
        Each({"conditions"}, statusConditions),
        Each({"currentMetrics"}, metrics) }) })

ingressClassSchema ==
  Kind(In({"spec"},
    UNION {
      Scalars({"controller"}),
      In({"parameters"}, Scalars({"apiGroup", "kind", "name", "namespace", "scope"})) }))

leaseSchema ==
  Kind(In({"spec"},
    UNION {
      Scalars({"holderIdentity"}),
      Defaults({"acquireTime", "leaseDurationSeconds", "leaseTransitions", "renewTime"}) }))

limitRangeSchema == Kind(In({"spec"}, Mixed({"limits"})))

localSubjectAccessReviewSchema ==
  Kind(UNION {
    In({"spec"},
      UNION {
        Scalars({"extra", "groups", "user"}),
        Defaults({"uid"}),
        In({"nonResourceAttributes"}, Scalars({"path", "verb"})),
        In({"resourceAttributes"},
          Scalars({"group", "name", "namespace", "resource", "subresource", "verb",
             "version"})) }),
    In({"status"}, Scalars({"allowed", "denied", "evaluationError", "reason"})) })

mutatingWebhookConfigurationSchema ==
  Kind(Each({"webhooks"},
    UNION {
      Scalars({"admissionReviewVersions", "failurePolicy", "matchPolicy", "name",
         "reinvocationPolicy", "sideEffects"}),
      Defaults({"timeoutSeconds"}),
      In({"clientConfig"},
        UNION {
          Scalars({"caBundle", "url"}),
          In({"service"}, Scalars({"name", "namespace", "path"}) \union Defaults({"port"})) }),
      Each({"matchConditions"}, Scalars({"expression", "name"})),
      In({"namespaceSelector", "objectSelector"}, labelSelector),
      Each({"rules"}, Scalars({"apiGroups", "apiVersions", "operations", "resources", "scope"})) }))

networkPolicySchema ==
  Kind(UNION {
    In({"spec"},
      UNION {
        Scalars({"policyTypes"}),
        Each({"egress"},
          UNION {
            Each({"ports"}, Scalars({"port", "protocol"}) \union Defaults({"endPort"})),
            Each({"to"},
              UNION {
                In({"ipBlock"}, Scalars({"cidr", "except"})),
                In({"namespaceSelector", "podSelector"}, labelSelector) }) }),
        Each({"ingress"},
          UNION {
            Each({"from"},
              UNION {
                In({"ipBlock"}, Scalars({"cidr", "except"})),
                In({"namespaceSelector", "podSelector"}, labelSelector) }),
            Each({"ports"}, Scalars({"port", "protocol"}) \union Defaults({"endPort"})) }),
        In({"podSelector"}, labelSelector) }),
    In({"status"}, Each({"conditions"}, statusConditions)) })

persistentVolumeSchema ==
  Kind(UNION {
    In({"spec"},
      UNION {
        Without(volumeInfo, {<<"storageos", "secretRef">>}),
        Scalars({"accessModes", "mountOptions", "persistentVolumeReclaimPolicy",
           "storageClassName", "volumeMode"}),
        Mixed({"capacity"}),
        In({"azureFile"}, Scalars({"secretNamespace"})),
        In({"cephfs", "cinder", "flexVolume", "scaleIO"}, In({"secretRef"}, Scalars({"namespace"}))),
        In({"claimRef"}, ref),
        In({"csi"},
          UNION {
            Scalars({"volumeHandle"}),
            In({"controllerExpandSecretRef", "controllerPublishSecretRef", "nodeExpandSecretRef",
                "nodeStageSecretRef"}, Scalars({"name", "namespace"})),
            In({"nodePublishSecretRef"}, Scalars({"namespace"})) }),
        In({"glusterfs"}, Scalars({"endpointsNamespace"})),
        In({"local"}, Scalars({"fsType", "path"})),
        In({"nodeAffinity"}, nodeAffinity),
        In({"storageos"}, In({"secretRef"}, ref)) }),
    In({"status"}, Scalars({"message", "phase", "reason"})) })

podDisruptionBudgetSchema ==
  Kind(UNION {
    In({"spec"},
      UNION {
        Scalars({"maxUnavailable", "minAvailable", "unhealthyPodEvictionPolicy"}),
        In({"selector"}, labelSelector) }),
    In({"status"},
      UNION {
        Defaults({"currentHealthy", "desiredHealthy", "disruptionsAllowed", "expectedPods",
           "observedGeneration"}),
        Mixed({"disruptedPods"}),
        Each({"conditions"}, statusConditions \union Defaults({"observedGeneration"})) }) })

priorityClassSchema ==
  Kind(Scalars({"description", "globalDefault", "preemptionPolicy"}) \union Defaults({"value"}))

resourceQuotaSchema ==
  Kind(UNION {
    In({"spec"},
      UNION {
        Scalars({"scopes"}),
        Mixed({"hard"}),
        In({"scopeSelector"},
          Each({"matchExpressions"}, Scalars({"operator", "scopeName", "values"}))) }),
    In({"status"}, Mixed({"hard", "used"})) })

runtimeClassSchema ==
  Kind(UNION {
    Scalars({"handler"}),
    In({"overhead"}, Mixed({"podFixed"})),
    In({"scheduling"},
      UNION {
        Mixed({"nodeSelector"}),
        Each({"tolerations"},
          UNION {
            Scalars({"effect", "key", "operator", "value"}),
            Defaults({"tolerationSeconds"}) }) }) })

selfSubjectAccessReviewSchema ==
  Kind(UNION {
    In({"spec"},
      UNION {
        In({"nonResourceAttributes"}, Scalars({"path", "verb"})),
        In({"resourceAttributes"},
          Scalars({"group", "name", "namespace", "resource", "subresource", "verb",
             "version"})) }),
    In({"status"}, Scalars({"allowed", "denied", "evaluationError", "reason"})) })

selfSubjectReviewSchema ==
  Kind(In({"status"},
    In({"userInfo"},
      Scalars({"groups", "username"}) \union Defaults({"uid"}) \union Mixed({"extra"}))))

selfSubjectRulesReviewSchema ==
  Kind(UNION {
    In({"spec"}, Scalars({"namespace"})),
    In({"status"},
      UNION {
        Scalars({"evaluationError", "incomplete"}),
        Each({"nonResourceRules"}, Scalars({"nonResourceURLs", "verbs"})),
        Each({"resourceRules"}, Scalars({"apiGroups", "resourceNames", "resources", "verbs"})) }) })

serviceAccountSchema ==
  Kind(In({"spec"},
    UNION {
      Scalars({"automountServiceAccountToken"}),
      Each({"imagePullSecrets"}, Scalars({"name"})),
      Each({"secrets"}, ref) }))

statefulSetSchema ==
  Kind(UNION {
    In({"spec"},
      UNION {
        Scalars({"podManagementPolicy", "serviceName"}),
        Defaults({"minReadySeconds", "replicas", "revisionHistoryLimit"}),
        In({"ordinals"}, Defaults({"start"})),
        In({"persistentVolumeClaimRetentionPolicy"}, Scalars({"whenDeleted", "whenScaled"})),
        In({"selector"}, labelSelector),
        In({"template"}, pod),
        In({"updateStrategy"},
          UNION {
            Scalars({"type"}),
            In({"rollingUpdate"}, Scalars({"maxUnavailable"}) \union Defaults({"partition"})) }),
        Each({"volumeClaimTemplates"}, persistentVolumeClaimSchema) }),
    In({"status"},
      UNION {
        Scalars({"currentRevision", "updateRevision"}),
        Defaults({"availableReplicas", "collisionCount", "currentReplicas",
           "observedGeneration", "readyReplicas", "replicas", "updatedReplicas"}),
        Each({"conditions"}, statusConditions) }) })

storageClassSchema ==
  Kind(UNION {
    Scalars({"allowVolumeExpansion", "mountOptions", "provisioner", "reclaimPolicy",
       "volumeBindingMode"}),
    Mixed({"parameters"}),
    Each({"allowedTopologies"}, Each({"matchLabelExpressions"}, Scalars({"key", "values"}))) })

subjectAccessReviewSchema ==
  Kind(UNION {
    In({"spec"},
      UNION {
        Scalars({"extra", "groups", "user"}),
        Defaults({"uid"}),
        In({"nonResourceAttributes"}, Scalars({"path", "verb"})),
        In({"resourceAttributes"},
          Scalars({"group", "name", "namespace", "resource", "subresource", "verb",
             "version"})) }),
    In({"status"}, Scalars({"allowed", "denied", "evaluationError", "reason"})) })

tokenRequestSchema ==
  Kind(UNION {
    In({"spec"},
      UNION {
        Scalars({"audiences", "expirationSeconds"}),
        In({"boundObjectRef"}, Scalars({"apiVersion", "kind", "name"}) \union Defaults({"uid"})) }),
    In({"status"}, Scalars({"expirationTimestamp", "token"})) })

tokenReviewSchema ==
  Kind(UNION {
    In({"spec"}, Scalars({"audiences", "token"})),
    In({"status"},
      UNION {
        Scalars({"audiences", "authenticated", "error"}),
        In({"user"}, Scalars({"extra", "groups", "username"}) \union Defaults({"uid"})) }) })

validatingWebhookConfigurationSchema ==
  Kind(Each({"webhooks"},
    UNION {
      Scalars({"admissionReviewVersions", "failurePolicy", "matchPolicy", "name",
         "sideEffects"}),
      Defaults({"timeoutSeconds"}),
      In({"clientConfig"},
        UNION {
          Scalars({"caBundle", "url"}),
          In({"service"}, Scalars({"name", "namespace", "path"}) \union Defaults({"port"})) }),
      Each({"matchConditions"}, Scalars({"expression", "name"})),
      In({"namespaceSelector", "objectSelector"}, labelSelector),
      Each({"rules"}, Scalars({"apiGroups", "apiVersions", "operations", "resources", "scope"})) }))

volumeAttachmentSchema ==
  Kind(UNION {
    In({"spec"},
      UNION {
        Scalars({"attacher", "nodeName"}),
        In({"source"},
          UNION {
            Scalars({"persistentVolumeName"}),
            Sub({"inlineVolumeSpec"}, persistentVolumeSchema) }) }),
    In({"status"},
      UNION {
        Scalars({"attached"}),
        Mixed({"attachmentMetadata"}),
        In({"attachError", "detachError"}, Scalars({"message"}) \union Defaults({"time"})) }) })

(* The models of the API kinds.  ResourceVersion, DNS and Volume are not   *)
(* kinds a client can name.                                                *)
Model ==
  [ APIService |-> apiServiceSchema,
    Binding |-> bindingSchema,
    CertificateSigningRequest |-> certificateSigningRequestSchema,
    ClusterRole |-> clusterRoleSchema,
    ClusterRoleBinding |-> clusterRoleBindingSchema,
    ComponentStatus |-> componentStatusSchema,
    ConfigMap |-> configMapSchema,
    ControllerRevision |-> controllerRevisionSchema,
    CronJob |-> cronJobSchema,
    CSIDriver |-> csiDriverSchema,
    CSINode |-> csiNodeSchema,
    CSIStorageCapacity |-> csiStorageCapacitySchema,
    DaemonSet |-> daemonSetSchema,
    Deployment |-> deploymentSchema,
    Endpoints |-> endpointsSchema,
    EndpointSlice |-> endpointSliceSchema,
    Event |-> eventSchema,
    HorizontalPodAutoscaler |-> horizontalPodAutoscalerSchema,
    IngressClass |-> ingressClassSchema,
    Job |-> jobSchema,
    Lease |-> leaseSchema,
    LimitRange |-> limitRangeSchema,
    LocalSubjectAccessReview |-> localSubjectAccessReviewSchema,
    MutatingWebhookConfiguration |-> mutatingWebhookConfigurationSchema,
    Namespace |-> namespaceSchema,
    NetworkPolicy |-> networkPolicySchema,
    Node |-> nodeSchema,
    PersistentVolume |-> persistentVolumeSchema,
    PersistentVolumeClaim |-> persistentVolumeClaimSchema,
    Pod |-> podSchema,
    PodDisruptionBudget |-> podDisruptionBudgetSchema,
    PodTemplate |-> podTemplateSchema,
    PriorityClass |-> priorityClassSchema,
    ReplicaSet |-> replicaSetSchema,
    ReplicationController |-> replicationControllerSchema,
    ResourceQuota |-> resourceQuotaSchema,
    Role |-> roleSchema,
    RoleBinding |-> roleBindingSchema,
    RuntimeClass |-> runtimeClassSchema,
    Secret |-> secretSchema,
    SelfSubjectAccessReview |-> selfSubjectAccessReviewSchema,
    SelfSubjectReview |-> selfSubjectReviewSchema,
    SelfSubjectRulesReview |-> selfSubjectRulesReviewSchema,
    Service |-> serviceSchema,
    ServiceAccount |-> serviceAccountSchema,
    StatefulSet |-> statefulSetSchema,
    StorageClass |-> storageClassSchema,
    SubjectAccessReview |-> subjectAccessReviewSchema,
    TokenRequest |-> tokenRequestSchema,
    TokenReview |-> tokenReviewSchema,
    ValidatingWebhookConfiguration |-> validatingWebhookConfigurationSchema,
    VolumeAttachment |-> volumeAttachmentSchema ]

=============================================================================

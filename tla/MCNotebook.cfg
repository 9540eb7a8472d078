SPECIFICATION Spec
CONSTANTS
  Customs <- AllDicts
  Settable = {"S3_ACCESS_KEY", "SPARGLIM_K8S_GPU_AMOUNT"}
INVARIANTS TypeOK OneMaster SessionMatchesConfig ShownIsEager SessionsAreClean CaGoesWithMaster StartFollowsPrecedence
PROPERTIES ImplementsLifecycle

SPECIFICATION Spec
CONSTANTS
  Customs <- AllDicts
  Settable = {"SPARGLIM_REMOTE"}
PROPERTIES AlreadyMeansConfigured

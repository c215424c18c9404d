CONSTANTS
    Deployments <- MCDeployments
    Requests <- MCRequests
    Sieves <- MCSieves
    SieveIds <- MCSieveIds
    MaxCalls = 2
SPECIFICATION Spec
INVARIANTS
    TypeOK
    ReadsFresh
    SievedUnseen
    SievesOnlyTheirs

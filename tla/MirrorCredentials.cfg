SPECIFICATION Spec
CONSTANTS
  Parts = {"pull"}
  Goroutines = {g1, g2}
  Contexts <- MCContexts
  Text <- MCText
  AliasNames <- MCAliasNames
  AliasValues <- MCAliasValues
  DropIns <- MCDropIns
  Documents <- MCDocuments
  InitialDisks <- MCInitialDisks
  MaxConfEdits = 1
  Nobody = Nobody
  Pullers = {"puller"}
  Editors = {"editor"}
  Inputs <- MCInputs
  Configs <- MCConfigs
  Modes = {"", "permissive", "disabled"}
  Edits <- MCEdits
  Width <- MCWidth
  DockerIO <- Hub
  Localhost <- Local
  MaxEdits = 2
  MaxReloads = 1
  Processes = {p1, p2}
  HelperLists <- MCHelperLists
  AuthModes <- MCAuthModes
  InitialFiles <- MCInitialFiles
  LoginKeys <- MCLoginKeys
  Users = {"u1"}
  MaxOperations = 2
INVARIANT CredentialsStayHome

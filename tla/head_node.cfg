SPECIFICATION Spec
CONSTANTS
  Lines <- MCLines
  MaxLines = 2
  Blanks = {" "}
  Folders <- MCFolders
  Jars <- MCJars
  Number <- MCNumber
  Clients = {"ann", "bob", "cat", "eve"}
  Mapped = {"ann", "bob", "cat"}
  Address <- MCAddress
  Ids = {u1, u2}
  Known = {u1}
  Root = Root
  Nobody = Nobody
  Paths <- MCPaths
  Home <- MCHome
  MaxDepth = 2
  Garbage = Garbage
CHECK_DEADLOCK FALSE
INVARIANTS StackTypeOK NoGatewayTwice GatewaysAsGiven DeathHasACause
INVARIANTS TokensAccepted ServedIsMapped OwnerFromAnswer CwdLeadsThere

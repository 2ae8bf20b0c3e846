\* Every setting, as long as nothing has aged; every age with the defaults.
SPECIFICATION Spec
CONSTANTS
  Users = {"root", "eve"}
  First = "root"
  Browsers = {b1, b2}
  Nets <- AllNets
  TTL = 1
  LoginTicks = 1
CONSTRAINT Scope
SYMMETRY BrowserSymmetry
INVARIANT StaleRoleBounded
 

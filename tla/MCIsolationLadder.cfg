SPECIFICATION Spec
CONSTANTS
  a1 = a1
  a2 = a2
  a3 = a3
  b1 = b1
  c1 = c1
  c2 = c2
  A = A
  B = B
  C = C
  session = session
  ofA = ofA
  ofC = ofC
  Tests <- MCTests
  Modules <- MCModules
  ModuleOf <- MCModuleOf
  Before <- MCBefore
  Opaque <- MCOpaque
  Leaves <- MCLeaves
  CallFixture <- MCCallFixture
  Fixtures <- MCFixtures
  Serves <- MCServes
  Needs <- MCNeeds
  MustFork <- MCMustFork
  Trusted <- MCTrusted
  Configs <- MCConfigs
  Sharded = TRUE
INVARIANTS TypeOK NoForeignMarks FileCarries NeverSplit Contained LeakIsRerun
CHECK_DEADLOCK FALSE

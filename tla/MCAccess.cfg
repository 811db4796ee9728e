SPECIFICATION Spec
CONSTANTS
  Users = {m1, m2}
  Scopes = {"org"}
  Browsers = {b1, b2}
  Requests = {r1, r2}
  Founders = {m1, m2}
INVARIANT AdministratorRemains
CHECK_DEADLOCK FALSE

SPECIFICATION Spec
CONSTANTS
  Requests = {r1, r2}
  Accounts = {a, b}
  MaxFaults = 0
  Nobody = Nobody
INVARIANTS LogoutLasts

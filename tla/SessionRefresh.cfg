SPECIFICATION Spec
CONSTANTS
  Requests = {r1, r2}
  Accounts = {a, b}
  MaxFaults = 1
  Nobody = Nobody
INVARIANTS TypeOK OneRefresh WaitersServed SessionIsUsers
PROPERTIES RequestsEnd

SPECIFICATION Spec
CONSTANTS
  Conns = {c1, c2}
  Logins = {admin, guest}
  Junk = junk
  Create = create
  Modify = modify
  Delete = delete
  Rights = {create, modify, delete}
  Passwords = {pw}
  NoPass = noPass
  Keep = keep
  None = none
  Bad = bad
  Grants <- MCGrants
  MaxRequests = 3
  MaxFaults = 1
SYMMETRY MCSymmetry
INVARIANTS TypeOK UndamagedInSync ConfinedRights SessionsAreTold
CHECK_DEADLOCK FALSE

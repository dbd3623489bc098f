SPECIFICATION Spec
CONSTANTS
  Names = {n1, n2}
  Perms = {ro, rw}
  Calls = {c1, c2}
  NoName = NoName
  MaxPasswords = 4
  MaxFaults = 1
SYMMETRY Symmetry
INVARIANTS
  TypeOK
  StoredUsersWork
  
CHECK_DEADLOCK FALSE \* passwords are used up

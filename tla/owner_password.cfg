SPECIFICATION Spec
CONSTANTS
  Names = {n1}
  Perms = {ro, rw}
  Calls = {c1, c2}
  NoName = NoName
  MaxPasswords = 4
  MaxFaults = 0
SYMMETRY Symmetry
INVARIANT
  OwnerPasswordWorks
CHECK_DEADLOCK FALSE \* passwords are used up

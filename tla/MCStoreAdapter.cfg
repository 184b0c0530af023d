CONSTANTS
  Clients = {c1, c2}
  Ids = {lease, target}
  Targets = {target}
  Objects = {o1, o2, o3}
  Changes = {x, y}
  NONE = NONE
SYMMETRY Symmetry
SPECIFICATION Spec
INVARIANTS TypeOK StoresAgree TargetsAreGenuine

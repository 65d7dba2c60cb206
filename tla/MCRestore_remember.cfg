SPECIFICATION Spec
CONSTANTS
  num = num
  sw = sw
  Entities = {num, sw}
  Kind <- OneOfEach
  Values = {v1, v2}
  None = None
  Lost = Lost
INVARIANTS
  TypeOK
  NumbersRemember
  NeverOutdated

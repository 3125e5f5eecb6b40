SPECIFICATION Spec
CONSTANTS
  Ip = {a, b}
  Name = {x}
  NoName = none
  TTL = 2
  CallTime = 1
INVARIANT AskedRarely
PROPERTY NamesArrive

CONSTANTS
  Sup = sup
  Rec = {r1}
  Disp = {d1}
  Settle = 2
  Cooldown = 3
  ReadyAge = 2
  MaxActivations = 1
  Faults = {"busy", "command"}
SPECIFICATION Spec
PROPERTY RecStartsWhenCalm

CONSTANTS
  Sup = sup
  Rec = {r1}
  Disp = {d1, d2}
  Settle = 1
  Cooldown = 2
  ReadyAge = 2
  MaxActivations = 2
  Faults = {"busy", "dispatcher"}
SPECIFICATION Spec
INVARIANTS
  Exclusive
PROPERTIES
  StartsSpaced
  RecStartsWhenCalm
SYMMETRY Symmetry

CONSTANTS
  Sup = sup
  Rec = {r1}
  Disp = {d1}
  Settle = 2
  Cooldown = 3
  ReadyAge = 1
  MaxActivations = 1
  Faults = {"busy", "command", "timeout", "crash", "runner"}
SPECIFICATION Spec
INVARIANTS
  TypeOK
  Exclusive
  CommandsSerialized
PROPERTIES
  StartsAfterRunner
  SupStartsWhenCalm
  ImplementsPolicy

SPECIFICATION MCSpec
CONSTANTS
  VMs = {v}
  Containers = {c}
  MaxEdits = 2
  MaxMishaps = 1
PROPERTIES NeverBack ShowsReal

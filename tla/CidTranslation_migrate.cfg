CONSTANTS
  Cids = {c1}
  ClearLimit = 3
  CIDObfuscationEnabled = TRUE
  DoubleSend = FALSE
  Addrs = {a1, a2}
  PerAddress = TRUE
  MayMigrate = TRUE
  MaxSend = 4
  Zero = Zero
  Noise = Noise
  c1 = c1
  c2 = c2
  c3 = c3
  c4 = c4
  p1 = p1
  p2 = p2
  Seeds = {s1, s2}
  None = None
  Prefix <- Single
SPECIFICATION Spec
SYMMETRY Symmetry
INVARIANTS MigrationAllowed
CHECK_DEADLOCK FALSE

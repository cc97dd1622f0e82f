SPECIFICATION Spec
CONSTANTS
  Configs <- MCConfigs
  Threshold = 2
  Cooldown = 1
  Window = 2
  MaxReboots = 1
  Backup = 2
INVARIANT RebootLimit

SPECIFICATION SightSpec
CONSTANTS
  Bssids = {b1, b2}
  Macs = {m}
  Channels = {1, 2}
  Defaults = {1}
  Retention = 2
  Dwell = 1
  MaxAir = 2
  Nil = Nil
SYMMETRY Symmetry
PROPERTIES NewNetworkFound RoamsAreMoves
CHECK_DEADLOCK FALSE

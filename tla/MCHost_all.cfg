SPECIFICATION Spec
CONSTANTS
  Pids = {p1, p2, p3}
  Fields = {f1, f2}
  Programs = {"meteopoll", "meteoavg"}
  MaxPackets = 2
  MaxStarts = 3
SYMMETRY Symmetry
INVARIANTS
  NamesLastDaemon
  MapIsOnePacket

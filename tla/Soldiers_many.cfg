\* Two soldiers at once.
CONSTANTS
  ioctl_pid = ioctl_pid
  ioctl_mod = ioctl_mod
  NoDriver = NoDriver
  Drivers = {ioctl_pid}
  MaxRegions = 2
  s1 = s1
  s2 = s2
  Soldier = {s1, s2}
  ListHead = ListHead
  Pid = ioctl_pid
  SaFlags = {{}}
  OneByOne = FALSE
SPECIFICATION Spec
CHECK_DEADLOCK FALSE
INVARIANT NoZombieLeft

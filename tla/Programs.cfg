\* Two soldiers, one after the other, beside the other driver; every mode of simple-kvm,
\* with a guest that makes four exits; two frames of memory.
CONSTANTS
  ioctl_pid = ioctl_pid
  ioctl_mod = ioctl_mod
  NoDriver = NoDriver
  Drivers = {ioctl_pid, ioctl_mod}
  MaxRegions = 2
  s1 = s1
  s2 = s2
  Soldier = {s1, s2}
  ListHead = ListHead
  Pid = ioctl_pid
  SaFlags = {{}, {"NODEFER"}, {"NOCLDWAIT"}, {"RESETHAND"}}
  OneByOne = TRUE
  Modes = {"real", "protected", "paged32", "long"}
  Values = {7}
  BadAddr = 999
  Strings = {100}
  Slots = 2
  MaxExits = 4
  W = 6
  PAGE = 4
  Frames = {1, 2}
  Offsets = {0, 3}
SPECIFICATION MCSpec
CHECK_DEADLOCK FALSE
INVARIANTS NothingLeftBehind GuestIsToldTheTruth WritesItsOwnByte
PROPERTIES StationHears NamespacesJoined

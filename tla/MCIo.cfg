SPECIFICATION Spec
CONSTANTS
  MaxFd = 1
  Modes = {"EPOLL", "KQUEUE", "DEVPOLL", "SIGIO", "UNDECIDED"}
  Writers <- MCWriters
  AnyTime = {"EPOLL", "KQUEUE", "DEVPOLL", "UNDECIDED"}
  MaxUnheard <- MCUnheard
  MaxOvercount = 1
INVARIANTS
  WantsAgree
  NoStaleWakeup
  LostOnlyBroken
CHECK_DEADLOCK FALSE

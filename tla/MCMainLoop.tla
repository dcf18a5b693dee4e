---- MODULE MCMainLoop ----
EXTENDS MainLoop, TLC

FdSymmetry == Permutations(Fds)
====

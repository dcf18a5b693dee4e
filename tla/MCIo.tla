-------------------------------- MODULE MCIo --------------------------------
(* Two descriptors are the least for a lost one: a connection whose number *)
(* is reused while it is queued, and the one queued behind it.  Both write *)
(* in one mode without a second list, and in the other one of them may be  *)
(* refused by the kernel: no condition of the lists tells the two apart,   *)
(* and all of this in every mode makes the run too long.                   *)
EXTENDS Io

MCWriters == [m \in AllModes |-> IF m = "KQUEUE" THEN Fds ELSE {MaxFd}]
MCUnheard == [m \in AllModes |-> IF m = "DEVPOLL" THEN 1 ELSE 0]
=============================================================================

------------------------------ MODULE Descriptors ------------------------------
(***************************************************************************)
(* The table of open descriptors of the process, as the kernel keeps it    *)
(* (external): a new descriptor gets the lowest free number, closing one   *)
(* that is not open does nothing (EBADF).  A table maps each number to     *)
(* what it is open on.                                                     *)
(***************************************************************************)
EXTENDS Integers, FiniteSetsExt

NoFd == -1

LowestFree(t) == Min({n \in DOMAIN t : t[n] = "closed"})

HasFree(t) == \E n \in DOMAIN t : t[n] = "closed"

OpenFd(t, what) == [t EXCEPT ![LowestFree(t)] = what]

CloseFd(t, n) == IF n \in DOMAIN t THEN [t EXCEPT ![n] = "closed"] ELSE t

CloseFds(t, ns) == [n \in DOMAIN t |-> IF n \in ns THEN "closed" ELSE t[n]]

OpenOn(t, what) == {n \in DOMAIN t : t[n] = what}
================================================================================

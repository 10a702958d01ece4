--------------------------- MODULE RaRtProcessProofs ---------------------------
(***************************************************************************)
(* Proofs about RaRtProcess, for any descriptor limit, any rules and any   *)
(* files of parameters.  The inductive invariant follows main() (PhaseInv, *)
(* StopInv), says which descriptor belongs to whom (OwnInv, SessionInv)    *)
(* and that descriptor 0, which zlog takes for "not open", is never one of *)
(* zlog's (ZeroInv).                                                       *)
(***************************************************************************)
EXTENDS RaRtProcess, SequenceTheorems, WellFoundedInduction, TLAPS

Fds     == 0..ProcFds
OutKind == {"file", "pipe", "stdout", "stderr"}
OwnKind == {"lock", "file", "pipe"}     \* what a configuration of zlog opens
Kind    == OwnKind \cup {"closed", "console", "conf", "reactor", "udp", "F1"}
Out     == [out : OutKind, fd : Fds]
Conf    == [lock : Fds \cup {NoFd}, outs : Seq(Out)]
Load    == [by : {"nobody", "main", "io"}, fp : Fds \cup {NoFd},
            todo : Seq(OutKind \cup {"lock"}), new : Conf]
Early   == {"options", "params", "set_signals", "fork", "fork again", "close", "log_init"}

ProcessType ==
    /\ table \in [Fds -> Kind]
    /\ logconf \in Conf
    /\ loading \in Load
    /\ events \in Seq({"start", "stop"})
    /\ pc \in Early \cup {"run", "join", "ended"}

\* What there is at each place of main().
PhaseInv ==
    /\ exit = "none" <=> pc # "ended"
    /\ pc \in Early \cup {"ended"} => logconf = NoConf /\ loading = NoLoad
    /\ pc # "join" => DOMAIN sessions = {}
    /\ loading.by = "io" => pc = "join"
    /\ loading = NoLoad \/ loading.by \in {"main", "io"}

\* The handlers are set before the service runs as a daemon; a stop is recorded last.
StopInv ==
    /\ pc \in {"options", "params"} => ~handlers
    /\ asDaemon /\ pc \notin {"options", "params", "set_signals", "ended"} => handlers
    /\ ~handlers => ~stopped
    /\ stopped => events # <<>> /\ Last(events) = "stop"
    /\ StopRecorded

\* The sessions hold their descriptors and use the address in force.
SessionInv ==
    \A n \in DOMAIN sessions :
        n \in Fds /\ table[n] = "F1" /\ sessions[n] = params["f1serveradr"]

\* The configuration c has descriptor n, opened as k.
Holds(c, n, k) ==
    \/ n = c.lock /\ k = "lock"
    \/ \E i \in 1..Len(c.outs) : Opens(c.outs[i].out) /\ c.outs[i].fd = n /\ c.outs[i].out = k

\* In the table t, zlog's descriptors are those of the configurations a and b, and no
\* descriptor is held by both.
Own(t, a, b) ==
    /\ \A n \in Fds : t[n] \in OwnKind => Holds(a, n, t[n]) \/ Holds(b, n, t[n])
    /\ \A n, k : Holds(a, n, k) /\ n # NoFd => n \in Fds /\ t[n] = k
    /\ \A n, k : Holds(b, n, k) /\ n # NoFd => n \in Fds /\ t[n] = k
    /\ \A n, k, j : Holds(a, n, k) /\ Holds(b, n, j) => n = NoFd

OwnInv ==
    /\ Own(table, logconf, loading.new)
    /\ loading # NoLoad => loading.fp \in Fds /\ table[loading.fp] = "conf"
    /\ \A i \in 1..Len(loading.todo) :
          loading.todo[i] = "lock" => i = 1 /\ loading.new.lock = NoFd

\* Descriptor 0 is the console's, the reactor's, the file's that is being read, or free
\* when nothing is being read.
ZeroInv ==
    /\ table[0] \in {"console", "reactor", "conf", "closed"}
    /\ loading # NoLoad => table[0] # "closed"
    /\ table[0] = "conf" => loading # NoLoad /\ loading.fp = 0
    /\ pc = "join" => table[0] \in {"console", "reactor"}

ProcessInv ==
    /\ ProcessType
    /\ PhaseInv
    /\ StopInv
    /\ SessionInv
    /\ OwnInv
    /\ ZeroInv

-------------------------------------------------------------------------------
(* The descriptor table.                                                   *)

\* A set of descriptors that is not empty has a least one.
LEMMA LeastNatural ==
  ASSUME NEW T \in SUBSET Nat, T # {}
  PROVE  \E m \in T : \A n \in T : m <= n
<1>1. PICK m \in T : \A n \in T : ~(<<n, m>> \in OpToRel(<, Nat))
  BY WFMin, NatLessThanWellFounded
<1>2. \A n \in T : ~(n < m)
  BY <1>1 DEF OpToRel
<1> QED  BY <1>2

\* The descriptor that a call of open gets is free, and it is 0 when 0 is free.
LEMMA FreeFacts ==
  ASSUME NEW t \in [Fds -> Kind], HasFree(t)
  PROVE  /\ LowestFree(t) \in Fds /\ t[LowestFree(t)] = "closed"
         /\ t[0] = "closed" => LowestFree(t) = 0
<1> DEFINE S == {n \in DOMAIN t : t[n] = "closed"}
<1>1. S \in SUBSET Nat /\ S # {} /\ DOMAIN t = Fds /\ S \subseteq Fds
  BY ProcessAssumption DEF HasFree, Fds
<1>2. PICK m \in S : \A n \in S : m <= n
  BY <1>1, LeastNatural
<1>3. Min(S) \in S /\ \A n \in S : Min(S) <= n
  BY <1>2 DEF Min
<1>4. LowestFree(t) = Min(S)
  BY DEF LowestFree
<1>5. ASSUME t[0] = "closed" PROVE Min(S) = 0
  <2>1. 0 \in S
    BY <1>1, <1>5, ProcessAssumption DEF Fds
  <2>2. Min(S) <= 0 /\ Min(S) \in Nat
    BY <1>1, <1>3, <2>1
  <2> QED  BY <2>2
<1> QED  BY <1>1, <1>3, <1>4, <1>5

\* open changes one free entry.
LEMMA OpenFacts ==
  ASSUME NEW t \in [Fds -> Kind], HasFree(t), NEW k \in Kind
  PROVE  /\ OpenFd(t, k) = [t EXCEPT ![LowestFree(t)] = k]
         /\ OpenFd(t, k) \in [Fds -> Kind]
         /\ OpenFd(t, k)[LowestFree(t)] = k
         /\ \A n \in Fds : n # LowestFree(t) => OpenFd(t, k)[n] = t[n]
BY FreeFacts DEF OpenFd

\* close changes one entry.
LEMMA CloseFacts ==
  ASSUME NEW t \in [Fds -> Kind], NEW n \in Fds
  PROVE  /\ CloseFd(t, n) = [t EXCEPT ![n] = "closed"]
         /\ CloseFd(t, n) \in [Fds -> Kind]
         /\ CloseFd(t, n)[n] = "closed"
         /\ \A m \in Fds : m # n => CloseFd(t, n)[m] = t[m]
BY DEF CloseFd, Kind

-------------------------------------------------------------------------------
(* Configurations and what they hold.                                      *)

\* Nothing is held before a configuration is built.
LEMMA NoConfFacts ==
  /\ NoConf \in Conf /\ NoConf.lock = NoFd /\ NoConf.outs = <<>>
  /\ NoLoad \in Load /\ NoLoad.new = NoConf /\ NoLoad.by = "nobody" /\ NoLoad.todo = <<>>
  /\ \A n, k : Holds(NoConf, n, k) <=> n = NoFd /\ k = "lock"
<1>1. NoConf.lock = NoFd /\ NoConf.outs = <<>>
  BY DEF NoConf
<1>2. <<>> \in Seq(Out) /\ <<>> \in Seq(OutKind \cup {"lock"})
  OBVIOUS
<1>3. NoConf \in Conf
  BY <1>2 DEF NoConf, Conf
<1>4. NoLoad \in Load /\ NoLoad.new = NoConf /\ NoLoad.by = "nobody" /\ NoLoad.todo = <<>>
  BY <1>2, <1>3 DEF NoLoad, Load
<1>5. \A n, k : Holds(NoConf, n, k) <=> n = NoFd /\ k = "lock"
  BY <1>1 DEF Holds
<1> QED  BY <1>1, <1>3, <1>4, <1>5

\* What a configuration holds it has opened as a lock, a file or a pipe.
LEMMA HoldsKind ==
  ASSUME NEW c, NEW n, NEW k, Holds(c, n, k)
  PROVE  k \in OwnKind
BY DEF Holds, Opens, OwnKind

\* The lock file is opened.
LEMMA HoldsLock ==
  ASSUME NEW c \in Conf, c.lock = NoFd, NEW m \in Fds, NEW n, NEW k
  PROVE  Holds([lock |-> m, outs |-> c.outs], n, k)
           <=> (n = m /\ k = "lock") \/ (Holds(c, n, k) /\ n # NoFd)
<1>1. \A i \in 1..Len(c.outs) : c.outs[i].fd # NoFd
  <2>1. PICK s \in Seq(Out) : s = c.outs
    BY DEF Conf
  <2>2. \A i \in 1..Len(s) : s[i] \in Out
    OBVIOUS
  <2>3. \A o \in Out : o.fd # NoFd
    BY ProcessAssumption DEF Out, Fds, NoFd
  <2> QED  BY <2>1, <2>2, <2>3
<1>2. /\ [lock |-> m, outs |-> c.outs].lock = m
      /\ [lock |-> m, outs |-> c.outs].outs = c.outs
  OBVIOUS
<1> QED  BY <1>1, <1>2 DEF Holds

\* An output is added.
LEMMA HoldsOut ==
  ASSUME NEW c \in Conf, NEW o \in Out, NEW n, NEW k
  PROVE  Holds([lock |-> c.lock, outs |-> Append(c.outs, o)], n, k)
           <=> Holds(c, n, k) \/ (Opens(o.out) /\ n = o.fd /\ k = o.out)
<1>1. PICK s \in Seq(Out) : s = c.outs
  BY DEF Conf
<1>2. /\ Append(s, o) \in Seq(Out) /\ Len(Append(s, o)) = Len(s) + 1 /\ Len(s) \in Nat
      /\ \A i \in 1..Len(s) : Append(s, o)[i] = s[i]
      /\ Append(s, o)[Len(s) + 1] = o
  OBVIOUS
<1>3. PICK a : a = Append(s, o)
  OBVIOUS
<1>4. \A i \in 1..Len(a) : i \in 1..Len(s) \/ i = Len(s) + 1
  BY <1>2, <1>3
<1>5. 1..Len(s) \subseteq 1..Len(a) /\ Len(s) + 1 \in 1..Len(a)
  BY <1>2, <1>3
<1>6. /\ [lock |-> c.lock, outs |-> a].lock = c.lock
      /\ [lock |-> c.lock, outs |-> a].outs = a
  OBVIOUS
<1>7. (\E i \in 1..Len(a) : Opens(a[i].out) /\ a[i].fd = n /\ a[i].out = k)
        <=> \/ \E i \in 1..Len(s) : Opens(s[i].out) /\ s[i].fd = n /\ s[i].out = k
            \/ Opens(o.out) /\ n = o.fd /\ k = o.out
  BY <1>2, <1>3, <1>4, <1>5
<1> QED  BY <1>1, <1>3, <1>6, <1>7 DEF Holds

\* zlog_conf_del closes what the configuration holds, except a descriptor 0.
LEMMA CloseConfFacts ==
  ASSUME NEW t \in [Fds -> Kind], NEW c \in Conf
  PROVE  /\ CloseConf(t, c) \in [Fds -> Kind]
         /\ \A n \in Fds : (\E k : Holds(c, n, k)) /\ n # 0 => CloseConf(t, c)[n] = "closed"
         /\ \A n \in Fds : (\A k : ~Holds(c, n, k)) \/ n = 0 => CloseConf(t, c)[n] = t[n]
<1> DEFINE N == ({c.lock} \cup {c.outs[i].fd : i \in {j \in 1..Len(c.outs) : Opens(c.outs[j].out)}})
                  \ {0}
<1>1. CloseConf(t, c) = [n \in Fds |-> IF n \in N THEN "closed" ELSE t[n]]
  BY DEF CloseConf, CloseFds
<1>2. \A n : n \in N <=> n # 0 /\ \E k : Holds(c, n, k)
  BY DEF Holds
<1> HIDE DEF N
<1>3. CloseConf(t, c) \in [Fds -> Kind]
  BY <1>1 DEF Kind
<1> QED  BY <1>1, <1>2, <1>3

-------------------------------------------------------------------------------
(* Ownership.                                                              *)

\* An entry that is not zlog's changes to another that is not.
LEMMA OwnOther ==
  ASSUME NEW t \in [Fds -> Kind], NEW a, NEW b, Own(t, a, b),
         NEW m \in Fds, t[m] \notin OwnKind, NEW k \in Kind, k \notin OwnKind
  PROVE  Own([t EXCEPT ![m] = k], a, b)
<1>1. PICK u : u = [t EXCEPT ![m] = k]
  OBVIOUS
<1>2. u[m] = k /\ \A n \in Fds : n # m => u[n] = t[n]
  BY <1>1
<1>3. \A n, j : Holds(a, n, j) \/ Holds(b, n, j) => n # m
  BY HoldsKind, ProcessAssumption DEF Own, Fds, NoFd
<1>4. Own(u, a, b)
  BY <1>2, <1>3 DEF Own
<1> QED  BY <1>1, <1>4

\* The lock file takes a free entry.
LEMMA OwnLock ==
  ASSUME NEW t \in [Fds -> Kind], NEW a, NEW b \in Conf, Own(t, a, b), b.lock = NoFd,
         NEW m \in Fds, t[m] = "closed"
  PROVE  Own([t EXCEPT ![m] = "lock"], a, [lock |-> m, outs |-> b.outs])
<1>1. PICK u : u = [t EXCEPT ![m] = "lock"]
  OBVIOUS
<1>2. PICK d : d = [lock |-> m, outs |-> b.outs]
  OBVIOUS
<1>3. u[m] = "lock" /\ (\A n \in Fds : n # m => u[n] = t[n]) /\ m # NoFd
  BY <1>1, ProcessAssumption DEF Fds, NoFd
<1>4. \A n, k : Holds(d, n, k) <=> (n = m /\ k = "lock") \/ (Holds(b, n, k) /\ n # NoFd)
  BY <1>2, HoldsLock
<1>5. \A n, j : Holds(a, n, j) \/ Holds(b, n, j) => n # m
  BY <1>3, HoldsKind DEF Own, OwnKind
<1>6. \A n \in Fds : n # NoFd
  BY ProcessAssumption DEF Fds, NoFd
<1>7. Own(u, a, d)
  BY <1>3, <1>4, <1>5, <1>6 DEF Own
<1> QED  BY <1>1, <1>2, <1>7

\* A file or a pipe takes a free entry.
LEMMA OwnOut ==
  ASSUME NEW t \in [Fds -> Kind], NEW a, NEW b \in Conf, Own(t, a, b), NEW k \in OutKind,
         Opens(k), NEW m \in Fds, t[m] = "closed"
  PROVE  Own([t EXCEPT ![m] = k], a,
             [lock |-> b.lock, outs |-> Append(b.outs, [out |-> k, fd |-> m])])
<1>1. PICK u : u = [t EXCEPT ![m] = k]
  OBVIOUS
<1>2. PICK o : o = [out |-> k, fd |-> m]
  OBVIOUS
<1>3. o \in Out /\ o.out = k /\ o.fd = m
  BY <1>2 DEF Out
<1>4. PICK d : d = [lock |-> b.lock, outs |-> Append(b.outs, o)]
  OBVIOUS
<1>5. u[m] = k /\ (\A n \in Fds : n # m => u[n] = t[n]) /\ m # NoFd
  BY <1>1, ProcessAssumption DEF Fds, NoFd
<1>6. \A n, j : Holds(d, n, j) <=> Holds(b, n, j) \/ (n = m /\ j = k)
  BY <1>3, <1>4, HoldsOut
<1>7. \A n, j : Holds(a, n, j) \/ Holds(b, n, j) => n # m
  BY <1>5, HoldsKind DEF Own, OwnKind
<1>8. Own(u, a, d)
  BY <1>5, <1>6, <1>7 DEF Own
<1> QED  BY <1>1, <1>2, <1>4, <1>8

\* An output that opens nothing.
LEMMA OwnSkip ==
  ASSUME NEW t, NEW a, NEW b \in Conf, Own(t, a, b), NEW k \in OutKind, ~Opens(k)
  PROVE  Own(t, a, [lock |-> b.lock, outs |-> Append(b.outs, [out |-> k, fd |-> 0])])
<1>1. PICK o : o = [out |-> k, fd |-> 0]
  OBVIOUS
<1>2. o \in Out /\ o.out = k
  BY <1>1, ProcessAssumption DEF Out, Fds
<1>3. PICK d : d = [lock |-> b.lock, outs |-> Append(b.outs, o)]
  OBVIOUS
<1>4. \A n, j : Holds(d, n, j) <=> Holds(b, n, j)
  BY <1>2, <1>3, HoldsOut
<1>5. Own(t, a, d)
  BY <1>4 DEF Own
<1> QED  BY <1>1, <1>3, <1>5

\* One of two configurations is released and the other keeps what it holds.
LEMMA OwnRelease ==
  ASSUME NEW t \in [Fds -> Kind], NEW a \in Conf, NEW b, Own(t, a, b), t[0] \notin OwnKind
  PROVE  Own(CloseConf(t, a), b, NoConf) /\ Own(CloseConf(t, a), NoConf, b)
<1>1. PICK u : u = CloseConf(t, a)
  OBVIOUS
<1>2. /\ u \in [Fds -> Kind]
      /\ \A n \in Fds : (\E k : Holds(a, n, k)) /\ n # 0 => u[n] = "closed"
      /\ \A n \in Fds : (\A k : ~Holds(a, n, k)) \/ n = 0 => u[n] = t[n]
  BY <1>1, CloseConfFacts
<1>3. \A n \in Fds : n # NoFd
  BY ProcessAssumption DEF Fds, NoFd
<1>4. \A n, k : Holds(NoConf, n, k) <=> n = NoFd /\ k = "lock"
  BY NoConfFacts
<1>5. ASSUME NEW n \in Fds, u[n] \in OwnKind PROVE Holds(b, n, u[n])
  <2>1. u[n] = t[n] /\ n # 0 /\ \A k : ~Holds(a, n, k)
    BY <1>2, <1>5 DEF OwnKind
  <2> QED  BY <1>5, <2>1 DEF Own
<1>6. ASSUME NEW n, NEW k, Holds(b, n, k), n # NoFd PROVE n \in Fds /\ u[n] = k
  <2>1. n \in Fds /\ t[n] = k /\ \A j : ~Holds(a, n, j)
    BY <1>6 DEF Own
  <2> QED  BY <1>2, <2>1
<1>7. Own(u, b, NoConf) /\ Own(u, NoConf, b)
  BY <1>3, <1>4, <1>5, <1>6 DEF Own
<1> QED  BY <1>1, <1>7

\* The order of the two configurations does not matter.
LEMMA OwnSwap ==
  ASSUME NEW t, NEW a, NEW b, Own(t, a, b)
  PROVE  Own(t, b, a)
BY DEF Own

-------------------------------------------------------------------------------
(* Steps of main().                                                        *)

\* The process ends: nothing is open.
LEMMA StepEnds ==
  ASSUME ProcessInv, NEW how, how # "none", Ends(how), events' \in Seq({"start", "stop"})
  PROVE  ProcessType' /\ PhaseInv' /\ SessionInv' /\ OwnInv' /\ ZeroInv' /\ pc' = "ended"
         /\ exit' = how
<1>1. /\ pc' = "ended" /\ exit' = how /\ sessions' = <<>>
      /\ logconf' = NoConf /\ loading' = NoLoad
      /\ table' = [n \in Fds |-> "closed"]
  BY DEF Ends, ProcessInv, ProcessType
<1>2. table' \in [Fds -> Kind] /\ \A n \in Fds : table'[n] = "closed"
  BY <1>1 DEF Kind
<1>3. /\ NoConf \in Conf /\ NoLoad \in Load /\ NoLoad.new = NoConf /\ NoLoad.by = "nobody"
      /\ NoLoad.todo = <<>> /\ \A n, k : Holds(NoConf, n, k) <=> n = NoFd /\ k = "lock"
  BY NoConfFacts
<1>4. ProcessType'
  BY <1>1, <1>2, <1>3 DEF ProcessType
<1>5. DOMAIN sessions' = {}
  BY <1>1
<1>6. PhaseInv' /\ SessionInv'
  BY <1>1, <1>3, <1>5 DEF PhaseInv, SessionInv
<1>7. Own(table', NoConf, NoConf)
  BY <1>2, <1>3 DEF Own, OwnKind
<1>8. OwnInv'
  BY <1>1, <1>3, <1>7 DEF OwnInv
<1>9. ZeroInv'
  BY <1>1, <1>2, ProcessAssumption DEF ZeroInv, Fds
<1> QED  BY <1>1, <1>4, <1>6, <1>8, <1>9

\* Before log_init there is nothing but the console.
LEMMA StepEarly ==
  ASSUME ProcessInv, pc \in Early, pc' \in Early, UNCHANGED exit, UNCHANGED held,
         events' \in Seq({"start", "stop"})
  PROVE  ProcessType' /\ PhaseInv' /\ SessionInv' /\ OwnInv' /\ ZeroInv'
<1>1. UNCHANGED <<table, logconf, loading, sessions>>
  BY DEF held
<1>2. ProcessType'
  BY <1>1 DEF ProcessInv, ProcessType
<1>3. DOMAIN sessions' = {} /\ pc # "ended" /\ pc' # "ended" /\ pc' # "join" /\ pc # "join"
  BY <1>1 DEF ProcessInv, PhaseInv, Early
<1>4. PhaseInv'
  BY <1>1, <1>3 DEF ProcessInv, PhaseInv
<1>5. SessionInv' /\ OwnInv'
  BY <1>1, <1>3 DEF ProcessInv, SessionInv, OwnInv
<1>6. ZeroInv'
  BY <1>1, <1>3 DEF ProcessInv, ZeroInv
<1> QED  BY <1>2, <1>4, <1>5, <1>6

\* A process that ends and is neither clean nor aborted need not have recorded a stop.
LEMMA StopAtEnd ==
  ASSUME ProcessInv, NEW how \in {"exit", "killed"}, pc' = "ended", exit' = how,
         UNCHANGED <<handlers, stopped, events>>
  PROVE  StopInv'
BY DEF ProcessInv, StopInv, StopRecorded

\* ParseOptions.
LEMMA StepOptions == ASSUME ProcessInv, ParseOptions PROVE ProcessInv'
<1>1. pc = "options" /\ exit = "none" /\ UNCHANGED <<handlers, stopped>> /\ events \in Seq({"start", "stop"})
  BY DEF ParseOptions, MainAt, ProcessInv, ProcessType
<1>2. CASE Ends("exit") /\ UNCHANGED <<asDaemon, events>>
  BY <1>1, <1>2, StepEnds, StopAtEnd DEF ProcessInv
<1>3. CASE events' = Append(events, "start") /\ GoesTo("params") /\ UNCHANGED held
  <2>0. events' \in Seq({"start", "stop"})
    BY <1>1, <1>3
  <2>1. pc' = "params" /\ exit' = exit /\ events' \in Seq({"start", "stop"}) /\ pc \in Early /\ pc' \in Early
    BY <1>1, <1>3, <2>0 DEF GoesTo, Early
  <2>2. StopInv'
    BY <1>1, <2>1 DEF ProcessInv, StopInv, StopRecorded
  <2> QED  BY <1>3, <2>1, <2>2, StepEarly DEF ProcessInv
<1> QED  BY <1>2, <1>3 DEF ParseOptions

\* LoadParams.
LEMMA StepParams == ASSUME ProcessInv, LoadParams PROVE ProcessInv'
<1>1. /\ pc = "params" /\ exit = "none" /\ UNCHANGED <<asDaemon, handlers, stopped, events>>
      /\ events \in Seq({"start", "stop"})
  BY DEF LoadParams, MainAt, ProcessInv, ProcessType
<1>2. CASE Ends("exit")
  BY <1>1, <1>2, StepEnds, StopAtEnd DEF ProcessInv
<1>3. CASE GoesTo(IF asDaemon THEN "set_signals" ELSE "log_init") /\ UNCHANGED held
  <2>1. /\ pc' = (IF asDaemon THEN "set_signals" ELSE "log_init") /\ exit' = exit
        /\ pc \in Early /\ pc' \in Early
    BY <1>1, <1>3 DEF GoesTo, Early
  <2>2. StopInv'
    BY <1>1, <2>1 DEF ProcessInv, StopInv, StopRecorded
  <2> QED  BY <1>1, <1>3, <2>1, <2>2, StepEarly DEF ProcessInv
<1> QED  BY <1>2, <1>3 DEF LoadParams

\* set_signals, and the forks of make_daemon.
LEMMA StepDaemon == ASSUME ProcessInv, set_signals \/ Fork \/ ForkAgain PROVE ProcessInv'
<1>1. /\ pc \in {"set_signals", "fork", "fork again"} /\ exit = "none"
      /\ UNCHANGED <<asDaemon, stopped, events>> /\ events \in Seq({"start", "stop"})
      /\ handlers => handlers'
      /\ asDaemon /\ pc # "set_signals" => handlers
      /\ pc = "set_signals" => handlers'
  BY DEF set_signals, Fork, ForkAgain, MainAt, ProcessInv, ProcessType, StopInv
<1>2. CASE Ends("exit") /\ UNCHANGED handlers
  BY <1>1, <1>2, StepEnds, StopAtEnd DEF ProcessInv
<1>3. ASSUME NEW l \in {"fork", "fork again", "close"}, GoesTo(l), UNCHANGED held
      PROVE  ProcessInv'
  <2>1. pc' = l /\ exit' = exit /\ pc \in Early /\ pc' \in Early
    BY <1>1, <1>3 DEF GoesTo, Early
  <2>2. StopInv /\ exit' = "none"
    BY <1>1, <2>1 DEF ProcessInv
  <2>3. asDaemon' => handlers'
    BY <1>1
  <2>4. ~handlers' => ~stopped'
    BY <1>1, <2>2 DEF StopInv
  <2>5. stopped' => events' # <<>> /\ Last(events') = "stop"
    BY <1>1, <2>2 DEF StopInv
  <2>6. StopInv'
    BY <1>3, <2>1, <2>2, <2>3, <2>4, <2>5 DEF StopInv, StopRecorded
  <2> QED  BY <1>1, <1>3, <2>1, <2>6, StepEarly DEF ProcessInv
<1> QED  BY <1>2, <1>3 DEF set_signals, Fork, ForkAgain

\* make_daemon closes every descriptor.
LEMMA StepCloseAll == ASSUME ProcessInv, CloseAll PROVE ProcessInv'
<1>1. /\ pc = "close" /\ pc' = "log_init" /\ exit' = exit /\ exit = "none"
      /\ UNCHANGED <<asDaemon, handlers, logconf, loading, sessions, stopped, params, events>>
      /\ table' = [n \in Fds |-> "closed"]
  BY DEF CloseAll, MainAt, GoesTo, ProcessInv, ProcessType
<1>2. table' \in [Fds -> Kind] /\ \A n \in Fds : table'[n] = "closed"
  BY <1>1 DEF Kind
<1>3. logconf = NoConf /\ loading = NoLoad /\ DOMAIN sessions' = {}
  BY <1>1 DEF ProcessInv, PhaseInv, Early
<1>4. /\ NoConf \in Conf /\ NoLoad \in Load /\ NoLoad.new = NoConf /\ NoLoad.by = "nobody"
      /\ NoLoad.todo = <<>> /\ \A n, k : Holds(NoConf, n, k) <=> n = NoFd /\ k = "lock"
  BY NoConfFacts
<1>5. ProcessType'
  BY <1>1, <1>2 DEF ProcessInv, ProcessType, Early
<1>6. PhaseInv' /\ SessionInv'
  BY <1>1, <1>3, <1>4 DEF PhaseInv, SessionInv
<1>7. Own(table', NoConf, NoConf)
  BY <1>2, <1>4 DEF Own, OwnKind
<1>8. OwnInv'
  BY <1>1, <1>3, <1>4, <1>7 DEF OwnInv
<1>9. ZeroInv'
  BY <1>1, <1>2, <1>3, ProcessAssumption DEF ZeroInv, Fds
<1>10. StopInv'
  BY <1>1 DEF ProcessInv, StopInv, StopRecorded
<1> QED  BY <1>5, <1>6, <1>8, <1>9, <1>10 DEF ProcessInv

\* A configuration begins to be read: the file takes a free descriptor, 0 if it is free.
LEMMA BeginFacts ==
  ASSUME ProcessInv, NEW who \in {"main", "io"}, BeginLoad(who), loading = NoLoad,
         UNCHANGED logconf, pc # "join" \/ pc' = pc, pc' = "join" => pc = "join"
  PROVE  /\ table' \in [Fds -> Kind] /\ loading' \in Load /\ loading'.by = who
         /\ OwnInv' /\ ZeroInv'
         /\ \A n \in Fds : table[n] # "closed" => table'[n] = table[n]
<1>1. table \in [Fds -> Kind] /\ HasFree(table) /\ logconf \in Conf
  BY DEF BeginLoad, ProcessInv, ProcessType
<1>2. PICK list \in RuleLists :
        /\ table' = OpenFd(table, "conf")
        /\ loading' = [by |-> who, fp |-> LowestFree(table), todo |-> <<"lock">> \o list,
                       new |-> NoConf]
  BY DEF BeginLoad
<1>3. PICK m : m = LowestFree(table)
  OBVIOUS
<1>4. m \in Fds /\ table[m] = "closed" /\ (table[0] = "closed" => m = 0)
  BY <1>1, <1>3, FreeFacts
<1>5. /\ table' = [table EXCEPT ![m] = "conf"] /\ table' \in [Fds -> Kind] /\ table'[m] = "conf"
      /\ \A n \in Fds : n # m => table'[n] = table[n]
  BY <1>1, <1>2, <1>3, OpenFacts DEF Kind
<1>6. PICK todo : todo = <<"lock">> \o list
  OBVIOUS
<1>7. /\ todo \in Seq(OutKind \cup {"lock"})
      /\ \A i \in 1..Len(todo) : todo[i] = "lock" => i = 1
  <2>1. list \in Seq(OutKind)
    BY ProcessAssumption DEF OutKind
  <2>2. list \in Seq(OutKind \cup {"lock"}) /\ <<"lock">> \in Seq(OutKind \cup {"lock"})
    BY <2>1
  <2>3. /\ todo \in Seq(OutKind \cup {"lock"}) /\ Len(todo) = 1 + Len(list) /\ Len(list) \in Nat
        /\ \A i \in 1..Len(todo) : i > 1 => todo[i] = list[i - 1]
    BY <1>6, <2>2
  <2>4. \A i \in 1..Len(list) : list[i] # "lock"
    BY <2>1 DEF OutKind
  <2>5. ASSUME NEW i \in 1..Len(todo), i > 1 PROVE todo[i] # "lock"
    <3>1. i - 1 \in 1..Len(list)
      BY <2>3, <2>5
    <3> QED  BY <2>3, <2>4, <2>5, <3>1
  <2> QED  BY <2>3, <2>5
<1>8. /\ loading'.by = who /\ loading'.fp = m /\ loading'.todo = todo /\ loading'.new = NoConf
      /\ loading' = [by |-> who, fp |-> m, todo |-> todo, new |-> NoConf]
  BY <1>2, <1>3, <1>6
<1>9. NoConf \in Conf /\ NoConf.lock = NoFd /\ NoLoad.new = NoConf /\ NoLoad.by = "nobody"
  BY NoConfFacts
<1>10. loading' \in Load
  BY <1>4, <1>7, <1>8, <1>9 DEF Load
<1>11. loading' # NoLoad
  BY <1>8, <1>9
<1>12. Own(table, logconf, NoConf)
  BY <1>9 DEF ProcessInv, OwnInv
<1>13. Own([table EXCEPT ![m] = "conf"], logconf, NoConf)
  BY <1>1, <1>4, <1>12, OwnOther DEF OwnKind, Kind
<1>14. OwnInv'
  BY <1>4, <1>5, <1>7, <1>8, <1>9, <1>13 DEF OwnInv
<1>15. ZeroInv'
  <2>1. 0 \in Fds
    BY ProcessAssumption DEF Fds
  <2>2. table'[0] = "conf" => m = 0
    BY <1>5, <2>1 DEF ProcessInv, ZeroInv
  <2>3. table'[0] \in {"console", "reactor", "conf"}
    BY <1>4, <1>5, <2>1 DEF ProcessInv, ZeroInv
  <2>4. pc' = "join" => table'[0] = table[0] /\ table[0] \in {"console", "reactor"}
    BY <1>4, <1>5, <2>1 DEF ProcessInv, ZeroInv
  <2> QED  BY <1>8, <1>11, <2>2, <2>3, <2>4 DEF ZeroInv
<1> QED  BY <1>4, <1>5, <1>8, <1>10, <1>14, <1>15

\* log_init.
LEMMA StepLogInit == ASSUME ProcessInv, log_init PROVE ProcessInv'
<1>1. /\ pc = "log_init" /\ exit = "none" /\ UNCHANGED <<asDaemon, handlers, stopped, params, events>>
      /\ events \in Seq({"start", "stop"})
  BY DEF log_init, MainAt, ProcessInv, ProcessType
<1>2. CASE Ends("exit")
  BY <1>1, <1>2, StepEnds, StopAtEnd DEF ProcessInv
<1>3. CASE BeginLoad("main") /\ GoesTo("run") /\ UNCHANGED <<logconf, sessions>>
  <2>1. pc' = "run" /\ exit' = exit /\ loading = NoLoad /\ DOMAIN sessions = {}
    BY <1>1, <1>3 DEF GoesTo, ProcessInv, PhaseInv, Early
  <2>2. /\ table' \in [Fds -> Kind] /\ loading' \in Load /\ loading'.by = "main"
        /\ OwnInv' /\ ZeroInv'
    BY <1>1, <1>3, <2>1, BeginFacts
  <2>3. ProcessType'
    BY <1>1, <1>3, <2>1, <2>2 DEF ProcessInv, ProcessType
  <2>4. PhaseInv' /\ SessionInv'
    BY <1>1, <1>3, <2>1, <2>2 DEF PhaseInv, SessionInv, Early
  <2>5. StopInv'
    BY <1>1, <2>1 DEF ProcessInv, StopInv, StopRecorded
  <2> QED  BY <2>2, <2>3, <2>4, <2>5 DEF ProcessInv
<1> QED  BY <1>2, <1>3 DEF log_init

\* run: the reactor takes 0 if the daemon left it free.
LEMMA StepRun == ASSUME ProcessInv, run PROVE ProcessInv'
<1>1. /\ pc = "run" /\ exit = "none" /\ UNCHANGED <<asDaemon, handlers, params, events>>
      /\ events \in Seq({"start", "stop"}) /\ loading.by # "main"
  BY DEF run, MainAt, ProcessInv, ProcessType
<1>2. CASE Ends("exit") /\ UNCHANGED stopped
  BY <1>1, <1>2, StepEnds, StopAtEnd DEF ProcessInv
<1>3. CASE /\ HasFree(table) /\ HasFree(OpenFd(table, "reactor"))
           /\ table' = OpenFd(OpenFd(table, "reactor"), "udp")
           /\ IoServiceRuns /\ GoesTo("join") /\ UNCHANGED <<logconf, loading, sessions>>
  <2>1. /\ pc' = "join" /\ exit' = exit /\ stopped' = stopped /\ DOMAIN sessions' = {}
        /\ loading = NoLoad /\ UNCHANGED <<logconf, loading, sessions>>
    BY <1>1, <1>3 DEF GoesTo, IoServiceRuns, ProcessInv, PhaseInv
  <2>2. table \in [Fds -> Kind] /\ 0 \in Fds
    BY ProcessAssumption DEF ProcessInv, ProcessType, Fds
  <2>3. PICK t : t = OpenFd(table, "reactor")
    OBVIOUS
  <2>4. PICK m : m = LowestFree(table)
    OBVIOUS
  <2>5. PICK n : n = LowestFree(t)
    OBVIOUS
  <2>6. /\ m \in Fds /\ table[m] = "closed" /\ (table[0] = "closed" => m = 0)
        /\ t = [table EXCEPT ![m] = "reactor"] /\ t \in [Fds -> Kind] /\ t[m] = "reactor"
        /\ \A i \in Fds : i # m => t[i] = table[i]
    BY <1>3, <2>2, <2>3, <2>4, FreeFacts, OpenFacts DEF Kind
  <2>7. /\ n \in Fds /\ t[n] = "closed"
        /\ table' = [t EXCEPT ![n] = "udp"] /\ table' \in [Fds -> Kind]
        /\ \A i \in Fds : i # n => table'[i] = t[i]
    BY <1>3, <2>3, <2>5, <2>6, FreeFacts, OpenFacts DEF Kind
  <2>8. Own(t, logconf, loading.new)
    BY <2>2, <2>6, OwnOther DEF ProcessInv, OwnInv, OwnKind, Kind
  <2>9. Own(table', logconf, loading.new)
    BY <2>6, <2>7, <2>8, OwnOther DEF OwnKind, Kind
  <2>10. OwnInv'
    BY <2>1, <2>9 DEF ProcessInv, OwnInv
  <2>11. table'[0] \in {"console", "reactor"}
    <3>1. table[0] \in {"console", "reactor", "closed"}
      BY <2>1 DEF ProcessInv, ZeroInv
    <3>2. t[0] \in {"console", "reactor"}
      BY <2>2, <2>6, <3>1
    <3> QED  BY <2>2, <2>7, <3>2
  <2>12. ZeroInv'
    BY <2>1, <2>11 DEF ZeroInv
  <2>13. ProcessType'
    BY <1>1, <2>1, <2>7 DEF ProcessInv, ProcessType
  <2>14. PhaseInv' /\ SessionInv'
    BY <1>1, <2>1, NoConfFacts DEF PhaseInv, SessionInv, Early
  <2>15. StopInv'
    BY <1>1, <2>1 DEF ProcessInv, StopInv, StopRecorded
  <2> QED  BY <2>10, <2>12, <2>13, <2>14, <2>15 DEF ProcessInv
<1> QED  BY <1>2, <1>3 DEF run

\* The service ends because it was stopped.
LEMMA StepServiceEnds == ASSUME ProcessInv, ServiceEnds PROVE ProcessInv'
<1>1. /\ stopped /\ Ends("clean") /\ UNCHANGED <<asDaemon, handlers, stopped, events>>
      /\ events \in Seq({"start", "stop"})
  BY DEF ServiceEnds, ProcessInv, ProcessType
<1>2. /\ ProcessType' /\ PhaseInv' /\ SessionInv' /\ OwnInv' /\ ZeroInv' /\ pc' = "ended"
      /\ exit' = "clean"
  BY <1>1, StepEnds
<1>3. StopInv'
  BY <1>1, <1>2 DEF ProcessInv, StopInv, StopRecorded
<1> QED  BY <1>2, <1>3 DEF ProcessInv

-------------------------------------------------------------------------------
(* Steps of the io thread and signals.                                     *)

\* A session takes a free descriptor.
LEMMA StepOpenSession == ASSUME ProcessInv, OpenSession PROVE ProcessInv'
<1>1. /\ pc = "join" /\ HasFree(table) /\ table' = OpenFd(table, "F1")
      /\ sessions' = [n \in DOMAIN sessions \cup {LowestFree(table)} |->
                       IF n \in DOMAIN sessions THEN sessions[n] ELSE params["f1serveradr"]]
      /\ UNCHANGED <<pc, asDaemon, handlers, logconf, loading, stopped, params, events, exit>>
  BY DEF OpenSession, Serves
<1>2. table \in [Fds -> Kind] /\ 0 \in Fds
  BY ProcessAssumption DEF ProcessInv, ProcessType, Fds
<1>3. PICK m : m = LowestFree(table)
  OBVIOUS
<1>4. /\ m \in Fds /\ table[m] = "closed"
      /\ table' = [table EXCEPT ![m] = "F1"] /\ table' \in [Fds -> Kind] /\ table'[m] = "F1"
      /\ \A i \in Fds : i # m => table'[i] = table[i]
  BY <1>1, <1>2, <1>3, FreeFacts, OpenFacts DEF Kind
<1>5. table[0] \in {"console", "reactor"} /\ m # 0 /\ table'[0] = table[0]
  BY <1>1, <1>2, <1>4 DEF ProcessInv, ZeroInv
<1>6. Own(table', logconf, loading.new)
  BY <1>2, <1>4, OwnOther DEF ProcessInv, OwnInv, OwnKind, Kind
<1>7. OwnInv'
  BY <1>1, <1>4, <1>6 DEF ProcessInv, OwnInv
<1>8. ZeroInv'
  BY <1>1, <1>5 DEF ProcessInv, ZeroInv
<1>9. /\ DOMAIN sessions' = DOMAIN sessions \cup {m}
      /\ \A n \in DOMAIN sessions : sessions'[n] = sessions[n]
      /\ m \notin DOMAIN sessions => sessions'[m] = params["f1serveradr"]
  BY <1>1, <1>3
<1>10. m \notin DOMAIN sessions
  BY <1>4 DEF ProcessInv, SessionInv
<1>11. SessionInv'
  BY <1>1, <1>4, <1>9, <1>10 DEF ProcessInv, SessionInv
<1>12. ProcessType' /\ PhaseInv'
  BY <1>1, <1>4 DEF ProcessInv, ProcessType, PhaseInv
<1>13. StopInv'
  BY <1>1 DEF ProcessInv, StopInv, StopRecorded
<1> QED  BY <1>7, <1>8, <1>11, <1>12, <1>13 DEF ProcessInv

\* A session gives its descriptor back.
LEMMA StepCloseSession == ASSUME ProcessInv, CloseF1Session PROVE ProcessInv'
<1>1. /\ pc = "join"
      /\ UNCHANGED <<pc, asDaemon, handlers, logconf, loading, stopped, params, events, exit>>
  BY DEF CloseF1Session, Serves
<1>2. PICK m \in DOMAIN sessions : /\ table' = CloseFd(table, m)
                                   /\ sessions' = [n \in DOMAIN sessions \ {m} |-> sessions[n]]
  BY DEF CloseF1Session
<1>3. table \in [Fds -> Kind] /\ 0 \in Fds /\ m \in Fds /\ table[m] = "F1"
  BY <1>2, ProcessAssumption DEF ProcessInv, ProcessType, SessionInv, Fds
<1>4. /\ table' = [table EXCEPT ![m] = "closed"] /\ table' \in [Fds -> Kind]
      /\ \A i \in Fds : i # m => table'[i] = table[i]
  BY <1>2, <1>3, CloseFacts
<1>5. table[0] \in {"console", "reactor"} /\ m # 0 /\ table'[0] = table[0]
  BY <1>1, <1>3, <1>4 DEF ProcessInv, ZeroInv
<1>6. Own(table', logconf, loading.new)
  BY <1>3, <1>4, OwnOther DEF ProcessInv, OwnInv, OwnKind, Kind
<1>7. OwnInv'
  BY <1>1, <1>3, <1>4, <1>6 DEF ProcessInv, OwnInv
<1>8. ZeroInv'
  BY <1>1, <1>5 DEF ProcessInv, ZeroInv
<1>9. SessionInv'
  BY <1>1, <1>2, <1>4 DEF ProcessInv, SessionInv
<1>10. ProcessType' /\ PhaseInv'
  BY <1>1, <1>4 DEF ProcessInv, ProcessType, PhaseInv
<1>11. StopInv'
  BY <1>1 DEF ProcessInv, StopInv, StopRecorded
<1> QED  BY <1>7, <1>8, <1>9, <1>10, <1>11 DEF ProcessInv

\* The handler terminate records the stop last.
LEMMA TerminateFacts ==
  ASSUME ProcessInv, terminate
  PROVE  events' \in Seq({"start", "stop"}) /\ events' # <<>> /\ Last(events') = "stop"
<1>1. events \in Seq({"start", "stop"}) /\ events' = Append(events, "stop")
  BY DEF ProcessInv, ProcessType, terminate
<1>2. /\ events' \in Seq({"start", "stop"}) /\ Len(events') = Len(events) + 1
      /\ events'[Len(events) + 1] = "stop" /\ Len(events) \in Nat
  BY <1>1
<1>3. events' # <<>>
  BY <1>2
<1> QED  BY <1>2, <1>3 DEF Last

\* An exception leaves a handler.
LEMMA StepThrows == ASSUME ProcessInv, HandlerThrows PROVE ProcessInv'
<1>1. /\ pc = "join" /\ Ends("aborted") /\ UNCHANGED <<asDaemon, handlers>>
      /\ events \in Seq({"start", "stop"})
  BY DEF HandlerThrows, Serves, ProcessInv, ProcessType
<1>2. CASE handlers
  <2>1. terminate
    BY <1>2 DEF HandlerThrows
  <2>2. events' \in Seq({"start", "stop"}) /\ events' # <<>> /\ Last(events') = "stop"
    BY <2>1, TerminateFacts
  <2>3. ProcessType' /\ PhaseInv' /\ SessionInv' /\ OwnInv' /\ ZeroInv' /\ pc' = "ended"
    BY <1>1, <2>2, StepEnds
  <2>4. StopInv'
    BY <1>1, <1>2, <2>2, <2>3 DEF StopInv, StopRecorded
  <2> QED  BY <2>3, <2>4 DEF ProcessInv
<1>3. CASE ~handlers
  <2>1. UNCHANGED <<stopped, events>>
    BY <1>3 DEF HandlerThrows
  <2>2. ~asDaemon /\ ~stopped
    BY <1>1, <1>3 DEF ProcessInv, StopInv
  <2>3. ProcessType' /\ PhaseInv' /\ SessionInv' /\ OwnInv' /\ ZeroInv' /\ pc' = "ended"
    BY <1>1, <2>1, StepEnds
  <2>4. StopInv'
    BY <1>1, <2>1, <2>2, <2>3 DEF StopInv, StopRecorded
  <2> QED  BY <2>3, <2>4 DEF ProcessInv
<1> QED  BY <1>2, <1>3

\* The default action of a signal.
LEMMA StepKilled == ASSUME ProcessInv, Killed PROVE ProcessInv'
<1>1. /\ Ends("killed") /\ UNCHANGED <<asDaemon, handlers, stopped, events>>
      /\ events \in Seq({"start", "stop"})
  BY DEF Killed, ProcessInv, ProcessType
<1> QED  BY <1>1, StepEnds, StopAtEnd DEF ProcessInv

\* A signal to terminate.
LEMMA StepTerminate == ASSUME ProcessInv, TerminateSignal PROVE ProcessInv'
<1>1. CASE handlers
  <2>1. /\ terminate /\ exit = "none"
        /\ UNCHANGED <<pc, asDaemon, handlers, held, params, exit>>
    BY <1>1 DEF TerminateSignal, Signalled
  <2>2. UNCHANGED <<pc, asDaemon, handlers, table, logconf, loading, sessions, params, exit>>
    BY <2>1 DEF held
  <2>3. events' \in Seq({"start", "stop"}) /\ events' # <<>> /\ Last(events') = "stop"
    BY <2>1, TerminateFacts
  <2>4. ProcessType' /\ PhaseInv' /\ SessionInv' /\ OwnInv' /\ ZeroInv'
    BY <2>2, <2>3 DEF ProcessInv, ProcessType, PhaseInv, SessionInv, OwnInv, ZeroInv
  <2>5. StopInv'
    BY <1>1, <2>1, <2>2, <2>3 DEF ProcessInv, StopInv, StopRecorded
  <2> QED  BY <2>4, <2>5 DEF ProcessInv
<1>2. CASE ~handlers
  BY <1>2, StepKilled DEF TerminateSignal
<1> QED  BY <1>1, <1>2

\* A reload begins, or there is nothing to reload.
LEMMA StepBeginReload ==
  ASSUME ProcessInv, NEW who \in {"main", "io"}, who = "io" => pc = "join", loading = NoLoad,
         BeginReload(who), exit = "none",
         UNCHANGED <<pc, asDaemon, handlers, logconf, sessions, stopped, params, events, exit>>
  PROVE  ProcessInv'
<1>1. StopInv'
  BY DEF ProcessInv, StopInv, StopRecorded
<1>2. CASE UNCHANGED <<table, loading>>
  <2>1. ProcessType' /\ PhaseInv' /\ SessionInv' /\ OwnInv' /\ ZeroInv'
    BY <1>2 DEF ProcessInv, ProcessType, PhaseInv, SessionInv, OwnInv, ZeroInv
  <2> QED  BY <1>1, <2>1 DEF ProcessInv
<1>3. CASE logconf # NoConf /\ BeginLoad(who)
  <2>1. /\ table' \in [Fds -> Kind] /\ loading' \in Load /\ loading'.by = who
        /\ OwnInv' /\ ZeroInv'
        /\ \A n \in Fds : table[n] # "closed" => table'[n] = table[n]
    BY <1>3, BeginFacts
  <2>2. pc \notin Early \cup {"ended"}
    BY <1>3 DEF ProcessInv, PhaseInv
  <2>3. ProcessType' /\ PhaseInv'
    BY <2>1, <2>2 DEF ProcessInv, ProcessType, PhaseInv
  <2>4. SessionInv'
    BY <2>1 DEF ProcessInv, SessionInv
  <2> QED  BY <1>1, <2>1, <2>3, <2>4 DEF ProcessInv
<1> QED  BY <1>2, <1>3 DEF BeginReload

\* A signal to reload: the parameters in use stay.
LEMMA StepReloadSignal == ASSUME ProcessInv, ReloadSignal PROVE ProcessInv'
<1>1. CASE handlers
  <2>1. /\ exit = "none" /\ loading = NoLoad /\ BeginReload("main")
        /\ UNCHANGED <<pc, asDaemon, handlers, logconf, sessions, stopped, params, events, exit>>
    BY <1>1 DEF ReloadSignal, reload_config, Signalled, LoadedParams
  <2> QED  BY <2>1, StepBeginReload
<1>2. CASE ~handlers
  BY <1>2, StepKilled DEF ReloadSignal
<1> QED  BY <1>1, <1>2

\* The reload of the io thread.
LEMMA StepAutoReload == ASSUME ProcessInv, AutoReload PROVE ProcessInv'
<1>1. /\ exit = "none" /\ loading = NoLoad /\ BeginReload("io") /\ pc = "join"
      /\ UNCHANGED <<pc, asDaemon, handlers, logconf, sessions, stopped, params, events, exit>>
  BY DEF AutoReload, Signalled, Serves
<1> QED  BY <1>1, StepBeginReload

-------------------------------------------------------------------------------
(* The steps of a load.                                                    *)

\* While a configuration is read the process is in run() or serves.
LEMMA LoadingFacts ==
  ASSUME ProcessInv, loading # NoLoad
  PROVE  /\ pc \in {"run", "join"} /\ loading.by \in {"main", "io"}
         /\ table \in [Fds -> Kind] /\ 0 \in Fds /\ logconf \in Conf /\ loading \in Load
         /\ loading.new \in Conf /\ loading.todo \in Seq(OutKind \cup {"lock"})
         /\ loading.fp \in Fds /\ table[loading.fp] = "conf"
         /\ table[0] \in {"console", "reactor", "conf"}
         /\ table[0] = "conf" => loading.fp = 0
<1>1. pc \in {"run", "join"} /\ loading.by \in {"main", "io"}
  BY DEF ProcessInv, ProcessType, PhaseInv
<1>2. /\ table \in [Fds -> Kind] /\ logconf \in Conf /\ loading \in Load /\ 0 \in Fds
      /\ loading.fp \in Fds /\ table[loading.fp] = "conf"
  BY ProcessAssumption DEF ProcessInv, ProcessType, OwnInv, Fds
<1>3. loading.new \in Conf /\ loading.todo \in Seq(OutKind \cup {"lock"})
  BY <1>2 DEF Load
<1>4. table[0] \in {"console", "reactor", "conf"} /\ (table[0] = "conf" => loading.fp = 0)
  BY DEF ProcessInv, ZeroInv
<1> QED  BY <1>1, <1>2, <1>3, <1>4

\* The next part of the configuration is built.
LEMMA StepLoad == ASSUME ProcessInv, LoadStep PROVE ProcessInv'
<1>1. /\ loading.todo # <<>> /\ exit = "none"
      /\ UNCHANGED <<pc, asDaemon, handlers, logconf, sessions, stopped, params, events, exit>>
  BY DEF LoadStep
<1>2. loading # NoLoad
  BY <1>1, NoConfFacts
<1>3. /\ pc \in {"run", "join"} /\ loading.by \in {"main", "io"}
      /\ table \in [Fds -> Kind] /\ 0 \in Fds /\ logconf \in Conf /\ loading \in Load
      /\ loading.new \in Conf /\ loading.todo \in Seq(OutKind \cup {"lock"})
      /\ loading.fp \in Fds /\ table[loading.fp] = "conf"
      /\ table[0] \in {"console", "reactor", "conf"}
      /\ table[0] = "conf" => loading.fp = 0
  BY <1>2, LoadingFacts
<1>4. PICK todo \in Seq(OutKind \cup {"lock"}) : todo = loading.todo
  BY <1>3
<1>5. PICK out \in OutKind \cup {"lock"} : out = todo[1] /\ out = Head(loading.todo)
  BY <1>1, <1>4
<1>6. PICK rest : rest = Tail(todo)
  OBVIOUS
<1>7. /\ rest \in Seq(OutKind \cup {"lock"}) /\ Len(rest) = Len(todo) - 1
      /\ Len(todo) \in Nat \ {0} /\ \A i \in 1..Len(rest) : rest[i] = todo[i + 1]
  BY <1>1, <1>4, <1>6
<1>8. \A i \in 1..Len(rest) : rest[i] # "lock"
  <2> SUFFICES ASSUME NEW i \in 1..Len(rest) PROVE todo[i + 1] # "lock"
    BY <1>7
  <2>1. i + 1 \in 1..Len(todo) /\ i + 1 # 1
    BY <1>7
  <2> QED  BY <1>4, <2>1 DEF ProcessInv, OwnInv
<1>9. PICK new \in Conf : new = loading.new
  BY <1>3
<1>10. out = "lock" => new.lock = NoFd
  <2>1. 1 \in 1..Len(todo)
    BY <1>7
  <2> QED  BY <1>4, <1>5, <1>9, <2>1 DEF ProcessInv, OwnInv
<1>11. Own(table, logconf, new)
  BY <1>9 DEF ProcessInv, OwnInv
<1>12. StopInv'
  BY <1>1 DEF ProcessInv, StopInv, StopRecorded
\* What remains once the table and the configuration after the step are known.
<1>13. ASSUME NEW d \in Conf, table' \in [Fds -> Kind], Own(table', logconf, d),
              loading' = [by |-> loading.by, fp |-> loading.fp, todo |-> rest, new |-> d],
              \A n \in Fds : table[n] # "closed" => table'[n] = table[n]
       PROVE  ProcessInv'
  <2>1. /\ loading' \in Load /\ loading'.by = loading.by /\ loading'.fp = loading.fp
        /\ loading'.todo = rest /\ loading'.new = d
    BY <1>3, <1>7, <1>13 DEF Load
  <2>2. loading' # NoLoad
    BY <1>3, <2>1, NoConfFacts
  <2>3. ProcessType'
    BY <1>1, <1>13, <2>1 DEF ProcessInv, ProcessType
  <2>4. PhaseInv'
    BY <1>1, <1>3, <2>1 DEF ProcessInv, PhaseInv, Early
  <2>5. OwnInv'
    BY <1>1, <1>3, <1>8, <1>13, <2>1 DEF OwnInv
  <2>6. table'[0] = table[0]
    BY <1>3, <1>13
  <2>7. ZeroInv'
    BY <1>1, <1>3, <2>1, <2>2, <2>6 DEF ProcessInv, ZeroInv
  <2>8. SessionInv'
    BY <1>1, <1>13 DEF ProcessInv, SessionInv
  <2> QED  BY <1>12, <2>3, <2>4, <2>5, <2>7, <2>8 DEF ProcessInv
<1>14. CASE out = "lock"
  <2>1. /\ HasFree(table) /\ table' = OpenFd(table, "lock")
        /\ loading' = [by |-> loading.by, fp |-> loading.fp, todo |-> rest,
                       new |-> [lock |-> LowestFree(table), outs |-> new.outs]]
    BY <1>4, <1>5, <1>6, <1>9, <1>14 DEF LoadStep
  <2>2. PICK m \in Fds : m = LowestFree(table) /\ table[m] = "closed"
    BY <1>3, <2>1, FreeFacts
  <2>3. /\ table' = [table EXCEPT ![m] = "lock"] /\ table' \in [Fds -> Kind]
        /\ \A n \in Fds : n # m => table'[n] = table[n]
    BY <1>3, <2>1, <2>2, OpenFacts DEF Kind, OwnKind
  <2>4. PICK d : d = [lock |-> m, outs |-> new.outs]
    OBVIOUS
  <2>5. d \in Conf
    BY <2>4 DEF Conf
  <2>6. Own(table', logconf, d)
    BY <1>3, <1>10, <1>11, <1>14, <2>2, <2>3, <2>4, OwnLock
  <2> QED  BY <1>13, <2>1, <2>2, <2>3, <2>4, <2>5, <2>6
<1>15. CASE out # "lock" /\ Opens(out)
  <2>1. /\ HasFree(table) /\ table' = OpenFd(table, out)
        /\ loading' = [by |-> loading.by, fp |-> loading.fp, todo |-> rest,
                       new |-> [lock |-> new.lock,
                                outs |-> Append(new.outs, [out |-> out, fd |-> LowestFree(table)])]]
    BY <1>4, <1>5, <1>6, <1>9, <1>15 DEF LoadStep
  <2>2. PICK m \in Fds : m = LowestFree(table) /\ table[m] = "closed"
    BY <1>3, <2>1, FreeFacts
  <2>3. out \in OutKind /\ out \in Kind
    BY <1>15 DEF OutKind, Opens, Kind, OwnKind
  <2>4. /\ table' = [table EXCEPT ![m] = out] /\ table' \in [Fds -> Kind]
        /\ \A n \in Fds : n # m => table'[n] = table[n]
    BY <1>3, <2>1, <2>2, <2>3, OpenFacts, SMTT(30)
  <2>5. PICK o : o = [out |-> out, fd |-> m]
    OBVIOUS
  <2>6. PICK d : d = [lock |-> new.lock, outs |-> Append(new.outs, o)]
    OBVIOUS
  <2>7. o \in Out
    BY <2>3, <2>5 DEF Out
  <2>8. d \in Conf
    BY <2>6, <2>7 DEF Conf
  <2>9. Own(table', logconf, d)
    BY <1>3, <1>11, <1>15, <2>2, <2>3, <2>4, <2>5, <2>6, OwnOut
  <2> QED  BY <1>13, <2>1, <2>2, <2>4, <2>5, <2>6, <2>8, <2>9
<1>16. CASE out # "lock" /\ ~Opens(out)
  <2>1. /\ table' = table
        /\ loading' = [by |-> loading.by, fp |-> loading.fp, todo |-> rest,
                       new |-> [lock |-> new.lock,
                                outs |-> Append(new.outs, [out |-> out, fd |-> 0])]]
    BY <1>4, <1>5, <1>6, <1>9, <1>16 DEF LoadStep
  <2>2. PICK o : o = [out |-> out, fd |-> 0]
    OBVIOUS
  <2>3. PICK d : d = [lock |-> new.lock, outs |-> Append(new.outs, o)]
    OBVIOUS
  <2>4. o \in Out /\ out \in OutKind
    BY <1>3, <1>16, <2>2 DEF Out
  <2>5. d \in Conf
    BY <2>3, <2>4 DEF Conf
  <2>6. Own(table', logconf, d)
    BY <1>11, <1>16, <2>1, <2>2, <2>3, <2>4, OwnSkip
  <2> QED  BY <1>3, <1>13, <2>1, <2>2, <2>3, <2>5, <2>6
<1> QED  BY <1>14, <1>15, <1>16

\* The file is closed and one of the two configurations released.
LEMMA ReleaseFacts ==
  ASSUME ProcessInv, loading # NoLoad, NEW a, NEW b,
         (a = logconf /\ b = loading.new) \/ (a = loading.new /\ b = logconf),
         NEW u, u = CloseConf(CloseFd(table, loading.fp), a)
  PROVE  /\ u \in [Fds -> Kind] /\ Own(u, b, NoConf)
         /\ u[0] \in {"console", "reactor", "closed"}
         /\ pc = "join" => u[0] \in {"console", "reactor"}
         /\ \A n \in Fds : table[n] = "F1" => u[n] = "F1"
<1>1. /\ pc \in {"run", "join"} /\ table \in [Fds -> Kind] /\ 0 \in Fds
      /\ a \in Conf /\ b \in Conf
      /\ loading.fp \in Fds /\ table[loading.fp] = "conf"
      /\ table[0] \in {"console", "reactor", "conf"}
      /\ table[0] = "conf" => loading.fp = 0
  BY LoadingFacts
<1>2. PICK t : t = CloseFd(table, loading.fp)
  OBVIOUS
<1>3. /\ t = [table EXCEPT ![loading.fp] = "closed"] /\ t \in [Fds -> Kind]
      /\ t[loading.fp] = "closed" /\ \A n \in Fds : n # loading.fp => t[n] = table[n]
  <2>1. PICK n \in Fds : n = loading.fp
    BY <1>1
  <2>2. t = CloseFd(table, n)
    BY <1>2, <2>1
  <2>3. /\ t = [table EXCEPT ![n] = "closed"] /\ t \in [Fds -> Kind] /\ t[n] = "closed"
        /\ \A m \in Fds : m # n => t[m] = table[m]
    BY <1>1, <2>2, CloseFacts
  <2> QED  BY <2>1, <2>3
<1>4. Own(table, a, b)
  BY OwnSwap DEF ProcessInv, OwnInv
<1>5. Own(t, a, b)
  BY <1>1, <1>3, <1>4, OwnOther DEF OwnKind, Kind
<1>6. t[0] \in {"console", "reactor", "closed"}
  BY <1>1, <1>3
<1>7. Own(u, b, NoConf)
  BY <1>1, <1>2, <1>3, <1>5, <1>6, OwnRelease DEF OwnKind
<1>8. /\ u \in [Fds -> Kind]
      /\ \A n \in Fds : (\A k : ~Holds(a, n, k)) \/ n = 0 => u[n] = t[n]
  <2>1. u = CloseConf(t, a)
    BY <1>2
  <2>2. /\ CloseConf(t, a) \in [Fds -> Kind]
        /\ \A n \in Fds : (\A k : ~Holds(a, n, k)) \/ n = 0 => CloseConf(t, a)[n] = t[n]
    BY ONLY <1>1, <1>3, CloseConfFacts
  <2> QED  BY ONLY <2>1, <2>2
<1>9. ASSUME NEW n \in Fds, table[n] = "F1" PROVE u[n] = "F1"
  <2>1. t[n] = "F1" /\ n # NoFd
    BY <1>1, <1>3, <1>9, ProcessAssumption DEF Fds, NoFd
  <2>2. \A k : ~Holds(a, n, k)
    BY <1>5, <2>1, HoldsKind DEF Own, OwnKind
  <2> QED  BY <1>8, <2>1, <2>2
<1>10. u[0] = t[0]
  BY <1>1, <1>8
<1>11. pc = "join" => t[0] \in {"console", "reactor"}
  BY <1>1, <1>3 DEF ProcessInv, ZeroInv
<1> QED  BY <1>6, <1>7, <1>8, <1>9, <1>10, <1>11

\* The configuration in force after a load that ended, well or not.
LEMMA LoadDone ==
  ASSUME ProcessInv, loading # NoLoad, NEW c \in Conf, table' \in [Fds -> Kind],
         Own(table', c, NoConf), logconf' = c, loading' = NoLoad,
         table'[0] \in {"console", "reactor", "closed"},
         pc = "join" => table'[0] \in {"console", "reactor"},
         \A n \in Fds : table[n] = "F1" => table'[n] = "F1",
         UNCHANGED <<pc, asDaemon, handlers, sessions, stopped, params, events, exit>>
  PROVE  ProcessInv'
<1>1. /\ NoLoad \in Load /\ NoLoad.new = NoConf /\ NoLoad.by = "nobody"
      /\ NoLoad.todo = <<>>
  BY NoConfFacts
<1>2. pc \in {"run", "join"}
  BY LoadingFacts
<1>3. ProcessType'
  BY <1>1 DEF ProcessInv, ProcessType
<1>4. PhaseInv'
  BY <1>1, <1>2 DEF ProcessInv, PhaseInv, Early
<1>5. OwnInv'
  BY <1>1 DEF OwnInv
<1>6. ZeroInv'
  BY DEF ZeroInv
<1>7. SessionInv'
  BY DEF ProcessInv, SessionInv
<1>8. StopInv'
  BY DEF ProcessInv, StopInv, StopRecorded
<1> QED  BY <1>3, <1>4, <1>5, <1>6, <1>7, <1>8 DEF ProcessInv

\* A load fails.
LEMMA StepLoadFails == ASSUME ProcessInv, LoadFails PROVE ProcessInv'
<1>1. /\ loading # NoLoad /\ UNCHANGED <<asDaemon, handlers, stopped, params, events>>
      /\ events \in Seq({"start", "stop"}) /\ logconf \in Conf
  BY DEF LoadFails, ProcessInv, ProcessType
<1>2. CASE logconf = NoConf
  <2>1. Ends("exit")
    BY <1>2 DEF LoadFails
  <2> QED  BY <1>1, <2>1, StepEnds, StopAtEnd DEF ProcessInv
<1>3. CASE logconf # NoConf
  <2>1. /\ table' = CloseConf(CloseFd(table, loading.fp), loading.new) /\ loading' = NoLoad
        /\ UNCHANGED <<pc, logconf, sessions, exit>>
    BY <1>3 DEF LoadFails
  <2>2. PICK u : u = CloseConf(CloseFd(table, loading.fp), loading.new)
    OBVIOUS
  <2>3. /\ u \in [Fds -> Kind] /\ Own(u, logconf, NoConf)
        /\ u[0] \in {"console", "reactor", "closed"}
        /\ pc = "join" => u[0] \in {"console", "reactor"}
        /\ \A n \in Fds : table[n] = "F1" => u[n] = "F1"
    BY <1>1, <2>2, ReleaseFacts, ZenonT(60)
  <2> QED  BY <1>1, <2>1, <2>2, <2>3, LoadDone
<1> QED  BY <1>2, <1>3

\* A load ends.
LEMMA StepLoadEnds == ASSUME ProcessInv, LoadEnds PROVE ProcessInv'
<1>1. /\ loading # NoLoad
      /\ table' = CloseConf(CloseFd(table, loading.fp), logconf)
      /\ logconf' = loading.new /\ loading' = NoLoad
      /\ UNCHANGED <<pc, asDaemon, handlers, sessions, stopped, params, events, exit>>
  BY DEF LoadEnds, ReleaseOld
<1>2. PICK u : u = CloseConf(CloseFd(table, loading.fp), logconf)
  OBVIOUS
<1>3. PICK c \in Conf : c = loading.new
  BY <1>1, LoadingFacts
<1>4. /\ u \in [Fds -> Kind] /\ Own(u, c, NoConf)
      /\ u[0] \in {"console", "reactor", "closed"}
      /\ pc = "join" => u[0] \in {"console", "reactor"}
      /\ \A n \in Fds : table[n] = "F1" => u[n] = "F1"
  BY <1>1, <1>2, <1>3, ReleaseFacts
<1> QED  BY <1>1, <1>2, <1>3, <1>4, LoadDone

-------------------------------------------------------------------------------
(* The invariant and what follows from it.                                 *)

\* At the start the process has its console.
LEMMA StepStart == ASSUME ProcessInit PROVE ProcessInv
<1>1. /\ pc = "options" /\ handlers = FALSE /\ logconf = NoConf /\ loading = NoLoad
      /\ stopped = FALSE /\ sessions = <<>> /\ events = <<>> /\ exit = "none"
      /\ table = [n \in Fds |-> IF n <= 2 THEN "console" ELSE "closed"]
  BY DEF ProcessInit, Fds
<1>2. table \in [Fds -> Kind] /\ \A n \in Fds : table[n] \in {"console", "closed"}
  BY <1>1 DEF Kind
<1>3. table[0] = "console"
  <2>1. 0 \in Fds
    BY ProcessAssumption DEF Fds
  <2> QED  BY <1>1, <2>1
<1>4. /\ NoConf \in Conf /\ NoLoad \in Load /\ NoLoad.new = NoConf /\ NoLoad.by = "nobody"
      /\ NoLoad.todo = <<>> /\ \A n, k : Holds(NoConf, n, k) <=> n = NoFd /\ k = "lock"
  BY NoConfFacts
<1>5. events \in Seq({"start", "stop"}) /\ DOMAIN sessions = {}
  BY <1>1
<1>6. ProcessType
  BY <1>1, <1>2, <1>4, <1>5 DEF ProcessType, Early
<1>7. PhaseInv /\ SessionInv
  BY <1>1, <1>4, <1>5 DEF PhaseInv, SessionInv
<1>8. Own(table, NoConf, NoConf)
  BY <1>2, <1>4 DEF Own, OwnKind
<1>9. OwnInv
  BY <1>1, <1>4, <1>8 DEF OwnInv
<1>10. ZeroInv
  BY <1>1, <1>3 DEF ZeroInv
<1>11. StopInv
  BY <1>1 DEF StopInv, StopRecorded
<1> QED  BY <1>6, <1>7, <1>9, <1>10, <1>11 DEF ProcessInv

\* The inductive invariant of the process.
THEOREM ProcessInvariant == ProcessSpec => []ProcessInv
<1>1. ProcessInit => ProcessInv
  BY StepStart
<1>2. ProcessInv /\ [ProcessNext]_processVars => ProcessInv'
  <2> SUFFICES ASSUME ProcessInv, [ProcessNext]_processVars PROVE ProcessInv'
    OBVIOUS
  <2>1. CASE MainStep
    BY <2>1, StepOptions, StepParams, StepDaemon, StepCloseAll, StepLogInit, StepRun,
       StepServiceEnds DEF MainStep
  <2>2. CASE ReloadStep
    BY <2>2, StepLoad, StepLoadFails, StepLoadEnds DEF ReloadStep
  <2>3. CASE UNCHANGED processVars
    <3>1. UNCHANGED <<pc, asDaemon, handlers, table, logconf, loading, sessions, stopped, params,
                      events, exit>>
      BY <2>3 DEF processVars, held
    <3>2. ProcessType' /\ PhaseInv' /\ SessionInv' /\ OwnInv' /\ ZeroInv'
      BY <3>1 DEF ProcessInv, ProcessType, PhaseInv, SessionInv, OwnInv, ZeroInv
    <3>3. StopInv'
      BY <3>1 DEF ProcessInv, StopInv, StopRecorded
    <3> QED  BY <3>2, <3>3 DEF ProcessInv
  <2> QED  BY <2>1, <2>2, <2>3, StepOpenSession, StepCloseSession, StepThrows, StepTerminate,
              StepReloadSignal, StepAutoReload DEF ProcessNext
<1> QED  BY <1>1, <1>2, PTL DEF ProcessSpec

\* zlog's descriptors are exactly those of the configuration in force and of the one
\* being built, for any limit on descriptors, reached or not, and any rules: a reload
\* leaks none, and closes none that the sockets of the relay have.
THEOREM DescriptorsStayOwned == ProcessSpec => []DescriptorsOwned
<1>1. ProcessInv => DescriptorsOwned
  <2> SUFFICES ASSUME ProcessInv PROVE DescriptorsOwned
    OBVIOUS
  <2>1. /\ table \in [Fds -> Kind] /\ DOMAIN table = Fds
        /\ Own(table, logconf, loading.new)
    BY DEF ProcessInv, ProcessType, OwnInv
  <2>2. \A n \in Fds : n # NoFd
    BY ProcessAssumption DEF Fds, NoFd
  <2>3. ASSUME NEW c, NEW p
        PROVE  p \in HeldBy(c) <=> \E n, k : p = <<n, k>> /\ Holds(c, n, k)
    BY DEF HeldBy, Holds
  <2>4. ASSUME NEW p
        PROVE  p \in {<<n, table[n]>> : n \in {m \in DOMAIN table : table[m] \in OwnKind}}
                 <=> \E n \in Fds : p = <<n, table[n]>> /\ table[n] \in OwnKind
    BY <2>1
  <2>5. ASSUME NEW n \in Fds, table[n] \in OwnKind
        PROVE  <<n, table[n]>> \in (HeldBy(logconf) \cup HeldBy(loading.new)) \ {<<NoFd, "lock">>}
    <3>1. Holds(logconf, n, table[n]) \/ Holds(loading.new, n, table[n])
      BY <2>1, <2>5 DEF Own
    <3>2. <<n, table[n]>> \in HeldBy(logconf) \cup HeldBy(loading.new)
      BY <2>3, <3>1
    <3>3. <<n, table[n]>> # <<NoFd, "lock">>
      BY <2>2, <2>5
    <3> QED  BY <3>2, <3>3
  <2>6. ASSUME NEW c \in {logconf, loading.new}, NEW p \in HeldBy(c), p # <<NoFd, "lock">>
        PROVE  \E n \in Fds : p = <<n, table[n]>> /\ table[n] \in OwnKind
    <3>1. PICK n, k : p = <<n, k>> /\ Holds(c, n, k)
      BY <2>3, <2>6
    <3>2. n # NoFd
      <4> SUFFICES ASSUME n = NoFd PROVE FALSE
        OBVIOUS
      <4>1. \A i \in 1..Len(c.outs) : Opens(c.outs[i].out) => c.outs[i].fd # NoFd
        <5>1. c \in Conf
          BY <2>6 DEF ProcessInv, ProcessType, Load
        <5>2. PICK s \in Seq(Out) : s = c.outs
          BY <5>1 DEF Conf
        <5>3. \A i \in 1..Len(s) : s[i] \in Out
          OBVIOUS
        <5>4. \A o \in Out : o.fd # NoFd
          BY <2>2 DEF Out
        <5> QED  BY <5>2, <5>3, <5>4
      <4>2. k = "lock"
        BY <3>1, <4>1 DEF Holds
      <4> QED  BY <2>6, <3>1, <4>2
    <3>3. n \in Fds /\ table[n] = k /\ k \in OwnKind
      BY <2>1, <2>6, <3>1, <3>2, HoldsKind DEF Own
    <3> QED  BY <3>1, <3>3
  <2>7. {<<n, table[n]>> : n \in {m \in DOMAIN table : table[m] \in OwnKind}}
          = (HeldBy(logconf) \cup HeldBy(loading.new)) \ {<<NoFd, "lock">>}
    <3>1. ASSUME NEW p
          PROVE  p \in {<<n, table[n]>> : n \in {m \in DOMAIN table : table[m] \in OwnKind}}
                   <=> p \in (HeldBy(logconf) \cup HeldBy(loading.new)) \ {<<NoFd, "lock">>}
      BY <2>4, <2>5, <2>6, ZenonT(60)
    <3> QED  BY <3>1, Zenon
  <2> QED  BY <2>7 DEF DescriptorsOwned, OwnKind
<1> QED  BY <1>1, ProcessInvariant, PTL

\* All sessions that are open use one F1 address: a reload of the parameters does not
\* reach the service.
THEOREM OneServerAlways == ProcessSpec => []OneServer
<1>1. ProcessInv => OneServer
  BY DEF ProcessInv, SessionInv, OneServer
<1> QED  BY <1>1, ProcessInvariant, PTL

\* A daemon that ended, stopped or aborted, has recorded the stop last.
THEOREM StopsRecorded == ProcessSpec => []StopRecorded
<1>1. ProcessInv => StopRecorded
  BY DEF ProcessInv, StopInv
<1> QED  BY <1>1, ProcessInvariant, PTL
=============================================================================

------------------------------ MODULE RaRtProcess ------------------------------
(***************************************************************************)
(* The process of raRt: main.cpp from the command line to the end of the   *)
(* service, its signal handlers, the parameters of paramsManager.cpp, the  *)
(* start of zlog by rartlog.cpp, and the descriptors that zlog's           *)
(* configuration, the reactor, the udp socket and the sessions share.      *)
(*                                                                         *)
(* The main thread walks through main() and then waits in join; the io     *)
(* thread serves.  A handler runs on the main thread between any two of    *)
(* its steps.  That a handler may interrupt a log call of its own thread   *)
(* is the subject of ZlogEnv.                                              *)
(***************************************************************************)
EXTENDS Descriptors, Sequences, SequencesExt, TLC

CONSTANTS
    RuleLists,    \* the outputs that rart_log.conf may list, in order
    CfgFiles,     \* what raRt.cfg may hold: [ok, set], set from keys to values
    ProcFds,      \* the highest descriptor number: RLIMIT_NOFILE - 1
    MaxSignals,   \* bound on signals and automatic reloads
    MaxSessions   \* bound on sessions open at a time

ASSUME ProcessAssumption ==
    /\ ProcFds \in Nat /\ MaxSignals \in Nat /\ MaxSessions \in Nat
    /\ RuleLists \subseteq Seq({"file", "pipe", "stdout", "stderr"})

VARIABLES
    pc,         \* where the main thread is
    asDaemon,   \* bMakeDaemon
    handlers,   \* set_signals has run
    table,      \* the descriptor table
    logconf,    \* the zlog configuration in force
    loading,    \* the one that zlog_init or a reload is building
    stopped,    \* g_io_service.stop() was called
    params,     \* *g_spParamsManager
    sessions,   \* from the descriptor of each open F1 session to the address it used
    events,     \* raRt_events.log
    exit,       \* how the process ended
    signals     \* signals so far

held == <<table, logconf, loading, sessions>>   \* what the process has open

processVars == <<pc, asDaemon, handlers, held, stopped, params, events, exit, signals>>

NoConf == [lock |-> NoFd, outs |-> <<>>]
NoLoad == [by |-> "nobody", fp |-> NoFd, todo |-> <<>>, new |-> NoConf]
NoParams == <<>>

-------------------------------------------------------------------------------
(* Parameters.                                                             *)

ParamsDefaults == "f1serveradr" :> "localhost" @@ "loglevel" :> 8

\* ParamsManager::load: what the file sets replaces the defaults; a missing file
\* or a key that is not an option is an error.
load(file) == [res |-> IF file.ok THEN 0 ELSE -1, params |-> file.set @@ ParamsDefaults]

-------------------------------------------------------------------------------
(* The descriptors of a zlog configuration.                                *)

\* Only files and pipes open one; >stdout and >stderr write to 1 and to 2.
Opens(out) == out \in {"file", "pipe"}

\* What the write of a record to the output o reaches.
zlog_rule_output_to(o) ==
    table[CASE o.out = "stdout" -> 1 [] o.out = "stderr" -> 2 [] OTHER -> o.fd]

\* zlog_conf_del: 0 stands for a file that is not open.
CloseConf(t, c) ==
    CloseFds(t, ({c.lock} \cup {c.outs[i].fd : i \in {j \in 1..Len(c.outs) : Opens(c.outs[j].out)}})
                  \ {0})

\* zlog_conf_new begins: the file is open while the rotater and the rules are built.
BeginLoad(who) ==
    /\ HasFree(table)
    /\ \E list \in RuleLists :
          /\ table' = OpenFd(table, "conf")
          /\ loading' = [by |-> who, fp |-> LowestFree(table), todo |-> <<"lock">> \o list,
                         new |-> NoConf]

-------------------------------------------------------------------------------
ProcessInit ==
    /\ pc = "options" /\ asDaemon = FALSE /\ handlers = FALSE
    /\ table = [n \in 0..ProcFds |-> IF n <= 2 THEN "console" ELSE "closed"]
    /\ logconf = NoConf /\ loading = NoLoad /\ stopped = FALSE
    /\ params = NoParams
    /\ sessions = <<>> /\ events = <<>> /\ exit = "none" /\ signals = 0

MainAt(l) == pc = l /\ exit = "none" /\ loading.by # "main"

\* The end of the process closes whatever is open.
Ends(how) ==
    /\ pc' = "ended" /\ exit' = how
    /\ table' = [n \in DOMAIN table |-> "closed"] /\ sessions' = <<>>
    /\ logconf' = NoConf /\ loading' = NoLoad

GoesTo(l) == pc' = l /\ UNCHANGED exit

\* The command line: an error, --help and --version end here; otherwise the start is
\* recorded before anything is known to work.
ParseOptions ==
    /\ MainAt("options")
    /\ \/ Ends("exit") /\ UNCHANGED <<asDaemon, events>>
       \/ /\ asDaemon' \in BOOLEAN
          /\ events' = Append(events, "start")
          /\ GoesTo("params") /\ UNCHANGED held
    /\ UNCHANGED <<handlers, stopped, params, signals>>

LoadParams ==
    /\ MainAt("params")
    /\ \E file \in CfgFiles :
          /\ params' = load(file).params
          /\ IF load(file).res # 0 THEN Ends("exit")
             ELSE GoesTo(IF asDaemon THEN "set_signals" ELSE "log_init") /\ UNCHANGED held
    /\ UNCHANGED <<asDaemon, handlers, stopped, events, signals>>

set_signals ==
    /\ MainAt("set_signals")
    /\ handlers' = TRUE
    /\ GoesTo("fork") \/ GoesTo("close")      \* getppid() = 1: started by init
    /\ UNCHANGED <<asDaemon, held, stopped, params, events, signals>>

\* The process is now the child; the parent has ended.  Two forks, either may fail.
Fork ==
    /\ MainAt("fork")
    /\ Ends("exit") \/ (GoesTo("fork again") /\ UNCHANGED held)
    /\ UNCHANGED <<asDaemon, handlers, stopped, params, events, signals>>

ForkAgain ==
    /\ MainAt("fork again")
    /\ Ends("exit") \/ (GoesTo("close") /\ UNCHANGED held)
    /\ UNCHANGED <<asDaemon, handlers, stopped, params, events, signals>>

CloseAll ==
    /\ MainAt("close")
    /\ table' = [n \in DOMAIN table |-> "closed"]
    /\ GoesTo("log_init")
    /\ UNCHANGED <<asDaemon, handlers, logconf, loading, sessions, stopped, params, events, signals>>

\* exit(-1) when zlog_init fails, exit(-2) when the category cannot be made.  The
\* configuration is built by LoadStep before run() is reached.
log_init ==
    /\ MainAt("log_init")
    /\ \/ Ends("exit")
       \/ BeginLoad("main") /\ GoesTo("run") /\ UNCHANGED <<logconf, sessions>>
    /\ UNCHANGED <<asDaemon, handlers, stopped, params, events, signals>>

\* A plausible fault: the service is reset before it runs.
IoServiceRuns_Reset == stopped' = FALSE

\* io_service::run keeps a stop that came before it.
IoServiceRuns == UNCHANGED stopped

\* run(): the reactor and the udp socket, then the io thread.  An exception (the port
\* is taken) is caught and ends the service.
run ==
    /\ MainAt("run")
    /\ \/ Ends("exit") /\ UNCHANGED stopped
       \/ /\ HasFree(table) /\ HasFree(OpenFd(table, "reactor"))
          /\ table' = OpenFd(OpenFd(table, "reactor"), "udp")
          /\ IoServiceRuns
          /\ GoesTo("join") /\ UNCHANGED <<logconf, loading, sessions>>
    /\ UNCHANGED <<asDaemon, handlers, params, events, signals>>

\* io_service::run returns because the service was stopped, join returns, main ends.
ServiceEnds ==
    /\ MainAt("join") /\ stopped /\ loading.by # "io"
    /\ Ends("clean")
    /\ UNCHANGED <<asDaemon, handlers, stopped, params, events, signals>>

-------------------------------------------------------------------------------
(* The io thread.                                                          *)

Serves == pc = "join" /\ exit = "none" /\ loading.by # "io" /\ ~stopped

\* RouterSession::start reads the address from the parameters of the service.
OpenSession ==
    /\ Serves /\ HasFree(table) /\ Cardinality(DOMAIN sessions) < MaxSessions
    /\ table' = OpenFd(table, "F1")
    /\ sessions' = [n \in DOMAIN sessions \cup {LowestFree(table)} |->
                     IF n \in DOMAIN sessions THEN sessions[n] ELSE params["f1serveradr"]]
    /\ UNCHANGED <<pc, asDaemon, handlers, logconf, loading, stopped, params, events, exit, signals>>

CloseF1Session ==
    /\ Serves
    /\ \E n \in DOMAIN sessions :
          /\ table' = CloseFd(table, n)
          /\ sessions' = [m \in DOMAIN sessions \ {n} |-> sessions[m]]
    /\ UNCHANGED <<pc, asDaemon, handlers, logconf, loading, stopped, params, events, exit, signals>>

\* A plausible fault: the record of the stop is left to the end of run().
terminate_Silent == stopped' = TRUE /\ UNCHANGED events

\* The handler: it records the stop, stops the io_service and returns.
terminate == stopped' = TRUE /\ events' = Append(events, "stop")

\* An exception leaves a handler, and so io_service::run and its thread: abort.  run()
\* catches only those of its own thread.  SIGABRT has the handler terminate.
HandlerThrows ==
    /\ Serves
    /\ Ends("aborted")
    /\ IF handlers THEN terminate ELSE UNCHANGED <<stopped, events>>
    /\ UNCHANGED <<asDaemon, handlers, params, signals>>

-------------------------------------------------------------------------------
(* Signals.                                                                *)

Signalled == exit = "none" /\ signals < MaxSignals /\ signals' = signals + 1

\* The default action, before set_signals and without --daemon.
Killed == Ends("killed") /\ UNCHANGED <<asDaemon, handlers, stopped, params, events>>

TerminateSignal ==
    /\ Signalled
    /\ IF handlers THEN terminate /\ UNCHANGED <<pc, asDaemon, handlers, held, params, exit>>
                   ELSE Killed

\* A plausible fault: the reload goes to the parameters in use.
LoadedParams_InUse(file) == load(file).params

\* The parameters are loaded into a manager that the handler drops.
LoadedParams(file) == params

\* zlog_reload begins; before log_init there is nothing to reload, or the file
\* cannot be opened.
BeginReload(who) ==
    \/ UNCHANGED <<table, loading>>
    \/ logconf # NoConf /\ BeginLoad(who)

reload_config ==
    /\ loading = NoLoad
    /\ \E file \in CfgFiles : params' = LoadedParams(file)
    /\ BeginReload("main")
    /\ UNCHANGED <<pc, asDaemon, handlers, logconf, sessions, stopped, events, exit>>

ReloadSignal == Signalled /\ IF handlers THEN reload_config ELSE Killed

\* The io thread has logged reload_conf_period records.
AutoReload ==
    /\ Signalled /\ Serves /\ loading = NoLoad
    /\ BeginReload("io")
    /\ UNCHANGED <<pc, asDaemon, handlers, logconf, sessions, stopped, params, events, exit>>

\* The next part of the new configuration is built; the other thread runs meanwhile.
LoadStep ==
    /\ exit = "none" /\ loading.todo # <<>>
    /\ LET out   == Head(loading.todo)
           opens == out = "lock" \/ Opens(out)
           n     == IF opens THEN LowestFree(table) ELSE 0
           new   == loading.new
       IN  /\ opens => HasFree(table)
           /\ table' = IF opens THEN OpenFd(table, out) ELSE table
           /\ loading' =
                 [by |-> loading.by, fp |-> loading.fp, todo |-> Tail(loading.todo),
                  new |-> IF out = "lock" THEN [lock |-> n, outs |-> new.outs]
                          ELSE [lock |-> new.lock,
                                outs |-> Append(new.outs, [out |-> out, fd |-> n])]]
    /\ UNCHANGED <<pc, asDaemon, handlers, logconf, sessions, stopped, params, events, exit, signals>>

\* A line is wrong or an open failed: the file is closed, what was built is released;
\* log_init ends the process.
LoadFails ==
    /\ exit = "none" /\ loading # NoLoad
    /\ IF logconf = NoConf THEN Ends("exit")
       ELSE /\ table' = CloseConf(CloseFd(table, loading.fp), loading.new)
            /\ loading' = NoLoad
            /\ UNCHANGED <<pc, logconf, sessions, exit>>
    /\ UNCHANGED <<asDaemon, handlers, stopped, params, events, signals>>

\* A plausible fault: the lock file of the old configuration stays open.
ReleaseOld_KeepsLock(t, c) == CloseConf(t, [c EXCEPT !.lock = 0])

ReleaseOld(t, c) == CloseConf(t, c)

\* The new configuration is complete: it replaces the old one, which is released.
LoadEnds ==
    /\ exit = "none" /\ loading # NoLoad /\ loading.todo = <<>>
    /\ table' = ReleaseOld(CloseFd(table, loading.fp), logconf)
    /\ logconf' = loading.new
    /\ loading' = NoLoad
    /\ UNCHANGED <<pc, asDaemon, handlers, sessions, stopped, params, events, exit, signals>>

MainStep ==
    \/ ParseOptions \/ LoadParams \/ set_signals \/ Fork \/ ForkAgain \/ CloseAll
    \/ log_init \/ run \/ ServiceEnds

ReloadStep == LoadStep \/ LoadFails \/ LoadEnds

ProcessNext ==
    \/ MainStep \/ ReloadStep
    \/ OpenSession \/ CloseF1Session \/ HandlerThrows
    \/ TerminateSignal \/ ReloadSignal \/ AutoReload

ProcessSpec == ProcessInit /\ [][ProcessNext]_processVars

\* The threads run: main() and a reload in progress go on.
ProcessFairness == WF_processVars(MainStep) /\ WF_processVars(ReloadStep)

-------------------------------------------------------------------------------
(* Properties.                                                             *)

\* The descriptors of a configuration and what each was opened on.
HeldBy(c) ==
    {<<c.lock, "lock">>} \cup
    {<<c.outs[i].fd, c.outs[i].out>> : i \in {j \in 1..Len(c.outs) : Opens(c.outs[j].out)}}

\* zlog's descriptors are those of the configuration in force and of the one being
\* built, each still open on what was opened: a reload, failed or not, leaks none and
\* closes none that a socket has taken over since, although 0 stands for "none" and a
\* daemon starts with 0 free.
DescriptorsOwned ==
    {<<n, table[n]>> : n \in {m \in DOMAIN table : table[m] \in {"lock", "file", "pipe"}}}
        = (HeldBy(logconf) \cup HeldBy(loading.new)) \ {<<NoFd, "lock">>}

\* The sessions that are open at one time use one F1 address, whatever was edited and
\* reloaded between their starts.
OneServer == \A m, n \in DOMAIN sessions : sessions[m] = sessions[n]

\* A daemon whose service ended, stopped or aborted, has recorded the stop.
StopRecorded == (asDaemon /\ exit \in {"clean", "aborted"}) => Last(events) = "stop"

\* A stop that arrives at any moment, before the io_service runs or during a reload,
\* ends the process.
StopEnds == stopped ~> exit # "none"

\* No log record is written into a socket, so F1 and the peers read only packets ("daemon
\* processes should not set any rule output to stdout, or stderr" says zlog's guide).
NoRecordOnTheWire ==
    \A i \in 1..Len(logconf.outs) :
        zlog_rule_output_to(logconf.outs[i]) \notin {"F1", "udp", "reactor"}
================================================================================

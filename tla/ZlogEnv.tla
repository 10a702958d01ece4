------------------------------ MODULE ZlogEnv ------------------------------
(***************************************************************************)
(* The logging environment of zlog.c as the threads of raRt share it: the  *)
(* configuration, the table of categories and the per-thread buffers, all  *)
(* behind one read-write lock.  A log call tests the level of its category *)
(* without the lock, writes under the read lock and may then reload the    *)
(* configuration; reload, init, fini and the calls that create categories  *)
(* take the write lock.  The signal handler reload_config of main.cpp runs *)
(* zlog_reload on top of whatever its thread was doing.                    *)
(*                                                                         *)
(* A configuration is a number; of the one in force the model keeps which  *)
(* categories it enables (on) and whether its rules know the program's     *)
(* record function (bound).  The body of a writer is one step after it got *)
(* the lock; a level read without the lock meanwhile may be anything.      *)
(* What is written, and where, is left out.                                *)
(***************************************************************************)
EXTENDS Integers, Sequences

CONSTANTS
  Threads,        \* threads of the program
  Categories,     \* names of categories
  NoThread, NoCategory,
  Ops,            \* calls the program makes: see UserOp
  ReloadPeriod,   \* reload_conf_period of every configuration, 0 for never
  MaxVersion,     \* bound: successful inits and reloads
  MaxConfs,       \* bound: configurations in memory at once
  AllocFails,     \* whether memory allocation may fail
  Signals         \* whether SIGUSR1 may interrupt a thread

\* zlog stands for zlog, vzlog and hzlog; vdzlog for vdzlog and hdzlog; mdc
\* for zlog_put_mdc.
WriteOp == {"zlog_init", "dzlog_init", "zlog_reload", "zlog_fini",
            "zlog_get_category", "dzlog_set_category", "zlog_set_record"}
LogOp   == {"zlog", "vdzlog", "dzlog"}
UserOp  == WriteOp \union LogOp \union {"mdc"}

ASSUME ZlogAssumption ==
  /\ NoThread \notin Threads
  /\ NoCategory \notin Categories
  /\ Ops \subseteq UserOp
  /\ ReloadPeriod \in Nat
  /\ MaxVersion \in Nat \ {0}
  /\ MaxConfs \in Nat \ {0}
  /\ AllocFails \in BOOLEAN
  /\ Signals \in BOOLEAN

ConfId == 1..MaxConfs
Null   == 0

\* What a thread is doing: the call, its category, where it is in it, and the
\* value of the reload counter it has read.  "auto" is the reload a log call
\* makes when the period is over.
Frame == [op : UserOp \union {"auto"}, c : Categories \union {NoCategory},
          pc : {"idle", "test", "rdlock", "fetch", "output", "count",
                "wrlock", "held"},
          n : Nat]
Idle == [op |-> "zlog", c |-> NoCategory, pc |-> "idle", n |-> 0]
Reload(op) == [op |-> op, c |-> NoCategory, pc |-> "wrlock", n |-> 0]

Category == [rules : ConfId \union {Null}, backup : ConfId \union {Null},
             bit : BOOLEAN]

VARIABLES
  zlog_env_lock,         \* [readers, writer]
  zlog_env_is_init,
  zlog_env_init_version,
  zlog_env_conf,         \* the configuration in force, or Null
  live,                  \* configurations that are allocated
  on, bound,             \* of the one in force: what it enables, its record
  table,                 \* zlog_env_categories: the names in it
  category,              \* name -> fit_rules, fit_rules_backup, level_bitmap
  zlog_default_category,
  records,               \* zlog_env_records is not empty
  zlog_env_reload_conf_count,
  a_thread,              \* thread -> its init_version, 0 when it has no buffers,
                         \* and the versions msg_buf and event were built for
  call, stack,           \* thread -> what it does, what a signal interrupted
  crashed,               \* a null pointer was dereferenced
  logged,                \* history: log calls since the last reset of the
                         \* counter, up to ReloadPeriod + 1
  clean                  \* history: no writer since the call of t began

lockVars   == <<zlog_env_lock>>
confVars   == <<zlog_env_is_init, zlog_env_init_version, zlog_env_conf, live,
                on, bound, records>>
tableVars  == <<table, category, zlog_default_category>>
countVars  == <<zlog_env_reload_conf_count, logged>>
vars == <<lockVars, confVars, tableVars, countVars, a_thread, call, stack,
          crashed, clean>>

TypeOK ==
  /\ zlog_env_lock \in [readers : SUBSET Threads,
                        writer : Threads \union {NoThread}]
  /\ zlog_env_is_init \in BOOLEAN
  /\ zlog_env_init_version \in 0..MaxVersion
  /\ zlog_env_conf \in ConfId \union {Null}
  /\ live \subseteq ConfId
  /\ on \subseteq Categories
  /\ bound \in BOOLEAN
  /\ table \subseteq Categories
  /\ category \in [Categories -> Category]
  /\ zlog_default_category \in Categories \union {NoCategory}
  /\ records \in BOOLEAN
  /\ zlog_env_reload_conf_count \in Nat
  /\ a_thread \in [Threads -> [version : 0..MaxVersion, msg_buf : 0..MaxVersion,
                               event : 0..MaxVersion]]
  /\ call \in [Threads -> Frame]
  /\ stack \in [Threads -> Seq(Frame)]
  /\ crashed \in BOOLEAN
  /\ logged \in 0..(ReloadPeriod + 1)
  /\ clean \in [Threads -> BOOLEAN]

NoRules   == [rules |-> Null, backup |-> Null, bit |-> FALSE]
NoBuffers == [version |-> 0, msg_buf |-> 0, event |-> 0]

Init ==
  /\ zlog_env_lock = [readers |-> {}, writer |-> NoThread]
  /\ zlog_env_is_init = FALSE
  /\ zlog_env_init_version = 0
  /\ zlog_env_conf = Null
  /\ live = {}
  /\ on = {}
  /\ bound = FALSE
  /\ table = {}
  /\ category = [c \in Categories |-> NoRules]
  /\ zlog_default_category = NoCategory
  /\ records = FALSE
  /\ zlog_env_reload_conf_count = 0
  /\ a_thread = [t \in Threads |-> NoBuffers]
  /\ call = [t \in Threads |-> Idle]
  /\ stack = [t \in Threads |-> << >>]
  /\ crashed = FALSE
  /\ logged = 0
  /\ clean = [t \in Threads |-> TRUE]

-----------------------------------------------------------------------------
(* Calls and the lock.                                                     *)

At(t, pc) == ~crashed /\ call[t].pc = pc

Goto(t, pc) == call' = [call EXCEPT ![t].pc = pc] /\ UNCHANGED stack

\* The call returns: to what a signal interrupted, if anything.
Return(t) ==
  IF stack[t] = << >>
  THEN call' = [call EXCEPT ![t] = Idle] /\ UNCHANGED stack
  ELSE /\ call' = [call EXCEPT ![t] = Head(stack[t])]
       /\ stack' = [stack EXCEPT ![t] = Tail(@)]

Unlock(t) ==
  zlog_env_lock' = [readers |-> zlog_env_lock.readers \ {t},
                    writer |-> IF zlog_env_lock.writer = t THEN NoThread
                               ELSE zlog_env_lock.writer]

UnlockAndReturn(t) == Unlock(t) /\ Return(t)

\* The program makes a call.  It logs to categories it got from zlog, and it
\* ends logging only when no other thread logs.
Call(t, op, c) ==
  /\ At(t, "idle")
  /\ c = NoCategory <=> op \notin {"zlog", "dzlog_init", "zlog_get_category",
                                   "dzlog_set_category"}
  /\ op = "zlog" => c \in table
  /\ op = "zlog_fini" => \A u \in Threads \ {t} : call[u].pc = "idle"
  /\ \A u \in Threads : ~(call[u].pc # "idle" /\ call[u].op = "zlog_fini")
  /\ call' = [call EXCEPT ![t] =
       [op |-> op, c |-> c, n |-> 0,
        pc |-> CASE op \in {"zlog", "vdzlog"} -> "test"
                 [] op \in {"dzlog", "mdc"}   -> "rdlock"
                 [] OTHER                     -> "wrlock"]]
  /\ clean' = [clean EXCEPT ![t] = zlog_env_lock.writer = NoThread]
  /\ UNCHANGED <<lockVars, confVars, tableVars, countVars, a_thread, stack,
                 crashed>>

\* SIGUSR1: reload_config calls log_reload on the stack of the thread.
reload_config(t) ==
  /\ Signals
  /\ ~crashed
  /\ stack[t] = << >>
  /\ stack' = [stack EXCEPT ![t] = <<call[t]>>]
  /\ call' = [call EXCEPT ![t] = Reload("zlog_reload")]
  /\ UNCHANGED <<lockVars, confVars, tableVars, countVars, a_thread, crashed,
                 clean>>

ReadLock(t) ==
  /\ At(t, "rdlock")
  /\ zlog_env_lock.writer = NoThread
  /\ zlog_env_lock' = [zlog_env_lock EXCEPT !.readers = @ \union {t}]
  /\ Goto(t, "fetch")
  /\ UNCHANGED <<confVars, tableVars, countVars, a_thread, crashed, clean>>

\* The thread that holds the write lock is refused with EDEADLK.
WriteLock(t) ==
  /\ At(t, "wrlock")
  /\ \/ /\ zlog_env_lock = [readers |-> {}, writer |-> NoThread]
        /\ zlog_env_lock' = [zlog_env_lock EXCEPT !.writer = t]
        /\ Goto(t, "held")
        /\ clean' = [u \in Threads |-> FALSE]
     \/ /\ zlog_env_lock.writer = t
        /\ Return(t)
        /\ UNCHANGED <<lockVars, clean>>
  /\ UNCHANGED <<confVars, tableVars, countVars, a_thread, crashed>>

-----------------------------------------------------------------------------
(* Configurations and categories.                                          *)

\* Fault: the bitmap is not cleared before the rules are added to it.
zlog_category_obtain_rules_NoClear(cat, c, k, enables) ==
  [cat EXCEPT !.rules = k, !.bit = @ \/ c \in enables]

zlog_category_obtain_rules(cat, c, k, enables) ==
  [rules |-> k, backup |-> cat.backup, bit |-> c \in enables]

zlog_category_update_rules(c, k, enables) ==
  zlog_category_obtain_rules([category[c] EXCEPT !.backup = category[c].rules,
                                                 !.rules = Null],
                             c, k, enables)

\* No memory for the list of rules or for an element of it.
zlog_category_update_fail(c, enables) ==
  {[rules |-> Null, backup |-> category[c].rules, bit |-> b] :
     b \in {FALSE, (c \in enables)}}

\* Fault: the backup is kept.
zlog_category_commit_rules_Keeps(cat) == cat

zlog_category_commit_rules(cat) == [cat EXCEPT !.backup = Null]

\* The category c, created from configuration k when it is not in the table.
zlog_category_table_fetch_category(c, k, enables) ==
  /\ table' = table \union {c}
  /\ category' = IF c \in table THEN category
                 ELSE [category EXCEPT ![c] =
                         zlog_category_obtain_rules(NoRules, c, k, enables)]

\* Everything is released.
zlog_fini_inner ==
  /\ table' = {}
  /\ category' = [c \in Categories |-> NoRules]
  /\ zlog_default_category' = NoCategory
  /\ records' = FALSE
  /\ zlog_env_conf' = Null

\* The configuration file can be loaded, to k.
zlog_conf_new(k) ==
  /\ zlog_env_init_version < MaxVersion
  /\ k \notin live

-----------------------------------------------------------------------------
(* The writers.                                                            *)

Held(t, op) == At(t, "held") /\ call[t].op = op

\* dzlog_init also fetches the default category; when it cannot, what was
\* set up stays, and is not initialised.
zlog_init(t) ==
  /\ Held(t, "zlog_init") \/ Held(t, "dzlog_init")
  /\ \/ /\ zlog_env_is_init
        /\ UNCHANGED <<confVars, tableVars>>
     \/ /\ ~zlog_env_is_init
        /\ zlog_fini_inner
        /\ UNCHANGED <<zlog_env_is_init, zlog_env_init_version, live, on, bound>>
     \/ \E k \in ConfId, es \in SUBSET Categories :
          /\ ~zlog_env_is_init
          /\ zlog_conf_new(k)
          /\ live' = live \union {k}
          /\ zlog_env_conf' = k
          /\ on' = es
          /\ bound' = FALSE
          /\ records' = FALSE
          /\ \/ /\ call[t].op = "zlog_init"
                /\ table' = {}
                /\ category' = [c \in Categories |-> NoRules]
                /\ UNCHANGED zlog_default_category
                /\ zlog_env_is_init' = TRUE
                /\ zlog_env_init_version' = zlog_env_init_version + 1
             \/ /\ call[t].op = "dzlog_init"
                /\ table' = {call[t].c}
                /\ category' = [c \in Categories |->
                     IF c = call[t].c
                     THEN zlog_category_obtain_rules(NoRules, c, k, es)
                     ELSE NoRules]
                /\ zlog_default_category' = call[t].c
                /\ zlog_env_is_init' = TRUE
                /\ zlog_env_init_version' = zlog_env_init_version + 1
             \/ /\ call[t].op = "dzlog_init"
                /\ AllocFails
                /\ table' = {}
                /\ category' = [c \in Categories |-> NoRules]
                /\ zlog_default_category' = NoCategory
                /\ UNCHANGED <<zlog_env_is_init, zlog_env_init_version>>
  /\ UnlockAndReturn(t)
  /\ UNCHANGED <<countVars, a_thread, crashed, clean>>

\* Fault: the counter is not tested again under the write lock.
DoesReload_NoSecondTest(t) == TRUE

\* A log call that wants to reload because the period is over finds out
\* whether another thread already did.
DoesReload(t) ==
  call[t].op = "auto" => zlog_env_reload_conf_count > ReloadPeriod

\* Fault: the record functions are not set in the new rules.
SetRecords_Forgotten == FALSE

\* zlog_rule_set_record for every rule of the new configuration.
SetRecords == records

\* Nothing to do; the file cannot be loaded; a category cannot be updated:
\* the new configuration is released, the categories updated so far keep its
\* rules (c_up is 0, so nothing is rolled back); or the reload succeeds.
zlog_reload(t) ==
  /\ Held(t, "zlog_reload") \/ Held(t, "auto")
  /\ \/ /\ ~zlog_env_is_init \/ ~DoesReload(t)
        /\ UNCHANGED <<confVars, tableVars, countVars>>
     \/ /\ zlog_env_is_init
        /\ DoesReload(t)
        /\ zlog_env_reload_conf_count' = 0
        /\ logged' = 0
        /\ UNCHANGED <<zlog_env_is_init, table, zlog_default_category, records>>
        /\ \/ UNCHANGED <<zlog_env_init_version, zlog_env_conf, live, on, bound,
                          category>>
           \/ \E k \in ConfId, es \in SUBSET Categories :
                /\ zlog_conf_new(k)
                /\ \/ /\ AllocFails
                      /\ \E c \in table : \E done \in SUBSET (table \ {c}),
                                             cat \in zlog_category_update_fail(c, es) :
                           category' = [d \in Categories |->
                             IF d = c THEN cat
                             ELSE IF d \in done
                             THEN zlog_category_update_rules(d, k, es)
                             ELSE category[d]]
                      /\ UNCHANGED <<zlog_env_init_version, zlog_env_conf, live,
                                     on, bound>>
                   \/ /\ category' = [d \in Categories |->
                           IF d \in table
                           THEN zlog_category_commit_rules(
                                  zlog_category_update_rules(d, k, es))
                           ELSE category[d]]
                      /\ zlog_env_init_version' = zlog_env_init_version + 1
                      /\ live' = (live \ {zlog_env_conf}) \union {k}
                      /\ zlog_env_conf' = k
                      /\ on' = es
                      /\ bound' = SetRecords
  /\ UnlockAndReturn(t)
  /\ UNCHANGED <<a_thread, crashed, clean>>

zlog_fini(t) ==
  /\ Held(t, "zlog_fini")
  /\ IF zlog_env_is_init
     THEN /\ zlog_fini_inner
          /\ live' = live \ {zlog_env_conf}
          /\ zlog_env_is_init' = FALSE
     ELSE UNCHANGED <<tableVars, records, zlog_env_conf, live, zlog_env_is_init>>
  /\ UnlockAndReturn(t)
  /\ UNCHANGED <<zlog_env_init_version, on, bound, countVars, a_thread, crashed,
                 clean>>

\* zlog_get_category, and dzlog_set_category, which makes the category the
\* default one, or leaves none when there is no memory for it.
zlog_get_category(t) ==
  /\ Held(t, "zlog_get_category") \/ Held(t, "dzlog_set_category")
  /\ LET default(c) == IF call[t].op = "dzlog_set_category" THEN c
                       ELSE zlog_default_category IN
     \/ /\ ~zlog_env_is_init
        /\ UNCHANGED tableVars
     \/ /\ zlog_env_is_init
        /\ zlog_category_table_fetch_category(call[t].c, zlog_env_conf, on)
        /\ zlog_default_category' = default(call[t].c)
     \/ /\ zlog_env_is_init
        /\ AllocFails
        /\ call[t].c \notin table
        /\ zlog_default_category' = default(NoCategory)
        /\ UNCHANGED <<table, category>>
  /\ UnlockAndReturn(t)
  /\ UNCHANGED <<confVars, countVars, a_thread, crashed, clean>>

zlog_set_record(t) ==
  /\ Held(t, "zlog_set_record")
  /\ \/ /\ zlog_env_is_init
        /\ records' = TRUE
        /\ bound' = TRUE
     \/ /\ ~zlog_env_is_init \/ AllocFails
        /\ UNCHANGED <<records, bound>>
  /\ UnlockAndReturn(t)
  /\ UNCHANGED <<zlog_env_is_init, zlog_env_init_version, zlog_env_conf, live, on,
                 tableVars, countVars, a_thread, crashed, clean>>

-----------------------------------------------------------------------------
(* The readers.                                                            *)

\* The category a log call writes to.
Target(t) == IF call[t].op = "zlog" THEN call[t].c ELSE zlog_default_category

\* zlog_category_needless_level without the lock: while a writer is at work
\* any value may be read.  vdzlog reads the default category's, also if null.
TestLevel(t) ==
  /\ At(t, "test")
  /\ IF Target(t) = NoCategory
     THEN crashed' = TRUE /\ UNCHANGED <<call, stack>>
     ELSE /\ \/ /\ category[Target(t)].bit \/ zlog_env_lock.writer # NoThread
                /\ Goto(t, "rdlock")
             \/ /\ ~category[Target(t)].bit \/ zlog_env_lock.writer # NoThread
                /\ Return(t)
          /\ UNCHANGED crashed
  /\ UNCHANGED <<lockVars, confVars, tableVars, countVars, a_thread, clean>>

\* A thread's buffers built for the configuration in force.
Built == [version |-> zlog_env_init_version, msg_buf |-> zlog_env_init_version,
          event |-> zlog_env_init_version]

zlog_thread_new == {Built} \union (IF AllocFails THEN {NoBuffers} ELSE {})

\* Fault: the version is stored before the event is rebuilt.
zlog_thread_rebuild_VersionFirst(th) ==
  {Built} \union (IF AllocFails
                  THEN {th, [th EXCEPT !.version = zlog_env_init_version,
                                       !.msg_buf = zlog_env_init_version]}
                  ELSE {})

\* zlog_thread_rebuild_msg_buf and zlog_thread_rebuild_event: without memory
\* nothing is rebuilt, or only msg_buf, and the version stays.
zlog_thread_rebuild(th) ==
  {Built} \union (IF AllocFails
                  THEN {th, [th EXCEPT !.msg_buf = zlog_env_init_version]}
                  ELSE {})

zlog_fetch_thread(th) ==
  IF th = NoBuffers THEN zlog_thread_new
  ELSE IF th.version # zlog_env_init_version THEN zlog_thread_rebuild(th)
  ELSE {th}

\* The first part of every reader, under the read lock.
Fetch(t) ==
  /\ At(t, "fetch")
  /\ IF \/ ~zlog_env_is_init
        \/ /\ call[t].op \in {"vdzlog", "dzlog"}
           /\ zlog_default_category = NoCategory
        \/ /\ call[t].op = "dzlog"
           /\ ~category[zlog_default_category].bit
     THEN UnlockAndReturn(t) /\ UNCHANGED a_thread
     ELSE \E th \in zlog_fetch_thread(a_thread[t]) :
            /\ a_thread' = [a_thread EXCEPT ![t] = th]
            /\ IF th.version = zlog_env_init_version /\ call[t].op # "mdc"
               THEN Goto(t, "output") /\ UNCHANGED lockVars
               ELSE UnlockAndReturn(t)
  /\ UNCHANGED <<confVars, tableVars, countVars, crashed, clean>>

\* zlog_category_output: the rules of the category, which may fail to write.
\* Then the counter is read, to be incremented.
Output(t) ==
  /\ At(t, "output")
  /\ IF category[Target(t)].rules = Null
     THEN crashed' = TRUE /\ UNCHANGED <<lockVars, call, stack>>
     ELSE /\ \/ /\ ReloadPeriod > 0
                /\ call' = [call EXCEPT ![t] =
                     [op |-> @.op, c |-> @.c, pc |-> "count",
                      n |-> zlog_env_reload_conf_count]]
                /\ UNCHANGED <<lockVars, stack>>
             \/ UnlockAndReturn(t)
          /\ UNCHANGED crashed
  /\ UNCHANGED <<confVars, tableVars, countVars, a_thread, clean>>

\* Fault: the reload is made under the read lock.
Count_KeepsLock(t) ==
  /\ At(t, "count")
  /\ zlog_env_reload_conf_count' = call[t].n + 1
  /\ logged' = IF logged > ReloadPeriod THEN logged ELSE logged + 1
  /\ IF call[t].n + 1 > ReloadPeriod
     THEN /\ call' = [call EXCEPT ![t] = Reload("auto")]
          /\ UNCHANGED <<lockVars, stack>>
     ELSE UnlockAndReturn(t)
  /\ UNCHANGED <<confVars, tableVars, a_thread, crashed, clean>>

\* The incremented counter is stored: readers do this at the same time and
\* may lose increments.  A reload is made after the read lock is given back.
Count(t) ==
  /\ At(t, "count")
  /\ zlog_env_reload_conf_count' = call[t].n + 1
  /\ logged' = IF logged > ReloadPeriod THEN logged ELSE logged + 1
  /\ IF call[t].n + 1 > ReloadPeriod
     THEN /\ Unlock(t)
          /\ call' = [call EXCEPT ![t] = Reload("auto")]
          /\ UNCHANGED stack
     ELSE UnlockAndReturn(t)
  /\ UNCHANGED <<confVars, tableVars, a_thread, crashed, clean>>

-----------------------------------------------------------------------------
Write(t) ==
  \/ zlog_init(t)
  \/ zlog_reload(t)
  \/ zlog_fini(t)
  \/ zlog_get_category(t)
  \/ zlog_set_record(t)

Read(t) == TestLevel(t) \/ Fetch(t) \/ Output(t) \/ Count(t)

Start(t) ==
  \/ \E op \in Ops, c \in Categories \union {NoCategory} : Call(t, op, c)
  \/ reload_config(t)

Next == \E t \in Threads :
  Start(t) \/ ReadLock(t) \/ WriteLock(t) \/ Write(t) \/ Read(t)

Spec == Init /\ [][Next]_vars

\* Threads run, and a thread that waits for the lock gets it if the lock is
\* free for it again and again.  No thread needs to make a call.
Fairness ==
  \A t \in Threads : /\ WF_vars(Write(t) \/ Read(t))
                     /\ SF_vars(ReadLock(t))
                     /\ SF_vars(WriteLock(t))

FairSpec == Spec /\ Fairness

-----------------------------------------------------------------------------
(* Properties.                                                             *)

\* Whenever no writer is at work, every category outputs through the rules of
\* the configuration in force and its bitmap is the one of those rules: no
\* category is left with rules that were freed, whatever a reload met.
CategoriesFollowConf ==
  zlog_env_lock.writer = NoThread /\ zlog_env_is_init =>
    /\ zlog_env_conf \in live
    /\ \A c \in table :
         category[c] = [rules |-> zlog_env_conf, backup |-> Null,
                        bit |-> c \in on]

\* A thread writes a record with buffers built for the configuration in
\* force, also when an earlier rebuild of them failed half way.
BuffersCurrent ==
  \A t \in Threads : call[t].pc \in {"output", "count"} /\ stack[t] = << >> =>
    a_thread[t].msg_buf = zlog_env_init_version
    /\ a_thread[t].event = zlog_env_init_version

\* A record function the program has set is known to the rules in force,
\* also after they were reloaded.
RecordsSurviveReload == zlog_env_is_init /\ records => bound

\* The automatic reload happens only when more than ReloadPeriod records were
\* written since the last reload, although several threads count without
\* excluding each other and several may find the period over.
AutoReloadEarned ==
  [][\A t \in Threads : Held(t, "auto") /\ zlog_env_conf' # zlog_env_conf
       => logged > ReloadPeriod]_vars

\* A log call during which no writer was at work is dropped by the test
\* without the lock exactly when the configuration in force disables it.
QuietTestExact ==
  [][\A t \in Threads :
       /\ At(t, "test") /\ clean[t] /\ call'[t] # call[t] /\ stack'[t] = stack[t]
       => (call'[t].pc = "rdlock" <=> Target(t) \in on)]_vars

\* A reload that waits for the write lock gets it: zlog_reload never waits for
\* a read lock of its own thread.
ReloadReturns ==
  \A t \in Threads :
    (call[t].op \in {"zlog_reload", "auto"} /\ call[t].pc = "wrlock")
      ~> (call[t].pc # "wrlock")
=============================================================================

---------------------------- MODULE ZlogEnvProofs ----------------------------
(***************************************************************************)
(* Proofs about ZlogEnv, for any threads, categories, configurations and   *)
(* calls, with and without signals.  The inductive invariant says what     *)
(* every frame of a thread (the call it makes and the one a signal         *)
(* interrupted) holds and knows: CallInv, and how the shared state hangs   *)
(* together: SharedInv.                                                    *)
(***************************************************************************)
EXTENDS ZlogEnv, TLAPS

Reading == {"fetch", "output", "count"}   \* where a frame has the read lock
NamedOp == {"zlog", "dzlog_init", "zlog_get_category", "dzlog_set_category"}

\* The calls of a thread that have not returned.
Frames(t) == {call[t]} \union (IF stack[t] = << >> THEN {} ELSE {Head(stack[t])})

\* A value of the reload counter is covered by the records that were written.
Counted(n) == n <= logged \/ logged > ReloadPeriod

BuffersOf(t) ==
  /\ a_thread[t].msg_buf = zlog_env_init_version
  /\ a_thread[t].event = zlog_env_init_version

\* A frame holds the lock its place needs, and what it has seen is still so.
FrameInv(t, f) ==
  /\ f \in Frame
  /\ f.pc # "idle" /\ f.op \in NamedOp => f.c \in Categories
  /\ f.pc \in Reading => t \in zlog_env_lock.readers
  /\ f.pc = "held" => zlog_env_lock.writer = t
  /\ f.pc \in {"output", "count"} => BuffersOf(t)
  /\ f.pc = "count" => Counted(f.n)
  /\ f.pc = "test" /\ f.op = "zlog" /\ clean[t] => f.c \in table

\* A signal interrupts a thread once; its reload never runs inside a writer.
ThreadCalls(t) ==
  /\ \A f \in Frames(t) : FrameInv(t, f)
  /\ stack[t] = << >> \/ stack[t] = <<Head(stack[t])>>
  /\ stack[t] # << >> => /\ call[t].pc \in {"wrlock", "held"}
                         /\ call[t].pc = "held" => Head(stack[t]).pc # "held"

CallInv == \A t \in Threads : ThreadCalls(t)

\* A thread's buffers with the version in force are built for it.
ThreadInv ==
  \A t \in Threads :
    /\ a_thread[t].version <= zlog_env_init_version
    /\ a_thread[t].version = zlog_env_init_version => BuffersOf(t)

\* Categories exist while zlog is initialised; the default one is in the table.
TableInv ==
  /\ table # {} => zlog_env_is_init
  /\ zlog_default_category # NoCategory => zlog_default_category \in table

\* Without failing allocations a category has the rules in force.
ConfInv ==
  ~AllocFails /\ zlog_env_is_init =>
    /\ zlog_env_conf \in live
    /\ \A c \in table :
         category[c] = [rules |-> zlog_env_conf, backup |-> Null, bit |-> c \in on]

LockInv ==
  /\ zlog_env_lock.writer # NoThread => zlog_env_lock.readers = {}
  /\ \A t \in Threads : clean[t] => zlog_env_lock.writer = NoThread

SharedInv ==
  /\ LockInv
  /\ ThreadInv
  /\ Counted(zlog_env_reload_conf_count)
  /\ TableInv
  /\ RecordsSurviveReload
  /\ ConfInv

EnvInv == TypeOK /\ CallInv /\ SharedInv

-----------------------------------------------------------------------------
(* Frames.                                                                 *)

\* A thread whose calls and whose part of the shared state a step leaves alone.
LEMMA ThreadFrame ==
  ASSUME NEW u \in Threads, ThreadCalls(u), call'[u] = call[u], stack'[u] = stack[u],
         u \in zlog_env_lock.readers => u \in zlog_env_lock'.readers,
         zlog_env_lock.writer = u => zlog_env_lock'.writer = u,
         \A f \in Frames(u) : f.pc \in {"output", "count"} /\ BuffersOf(u) => BuffersOf(u)',
         \A f \in Frames(u) : f.pc = "count" /\ Counted(f.n) => Counted(f.n)',
         \A f \in Frames(u) : f.pc = "test" /\ clean'[u] => clean[u] /\ table' = table
  PROVE  ThreadCalls(u)'
<1>1. Frames(u)' = Frames(u)
  BY DEF Frames
<1>2. ASSUME NEW f \in Frames(u) PROVE FrameInv(u, f)'
  <2>1. FrameInv(u, f)
    BY DEF ThreadCalls
  <2> QED  BY <2>1 DEF FrameInv
<1>3. \A f \in Frames(u)' : FrameInv(u, f)'
  BY <1>1, <1>2
<1> QED  BY <1>3 DEF ThreadCalls

\* A thread with one frame after the step.
LEMMA ThreadAlone ==
  ASSUME NEW t \in Threads, NEW f, call'[t] = f, stack'[t] = << >>, FrameInv(t, f)'
  PROVE  ThreadCalls(t)'
<1>1. Frames(t)' = {f}
  BY DEF Frames
<1> QED  BY <1>1 DEF ThreadCalls

\* A call that returned leaves nothing behind.
LEMMA IdleFrame == \A t : FrameInv(t, Idle) /\ FrameInv(t, Idle)'
BY ZlogAssumption DEF FrameInv, Idle, Frame, UserOp, LogOp, Reading

\* The frames of a thread.
LEMMA FramesOf ==
  ASSUME TypeOK, NEW t \in Threads, ThreadCalls(t)
  PROVE  /\ FrameInv(t, call[t])
         /\ stack[t] # << >> => FrameInv(t, Head(stack[t])) /\ Head(stack[t]) \in Frame
BY DEF ThreadCalls, Frames, FrameInv

\* Return: to nothing, or to the call the signal interrupted.
LEMMA ReturnFacts ==
  ASSUME TypeOK, NEW t \in Threads, ThreadCalls(t), Return(t)
  PROVE  /\ call' \in [Threads -> Frame] /\ stack' \in [Threads -> Seq(Frame)]
         /\ \A u \in Threads : u # t => call'[u] = call[u] /\ stack'[u] = stack[u]
         /\ stack'[t] = << >>
         /\ stack[t] = << >> => call'[t] = Idle
         /\ stack[t] # << >> => call'[t] = Head(stack[t])
<1>1. Idle \in Frame /\ call \in [Threads -> Frame] /\ stack \in [Threads -> Seq(Frame)]
  BY IdleFrame DEF FrameInv, TypeOK
<1>2. CASE stack[t] = << >>
  BY <1>1, <1>2 DEF Return
<1>3. CASE stack[t] # << >>
  <2>1. stack[t] = <<Head(stack[t])>> /\ Head(stack[t]) \in Frame
    BY <1>3, FramesOf DEF ThreadCalls
  <2>2. Tail(stack[t]) = << >>
    <3>1. PICK x : x = Head(stack[t])
      OBVIOUS
    <3>2. stack[t] = <<x>> /\ Tail(<<x>>) = << >>
      BY <2>1, <3>1
    <3> QED  BY <3>2
  <2>3. /\ call' = [call EXCEPT ![t] = Head(stack[t])]
        /\ stack' = [stack EXCEPT ![t] = << >>]
    BY <1>3, <2>2 DEF Return
  <2> QED  BY <1>1, <1>3, <2>1, <2>3
<1> QED  BY <1>2, <1>3

\* Unlock: the thread gives back what it has.
LEMMA UnlockFacts ==
  ASSUME TypeOK, NEW t \in Threads, Unlock(t)
  PROVE  /\ zlog_env_lock' \in [readers : SUBSET Threads, writer : Threads \union {NoThread}]
         /\ zlog_env_lock'.readers = zlog_env_lock.readers \ {t}
         /\ zlog_env_lock.writer = t => zlog_env_lock'.writer = NoThread
         /\ zlog_env_lock.writer # t => zlog_env_lock'.writer = zlog_env_lock.writer
BY DEF TypeOK, Unlock

\* A thread that reads has no other frame and excludes writers.
LEMMA ReadingFacts ==
  ASSUME EnvInv, NEW t \in Threads, call[t].pc \in Reading
  PROVE  stack[t] = << >> /\ t \in zlog_env_lock.readers /\ zlog_env_lock.writer = NoThread
<1>1. FrameInv(t, call[t]) /\ ThreadCalls(t) /\ LockInv
  BY FramesOf DEF EnvInv, CallInv, SharedInv
<1>2. t \in zlog_env_lock.readers
  BY <1>1 DEF FrameInv
<1>3. zlog_env_lock.writer = NoThread
  BY <1>1, <1>2 DEF LockInv
<1>4. stack[t] = << >>
  BY <1>1 DEF ThreadCalls, Reading
<1> QED  BY <1>2, <1>3, <1>4

\* The frame on top of a thread that is at none of the places of a signal's
\* reload is its only one.
LEMMA NoStack ==
  ASSUME EnvInv, NEW t \in Threads, call[t].pc \notin {"wrlock", "held"}
  PROVE  stack[t] = << >>
BY DEF EnvInv, CallInv, ThreadCalls

\* While one thread writes nobody reads, no other writes, and no call is clean.
LEMMA HeldFacts ==
  ASSUME EnvInv, NEW t \in Threads, call[t].pc = "held"
  PROVE  /\ zlog_env_lock.writer = t /\ zlog_env_lock.readers = {} /\ t # NoThread
         /\ \A u \in Threads : ~clean[u]
         /\ \A u \in Threads : \A f \in Frames(u) : f.pc \notin Reading
         /\ \A u \in Threads : u # t => \A f \in Frames(u) : f.pc # "held"
         /\ stack[t] # << >> => Head(stack[t]).pc # "held"
<1>1. /\ FrameInv(t, call[t]) /\ LockInv /\ ThreadCalls(t) /\ t # NoThread
      /\ \A u \in Threads : \A f \in Frames(u) : FrameInv(u, f)
  BY FramesOf, ZlogAssumption DEF EnvInv, CallInv, SharedInv, ThreadCalls
<1>2. zlog_env_lock.writer = t /\ zlog_env_lock.readers = {}
  BY <1>1 DEF FrameInv, LockInv
<1>3. \A u \in Threads : ~clean[u]
  BY <1>1, <1>2 DEF LockInv
<1>4. \A u \in Threads : \A f \in Frames(u) : f.pc \notin Reading /\ (u # t => f.pc # "held")
  BY <1>1, <1>2 DEF FrameInv
<1>5. stack[t] # << >> => Head(stack[t]).pc # "held"
  BY <1>1 DEF ThreadCalls
<1> QED  BY <1>1, <1>2, <1>3, <1>4, <1>5

\* A writer may change the shared state: nobody is looking.
LEMMA WriterReturns ==
  ASSUME EnvInv, NEW t \in Threads, call[t].pc = "held", UnlockAndReturn(t), UNCHANGED clean
  PROVE  /\ CallInv' /\ LockInv'
         /\ call' \in [Threads -> Frame] /\ stack' \in [Threads -> Seq(Frame)]
         /\ zlog_env_lock' \in [readers : SUBSET Threads, writer : Threads \union {NoThread}]
<1>1. TypeOK /\ ThreadCalls(t) /\ Unlock(t) /\ Return(t) /\ \A u \in Threads : ThreadCalls(u)
  BY DEF EnvInv, CallInv, UnlockAndReturn
<1>2. /\ call' \in [Threads -> Frame] /\ stack' \in [Threads -> Seq(Frame)]
      /\ \A u \in Threads : u # t => call'[u] = call[u] /\ stack'[u] = stack[u]
      /\ stack'[t] = << >>
      /\ stack[t] = << >> => call'[t] = Idle
      /\ stack[t] # << >> => call'[t] = Head(stack[t])
  BY <1>1, ReturnFacts
<1>3. /\ zlog_env_lock.writer = t /\ zlog_env_lock.readers = {}
      /\ \A u \in Threads : ~clean[u]
      /\ \A u \in Threads : \A f \in Frames(u) : f.pc \notin Reading
      /\ \A u \in Threads : u # t => \A f \in Frames(u) : f.pc # "held"
      /\ stack[t] # << >> => Head(stack[t]).pc # "held"
  BY HeldFacts
<1>4. /\ zlog_env_lock' \in [readers : SUBSET Threads, writer : Threads \union {NoThread}]
      /\ zlog_env_lock'.readers = {} /\ zlog_env_lock'.writer = NoThread
  BY <1>1, <1>3, UnlockFacts
<1>5. LockInv'
  BY <1>3, <1>4 DEF LockInv
<1>6. "output" \in Reading /\ "count" \in Reading
  BY DEF Reading
<1>7. ASSUME NEW u \in Threads, u # t PROVE ThreadCalls(u)'
  BY <1>1, <1>2, <1>3, <1>6, <1>7, ThreadFrame
<1>8. ThreadCalls(t)'
  <2>1. CASE stack[t] = << >>
    BY <1>2, <2>1, IdleFrame, ThreadAlone
  <2>2. CASE stack[t] # << >>
    <3>1. PICK f : f = Head(stack[t])
      OBVIOUS
    <3>2. f \in Frames(t) /\ FrameInv(t, f)
      BY <1>1, <2>2, <3>1, FramesOf DEF Frames
    <3>3. f.pc \notin Reading /\ f.pc # "held"
      BY <1>3, <2>2, <3>1, <3>2
    <3>4. FrameInv(t, f)'
      BY <1>3, <1>6, <3>2, <3>3 DEF FrameInv
    <3> QED  BY <1>2, <2>2, <3>1, <3>4, ThreadAlone
  <2> QED  BY <2>1, <2>2
<1>9. CallInv'
  BY <1>7, <1>8 DEF CallInv
<1> QED  BY <1>2, <1>4, <1>5, <1>9

-----------------------------------------------------------------------------
(* Categories.                                                             *)

\* A category that was released.
LEMMA NoRulesFacts == NoRules \in Category /\ NoRules.backup = Null
BY DEF NoRules, Category

\* The rules of configuration k, and the bitmap they give.
LEMMA ObtainFacts ==
  ASSUME NEW cat \in Category, NEW c, NEW k \in ConfId \union {Null}, NEW es
  PROVE  /\ zlog_category_obtain_rules(cat, c, k, es) \in Category
         /\ zlog_category_obtain_rules(cat, c, k, es) =
              [rules |-> k, backup |-> cat.backup, bit |-> c \in es]
<1>1. (c \in es) \in BOOLEAN
  OBVIOUS
<1>2. PICK b \in BOOLEAN : b = (c \in es)
  BY <1>1
<1>3. [rules |-> k, backup |-> cat.backup, bit |-> b] \in Category
  BY DEF Category
<1> QED  BY <1>2, <1>3 DEF zlog_category_obtain_rules

\* An update keeps the old rules as a backup until it is committed.
LEMMA UpdateFacts ==
  ASSUME TypeOK, NEW c \in Categories, NEW k \in ConfId, NEW es
  PROVE  /\ zlog_category_update_rules(c, k, es) \in Category
         /\ zlog_category_commit_rules(zlog_category_update_rules(c, k, es)) =
              [rules |-> k, backup |-> Null, bit |-> c \in es]
         /\ zlog_category_commit_rules(zlog_category_update_rules(c, k, es)) \in Category
         /\ \A cat \in zlog_category_update_fail(c, es) : cat \in Category
<1>1. category[c] \in Category /\ Null \in ConfId \union {Null}
  BY DEF TypeOK
<1>2. PICK old : old = [category[c] EXCEPT !.backup = category[c].rules, !.rules = Null]
  OBVIOUS
<1>3. old \in Category
  BY <1>1, <1>2 DEF Category
<1>4. zlog_category_update_rules(c, k, es) = zlog_category_obtain_rules(old, c, k, es)
  BY <1>2 DEF zlog_category_update_rules
<1>5. /\ zlog_category_update_rules(c, k, es) \in Category
      /\ zlog_category_update_rules(c, k, es) =
           [rules |-> k, backup |-> old.backup, bit |-> c \in es]
  BY <1>3, <1>4, ObtainFacts
<1>0. (c \in es) \in BOOLEAN
  OBVIOUS
<1>6. PICK b \in BOOLEAN : b = (c \in es)
  BY <1>0
<1>7. zlog_category_commit_rules([rules |-> k, backup |-> old.backup, bit |-> b]) =
        [rules |-> k, backup |-> Null, bit |-> b]
  BY DEF zlog_category_commit_rules
<1>8. [rules |-> k, backup |-> Null, bit |-> b] \in Category
  BY <1>1 DEF Category
<1>9. \A cat \in zlog_category_update_fail(c, es) : cat \in Category
  <2> SUFFICES ASSUME NEW x \in {FALSE, (c \in es)}
               PROVE  [rules |-> Null, backup |-> category[c].rules, bit |-> x] \in Category
    BY DEF zlog_category_update_fail
  <2>1. x \in BOOLEAN
    BY <1>0, Zenon
  <2> QED  BY <1>1, <2>1 DEF Category
<1> QED  BY <1>5, <1>6, <1>7, <1>8, <1>9

\* Every category released.
LEMMA EmptyTable ==
  ASSUME category' = [c \in Categories |-> NoRules]
  PROVE  category' \in [Categories -> Category]
BY NoRulesFacts

-----------------------------------------------------------------------------
(* The writers.                                                            *)

\* zlog_init and dzlog_init.
LEMMA StepInit ==
  ASSUME EnvInv, NEW t \in Threads, zlog_init(t)
  PROVE  EnvInv'
<1>1. /\ TypeOK /\ SharedInv /\ call[t].pc = "held" /\ UnlockAndReturn(t)
      /\ call[t].op \in {"zlog_init", "dzlog_init"}
      /\ UNCHANGED <<zlog_env_reload_conf_count, logged, a_thread, crashed, clean>>
  BY DEF EnvInv, zlog_init, Held, At, countVars
<1>2. /\ CallInv' /\ LockInv'
      /\ call' \in [Threads -> Frame] /\ stack' \in [Threads -> Seq(Frame)]
      /\ zlog_env_lock' \in [readers : SUBSET Threads, writer : Threads \union {NoThread}]
  BY <1>1, WriterReturns
<1>3. Counted(zlog_env_reload_conf_count)'
  BY <1>1 DEF SharedInv, Counted
<1>4. CASE /\ zlog_env_is_init /\ UNCHANGED <<confVars, tableVars>>
  <2>1. UNCHANGED <<zlog_env_is_init, zlog_env_init_version, zlog_env_conf, live, on, bound,
                    records, table, category, zlog_default_category>>
    BY <1>4 DEF confVars, tableVars
  <2>2. TypeOK'
    BY <1>1, <1>2, <2>1 DEF TypeOK
  <2>3. ThreadInv' /\ TableInv' /\ RecordsSurviveReload' /\ ConfInv'
    BY <1>1, <2>1 DEF SharedInv, ThreadInv, BuffersOf, TableInv, RecordsSurviveReload, ConfInv
  <2> QED  BY <1>2, <1>3, <2>2, <2>3 DEF EnvInv, SharedInv
<1>5. CASE /\ ~zlog_env_is_init /\ zlog_fini_inner
           /\ UNCHANGED <<zlog_env_is_init, zlog_env_init_version, live, on, bound>>
  <2>1. /\ table' = {} /\ category' = [c \in Categories |-> NoRules]
        /\ zlog_default_category' = NoCategory /\ records' = FALSE /\ zlog_env_conf' = Null
    BY <1>5 DEF zlog_fini_inner
  <2>2. TypeOK'
    BY <1>1, <1>2, <1>5, <2>1, EmptyTable DEF TypeOK
  <2>3. ThreadInv' /\ TableInv' /\ RecordsSurviveReload' /\ ConfInv'
    BY <1>1, <1>5, <2>1
    DEF SharedInv, ThreadInv, BuffersOf, TableInv, RecordsSurviveReload, ConfInv
  <2> QED  BY <1>2, <1>3, <2>2, <2>3 DEF EnvInv, SharedInv
<1>6. ASSUME NEW k \in ConfId, NEW es \in SUBSET Categories,
             ~zlog_env_is_init, zlog_conf_new(k), live' = live \union {k}, zlog_env_conf' = k,
             on' = es, bound' = FALSE, records' = FALSE,
             \/ /\ table' = {} /\ category' = [c \in Categories |-> NoRules]
                /\ UNCHANGED zlog_default_category
                /\ zlog_env_is_init' = TRUE
                /\ zlog_env_init_version' = zlog_env_init_version + 1
             \/ /\ call[t].op = "dzlog_init"
                /\ table' = {call[t].c}
                /\ category' = [c \in Categories |->
                     IF c = call[t].c THEN zlog_category_obtain_rules(NoRules, c, k, es)
                     ELSE NoRules]
                /\ zlog_default_category' = call[t].c
                /\ zlog_env_is_init' = TRUE
                /\ zlog_env_init_version' = zlog_env_init_version + 1
             \/ /\ table' = {} /\ category' = [c \in Categories |-> NoRules]
                /\ zlog_default_category' = NoCategory
                /\ UNCHANGED <<zlog_env_is_init, zlog_env_init_version>>
      PROVE  EnvInv'
  <2>1. /\ zlog_env_init_version \in 0..MaxVersion /\ MaxVersion \in Nat
        /\ zlog_env_init_version < MaxVersion
        /\ table = {} /\ zlog_default_category = NoCategory
    BY <1>1, <1>6, ZlogAssumption DEF TypeOK, zlog_conf_new, SharedInv, TableInv
  <2>2. /\ zlog_env_init_version' \in 0..MaxVersion
        /\ zlog_env_init_version' = zlog_env_init_version
             \/ zlog_env_init_version' > zlog_env_init_version
    BY <1>6, <2>1
  <2>3. live' \subseteq ConfId /\ k \in live' /\ k \in ConfId \union {Null}
    BY <1>1, <1>6 DEF TypeOK
  <2>4. call[t].op = "dzlog_init" => call[t].c \in Categories
    <3>1. FrameInv(t, call[t])
      BY FramesOf DEF EnvInv, CallInv
    <3> QED  BY <1>1, <3>1 DEF FrameInv, NamedOp
  <2>5. \A c : /\ zlog_category_obtain_rules(NoRules, c, k, es) \in Category
               /\ zlog_category_obtain_rules(NoRules, c, k, es) =
                    [rules |-> k, backup |-> Null, bit |-> c \in es]
    BY <2>3, ObtainFacts, NoRulesFacts
  <2>6. category' \in [Categories -> Category]
    BY <1>6, <2>5, NoRulesFacts
  <2>7. table' \subseteq Categories /\ zlog_default_category' \in Categories \union {NoCategory}
    BY <1>6, <2>1, <2>4
  <2>8. zlog_env_is_init' \in BOOLEAN
    BY <1>1, <1>6 DEF TypeOK
  <2>9. TypeOK'
    BY <1>1, <1>2, <1>6, <2>2, <2>3, <2>6, <2>7, <2>8 DEF TypeOK
  <2>10. ThreadInv'
    BY <1>1, <2>1, <2>2, SMTT(30) DEF SharedInv, TypeOK, ThreadInv, BuffersOf
  <2>11. TableInv' /\ RecordsSurviveReload'
    BY <1>6, <2>1 DEF TableInv, RecordsSurviveReload
  <2>12. ConfInv'
    <3> SUFFICES ASSUME NEW c \in table'
                 PROVE  category'[c] = [rules |-> k, backup |-> Null, bit |-> c \in es]
      BY <1>6, <2>3 DEF ConfInv
    <3>1. c = call[t].c /\ call[t].op = "dzlog_init"
          /\ category'[c] = zlog_category_obtain_rules(NoRules, c, k, es)
      BY <1>6, <2>4
    <3> QED  BY <2>5, <3>1
  <2> QED  BY <1>2, <1>3, <2>9, <2>10, <2>11, <2>12 DEF EnvInv, SharedInv
<1> QED  BY <1>4, <1>5, <1>6 DEF zlog_init

\* A call that leaves the shared state alone leaves its invariant alone.
LEMMA SharedSame ==
  ASSUME EnvInv, UNCHANGED <<zlog_env_is_init, zlog_env_init_version, zlog_env_conf, live, on,
                             bound, records, table, category, zlog_default_category, a_thread>>
  PROVE  ThreadInv' /\ TableInv' /\ RecordsSurviveReload' /\ ConfInv'
BY DEF EnvInv, SharedInv, ThreadInv, BuffersOf, TableInv, RecordsSurviveReload, ConfInv

\* zlog_reload, from the program, from a signal or from a log call.
LEMMA StepReload ==
  ASSUME EnvInv, NEW t \in Threads, zlog_reload(t)
  PROVE  EnvInv'
<1>1. /\ TypeOK /\ SharedInv /\ call[t].pc = "held" /\ UnlockAndReturn(t)
      /\ UNCHANGED <<a_thread, crashed, clean>>
  BY DEF EnvInv, zlog_reload, Held, At
<1>2. /\ CallInv' /\ LockInv'
      /\ call' \in [Threads -> Frame] /\ stack' \in [Threads -> Seq(Frame)]
      /\ zlog_env_lock' \in [readers : SUBSET Threads, writer : Threads \union {NoThread}]
  BY <1>1, WriterReturns
<1>3. CASE UNCHANGED <<confVars, tableVars, countVars>>
  <2>1. UNCHANGED <<zlog_env_is_init, zlog_env_init_version, zlog_env_conf, live, on, bound,
                    records, table, category, zlog_default_category,
                    zlog_env_reload_conf_count, logged>>
    BY <1>3 DEF confVars, tableVars, countVars
  <2>2. TypeOK' /\ Counted(zlog_env_reload_conf_count)'
    BY <1>1, <1>2, <2>1 DEF TypeOK, SharedInv, Counted
  <2> QED  BY <1>1, <1>2, <2>1, <2>2, SharedSame DEF EnvInv, SharedInv
<1>4. ASSUME zlog_env_is_init, zlog_env_reload_conf_count' = 0, logged' = 0,
             UNCHANGED <<zlog_env_is_init, table, zlog_default_category, records>>,
             \/ UNCHANGED <<zlog_env_init_version, zlog_env_conf, live, on, bound, category>>
             \/ \E k \in ConfId, es \in SUBSET Categories :
                  /\ zlog_conf_new(k)
                  /\ \/ /\ AllocFails
                        /\ \E c \in table : \E done \in SUBSET (table \ {c}),
                                               cat \in zlog_category_update_fail(c, es) :
                             category' = [d \in Categories |->
                               IF d = c THEN cat
                               ELSE IF d \in done
                               THEN zlog_category_update_rules(d, k, es)
                               ELSE category[d]]
                        /\ UNCHANGED <<zlog_env_init_version, zlog_env_conf, live, on, bound>>
                     \/ /\ category' = [d \in Categories |->
                             IF d \in table
                             THEN zlog_category_commit_rules(
                                    zlog_category_update_rules(d, k, es))
                             ELSE category[d]]
                        /\ zlog_env_init_version' = zlog_env_init_version + 1
                        /\ live' = (live \ {zlog_env_conf}) \union {k}
                        /\ zlog_env_conf' = k
                        /\ on' = es
                        /\ bound' = SetRecords
      PROVE  EnvInv'
  <2>1. /\ Counted(zlog_env_reload_conf_count)'
        /\ zlog_env_reload_conf_count' \in Nat /\ logged' \in 0..(ReloadPeriod + 1)
    BY <1>4, ZlogAssumption DEF Counted
  <2>2. TableInv'
    BY <1>1, <1>4 DEF SharedInv, TableInv
  <2>3. CASE UNCHANGED <<zlog_env_init_version, zlog_env_conf, live, on, bound, category>>
    <3>1. TypeOK'
      BY <1>1, <1>2, <1>4, <2>1, <2>3 DEF TypeOK
    <3> QED  BY <1>1, <1>2, <1>4, <2>1, <2>3, <3>1, SharedSame DEF EnvInv, SharedInv
  <2>4. ASSUME NEW k \in ConfId, NEW es \in SUBSET Categories, AllocFails, NEW c \in table,
               NEW done \in SUBSET (table \ {c}), NEW cat \in zlog_category_update_fail(c, es),
               category' = [d \in Categories |->
                 IF d = c THEN cat
                 ELSE IF d \in done THEN zlog_category_update_rules(d, k, es)
                 ELSE category[d]],
               UNCHANGED <<zlog_env_init_version, zlog_env_conf, live, on, bound>>
        PROVE  EnvInv'
    <3>1. /\ c \in Categories /\ category \in [Categories -> Category]
          /\ \A d \in Categories : zlog_category_update_rules(d, k, es) \in Category
      BY <1>1, UpdateFacts DEF TypeOK
    <3>2. cat \in Category
      BY <1>1, <2>4, <3>1, UpdateFacts
    <3>3. category' \in [Categories -> Category]
      BY <2>4, <3>1, <3>2
    <3>4. TypeOK'
      BY <1>1, <1>2, <1>4, <2>1, <2>4, <3>3 DEF TypeOK
    <3>5. ThreadInv' /\ RecordsSurviveReload' /\ ConfInv'
      BY <1>1, <1>4, <2>4 DEF SharedInv, ThreadInv, BuffersOf, RecordsSurviveReload, ConfInv
    <3> QED  BY <1>2, <2>1, <2>2, <3>4, <3>5 DEF EnvInv, SharedInv
  <2>5. ASSUME NEW k \in ConfId, NEW es \in SUBSET Categories, zlog_conf_new(k),
               category' = [d \in Categories |->
                 IF d \in table
                 THEN zlog_category_commit_rules(zlog_category_update_rules(d, k, es))
                 ELSE category[d]],
               zlog_env_init_version' = zlog_env_init_version + 1,
               live' = (live \ {zlog_env_conf}) \union {k},
               zlog_env_conf' = k, on' = es, bound' = SetRecords
        PROVE  EnvInv'
    <3>1. /\ table \subseteq Categories /\ category \in [Categories -> Category]
          /\ \A d \in Categories :
               /\ zlog_category_commit_rules(zlog_category_update_rules(d, k, es)) =
                    [rules |-> k, backup |-> Null, bit |-> d \in es]
               /\ zlog_category_commit_rules(zlog_category_update_rules(d, k, es)) \in Category
      BY <1>1, UpdateFacts DEF TypeOK
    <3>2. category' \in [Categories -> Category]
      BY <2>5, <3>1
    <3>3. /\ zlog_env_init_version \in 0..MaxVersion /\ MaxVersion \in Nat
          /\ zlog_env_init_version < MaxVersion
      BY <1>1, <2>5, ZlogAssumption DEF TypeOK, zlog_conf_new
    <3>4. zlog_env_init_version' \in 0..MaxVersion /\ zlog_env_init_version' > zlog_env_init_version
      BY <2>5, <3>3
    <3>5. live' \subseteq ConfId /\ k \in live' /\ bound' = records /\ records \in BOOLEAN
      BY <1>1, <2>5 DEF TypeOK, SetRecords
    <3>6. TypeOK'
      BY <1>1, <1>2, <1>4, <2>1, <2>5, <3>2, <3>4, <3>5 DEF TypeOK
    <3>7. ThreadInv'
      BY <1>1, <3>3, <3>4, SMTT(30) DEF SharedInv, TypeOK, ThreadInv, BuffersOf
    <3>8. RecordsSurviveReload'
      BY <1>4, <3>5 DEF RecordsSurviveReload
    <3>9. ConfInv'
      <4> SUFFICES ASSUME NEW c \in table
                   PROVE  category'[c] = [rules |-> k, backup |-> Null, bit |-> c \in es]
        BY <1>4, <2>5, <3>5 DEF ConfInv
      <4> QED  BY <2>5, <3>1
    <3> QED  BY <1>2, <2>1, <2>2, <3>6, <3>7, <3>8, <3>9 DEF EnvInv, SharedInv
  <2>6. ASSUME NEW k \in ConfId, NEW es \in SUBSET Categories, AllocFails,
               \E c \in table : \E done \in SUBSET (table \ {c}),
                                   cat \in zlog_category_update_fail(c, es) :
                 category' = [d \in Categories |->
                   IF d = c THEN cat
                   ELSE IF d \in done THEN zlog_category_update_rules(d, k, es)
                   ELSE category[d]],
               UNCHANGED <<zlog_env_init_version, zlog_env_conf, live, on, bound>>
        PROVE  EnvInv'
    BY <2>4, <2>6, SMTT(30)
  <2> QED  BY <1>4, <2>3, <2>5, <2>6
<1> QED  BY <1>3, <1>4 DEF zlog_reload

\* zlog_fini.
LEMMA StepFini ==
  ASSUME EnvInv, NEW t \in Threads, zlog_fini(t)
  PROVE  EnvInv'
<1>1. /\ TypeOK /\ SharedInv /\ call[t].pc = "held" /\ UnlockAndReturn(t)
      /\ UNCHANGED <<zlog_env_init_version, on, bound, zlog_env_reload_conf_count, logged,
                     a_thread, crashed, clean>>
  BY DEF EnvInv, zlog_fini, Held, At, countVars
<1>2. /\ CallInv' /\ LockInv'
      /\ call' \in [Threads -> Frame] /\ stack' \in [Threads -> Seq(Frame)]
      /\ zlog_env_lock' \in [readers : SUBSET Threads, writer : Threads \union {NoThread}]
  BY <1>1, WriterReturns
<1>3. Counted(zlog_env_reload_conf_count)'
  BY <1>1 DEF SharedInv, Counted
<1>4. CASE zlog_env_is_init
  <2>1. /\ table' = {} /\ category' = [c \in Categories |-> NoRules]
        /\ zlog_default_category' = NoCategory /\ records' = FALSE /\ zlog_env_conf' = Null
        /\ live' = live \ {zlog_env_conf} /\ zlog_env_is_init' = FALSE
    BY <1>4 DEF zlog_fini, zlog_fini_inner
  <2>2. TypeOK'
    BY <1>1, <1>2, <2>1, EmptyTable DEF TypeOK
  <2>3. ThreadInv' /\ TableInv' /\ RecordsSurviveReload' /\ ConfInv'
    BY <1>1, <2>1 DEF SharedInv, ThreadInv, BuffersOf, TableInv, RecordsSurviveReload, ConfInv
  <2> QED  BY <1>2, <1>3, <2>2, <2>3 DEF EnvInv, SharedInv
<1>5. CASE ~zlog_env_is_init
  <2>1. UNCHANGED <<zlog_env_is_init, zlog_env_conf, live, records, table, category,
                    zlog_default_category>>
    BY <1>5 DEF zlog_fini, tableVars
  <2>2. TypeOK'
    BY <1>1, <1>2, <2>1 DEF TypeOK
  <2> QED  BY <1>1, <1>2, <1>3, <2>1, <2>2, SharedSame DEF EnvInv, SharedInv
<1> QED  BY <1>4, <1>5

\* zlog_get_category and dzlog_set_category.
LEMMA StepGetCategory ==
  ASSUME EnvInv, NEW t \in Threads, zlog_get_category(t)
  PROVE  EnvInv'
<1>1. /\ TypeOK /\ SharedInv /\ call[t].pc = "held" /\ UnlockAndReturn(t)
      /\ call[t].op \in {"zlog_get_category", "dzlog_set_category"}
      /\ UNCHANGED <<zlog_env_is_init, zlog_env_init_version, zlog_env_conf, live, on, bound,
                     records, zlog_env_reload_conf_count, logged, a_thread, crashed, clean>>
  BY DEF EnvInv, zlog_get_category, Held, At, countVars, confVars
<1>2. /\ CallInv' /\ LockInv'
      /\ call' \in [Threads -> Frame] /\ stack' \in [Threads -> Seq(Frame)]
      /\ zlog_env_lock' \in [readers : SUBSET Threads, writer : Threads \union {NoThread}]
  BY <1>1, WriterReturns
<1>3. Counted(zlog_env_reload_conf_count)'
  BY <1>1 DEF SharedInv, Counted
<1>4. ThreadInv' /\ RecordsSurviveReload'
  BY <1>1 DEF SharedInv, ThreadInv, BuffersOf, RecordsSurviveReload
<1>5. PICK c \in Categories : c = call[t].c
  <2>1. FrameInv(t, call[t])
    BY FramesOf DEF EnvInv, CallInv
  <2> QED  BY <1>1, <2>1 DEF FrameInv, NamedOp
<1>6. CASE UNCHANGED tableVars
  <2>1. UNCHANGED <<table, category, zlog_default_category>>
    BY <1>6 DEF tableVars
  <2>2. TypeOK'
    BY <1>1, <1>2, <2>1 DEF TypeOK
  <2> QED  BY <1>1, <1>2, <1>3, <2>1, <2>2, SharedSame DEF EnvInv, SharedInv
<1>7. CASE /\ zlog_env_is_init
           /\ zlog_category_table_fetch_category(c, zlog_env_conf, on)
           /\ zlog_default_category' \in {c, zlog_default_category}
  <2>1. /\ table' = table \union {c}
        /\ category' = IF c \in table THEN category
                       ELSE [category EXCEPT ![c] =
                               zlog_category_obtain_rules(NoRules, c, zlog_env_conf, on)]
    BY <1>7 DEF zlog_category_table_fetch_category
  <2>2. zlog_env_conf \in ConfId \union {Null} /\ category \in [Categories -> Category]
    BY <1>1 DEF TypeOK
  <2>3. /\ zlog_category_obtain_rules(NoRules, c, zlog_env_conf, on) \in Category
        /\ zlog_category_obtain_rules(NoRules, c, zlog_env_conf, on) =
             [rules |-> zlog_env_conf, backup |-> Null, bit |-> c \in on]
    BY <2>2, ObtainFacts, NoRulesFacts
  <2>4. category' \in [Categories -> Category]
    BY <2>1, <2>2, <2>3
  <2>5. TypeOK'
    BY <1>1, <1>2, <1>7, <2>1, <2>4 DEF TypeOK
  <2>6. TableInv'
    BY <1>1, <1>7, <2>1 DEF SharedInv, TableInv
  <2>7. ConfInv'
    <3> SUFFICES ASSUME ~AllocFails
                 PROVE  /\ zlog_env_conf' \in live'
                        /\ \A d \in table' : category'[d] = [rules |-> zlog_env_conf',
                                                backup |-> Null, bit |-> d \in on']
      BY DEF ConfInv
    <3>1. /\ zlog_env_conf \in live
          /\ \A d \in table : category[d] = [rules |-> zlog_env_conf, backup |-> Null,
                                             bit |-> d \in on]
      BY <1>1, <1>7 DEF SharedInv, ConfInv
    <3>2. \A d \in table' : d \in Categories
      BY <2>5 DEF TypeOK
    <3>3. ASSUME NEW d \in table'
          PROVE  category'[d] = [rules |-> zlog_env_conf, backup |-> Null, bit |-> d \in on]
      <4>1. CASE d \in table
        BY <2>1, <2>2, <3>1, <3>2, <4>1
      <4>2. CASE d \notin table
        <5>1. d = c /\ category'[c] = zlog_category_obtain_rules(NoRules, c, zlog_env_conf, on)
          BY <2>1, <2>2, <4>2
        <5> QED  BY <2>3, <5>1
      <4> QED  BY <4>1, <4>2
    <3> QED  BY <1>1, <3>1, <3>3
  <2> QED  BY <1>2, <1>3, <1>4, <2>5, <2>6, <2>7 DEF EnvInv, SharedInv
<1>8. CASE /\ zlog_default_category' \in {NoCategory, zlog_default_category}
           /\ UNCHANGED <<table, category>>
  <2>1. TypeOK'
    BY <1>1, <1>2, <1>8 DEF TypeOK
  <2>2. TableInv' /\ ConfInv'
    BY <1>1, <1>8 DEF SharedInv, TableInv, ConfInv
  <2> QED  BY <1>2, <1>3, <1>4, <2>1, <2>2 DEF EnvInv, SharedInv
<1> QED  BY <1>5, <1>6, <1>7, <1>8 DEF zlog_get_category

\* zlog_set_record.
LEMMA StepSetRecord ==
  ASSUME EnvInv, NEW t \in Threads, zlog_set_record(t)
  PROVE  EnvInv'
<1>1. /\ TypeOK /\ SharedInv /\ call[t].pc = "held" /\ UnlockAndReturn(t)
      /\ UNCHANGED <<zlog_env_is_init, zlog_env_init_version, zlog_env_conf, live, on, table,
                     category, zlog_default_category, zlog_env_reload_conf_count, logged,
                     a_thread, crashed, clean>>
      /\ (records' = TRUE /\ bound' = TRUE) \/ UNCHANGED <<records, bound>>
  BY DEF EnvInv, zlog_set_record, Held, At, countVars, tableVars
<1>2. /\ CallInv' /\ LockInv'
      /\ call' \in [Threads -> Frame] /\ stack' \in [Threads -> Seq(Frame)]
      /\ zlog_env_lock' \in [readers : SUBSET Threads, writer : Threads \union {NoThread}]
  BY <1>1, WriterReturns
<1>3. records' \in BOOLEAN /\ bound' \in BOOLEAN
  BY <1>1 DEF TypeOK
<1>4. TypeOK'
  BY <1>1, <1>2, <1>3 DEF TypeOK
<1>5. Counted(zlog_env_reload_conf_count)' /\ ThreadInv' /\ TableInv' /\ ConfInv'
  BY <1>1 DEF SharedInv, Counted, ThreadInv, BuffersOf, TableInv, ConfInv
<1>6. RecordsSurviveReload'
  BY <1>1 DEF SharedInv, RecordsSurviveReload
<1> QED  BY <1>2, <1>4, <1>5, <1>6 DEF EnvInv, SharedInv

-----------------------------------------------------------------------------
(* Calls, the lock and the readers.                                        *)

\* A step of a thread that no signal has interrupted: it changes its own frame,
\* its own buffers and its own hold on the read lock.
LEMMA OwnStep ==
  ASSUME EnvInv, NEW t \in Threads, NEW f \in Frame, stack[t] = << >>,
         call' = [call EXCEPT ![t] = f], FrameInv(t, f)',
         UNCHANGED <<stack, table, zlog_env_init_version>>,
         zlog_env_lock'.writer = zlog_env_lock.writer,
         \A u \in Threads : u # t =>
           /\ u \in zlog_env_lock.readers => u \in zlog_env_lock'.readers
           /\ clean'[u] = clean[u]
           /\ a_thread'[u] = a_thread[u],
         \A n \in Nat : Counted(n) => Counted(n)'
  PROVE  /\ CallInv'
         /\ call' \in [Threads -> Frame] /\ stack' \in [Threads -> Seq(Frame)]
<1>1. /\ call \in [Threads -> Frame] /\ stack \in [Threads -> Seq(Frame)]
      /\ \A u \in Threads : ThreadCalls(u)
  BY DEF EnvInv, TypeOK, CallInv
<1>2. ThreadCalls(t)'
  <2>1. call'[t] = f /\ stack'[t] = << >>
    BY <1>1
  <2> QED  BY <2>1, ThreadAlone
<1>3. ASSUME NEW u \in Threads, u # t PROVE ThreadCalls(u)'
  <2>1. call'[u] = call[u] /\ stack'[u] = stack[u]
    BY <1>1, <1>3
  <2>2. ThreadCalls(u)
    BY <1>1
  <2>3. \A g \in Frames(u) : g.n \in Nat
    BY <2>2 DEF ThreadCalls, FrameInv, Frame
  <2>4. BuffersOf(u) => BuffersOf(u)'
    BY <1>3 DEF BuffersOf
  <2> QED  BY <1>3, <2>1, <2>2, <2>3, <2>4, ThreadFrame
<1> QED  BY <1>1, <1>2, <1>3 DEF CallInv

\* Goto: the place in a call changes and nothing else of it.
LEMMA GotoFacts ==
  ASSUME TypeOK, NEW t \in Threads, NEW pc \in {"rdlock", "fetch", "output", "held"},
         Goto(t, pc)
  PROVE  \E f \in Frame : /\ call' = [call EXCEPT ![t] = f] /\ stack' = stack
                          /\ f.pc = pc /\ f.op = call[t].op /\ f.c = call[t].c
<1>1. call[t] \in Frame /\ call \in [Threads -> Frame]
  BY DEF TypeOK
<1>2. [call[t] EXCEPT !.pc = pc] \in Frame
  BY <1>1 DEF Frame
<1>3. [call[t] EXCEPT !.pc = pc].pc = pc /\ [call[t] EXCEPT !.pc = pc].op = call[t].op
      /\ [call[t] EXCEPT !.pc = pc].c = call[t].c
  BY <1>1 DEF Frame
<1>4. call' = [call EXCEPT ![t] = [call[t] EXCEPT !.pc = pc]] /\ stack' = stack
  BY <1>1 DEF Goto
<1> QED  BY <1>2, <1>3, <1>4

\* Reload frames, of a signal and of a log call.
LEMMA ReloadFrame ==
  ASSUME NEW op \in {"zlog_reload", "auto"}
  PROVE  /\ Reload(op) \in Frame /\ Reload(op).pc = "wrlock"
         /\ \A t : FrameInv(t, Reload(op)) /\ FrameInv(t, Reload(op))'
<1>1. Reload(op) \in Frame /\ Reload(op).pc = "wrlock" /\ Reload(op).op = op
  BY DEF Reload, Frame, UserOp, WriteOp
<1>2. \A t : FrameInv(t, Reload(op)) /\ FrameInv(t, Reload(op))'
  BY <1>1 DEF FrameInv, NamedOp, Reading
<1> QED  BY <1>1, <1>2

\* The program makes a call.
LEMMA StepCall ==
  ASSUME EnvInv, NEW t \in Threads, NEW op \in Ops, NEW c \in Categories \union {NoCategory},
         Call(t, op, c)
  PROVE  EnvInv'
<1>1. /\ TypeOK /\ SharedInv /\ call[t].pc = "idle" /\ stack[t] = << >>
      /\ UNCHANGED <<zlog_env_lock, zlog_env_is_init, zlog_env_init_version, zlog_env_conf,
                     live, on, bound, records, table, category, zlog_default_category,
                     zlog_env_reload_conf_count, logged, a_thread, stack, crashed>>
  BY NoStack DEF EnvInv, Call, At, lockVars, confVars, tableVars, countVars
<1>2. PICK pc \in {"test", "rdlock", "wrlock"} :
        pc = (CASE op \in {"zlog", "vdzlog"} -> "test"
                [] op \in {"dzlog", "mdc"}   -> "rdlock"
                [] OTHER                     -> "wrlock")
  OBVIOUS
<1>3. PICK f : f = [op |-> op, c |-> c, n |-> 0, pc |-> pc]
  OBVIOUS
<1>4. /\ call' = [call EXCEPT ![t] = f]
      /\ clean' = [clean EXCEPT ![t] = (zlog_env_lock.writer = NoThread)]
      /\ c = NoCategory <=> op \notin NamedOp
      /\ op = "zlog" => c \in table
  BY <1>2, <1>3 DEF Call, NamedOp
<1>5. f \in Frame
  BY <1>3, ZlogAssumption DEF Frame
<1>6. PICK b \in BOOLEAN : b = (zlog_env_lock.writer = NoThread)
  <2>1. (zlog_env_lock.writer = NoThread) \in BOOLEAN
    OBVIOUS
  <2> QED  BY <2>1
<1>7. clean \in [Threads -> BOOLEAN] /\ clean' = [clean EXCEPT ![t] = b]
  BY <1>1, <1>4, <1>6 DEF TypeOK
<1>8. clean' \in [Threads -> BOOLEAN] /\ clean'[t] = b /\ \A u \in Threads : u # t => clean'[u] = clean[u]
  BY <1>7
<1>9. FrameInv(t, f)'
  <2>1. f.pc \notin Reading /\ f.pc # "held" /\ f.op = op /\ f.c = c
    BY <1>2, <1>3 DEF Reading
  <2>2. f.op \in NamedOp => f.c \in Categories
    BY <1>4, <2>1
  <2> QED  BY <1>1, <1>4, <1>5, <2>1, <2>2 DEF FrameInv, Reading
<1>10. \A n \in Nat : Counted(n) => Counted(n)'
  BY <1>1 DEF Counted
<1>11. CallInv' /\ call' \in [Threads -> Frame] /\ stack' \in [Threads -> Seq(Frame)]
  BY <1>1, <1>4, <1>5, <1>8, <1>9, <1>10, OwnStep
<1>12. LockInv'
  BY <1>1, <1>6, <1>8 DEF SharedInv, LockInv
<1>13. TypeOK'
  BY <1>1, <1>8, <1>11 DEF TypeOK
<1>14. Counted(zlog_env_reload_conf_count)'
  BY <1>1 DEF SharedInv, Counted
<1> QED  BY <1>1, <1>11, <1>12, <1>13, <1>14, SharedSame DEF EnvInv, SharedInv

\* The signal handler.
LEMMA StepSignal ==
  ASSUME EnvInv, NEW t \in Threads, reload_config(t)
  PROVE  EnvInv'
<1>1. /\ TypeOK /\ SharedInv /\ stack[t] = << >>
      /\ UNCHANGED <<zlog_env_lock, zlog_env_is_init, zlog_env_init_version, zlog_env_conf,
                     live, on, bound, records, table, category, zlog_default_category,
                     zlog_env_reload_conf_count, logged, a_thread, crashed, clean>>
  BY DEF EnvInv, reload_config, lockVars, confVars, tableVars, countVars
<1>2. PICK f : f = Reload("zlog_reload")
  OBVIOUS
<1>3. f \in Frame /\ f.pc = "wrlock" /\ FrameInv(t, f)'
  BY <1>2, ReloadFrame
<1>4. call' = [call EXCEPT ![t] = f] /\ stack' = [stack EXCEPT ![t] = <<call[t]>>]
  BY <1>2 DEF reload_config
<1>5. /\ call \in [Threads -> Frame] /\ stack \in [Threads -> Seq(Frame)]
      /\ \A u \in Threads : ThreadCalls(u)
  BY DEF EnvInv, TypeOK, CallInv
<1>6. PICK g \in Frame : g = call[t]
  BY <1>5
<1>7. call' \in [Threads -> Frame] /\ stack' \in [Threads -> Seq(Frame)]
  BY <1>3, <1>4, <1>5, <1>6
<1>8. /\ call'[t] = f /\ stack'[t] = <<g>>
      /\ \A u \in Threads : u # t => call'[u] = call[u] /\ stack'[u] = stack[u]
  BY <1>4, <1>5, <1>6
<1>9. FrameInv(t, g)'
  <2>1. FrameInv(t, g)
    BY <1>1, <1>5, <1>6, FramesOf
  <2> QED  BY <1>1, <2>1 DEF FrameInv, BuffersOf, Counted
<1>10. ThreadCalls(t)'
  <2>1. <<g>> # << >> /\ Head(<<g>>) = g
    OBVIOUS
  <2>2. Frames(t)' = {f, g}
    BY <1>8, <2>1 DEF Frames
  <2> QED  BY <1>3, <1>8, <1>9, <2>1, <2>2 DEF ThreadCalls
<1>11. ASSUME NEW u \in Threads, u # t PROVE ThreadCalls(u)'
  BY <1>1, <1>5, <1>8, <1>11, ThreadFrame DEF BuffersOf, Counted
<1>12. CallInv'
  BY <1>10, <1>11 DEF CallInv
<1>13. TypeOK'
  BY <1>1, <1>7 DEF TypeOK
<1>14. LockInv' /\ Counted(zlog_env_reload_conf_count)'
  BY <1>1 DEF SharedInv, LockInv, Counted
<1> QED  BY <1>1, <1>12, <1>13, <1>14, SharedSame DEF EnvInv, SharedInv

\* The read lock is taken.
LEMMA StepReadLock ==
  ASSUME EnvInv, NEW t \in Threads, ReadLock(t)
  PROVE  EnvInv'
<1>1. /\ TypeOK /\ SharedInv /\ call[t].pc = "rdlock" /\ stack[t] = << >>
      /\ UNCHANGED <<zlog_env_is_init, zlog_env_init_version, zlog_env_conf,
                     live, on, bound, records, table, category, zlog_default_category,
                     zlog_env_reload_conf_count, logged, a_thread, crashed, clean>>
      /\ Goto(t, "fetch") /\ zlog_env_lock.writer = NoThread
  BY NoStack DEF EnvInv, ReadLock, At, confVars, tableVars, countVars
<1>2. /\ zlog_env_lock' \in [readers : SUBSET Threads, writer : Threads \union {NoThread}]
      /\ zlog_env_lock'.readers = zlog_env_lock.readers \union {t}
      /\ zlog_env_lock'.writer = NoThread
  BY <1>1 DEF TypeOK, ReadLock
<1>3. PICK f \in Frame : /\ call' = [call EXCEPT ![t] = f] /\ stack' = stack
                         /\ f.pc = "fetch" /\ f.op = call[t].op /\ f.c = call[t].c
  BY <1>1, GotoFacts
<1>4. FrameInv(t, f)'
  <2>1. FrameInv(t, call[t])
    BY <1>1, FramesOf DEF EnvInv, CallInv
  <2> QED  BY <1>1, <1>2, <1>3, <2>1 DEF FrameInv
<1>5. \A n \in Nat : Counted(n) => Counted(n)'
  BY <1>1 DEF Counted
<1>6. CallInv' /\ call' \in [Threads -> Frame] /\ stack' \in [Threads -> Seq(Frame)]
  BY <1>1, <1>2, <1>3, <1>4, <1>5, OwnStep
<1>7. TypeOK'
  BY <1>1, <1>2, <1>6 DEF TypeOK
<1>8. LockInv' /\ Counted(zlog_env_reload_conf_count)'
  BY <1>1, <1>2 DEF SharedInv, LockInv, Counted
<1> QED  BY <1>1, <1>6, <1>7, <1>8, SharedSame DEF EnvInv, SharedInv

\* The write lock is taken, or refused to the thread that has it.
LEMMA StepWriteLock ==
  ASSUME EnvInv, NEW t \in Threads, WriteLock(t)
  PROVE  EnvInv'
<1>1. /\ TypeOK /\ SharedInv /\ call[t].pc = "wrlock"
      /\ UNCHANGED <<zlog_env_is_init, zlog_env_init_version, zlog_env_conf,
                     live, on, bound, records, table, category, zlog_default_category,
                     zlog_env_reload_conf_count, logged, a_thread, crashed>>
  BY DEF EnvInv, WriteLock, At, confVars, tableVars, countVars
<1>2. /\ call \in [Threads -> Frame] /\ stack \in [Threads -> Seq(Frame)]
      /\ \A u \in Threads : ThreadCalls(u)
      /\ t # NoThread
  BY ZlogAssumption DEF EnvInv, TypeOK, CallInv
<1>3. Counted(zlog_env_reload_conf_count)'
  BY <1>1 DEF SharedInv, Counted
<1>4. CASE /\ zlog_env_lock = [readers |-> {}, writer |-> NoThread]
           /\ zlog_env_lock' = [zlog_env_lock EXCEPT !.writer = t]
           /\ Goto(t, "held") /\ clean' = [u \in Threads |-> FALSE]
  <2>1. /\ zlog_env_lock.readers = {} /\ zlog_env_lock.writer = NoThread
        /\ zlog_env_lock'.readers = {} /\ zlog_env_lock'.writer = t
        /\ zlog_env_lock' \in [readers : SUBSET Threads, writer : Threads \union {NoThread}]
    BY <1>4
  <2>2. clean' \in [Threads -> BOOLEAN] /\ \A u \in Threads : ~clean'[u]
    BY <1>4
  <2>3. PICK f \in Frame : /\ call' = [call EXCEPT ![t] = f] /\ stack' = stack
                           /\ f.pc = "held" /\ f.op = call[t].op /\ f.c = call[t].c
    BY <1>1, <1>4, GotoFacts
  <2>4. call' \in [Threads -> Frame] /\ stack' \in [Threads -> Seq(Frame)] /\ call'[t] = f
        /\ \A u \in Threads : u # t => call'[u] = call[u] /\ stack'[u] = stack[u]
    BY <1>2, <2>3
  <2>5. ASSUME NEW u \in Threads, NEW g \in Frames(u) PROVE g.pc \notin Reading /\ g.pc # "held"
    <3>1. FrameInv(u, g)
      BY <1>2, <2>5 DEF ThreadCalls
    <3> QED  BY <2>1, <2>5, <3>1, ZlogAssumption DEF FrameInv
  <2>6. ASSUME NEW u \in Threads, u # t PROVE ThreadCalls(u)'
    <3>1. zlog_env_lock.writer # u
      BY <2>1, ZlogAssumption
    <3> QED  BY <1>1, <1>2, <2>1, <2>2, <2>4, <2>6, <3>1, ThreadFrame DEF BuffersOf, Counted
  <2>7. FrameInv(t, f)'
    <3>1. FrameInv(t, call[t])
      BY <1>1, <1>2, FramesOf
    <3> QED  BY <1>1, <2>1, <2>3, <3>1 DEF FrameInv, Reading
  <2>8. ThreadCalls(t)'
    <3>1. CASE stack[t] = << >>
      BY <2>3, <2>4, <2>7, <3>1, ThreadAlone
    <3>2. CASE stack[t] # << >>
      <4>1. PICK g : g = Head(stack[t])
        OBVIOUS
      <4>2. g \in Frames(t) /\ FrameInv(t, g) /\ stack[t] = <<g>>
        BY <1>1, <1>2, <3>2, <4>1, FramesOf DEF Frames, ThreadCalls
      <4>3. g.pc \notin Reading /\ g.pc # "held"
        BY <2>5, <4>2
      <4>4. FrameInv(t, g)'
        BY <1>1, <2>2, <4>2, <4>3 DEF FrameInv, BuffersOf, Counted
      <4>5. stack'[t] = <<g>> /\ Head(<<g>>) = g /\ <<g>> # << >>
        BY <2>3, <4>2
      <4>6. Frames(t)' = {f, g}
        BY <2>4, <4>5 DEF Frames
      <4> QED  BY <2>3, <2>4, <2>7, <4>3, <4>4, <4>5, <4>6 DEF ThreadCalls
    <3> QED  BY <3>1, <3>2
  <2>9. CallInv' /\ LockInv'
    BY <2>1, <2>2, <2>6, <2>8 DEF CallInv, LockInv
  <2>10. TypeOK'
    BY <1>1, <2>1, <2>2, <2>4 DEF TypeOK
  <2> QED  BY <1>1, <1>3, <2>9, <2>10, SharedSame DEF EnvInv, SharedInv
<1>5. CASE Return(t) /\ UNCHANGED <<lockVars, clean>>
  <2>1. UNCHANGED <<zlog_env_lock, clean>>
    BY <1>5 DEF lockVars
  <2>2. /\ call' \in [Threads -> Frame] /\ stack' \in [Threads -> Seq(Frame)]
        /\ \A u \in Threads : u # t => call'[u] = call[u] /\ stack'[u] = stack[u]
        /\ stack'[t] = << >>
        /\ stack[t] = << >> => call'[t] = Idle
        /\ stack[t] # << >> => call'[t] = Head(stack[t])
    BY <1>1, <1>2, <1>5, ReturnFacts
  <2>3. ASSUME NEW u \in Threads, u # t PROVE ThreadCalls(u)'
    BY <1>1, <1>2, <2>1, <2>2, <2>3, ThreadFrame DEF BuffersOf, Counted
  <2>4. ThreadCalls(t)'
    <3>1. CASE stack[t] = << >>
      BY <2>2, <3>1, IdleFrame, ThreadAlone
    <3>2. CASE stack[t] # << >>
      <4>1. PICK g : g = Head(stack[t])
        OBVIOUS
      <4>2. FrameInv(t, g)
        BY <1>1, <1>2, <3>2, <4>1, FramesOf
      <4>3. FrameInv(t, g)'
        BY <1>1, <2>1, <4>2 DEF FrameInv, BuffersOf, Counted
      <4> QED  BY <2>2, <3>2, <4>1, <4>3, ThreadAlone
    <3> QED  BY <3>1, <3>2
  <2>5. CallInv' /\ LockInv'
    BY <1>1, <2>1, <2>3, <2>4 DEF CallInv, LockInv, SharedInv
  <2>6. TypeOK'
    BY <1>1, <2>1, <2>2 DEF TypeOK
  <2> QED  BY <1>1, <1>3, <2>5, <2>6, SharedSame DEF EnvInv, SharedInv
<1> QED  BY <1>4, <1>5 DEF WriteLock

\* A thread that reads gives the lock back and its call returns.
LEMMA ReaderLeaves ==
  ASSUME EnvInv, NEW t \in Threads, call[t].pc \in Reading, UnlockAndReturn(t),
         UNCHANGED <<table, zlog_env_init_version, clean>>,
         \A u \in Threads : u # t => a_thread'[u] = a_thread[u],
         \A n \in Nat : Counted(n) => Counted(n)'
  PROVE  /\ CallInv' /\ LockInv'
         /\ call' \in [Threads -> Frame] /\ stack' \in [Threads -> Seq(Frame)]
         /\ zlog_env_lock' \in [readers : SUBSET Threads, writer : Threads \union {NoThread}]
<1>1. /\ TypeOK /\ SharedInv /\ stack[t] = << >> /\ zlog_env_lock.writer = NoThread
      /\ Unlock(t) /\ t # NoThread
  BY ReadingFacts, ZlogAssumption DEF EnvInv, UnlockAndReturn
<1>2. call' = [call EXCEPT ![t] = Idle] /\ stack' = stack /\ Idle \in Frame
  BY <1>1, IdleFrame DEF UnlockAndReturn, Return, FrameInv
<1>3. /\ zlog_env_lock' \in [readers : SUBSET Threads, writer : Threads \union {NoThread}]
      /\ zlog_env_lock'.readers = zlog_env_lock.readers \ {t}
      /\ zlog_env_lock'.writer = NoThread
  BY <1>1, UnlockFacts
<1>4. FrameInv(t, Idle)'
  BY IdleFrame
<1>5. CallInv' /\ call' \in [Threads -> Frame] /\ stack' \in [Threads -> Seq(Frame)]
  BY <1>1, <1>2, <1>3, <1>4, OwnStep
<1>6. LockInv'
  BY <1>1, <1>3 DEF SharedInv, LockInv
<1> QED  BY <1>3, <1>5, <1>6

\* The level is tested without the lock.
LEMMA StepTestLevel ==
  ASSUME EnvInv, NEW t \in Threads, TestLevel(t)
  PROVE  EnvInv'
<1>1. /\ TypeOK /\ SharedInv /\ call[t].pc = "test" /\ stack[t] = << >>
      /\ UNCHANGED <<zlog_env_lock, zlog_env_is_init, zlog_env_init_version, zlog_env_conf,
                     live, on, bound, records, table, category, zlog_default_category,
                     zlog_env_reload_conf_count, logged, a_thread, clean>>
  BY NoStack DEF EnvInv, TestLevel, At, lockVars, confVars, tableVars, countVars
<1>2. /\ LockInv' /\ Counted(zlog_env_reload_conf_count)'
      /\ \A n \in Nat : Counted(n) => Counted(n)'
  BY <1>1 DEF SharedInv, LockInv, Counted
<1>3. CASE crashed' = TRUE /\ UNCHANGED <<call, stack>>
  <2>1. TypeOK'
    BY <1>1, <1>3 DEF TypeOK
  <2>2. CallInv'
    BY <1>1, <1>3, ThreadFrame DEF EnvInv, CallInv, BuffersOf, Counted
  <2> QED  BY <1>1, <1>2, <2>1, <2>2, SharedSame DEF EnvInv, SharedInv
<1>4. CASE Goto(t, "rdlock") /\ UNCHANGED crashed
  <2>1. PICK f \in Frame : /\ call' = [call EXCEPT ![t] = f] /\ stack' = stack
                           /\ f.pc = "rdlock" /\ f.op = call[t].op /\ f.c = call[t].c
    BY <1>1, <1>4, GotoFacts
  <2>2. FrameInv(t, f)'
    <3>1. FrameInv(t, call[t])
      BY <1>1, FramesOf DEF EnvInv, CallInv
    <3> QED  BY <1>1, <2>1, <3>1 DEF FrameInv, Reading
  <2>3. CallInv' /\ call' \in [Threads -> Frame] /\ stack' \in [Threads -> Seq(Frame)]
    BY <1>1, <1>2, <2>1, <2>2, OwnStep
  <2>4. TypeOK'
    BY <1>1, <1>4, <2>3 DEF TypeOK
  <2> QED  BY <1>1, <1>2, <2>3, <2>4, SharedSame DEF EnvInv, SharedInv
<1>5. CASE Return(t) /\ UNCHANGED crashed
  <2>1. call' = [call EXCEPT ![t] = Idle] /\ stack' = stack /\ Idle \in Frame
    BY <1>1, <1>5, IdleFrame DEF Return, FrameInv
  <2>2. FrameInv(t, Idle)'
    BY IdleFrame
  <2>3. CallInv' /\ call' \in [Threads -> Frame] /\ stack' \in [Threads -> Seq(Frame)]
    BY <1>1, <1>2, <2>1, <2>2, OwnStep
  <2>4. TypeOK'
    BY <1>1, <1>5, <2>3 DEF TypeOK
  <2> QED  BY <1>1, <1>2, <2>3, <2>4, SharedSame DEF EnvInv, SharedInv
<1> QED  BY <1>3, <1>4, <1>5 DEF TestLevel

\* Buffers are new, rebuilt, left as they were, or rebuilt in part; with the
\* version in force they are built for it.
LEMMA FetchFacts ==
  ASSUME EnvInv, NEW t \in Threads, NEW th \in zlog_fetch_thread(a_thread[t])
  PROVE  /\ th \in [version : 0..MaxVersion, msg_buf : 0..MaxVersion, event : 0..MaxVersion]
         /\ th.version <= zlog_env_init_version
         /\ th.version = zlog_env_init_version =>
              th.msg_buf = zlog_env_init_version /\ th.event = zlog_env_init_version
<1>1. PICK v : v = zlog_env_init_version
  OBVIOUS
<1>2. PICK old : old = a_thread[t]
  OBVIOUS
<1>3. /\ v \in 0..MaxVersion /\ MaxVersion \in Nat
      /\ old \in [version : 0..MaxVersion, msg_buf : 0..MaxVersion, event : 0..MaxVersion]
      /\ old.version <= v
      /\ old.version = v => old.msg_buf = v /\ old.event = v
  BY <1>1, <1>2, ZlogAssumption DEF EnvInv, TypeOK, SharedInv, ThreadInv, BuffersOf
<1>4. CASE th = [version |-> v, msg_buf |-> v, event |-> v]
  BY <1>1, <1>3, <1>4
<1>5. CASE th = [version |-> 0, msg_buf |-> 0, event |-> 0]
  BY <1>1, <1>3, <1>5
<1>6. CASE th = old
  BY <1>1, <1>3, <1>6
<1>7. CASE th = [old EXCEPT !.msg_buf = v] /\ old.version # v
  BY <1>1, <1>3, <1>7
<1>8. \/ th = [version |-> v, msg_buf |-> v, event |-> v]
      \/ th = [version |-> 0, msg_buf |-> 0, event |-> 0]
      \/ th = old
      \/ th = [old EXCEPT !.msg_buf = v] /\ old.version # v
  BY <1>1, <1>2 DEF zlog_fetch_thread, zlog_thread_new, zlog_thread_rebuild, Built, NoBuffers
<1> QED  BY <1>4, <1>5, <1>6, <1>7, <1>8

\* The thread's buffers are fetched.
LEMMA StepFetch ==
  ASSUME EnvInv, NEW t \in Threads, Fetch(t)
  PROVE  EnvInv'
<1>1. /\ TypeOK /\ SharedInv /\ call[t].pc = "fetch" /\ call[t].pc \in Reading
      /\ UNCHANGED <<zlog_env_is_init, zlog_env_init_version, zlog_env_conf,
                     live, on, bound, records, table, category, zlog_default_category,
                     zlog_env_reload_conf_count, logged, crashed, clean>>
  BY DEF EnvInv, Fetch, At, confVars, tableVars, countVars, Reading
<1>2. stack[t] = << >> /\ t \in zlog_env_lock.readers /\ zlog_env_lock.writer = NoThread
  BY <1>1, ReadingFacts
<1>3. /\ Counted(zlog_env_reload_conf_count)'
      /\ \A n \in Nat : Counted(n) => Counted(n)'
  BY <1>1 DEF SharedInv, Counted
<1>4. TableInv' /\ RecordsSurviveReload' /\ ConfInv'
  BY <1>1 DEF SharedInv, TableInv, RecordsSurviveReload, ConfInv
<1>5. CASE UnlockAndReturn(t) /\ UNCHANGED a_thread
  <2>1. /\ CallInv' /\ LockInv'
        /\ call' \in [Threads -> Frame] /\ stack' \in [Threads -> Seq(Frame)]
        /\ zlog_env_lock' \in [readers : SUBSET Threads, writer : Threads \union {NoThread}]
    BY <1>1, <1>3, <1>5, ReaderLeaves
  <2>2. TypeOK'
    BY <1>1, <1>5, <2>1 DEF TypeOK
  <2> QED  BY <1>1, <1>3, <1>5, <2>1, <2>2, SharedSame DEF EnvInv, SharedInv
<1>6. ASSUME NEW th \in zlog_fetch_thread(a_thread[t]), a_thread' = [a_thread EXCEPT ![t] = th],
             IF th.version = zlog_env_init_version /\ call[t].op # "mdc"
             THEN Goto(t, "output") /\ UNCHANGED lockVars
             ELSE UnlockAndReturn(t)
      PROVE  EnvInv'
  <2>1. /\ th \in [version : 0..MaxVersion, msg_buf : 0..MaxVersion, event : 0..MaxVersion]
        /\ th.version <= zlog_env_init_version
        /\ th.version = zlog_env_init_version =>
             th.msg_buf = zlog_env_init_version /\ th.event = zlog_env_init_version
    BY FetchFacts
  <2>2. /\ a_thread' \in [Threads -> [version : 0..MaxVersion, msg_buf : 0..MaxVersion,
                                      event : 0..MaxVersion]]
        /\ a_thread'[t] = th /\ \A u \in Threads : u # t => a_thread'[u] = a_thread[u]
    BY <1>1, <1>6, <2>1 DEF TypeOK
  <2>3. ThreadInv'
    <3>1. ASSUME NEW u \in Threads
          PROVE  /\ a_thread'[u].version <= zlog_env_init_version'
                 /\ a_thread'[u].version = zlog_env_init_version' => BuffersOf(u)'
      <4>1. CASE u = t
        BY <1>1, <2>1, <2>2, <4>1 DEF BuffersOf
      <4>2. CASE u # t
        BY <1>1, <2>2, <4>2 DEF SharedInv, ThreadInv, BuffersOf
      <4> QED  BY <4>1, <4>2
    <3> QED  BY <3>1 DEF ThreadInv
  <2>4. CASE th.version = zlog_env_init_version /\ Goto(t, "output") /\ UNCHANGED lockVars
    <3>1. PICK f \in Frame : /\ call' = [call EXCEPT ![t] = f] /\ stack' = stack
                             /\ f.pc = "output" /\ f.op = call[t].op /\ f.c = call[t].c
      BY <1>1, <2>4, GotoFacts
    <3>2. zlog_env_lock' = zlog_env_lock
      BY <2>4 DEF lockVars
    <3>3. FrameInv(t, f)'
      <4>1. FrameInv(t, call[t])
        BY <1>1, FramesOf DEF EnvInv, CallInv
      <4>2. BuffersOf(t)'
        BY <1>1, <2>1, <2>2, <2>4 DEF BuffersOf
      <4> QED  BY <1>1, <1>2, <3>1, <3>2, <4>1, <4>2 DEF FrameInv
    <3>4. CallInv' /\ call' \in [Threads -> Frame] /\ stack' \in [Threads -> Seq(Frame)]
      BY <1>1, <1>2, <1>3, <2>2, <3>1, <3>2, <3>3, OwnStep
    <3>5. LockInv'
      BY <1>1, <3>2 DEF SharedInv, LockInv
    <3>6. TypeOK'
      BY <1>1, <2>2, <3>2, <3>4 DEF TypeOK
    <3> QED  BY <1>3, <1>4, <2>3, <3>4, <3>5, <3>6 DEF EnvInv, SharedInv
  <2>5. CASE UnlockAndReturn(t)
    <3>1. /\ CallInv' /\ LockInv'
          /\ call' \in [Threads -> Frame] /\ stack' \in [Threads -> Seq(Frame)]
          /\ zlog_env_lock' \in [readers : SUBSET Threads, writer : Threads \union {NoThread}]
      BY <1>1, <1>3, <2>2, <2>5, ReaderLeaves
    <3>2. TypeOK'
      BY <1>1, <2>2, <3>1 DEF TypeOK
    <3> QED  BY <1>3, <1>4, <2>3, <3>1, <3>2 DEF EnvInv, SharedInv
  <2> QED  BY <1>6, <2>4, <2>5
<1> QED  BY <1>5, <1>6 DEF Fetch

\* The record is written and the counter read.
LEMMA StepOutput ==
  ASSUME EnvInv, NEW t \in Threads, Output(t)
  PROVE  EnvInv'
<1>1. /\ TypeOK /\ SharedInv /\ call[t].pc = "output" /\ call[t].pc \in Reading
      /\ UNCHANGED <<zlog_env_is_init, zlog_env_init_version, zlog_env_conf,
                     live, on, bound, records, table, category, zlog_default_category,
                     zlog_env_reload_conf_count, logged, a_thread, clean>>
  BY DEF EnvInv, Output, At, confVars, tableVars, countVars, Reading
<1>2. stack[t] = << >> /\ t \in zlog_env_lock.readers /\ zlog_env_lock.writer = NoThread
  BY <1>1, ReadingFacts
<1>3. /\ Counted(zlog_env_reload_conf_count)'
      /\ \A n \in Nat : Counted(n) => Counted(n)'
  BY <1>1 DEF SharedInv, Counted
<1>4. CASE crashed' = TRUE /\ UNCHANGED <<lockVars, call, stack>>
  <2>1. UNCHANGED <<zlog_env_lock, call, stack>>
    BY <1>4 DEF lockVars
  <2>2. TypeOK'
    BY <1>1, <1>4, <2>1 DEF TypeOK
  <2>3. CallInv' /\ LockInv'
    BY <1>1, <2>1, ThreadFrame DEF EnvInv, CallInv, BuffersOf, Counted, SharedInv, LockInv
  <2> QED  BY <1>1, <1>3, <2>2, <2>3, SharedSame DEF EnvInv, SharedInv
<1>5. CASE UnlockAndReturn(t) /\ UNCHANGED crashed
  <2>1. /\ CallInv' /\ LockInv'
        /\ call' \in [Threads -> Frame] /\ stack' \in [Threads -> Seq(Frame)]
        /\ zlog_env_lock' \in [readers : SUBSET Threads, writer : Threads \union {NoThread}]
    BY <1>1, <1>3, <1>5, ReaderLeaves
  <2>2. TypeOK'
    BY <1>1, <1>5, <2>1 DEF TypeOK
  <2> QED  BY <1>1, <1>3, <2>1, <2>2, SharedSame DEF EnvInv, SharedInv
<1>6. CASE /\ call' = [call EXCEPT ![t] = [op |-> @.op, c |-> @.c, pc |-> "count",
                                           n |-> zlog_env_reload_conf_count]]
           /\ UNCHANGED <<lockVars, stack>> /\ UNCHANGED crashed
  <2>1. UNCHANGED <<zlog_env_lock, stack>>
    BY <1>6 DEF lockVars
  <2>2. PICK f : f = [op |-> call[t].op, c |-> call[t].c, pc |-> "count",
                      n |-> zlog_env_reload_conf_count]
    OBVIOUS
  <2>3. f \in Frame /\ f.pc = "count" /\ f.op = call[t].op /\ f.c = call[t].c
        /\ f.n = zlog_env_reload_conf_count
    BY <1>1, <2>2 DEF TypeOK, Frame
  <2>4. call' = [call EXCEPT ![t] = f]
    BY <1>6, <2>2
  <2>5. FrameInv(t, f)'
    <3>1. FrameInv(t, call[t])
      BY <1>1, FramesOf DEF EnvInv, CallInv
    <3>2. BuffersOf(t)'
      BY <1>1, <3>1 DEF FrameInv, BuffersOf
    <3>3. Counted(f.n)'
      BY <1>1, <2>3 DEF SharedInv, Counted
    <3> QED  BY <1>1, <1>2, <2>1, <2>3, <3>1, <3>2, <3>3 DEF FrameInv
  <2>6. CallInv' /\ call' \in [Threads -> Frame] /\ stack' \in [Threads -> Seq(Frame)]
    BY <1>1, <1>2, <1>3, <2>1, <2>3, <2>4, <2>5, OwnStep
  <2>7. TypeOK' /\ LockInv'
    BY <1>1, <1>6, <2>1, <2>6 DEF TypeOK, SharedInv, LockInv
  <2> QED  BY <1>1, <1>3, <2>6, <2>7, SharedSame DEF EnvInv, SharedInv
<1> QED  BY <1>4, <1>5, <1>6 DEF Output

\* The counter is stored, also over the increment of another thread.
LEMMA StepCount ==
  ASSUME EnvInv, NEW t \in Threads, Count(t)
  PROVE  EnvInv'
<1>1. /\ TypeOK /\ SharedInv /\ call[t].pc = "count" /\ call[t].pc \in Reading
      /\ UNCHANGED <<zlog_env_is_init, zlog_env_init_version, zlog_env_conf,
                     live, on, bound, records, table, category, zlog_default_category,
                     a_thread, crashed, clean>>
      /\ zlog_env_reload_conf_count' = call[t].n + 1
      /\ logged' = IF logged > ReloadPeriod THEN logged ELSE logged + 1
  BY DEF EnvInv, Count, At, confVars, tableVars, Reading
<1>2. stack[t] = << >> /\ t \in zlog_env_lock.readers /\ zlog_env_lock.writer = NoThread
  BY <1>1, ReadingFacts
<1>3. /\ call[t].n \in Nat /\ Counted(call[t].n) /\ logged \in Nat /\ ReloadPeriod \in Nat
      /\ logged <= ReloadPeriod + 1
  <2>1. FrameInv(t, call[t])
    BY <1>1, FramesOf DEF EnvInv, CallInv
  <2> QED  BY <1>1, <2>1, ZlogAssumption DEF FrameInv, Frame, TypeOK
<1>4. /\ Counted(zlog_env_reload_conf_count)'
      /\ \A n \in Nat : Counted(n) => Counted(n)'
      /\ zlog_env_reload_conf_count' \in Nat /\ logged' \in 0..(ReloadPeriod + 1)
  BY <1>1, <1>3 DEF Counted
<1>5. CASE UnlockAndReturn(t)
  <2>1. /\ CallInv' /\ LockInv'
        /\ call' \in [Threads -> Frame] /\ stack' \in [Threads -> Seq(Frame)]
        /\ zlog_env_lock' \in [readers : SUBSET Threads, writer : Threads \union {NoThread}]
    BY <1>1, <1>4, <1>5, ReaderLeaves
  <2>2. TypeOK'
    BY <1>1, <1>4, <2>1 DEF TypeOK
  <2> QED  BY <1>1, <1>4, <2>1, <2>2, SharedSame DEF EnvInv, SharedInv
<1>6. CASE Unlock(t) /\ call' = [call EXCEPT ![t] = Reload("auto")] /\ UNCHANGED stack
  <2>1. /\ zlog_env_lock' \in [readers : SUBSET Threads, writer : Threads \union {NoThread}]
        /\ zlog_env_lock'.readers = zlog_env_lock.readers \ {t}
        /\ zlog_env_lock'.writer = NoThread
    BY <1>1, <1>2, <1>6, UnlockFacts, ZlogAssumption
  <2>2. Reload("auto") \in Frame /\ FrameInv(t, Reload("auto"))'
    BY ReloadFrame
  <2>3. CallInv' /\ call' \in [Threads -> Frame] /\ stack' \in [Threads -> Seq(Frame)]
    BY <1>1, <1>2, <1>4, <1>6, <2>1, <2>2, OwnStep
  <2>4. LockInv'
    BY <1>1, <1>2, <2>1 DEF SharedInv, LockInv
  <2>5. TypeOK'
    BY <1>1, <1>4, <2>1, <2>3 DEF TypeOK
  <2> QED  BY <1>1, <1>4, <2>3, <2>4, <2>5, SharedSame DEF EnvInv, SharedInv
<1> QED  BY <1>5, <1>6 DEF Count

-----------------------------------------------------------------------------
(* The invariant.                                                          *)

\* At the start nothing is initialised and nobody calls.
LEMMA StepStart == ASSUME Init PROVE EnvInv
<1>1. /\ NoThread \notin Threads /\ ReloadPeriod \in Nat /\ MaxVersion \in Nat
      /\ Idle \in Frame /\ NoRules \in Category
      /\ NoBuffers \in [version : 0..MaxVersion, msg_buf : 0..MaxVersion, event : 0..MaxVersion]
  BY ZlogAssumption, IdleFrame, NoRulesFacts DEF FrameInv, NoBuffers
<1>2. TypeOK
  <2>1. 0 \in 0..MaxVersion /\ 0 \in 0..(ReloadPeriod + 1) /\ Null \in ConfId \union {Null}
    BY <1>1
  <2>2. << >> \in Seq(Frame)
    OBVIOUS
  <2>3. zlog_env_lock \in [readers : SUBSET Threads, writer : Threads \union {NoThread}]
    BY DEF Init
  <2>4. /\ category \in [Categories -> Category] /\ call \in [Threads -> Frame]
        /\ a_thread \in [Threads -> [version : 0..MaxVersion, msg_buf : 0..MaxVersion,
                                     event : 0..MaxVersion]]
        /\ clean \in [Threads -> BOOLEAN] /\ stack \in [Threads -> Seq(Frame)]
    BY <1>1, <2>2 DEF Init
  <2> QED  BY <2>1, <2>3, <2>4 DEF Init, TypeOK
<1>3. CallInv
  <2> SUFFICES ASSUME NEW t \in Threads PROVE ThreadCalls(t)
    BY DEF CallInv
  <2>1. Frames(t) = {Idle} /\ stack[t] = << >>
    BY DEF Init, Frames
  <2> QED  BY <2>1, IdleFrame DEF ThreadCalls
<1>4. LockInv /\ Counted(zlog_env_reload_conf_count)
  BY <1>1 DEF Init, LockInv, Counted
<1>5. ThreadInv
  <2>1. zlog_env_init_version = 0 /\ \A t \in Threads : a_thread[t] = NoBuffers
    BY DEF Init
  <2>2. NoBuffers.version = 0 /\ NoBuffers.msg_buf = 0 /\ NoBuffers.event = 0
    BY DEF NoBuffers
  <2>3. ASSUME NEW t \in Threads
        PROVE  a_thread[t].version <= zlog_env_init_version /\ BuffersOf(t)
    <3>1. a_thread[t].version = 0 /\ a_thread[t].msg_buf = 0 /\ a_thread[t].event = 0
      BY <2>1, <2>2
    <3> QED  BY <2>1, <3>1 DEF BuffersOf
  <2> QED  BY <2>3 DEF ThreadInv
<1>6. TableInv /\ RecordsSurviveReload /\ ConfInv
  BY DEF Init, TableInv, RecordsSurviveReload, ConfInv
<1> QED  BY <1>2, <1>3, <1>4, <1>5, <1>6 DEF EnvInv, SharedInv

\* A step that changes nothing.
LEMMA StepStutter == ASSUME EnvInv, UNCHANGED vars PROVE EnvInv'
<1>1. UNCHANGED <<zlog_env_lock, zlog_env_is_init, zlog_env_init_version, zlog_env_conf, live,
                  on, bound, records, table, category, zlog_default_category,
                  zlog_env_reload_conf_count, logged, a_thread, call, stack, crashed, clean>>
  BY DEF vars, lockVars, confVars, tableVars, countVars
<1>2. TypeOK'
  BY <1>1 DEF EnvInv, TypeOK
<1>3. CallInv'
  BY <1>1, ThreadFrame DEF EnvInv, CallInv, BuffersOf, Counted
<1>4. LockInv' /\ Counted(zlog_env_reload_conf_count)'
  BY <1>1 DEF EnvInv, SharedInv, LockInv, Counted
<1> QED  BY <1>1, <1>2, <1>3, <1>4, SharedSame DEF EnvInv, SharedInv

\* The inductive invariant of the logging environment.
THEOREM EnvInvariant == Spec => []EnvInv
<1>1. Init => EnvInv
  BY StepStart
<1>2. EnvInv /\ [Next]_vars => EnvInv'
  <2> SUFFICES ASSUME EnvInv, [Next]_vars PROVE EnvInv'
    OBVIOUS
  <2>1. ASSUME NEW t \in Threads, Start(t) PROVE EnvInv'
    BY <2>1, StepCall, StepSignal DEF Start
  <2>2. ASSUME NEW t \in Threads, Write(t) PROVE EnvInv'
    BY <2>2, StepInit, StepReload, StepFini, StepGetCategory, StepSetRecord DEF Write
  <2>3. ASSUME NEW t \in Threads, Read(t) PROVE EnvInv'
    BY <2>3, StepTestLevel, StepFetch, StepOutput, StepCount DEF Read
  <2> QED  BY <2>1, <2>2, <2>3, StepReadLock, StepWriteLock, StepStutter DEF Next
<1> QED  BY <1>1, <1>2, PTL DEF Spec

\* The variables have their types; versions and configurations stay in their
\* bounds.
THEOREM EnvTypeCorrect == Spec => []TypeOK
<1>1. EnvInv => TypeOK
  BY DEF EnvInv
<1> QED  BY <1>1, EnvInvariant, PTL

\* A log call writes its record through buffers that zlog_fetch_thread built for
\* the configuration in force, for any number of threads and reloads.
THEOREM BuffersStayCurrent == Spec => []BuffersCurrent
<1>1. EnvInv => BuffersCurrent
  BY FramesOf DEF EnvInv, CallInv, BuffersCurrent, FrameInv, BuffersOf
<1> QED  BY <1>1, EnvInvariant, PTL

\* A record function set with zlog_set_record is known to the rules in force
\* after every reload.
THEOREM RecordsKept == Spec => []RecordsSurviveReload
<1>1. EnvInv => RecordsSurviveReload
  BY DEF EnvInv, SharedInv
<1> QED  BY <1>1, EnvInvariant, PTL

\* As long as memory can be allocated, every category has the rules and the
\* bitmap of the configuration in force, and that configuration is allocated.
THEOREM RulesFollowConf == ASSUME ~AllocFails PROVE Spec => []CategoriesFollowConf
<1>1. EnvInv => CategoriesFollowConf
  BY DEF EnvInv, SharedInv, ConfInv, CategoriesFollowConf
<1> QED  BY <1>1, EnvInvariant, PTL

-----------------------------------------------------------------------------
(* What a step may never do.                                               *)

\* Only a writer puts another configuration in force.
LEMMA ConfChanges ==
  ASSUME EnvInv, [Next]_vars, zlog_env_conf' # zlog_env_conf
  PROVE  \E u \in Threads : call[u].pc = "held" /\ Write(u)
<1>1. UNCHANGED vars => zlog_env_conf' = zlog_env_conf
  BY DEF vars, confVars
<1>2. ASSUME NEW u \in Threads, Start(u) \/ ReadLock(u) \/ WriteLock(u) \/ Read(u)
      PROVE  zlog_env_conf' = zlog_env_conf
  BY <1>2 DEF Start, Call, reload_config, ReadLock, WriteLock, Read, TestLevel, Fetch, Output,
              Count, confVars
<1>3. ASSUME NEW u \in Threads, Write(u) PROVE call[u].pc = "held"
  BY <1>3 DEF Write, zlog_init, zlog_reload, zlog_fini, zlog_get_category, zlog_set_record,
              Held, At
<1> QED  BY <1>1, <1>2, <1>3 DEF Next

\* The automatic reload puts a new configuration in force only when more than
\* ReloadPeriod records were written since the last reload, although readers
\* count without excluding each other.
THEOREM ReloadsAreEarned == Spec => AutoReloadEarned
<1> DEFINE P == \A t \in Threads : Held(t, "auto") /\ zlog_env_conf' # zlog_env_conf
                                   => logged > ReloadPeriod
<1>1. EnvInv /\ [Next]_vars => [P]_vars
  <2> SUFFICES ASSUME EnvInv, [Next]_vars, NEW t \in Threads, Held(t, "auto"),
                      zlog_env_conf' # zlog_env_conf
               PROVE  logged > ReloadPeriod
    OBVIOUS
  <2>1. PICK u \in Threads : call[u].pc = "held" /\ Write(u)
    BY ConfChanges
  <2>2. call[t].pc = "held" /\ call[t].op = "auto"
    BY DEF Held, At
  <2>3. u = t
    BY <2>1, <2>2, HeldFacts
  <2>4. zlog_reload(t)
    BY <2>1, <2>2, <2>3 DEF Write, zlog_init, zlog_fini, zlog_get_category, zlog_set_record, Held
  <2>5. DoesReload(t)
    BY <2>4 DEF zlog_reload, confVars
  <2>6. zlog_env_reload_conf_count > ReloadPeriod
    BY <2>2, <2>5 DEF DoesReload
  <2>7. /\ Counted(zlog_env_reload_conf_count) /\ ReloadPeriod \in Nat
        /\ zlog_env_reload_conf_count \in Nat /\ logged \in 0..(ReloadPeriod + 1)
    BY ZlogAssumption DEF EnvInv, SharedInv, TypeOK
  <2> QED  BY <2>6, <2>7 DEF Counted
<1> QED  BY <1>1, EnvInvariant, PTL DEF AutoReloadEarned, Spec

\* A step of one thread leaves the call of another alone.
LEMMA OtherCalls ==
  ASSUME EnvInv, NEW u \in Threads, NEW t \in Threads, u # t,
         Start(u) \/ ReadLock(u) \/ WriteLock(u) \/ Write(u) \/ Read(u)
  PROVE  call'[t] = call[t]
<1>1. TypeOK /\ call \in [Threads -> Frame] /\ ThreadCalls(u)
  BY DEF EnvInv, TypeOK, CallInv
<1>2. Return(u) => call'[t] = call[t]
  BY <1>1, ReturnFacts
<1>3. UnlockAndReturn(u) => call'[t] = call[t]
  BY <1>2 DEF UnlockAndReturn
<1>4. \A pc : Goto(u, pc) => call'[t] = call[t]
  BY <1>1 DEF Goto
<1>5. Start(u) => call'[t] = call[t]
  BY <1>1 DEF Start, Call, reload_config
<1>6. ReadLock(u) \/ WriteLock(u) => call'[t] = call[t]
  BY <1>2, <1>4 DEF ReadLock, WriteLock
<1>7. Write(u) => call'[t] = call[t]
  BY <1>3 DEF Write, zlog_init, zlog_reload, zlog_fini, zlog_get_category, zlog_set_record
<1>8. TestLevel(u) \/ Fetch(u) \/ Output(u) \/ Count(u) => call'[t] = call[t]
  BY <1>1, <1>2, <1>3, <1>4 DEF TestLevel, Fetch, Output, Count
<1> QED  BY <1>5, <1>6, <1>7, <1>8 DEF Read

\* The test of the level is the only step of a thread at it, but for a signal.
LEMMA TestSteps ==
  ASSUME EnvInv, [Next]_vars, NEW t \in Threads, At(t, "test"), call'[t] # call[t],
         stack'[t] = stack[t]
  PROVE  TestLevel(t)
<1>1. ~UNCHANGED vars
  BY DEF vars
<1>2. PICK u \in Threads : Start(u) \/ ReadLock(u) \/ WriteLock(u) \/ Write(u) \/ Read(u)
  BY <1>1 DEF Next
<1>3. u = t
  BY <1>2, OtherCalls
<1>4. call[t].pc = "test" /\ stack \in [Threads -> Seq(Frame)]
  BY DEF At, EnvInv, TypeOK
<1>5. ~Write(t) /\ ~ReadLock(t) /\ ~WriteLock(t) /\ ~Fetch(t) /\ ~Output(t) /\ ~Count(t)
  BY <1>4 DEF Write, zlog_init, zlog_reload, zlog_fini, zlog_get_category, zlog_set_record, Held,
              At, ReadLock, WriteLock, Fetch, Output, Count
<1>6. ~reload_config(t)
  <2> SUFFICES ASSUME reload_config(t) PROVE FALSE
    OBVIOUS
  <2>1. PICK f : stack[t] = << >> /\ stack'[t] = <<f>>
    BY <1>4 DEF reload_config
  <2>2. <<f>> # << >>
    OBVIOUS
  <2> QED  BY <2>1, <2>2
<1>7. \A op, c : ~Call(t, op, c)
  BY <1>4 DEF Call, At
<1> QED  BY <1>2, <1>3, <1>5, <1>6, <1>7 DEF Start, Read

\* As long as memory can be allocated, a log call during which no writer was at
\* work is dropped by the test without the lock exactly when the configuration
\* in force disables its category.
THEOREM QuietTestsExact == ASSUME ~AllocFails PROVE Spec => QuietTestExact
<1> DEFINE P == \A t \in Threads :
                  /\ At(t, "test") /\ clean[t] /\ call'[t] # call[t] /\ stack'[t] = stack[t]
                  => (call'[t].pc = "rdlock" <=> Target(t) \in on)
<1>1. EnvInv /\ [Next]_vars => [P]_vars
  <2> SUFFICES ASSUME EnvInv, [Next]_vars, NEW t \in Threads, At(t, "test"), clean[t],
                      call'[t] # call[t], stack'[t] = stack[t]
               PROVE  call'[t].pc = "rdlock" <=> Target(t) \in on
    OBVIOUS
  <2>1. TestLevel(t)
    BY TestSteps
  <2>2. PICK c : c = Target(t)
    OBVIOUS
  <2>3. c # NoCategory
    BY <2>1, <2>2 DEF TestLevel
  <2>4. /\ TypeOK /\ call[t].pc = "test" /\ stack[t] = << >> /\ FrameInv(t, call[t])
        /\ zlog_env_lock.writer = NoThread
    BY NoStack, FramesOf DEF At, EnvInv, CallInv, SharedInv, LockInv
  <2>5. c \in table
    BY <2>2, <2>3, <2>4 DEF Target, FrameInv, EnvInv, SharedInv, TableInv
  <2>6. category[c] = [rules |-> zlog_env_conf, backup |-> Null, bit |-> c \in on]
    BY <2>5 DEF EnvInv, SharedInv, TableInv, ConfInv
  <2>7. category[c].bit = (c \in on)
    BY <2>6
  <2>8. CASE c \in on
    <3>1. Goto(t, "rdlock")
      BY <2>1, <2>2, <2>3, <2>4, <2>7, <2>8 DEF TestLevel
    <3>2. call'[t].pc = "rdlock"
      BY <2>4, <3>1, GotoFacts, SMTT(30) DEF TypeOK
    <3> QED  BY <2>2, <2>8, <3>2
  <2>9. CASE c \notin on
    <3>1. Return(t)
      BY <2>1, <2>2, <2>3, <2>4, <2>7, <2>9 DEF TestLevel
    <3>2. call'[t] = Idle
      BY <2>4, <3>1 DEF Return, TypeOK
    <3> QED  BY <2>2, <2>9, <3>2 DEF Idle
  <2> QED  BY <2>8, <2>9
<1> QED  BY <1>1, EnvInvariant, PTL DEF QuietTestExact, Spec
=============================================================================

----------------------------- MODULE ZlogMessage -----------------------------
(***************************************************************************)
(* What one zlog thread does with the events it is given: event.c stores   *)
(* an event, spec.c writes its parts one conversion at a time, format.c    *)
(* runs the conversions of a format (and rule.c those of a path). The      *)
(* event keeps the time, the formatted time of each time conversion and    *)
(* the process id from one event to the next; the wall clock goes on and   *)
(* the process may fork between two steps of the thread.                   *)
(*                                                                         *)
(* Calls come through the logging macros: file and function are given.     *)
(***************************************************************************)
EXTENDS ZlogBuf, SequencesExt

CONSTANTS
  BufMin,       \* conf->buf_size_min
  BufMaxes,     \* the values of conf->buf_size_max to try
  PathMax,      \* MAXLEN_PATH + 1
  TruncateStr,  \* "..." FILE_NEWLINE
  Formats,      \* patterns: a sequence of conversions and the buffer it is for
  UserMessages, \* what the program logs: command, text and value of its mdc key
  MemSizes,     \* the largest block that may be free at an allocation
  HexPerLine,   \* bytes in one line of a hex dump (16)
  TimeCaches,   \* conf->time_cache_count
  MaxTexts,     \* bound: texts the thread generates
  LastTick,     \* bound: the last moment of the wall clock
  LastPid       \* bound: the program and its forks

Targets == {"msg_buf", "path_buf", "archive_path_buf"}

\* A conversion as zlog_spec_new makes it.
IsSpec(s) ==
  /\ s.write \in {"time", "ms", "us", "mdc", "pid", "srcline", "str", "usrmsg"}
  /\ s.reformat \in BOOLEAN
  /\ s.reformat => s.left_adjust \in BOOLEAN /\ s.min_width \in Nat /\ s.max_width \in Nat
  /\ s.write = "time" => s.time_cache_index \in 0..(TimeCaches - 1)
  /\ s.write = "srcline" => s.line \in Nat
  /\ s.write = "str" => IsSeq(s.str)

IsFormat(f) ==
  /\ f.target \in Targets
  /\ IsSeq(f.specs) /\ f.specs # <<>>
  /\ \A i \in DOMAIN f.specs : IsSpec(f.specs[i])

TimeSpecs == UNION {{f.specs[i] : i \in {j \in DOMAIN f.specs : f.specs[j].write = "time"}} :
                    f \in Formats}

IsMessage(u) ==
  /\ IsSeq(u.text) /\ IsSeq(u.mdc) /\ u.cmd \in {"ZLOG_FMT", "ZLOG_HEX"}
  /\ u.cmd = "ZLOG_HEX" /\ u.text # <<<<"null">>>> => u.text \in Seq(Nat)

\* The reader of the configuration gives every time conversion a cache of
\* its own (SlotsInPlace of ZlogConf).
ASSUME MessageAssumption ==
  /\ BufMin \in Nat /\ PathMax \in Nat \ {0} /\ HexPerLine \in Nat \ {0}
  /\ TimeCaches \in Nat /\ BufMaxes \subseteq Nat /\ MemSizes \subseteq Nat
  /\ MaxTexts \in Nat /\ LastTick \in Nat /\ LastPid \in Nat \ {0}
  /\ IsSeq(TruncateStr)
  /\ \A f \in Formats : IsFormat(f)
  /\ \A s, u \in TimeSpecs : s.time_cache_index = u.time_cache_index => s.time_fmt = u.time_fmt
  /\ \A u \in UserMessages : IsMessage(u)

VARIABLES
  event,    \* a_thread->event, NoEvent before zlog_thread_new
  bufs,     \* the five buffers of the thread
  job,      \* the conversions under way: [format, target, next]
  outcome,  \* the last text that was finished or given up
  tick,     \* wall clock: moments, two in every second
  pid,      \* getpid()
  memLost,  \* history: a realloc has failed
  texts,    \* texts begun so far
  since     \* the tick at which the call was made, NoTime after it has returned

messageVars == <<event, bufs, job, outcome, tick, pid, memLost, texts, since>>

NoEvent == <<>>
NoMessage == [cmd |-> "ZLOG_FMT", text |-> <<>>, mdc |-> <<>>]
NoTime == -1
NULL == <<<<"null">>>>   \* a NULL format or hex buffer, and the text shown for it
NoJob == [format |-> <<>>, target |-> "msg_buf", next |-> 0]
NoOutcome == [status |-> "none", text |-> <<>>]

\* gettimeofday at a tick of the clock, the start of a second or 1.5 ms
\* later (a fraction that both %ms and %us pad); the epoch is long ago.
Seconds(t) == 1 + t \div 2
Microseconds(t) == (t % 2) * 1500

\* A text of n characters of its own.
Chars(tag, n) == [i \in 1..n |-> <<tag, i>>]

MessageInit ==
  /\ event = NoEvent
  /\ bufs = [b \in {"msg_buf", "pre_msg_buf", "path_buf", "archive_path_buf",
                    "pre_path_buf"} |-> NoBuffer]
  /\ job = NoJob
  /\ outcome = NoOutcome
  /\ tick = 0
  /\ pid = 1
  /\ memLost = FALSE
  /\ texts = 0
  /\ since = NoTime

-----------------------------------------------------------------------------
(* thread.c and event.c                                                    *)

\* zlog_event_new: calloc leaves every cache empty.
zlog_event_new ==
  [time_stamp |-> NoTime, time_local |-> 0,
   time_caches |-> [i \in 0..(TimeCaches - 1) |-> [sec |-> 0, str |-> <<>>]],
   pid |-> 0, last_pid |-> 0, pid_str |-> <<>>, usr |-> NoMessage]

\* zlog_thread_new with a configuration: five buffers, or no thread at all.
zlog_thread_buffers(max, mem) ==
  [b \in DOMAIN bufs |->
     IF b \in {"msg_buf", "pre_msg_buf"} THEN zlog_buf_new(BufMin, max, TruncateStr, mem)
     ELSE zlog_buf_new(PathMax, PathMax, <<>>, mem)]

ThreadNew ==
  /\ event = NoEvent
  /\ \E max \in BufMaxes, mem \in MemSizes :
       LET new == zlog_thread_buffers(max, mem) IN
       /\ \A b \in DOMAIN new : new[b].start
       /\ bufs' = new
  /\ event' = zlog_event_new
  /\ UNCHANGED <<job, outcome, tick, pid, memLost, texts, since>>

BetweenTexts == event # NoEvent /\ job = NoJob

\* The bound: nothing more happens after the last text.
GoesOn == texts < MaxTexts \/ job # NoJob

\* zlog_event_set_fmt and zlog_event_set_hex: a new event in the old record.
\* Time and process id are fetched by the conversions that need them.
SetEvent(usr) == [event EXCEPT !.usr = usr, !.pid = 0, !.time_stamp = NoTime]

NewEvent ==
  /\ BetweenTexts /\ GoesOn
  /\ \E usr \in UserMessages : event' = SetEvent(usr)
  /\ outcome' = NoOutcome
  /\ since' = tick
  /\ UNCHANGED <<bufs, job, tick, pid, memLost, texts>>
-----------------------------------------------------------------------------
(* spec.c: the write functions. Each gets the event, a conversion and a    *)
(* buffer and returns the event, the buffer and the result.                *)

Wrote(e, r) == [event |-> e, buf |-> r.buf, rc |-> r.rc]

\* The event meets its first conversion that needs the time.
Stamped(e) == IF e.time_stamp = NoTime THEN [e EXCEPT !.time_stamp = tick] ELSE e

\* strftime of a broken-down time with the time format of a conversion.
strftime(spec, time_local) == [i \in 1..2 |-> <<"time", spec.time_fmt, time_local, i>>]

\* Fault: the formatted time is not compared with the time of the event.
zlog_spec_write_time_Stale(e, spec, b, mem) ==
  LET st == Stamped(e)
      now_sec == Seconds(st.time_stamp)
      i == spec.time_cache_index
      cached == IF st.time_caches[i].sec # 0 THEN st.time_caches[i]
                ELSE [sec |-> now_sec, str |-> strftime(spec, now_sec)]
  IN  Wrote([st EXCEPT !.time_local = now_sec, !.time_caches[i] = cached],
            zlog_buf_append(b, cached.str, mem))

\* zlog_spec_write_time: two caches, the broken-down time of the event and
\* the text of this conversion, each renewed when its second has passed.
zlog_spec_write_time(e, spec, b, mem) ==
  LET st == Stamped(e)
      now_sec == Seconds(st.time_stamp)
      i == spec.time_cache_index
      local == IF st.time_local # now_sec THEN now_sec ELSE st.time_local
      cached == IF st.time_caches[i].sec # now_sec
                THEN [sec |-> now_sec, str |-> strftime(spec, local)]
                ELSE st.time_caches[i]
  IN  Wrote([st EXCEPT !.time_local = local, !.time_caches[i] = cached],
            zlog_buf_append(b, cached.str, mem))

\* zlog_spec_write_ms and zlog_spec_write_us.
zlog_spec_write_fraction(e, spec, b, mem) ==
  LET st == Stamped(e)
      usec == Microseconds(st.time_stamp)
  IN  Wrote(st, IF spec.write = "ms" THEN zlog_buf_printf_dec32(b, usec \div 1000, 3, mem)
                ELSE zlog_buf_printf_dec32(b, usec, 6, mem))

\* zlog_spec_write_mdc: a key that is not set writes nothing.
zlog_spec_write_mdc(e, b, mem) ==
  Wrote(e, IF e.usr.mdc = <<>> THEN Result(b, 0) ELSE zlog_buf_append(b, e.usr.mdc, mem))

\* zlog_spec_write_pid: the text is kept while the process id is the same.
zlog_spec_write_pid(e, b, mem) ==
  LET fetched == IF e.pid # 0 THEN e
                 ELSE IF pid = e.last_pid THEN [e EXCEPT !.pid = pid]
                 ELSE [e EXCEPT !.pid = pid, !.last_pid = pid, !.pid_str = <<<<"pid", pid>>>>]
  IN  Wrote(fetched, zlog_buf_append(b, fetched.pid_str, mem))

\* zlog_spec_write_srcline.
zlog_spec_write_srcline(e, spec, b, mem) ==
  Wrote(e, zlog_buf_printf_dec64(b, spec.line, 0, mem))

\* The write functions that append a text of the conversion, the event, the
\* host or the level: str, category, srcfile, srcfunc, hostname, newline,
\* percent, the thread ids and the level names.
zlog_spec_write_str(e, spec, b, mem) == Wrote(e, zlog_buf_append(b, spec.str, mem))

\* The appends of a hex dump: a head, then line after line its number, the
\* bytes in hex and the bytes as text, blanks where the last line is short.
Append1(t) == [text |-> t]

HexByte(bytes, o) ==
  IF o > Len(bytes) THEN <<Append1(Repeated(Space, 3))>>
  ELSE <<[hex |-> bytes[o], width |-> 2], Append1(<<Space>>)>>

HexChar(bytes, o) ==
  <<Append1(IF o > Len(bytes) THEN <<Space>>
            ELSE IF bytes[o] \in 32..126 THEN <<<<"char", bytes[o]>>>>
            ELSE <<<<"dot">>>>)>>

HexLine(bytes, l) ==
  <<Append1(<<<<"newline">>>>), [dec64 |-> l + 1, width |-> 10], Append1(Repeated(Space, 3))>>
  \o FlattenSeq([i \in 1..HexPerLine |-> HexByte(bytes, l * HexPerLine + i)])
  \o <<Append1(Repeated(Space, 2))>>
  \o FlattenSeq([i \in 1..HexPerLine |-> HexChar(bytes, l * HexPerLine + i)])

HexCalls(bytes) ==
  LET lines == Max({1, (Len(bytes) + HexPerLine - 1) \div HexPerLine})
  IN  <<Append1(Chars("hex head", 1))>>
      \o FlattenSeq([l \in 1..lines |-> HexLine(bytes, l - 1)])

\* zlog_spec_write_usrmsg.
zlog_spec_write_usrmsg(e, b, mem) ==
  Wrote(e, CASE e.usr.text = NULL -> zlog_buf_append(b, NULL, mem)
             [] e.usr.text # NULL /\ e.usr.cmd = "ZLOG_FMT" ->
                  zlog_buf_vprintf(b, e.usr.text, mem)
             [] e.usr.text # NULL /\ e.usr.cmd = "ZLOG_HEX" ->
                  WriteAll(b, HexCalls(e.usr.text), mem))

zlog_spec_write(e, spec, b, mem) ==
  CASE spec.write = "time" -> zlog_spec_write_time(e, spec, b, mem)
    [] spec.write \in {"ms", "us"} -> zlog_spec_write_fraction(e, spec, b, mem)
    [] spec.write = "mdc" -> zlog_spec_write_mdc(e, b, mem)
    [] spec.write = "pid" -> zlog_spec_write_pid(e, b, mem)
    [] spec.write = "srcline" -> zlog_spec_write_srcline(e, spec, b, mem)
    [] spec.write = "str" -> zlog_spec_write_str(e, spec, b, mem)
    [] spec.write = "usrmsg" -> zlog_spec_write_usrmsg(e, b, mem)

\* The buffer that a reformatting conversion writes to first.
PreBuf(target) == IF target = "msg_buf" THEN "pre_msg_buf" ELSE "pre_path_buf"

\* zlog_spec_gen_msg_direct and _reformat, and the same for path and archive
\* path. A full first buffer is used as far as it got.
zlog_spec_gen(spec, target, mem) ==
  LET first == IF spec.reformat THEN PreBuf(target) ELSE target
      into == IF spec.reformat THEN zlog_buf_restart(bufs[first]) ELSE bufs[first]
      w == zlog_spec_write(event, spec, into, mem)
      r == zlog_buf_adjust_append(bufs[target], w.buf.text, spec.left_adjust,
                                  spec.min_width, spec.max_width, mem)
  IN  IF ~spec.reformat \/ w.rc < 0
      THEN [event |-> w.event, rc |-> w.rc, bufs |-> [bufs EXCEPT ![first] = w.buf]]
      ELSE [event |-> w.event, rc |-> r.rc,
            bufs |-> [bufs EXCEPT ![first] = w.buf, ![target] = r.buf]]

-----------------------------------------------------------------------------
(* format.c and the paths of rule.c: conversion after conversion.          *)

\* zlog_format_gen_msg, zlog_rule_gen_path or zlog_rule_gen_archive_path
\* starts.
GenStart ==
  /\ BetweenTexts /\ since # NoTime /\ texts < MaxTexts
  /\ texts' = texts + 1
  /\ \E f \in Formats :
       /\ job' = [format |-> f.specs, target |-> f.target, next |-> 1]
       /\ bufs' = [bufs EXCEPT ![f.target] = zlog_buf_restart(@)]
  /\ outcome' = NoOutcome
  /\ UNCHANGED <<event, tick, pid, memLost, since>>

\* The loops of zlog_format_gen_msg, zlog_rule_gen_path and
\* zlog_rule_gen_archive_path go on for result 0 only.
gen_loop(rc) == rc = 0

GenStep ==
  /\ job # NoJob
  /\ \E mem \in MemSizes :
       LET g == zlog_spec_gen(job.format[job.next], job.target, mem) IN
       /\ bufs' = g.bufs
       /\ event' = g.event
       /\ memLost' = (memLost \/ \E b \in DOMAIN bufs : bufs[b].start /\ ~g.bufs[b].start)
       /\ IF gen_loop(g.rc) /\ job.next < Len(job.format)
          THEN job' = [job EXCEPT !.next = @ + 1] /\ UNCHANGED outcome
          ELSE /\ job' = NoJob
               /\ outcome' = [status |-> IF gen_loop(g.rc) THEN "written" ELSE "dropped",
                              format |-> job.format, target |-> job.target,
                              text |-> g.bufs[job.target].text]
  /\ UNCHANGED <<tick, pid, texts, since>>

Tick ==
  /\ tick < LastTick /\ GoesOn
  /\ tick' = tick + 1
  /\ UNCHANGED <<event, bufs, job, outcome, pid, memLost, texts, since>>

\* The call has returned and the program forks; the child goes on with a
\* copy of the caches.
Fork ==
  /\ BetweenTexts /\ GoesOn /\ pid < LastPid
  /\ pid' = pid + 1
  /\ outcome' = NoOutcome
  /\ since' = NoTime
  /\ UNCHANGED <<event, bufs, job, tick, memLost, texts>>

MessageNext == ThreadNew \/ NewEvent \/ GenStart \/ GenStep \/ Tick \/ Fork

MessageSpec == MessageInit /\ [][MessageNext]_messageVars

-----------------------------------------------------------------------------
(* Correctness                                                             *)

\* The text of a number of at least w digits: the digit of each power of the
\* base.
Power(base) == LET p[i \in Nat] == IF i = 0 THEN 1 ELSE base * p[i - 1] IN p

NumberText(n, base, w) ==
  LET len == Max({w, Len(Digits(n, base))})
  IN  [i \in 1..len |-> <<"digit", (n \div Power(base)[len - i]) % base>>]

CallText(c) ==
  CASE "text" \in DOMAIN c -> c.text
    [] "dec64" \in DOMAIN c -> NumberText(c.dec64, 10, c.width)
    [] "hex" \in DOMAIN c -> NumberText(c.hex, 16, c.width)

\* The text of one conversion for what the program logs, a process id and an
\* event at tick t.
TextOf(spec, usr, process, t) ==
  CASE spec.write = "time" -> strftime(spec, Seconds(t))
    [] spec.write = "ms" -> NumberText(Microseconds(t) \div 1000, 10, 3)
    [] spec.write = "us" -> NumberText(Microseconds(t), 10, 6)
    [] spec.write = "mdc" -> usr.mdc
    [] spec.write = "pid" -> <<<<"pid", process>>>>
    [] spec.write = "srcline" -> NumberText(spec.line, 10, 1)
    [] spec.write = "str" -> spec.str
    [] spec.write = "usrmsg" ->
         IF usr.cmd = "ZLOG_FMT" \/ usr.text = NULL THEN usr.text
         ELSE FlattenSeq([i \in DOMAIN HexCalls(usr.text) |-> CallText(HexCalls(usr.text)[i])])

Meant(spec, t) == TextOf(spec, event.usr, pid, t)

\* At most size - 1 characters, the last of them the mark if some are lost.
Limited(text, max, mark) ==
  IF max = 0 \/ Len(text) < max THEN text
  ELSE LET m == Prefix(mark, max - 1) IN Prefix(text, max - 1 - Len(m)) \o m

\* ... and what a width makes of it.
InWidth(spec, text, max, mark) ==
  LET limited == Limited(text, max, mark)
      clipped == IF spec.max_width = 0 THEN limited ELSE Prefix(limited, spec.max_width)
      blanks == Repeated(Space, Max({0, spec.min_width - Len(clipped)}))
  IN  IF ~spec.reformat THEN text
      ELSE IF spec.left_adjust THEN clipped \o blanks ELSE blanks \o clipped

Shown(spec, target, t) ==
  LET pre == bufs[PreBuf(target)] IN InWidth(spec, Meant(spec, t), pre.max, pre.mark)

TextAt(t) ==
  FlattenSeq([i \in DOMAIN outcome.format |-> Shown(outcome.format[i], outcome.target, t)])

\* A text that is written is the text of this event: every time in it is one
\* moment between the call and now although two caches outlive the event,
\* the process id is that of the process after a fork, and what a width or
\* a full first buffer cuts is cut as the conversion says. The exception is
\* a conversion with a width after a realloc has failed: its first buffer
\* counts the memory that it has lost as used, and may be cut below its
\* limit.
MessageExact ==
  outcome.status = "written" =>
    \/ \E t \in since..tick : outcome.text = TextAt(t)
    \/ memLost /\ \E i \in DOMAIN outcome.format : outcome.format[i].reformat

\* No writer leaves a buffer whose pointers are out of place: growing,
\* cutting, failing to grow and growing again from nothing included.
BuffersWellFormed == event # NoEvent => \A b \in DOMAIN bufs : WellFormed(bufs[b])

CannotBeConverted ==
  /\ event.usr.text = CannotConvert
  /\ \E i \in DOMAIN outcome.format : outcome.format[i].write = "usrmsg"

\* A text is given up only because it is too long for its buffer, because
\* the format of the program cannot be converted or for want of memory (now
\* or in an earlier event: vprintf does not get new memory).
DroppedHasCause ==
  outcome.status = "dropped" =>
    \/ memLost
    \/ CannotBeConverted
    \/ /\ bufs[outcome.target].max # 0
       /\ \E t \in since..tick : Len(TextAt(t)) > bufs[outcome.target].max - 1
=============================================================================

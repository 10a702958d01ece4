-------------------------------- MODULE ZlogConf --------------------------------
(***************************************************************************)
(* The configuration of zlog: conf.c reads the file line by line, and      *)
(* level.c, level_list.c, format.c, spec.c, rule.c and rotater.c build     *)
(* what the lines name; category.c then chooses the rules of a category.   *)
(* A line is a record of what sscanf takes out of it.  The descriptors     *)
(* that the configuration opens are numbers of a descriptor table.         *)
(* Allocation failures are left to ZlogEnv.                                *)
(***************************************************************************)
EXTENDS Descriptors, Sequences, SequencesExt, TLC

CONSTANTS
    Lines,          \* the lines a configuration file may hold
    MaxLines,       \* bound on the lines of a file
    CategoryNames,  \* the categories the program asks for, as sequences of characters
    EventLevels,    \* the levels the program logs at
    MaxFd           \* bound on descriptor numbers

\* Text; the strings the code names itself are listed because the provers do not
\* know that a literal is a STRING.
Text == STRING \cup {"", "*", "default"}

\* What sscanf takes out of a line of each kind.  "ok" stands for what is checked
\* in the text itself: names, conversions, paths, facilities.
SectionLine == [k : {"section"}, n : Int]
OptionLine  == [k : {"option"}, value : Int,
                name : {"strict init", "reload conf period", "fsync period", "default format"}]
LevelLine   == [k : {"level"}, name : Text, value : Int, ok : BOOLEAN]
FormatLine  == [k : {"format"}, name : Text, times : Nat, ok : BOOLEAN]
RuleLine    == [k : {"rule"}, cat : Seq(Text) \ {<<>>}, cmp : {"*", ".", "=", "!"},
                level : Text, format : Text,
                out : {"file", "pipe", "syslog", "record", "stdout", "stderr"},
                dynamic : BOOLEAN, limit : BOOLEAN, sync : BOOLEAN, times : Nat, ok : BOOLEAN]
Line == SectionLine \cup OptionLine \cup LevelLine \cup FormatLine \cup RuleLine

ASSUME ConfAssumption ==
    /\ Lines \subseteq Line
    /\ CategoryNames \subseteq Seq(Text)
    /\ MaxLines \in Nat /\ MaxFd \in Nat
    /\ EventLevels \subseteq 0..255

VARIABLES
    fds,        \* the descriptor table
    daemon,     \* make_daemon has closed every descriptor before log_init
    status,     \* "idle", "reading" the file, or "built"
    fp,         \* the descriptor of the file while it is read
    conf,       \* zlog_conf_t
    section,    \* [global:1] [levels:2] [formats:3] [rules:4], 0 before the first
    nlines,     \* lines read
    cats        \* the rules and the bitmap of each category that was asked for

readVars == <<fds, daemon, status, fp, conf, section, nlines, cats>>

NULLConf == "NULL"
NoFormat == [name |-> "", slots |-> {}]

-------------------------------------------------------------------------------
(* Levels: an array list indexed by the level, 32 slots at first.          *)

zc_arraylist_expand_inner(size, max) == IF 2 * size > max THEN 2 * size ELSE max

\* "outside" remembers a write past the end of the array.
zc_arraylist_set(list, idx, x) ==
    LET size == IF idx > list.size - 1 THEN zc_arraylist_expand_inner(list.size, idx)
                                       ELSE list.size
    IN  [size |-> size, outside |-> list.outside \/ idx >= size,
         at |-> [i \in DOMAIN list.at \cup {idx} |-> IF i = idx THEN x ELSE list.at[i]]]

zlog_level_list_set(list, level, name) == zc_arraylist_set(list, level, name)

LevelDefaults ==
    << <<0, "*">>, <<20, "DEBUG">>, <<40, "INFO">>, <<60, "NOTICE">>, <<80, "WARN">>,
       <<100, "ERROR">>, <<120, "FATAL">>, <<254, "UNKNOWN">>, <<255, "!">> >>

\* The array after the first i default levels.
zlog_level_list_set_default[i \in 0..9] ==
    IF i = 0 THEN [size |-> 32, at |-> <<>>, outside |-> FALSE]
    ELSE zlog_level_list_set(zlog_level_list_set_default[i - 1],
                             LevelDefaults[i][1], LevelDefaults[i][2])

zlog_level_list_new == zlog_level_list_set_default[9]

\* A line zlog_level_new takes: a name, a number of one byte, a known syslog level.
zlog_level_new(line) == line.k = "level" /\ line.value \in 0..255 /\ line.ok

\* The first slot with this name; a name nobody defined is -1, not an error.
zlog_level_list_atoi(levels, name) ==
    LET found == {i \in DOMAIN levels.at : levels.at[i] = name}
    IN  IF found = {} THEN -1 ELSE Min(found)

-------------------------------------------------------------------------------
(* The bitmap of a rule.  A byte is the set of its bits that are 1; a      *)
(* shift past bit 7 is cut off when it is stored.  / and % are C's.        *)

Byte == 0..7
Quot(l) == IF l < 0 THEN -((-l) \div 8) ELSE l \div 8
Rem(l)  == l - 8 * Quot(l)

\* A plausible fault: the bit of the level itself is shifted out.
level_bitmap_Exclusive(compare_char, l) ==
    [i \in 0..31 |->
        CASE compare_char = "=" -> IF i = Quot(l) THEN {7 - Rem(l)} \cap Byte ELSE {}
          [] compare_char = "!" -> IF i = Quot(l) THEN Byte \ {7 - Rem(l)} ELSE Byte
          [] compare_char = "*" -> Byte
          [] compare_char = "." -> {b \in Byte : i > Quot(l) \/ (i = Quot(l) /\ b < 7 - Rem(l))}]

level_bitmap(compare_char, l) ==
    [i \in 0..31 |->
        CASE compare_char = "=" -> IF i = Quot(l) THEN {7 - Rem(l)} \cap Byte ELSE {}
          [] compare_char = "!" -> IF i = Quot(l) THEN Byte \ {7 - Rem(l)} ELSE Byte
          [] compare_char = "*" -> Byte
          [] compare_char = "." -> {b \in Byte : i > Quot(l) \/ (i = Quot(l) /\ b < 8 - Rem(l))}]

zlog_category_needless_level(bitmap, lv) == (7 - (lv % 8)) \notin bitmap[lv \div 8]

\* Whether zlog_rule_output hands an event of level lv to the output function.
zlog_rule_output(rule, lv) ==
    CASE rule.compare_char = "*" -> TRUE
      [] rule.compare_char = "." -> lv >= rule.level
      [] rule.compare_char = "=" -> lv = rule.level
      [] rule.compare_char = "!" -> lv # rule.level

-------------------------------------------------------------------------------
(* Formats and paths: each time conversion takes the next slot of the      *)
(* time caches of an event.  What fails half way has taken its slots.      *)

\* A plausible fault: the counter moves once for a pattern.
zlog_spec_new_Once(count, times) ==
    [slots |-> count .. count + times - 1, next |-> count + (IF times > 0 THEN 1 ELSE 0)]

zlog_spec_new(count, times) == [slots |-> count .. count + times - 1, next |-> count + times]

zlog_format_new(c, line) ==
    LET specs == zlog_spec_new(c.time_cache_count, line.times)
    IN  IF line.k = "format"
        THEN [ok |-> line.ok, format |-> [name |-> line.name, slots |-> specs.slots],
              count |-> specs.next]
        ELSE [ok |-> FALSE, format |-> NULLConf, count |-> c.time_cache_count]

-------------------------------------------------------------------------------
(* Rules.                                                                  *)

\* openlog with LOG_NDELAY connects at once; the C library keeps one descriptor.
openlog(t) == IF OpenOn(t, "syslog") = {} /\ HasFree(t) THEN OpenFd(t, "syslog") ELSE t

FormatNamed(c, name) ==
    IF name = "" THEN {c.default_format}
    ELSE {c.formats[i] : i \in {j \in 1..Len(c.formats) : c.formats[j].name = name}}

OutputOf(line) ==
    CASE line.out = "file" /\ line.limit ->
           IF line.dynamic THEN "dynamic_file_rotate" ELSE "static_file_rotate"
      [] line.out = "file" -> IF line.dynamic THEN "dynamic_file_single" ELSE "static_file_single"
      [] line.out = "record" -> IF line.dynamic THEN "dynamic_record" ELSE "static_record"
      [] OTHER -> line.out

\* What zlog_rule_new returns: ok, the table, the count of time caches and the
\* rule.  "opens" is whether open or popen succeeds; line.ok is whether the
\* selector, the path, the facility and the first character are well formed.
zlog_rule_new(c, t, line, opens) ==
    LET specs   == zlog_spec_new(c.time_cache_count, line.times)
        static  == line.out = "file" /\ ~line.dynamic
        opened  == static \/ line.out = "pipe"
        isRule  == line.k = "rule" /\ FormatNamed(c, line.format) # {}
        table   == CASE line.out = "syslog" -> openlog(t)
                     [] opened -> OpenFd(t, line.out)
                     [] OTHER -> t
        level   == zlog_level_list_atoi(c.levels, line.level)
    IN  IF ~isRule
        THEN [ok |-> FALSE, table |-> t, count |-> c.time_cache_count, rule |-> NULLConf]
        ELSE IF ~line.ok \/ (opened /\ ~(opens /\ HasFree(t)))
        THEN [ok |-> FALSE, table |-> t, count |-> specs.next, rule |-> NULLConf]
        ELSE [ok |-> TRUE, table |-> table, count |-> specs.next,
              rule |-> [category |-> line.cat, compare_char |-> line.cmp, level |-> level,
                        level_bitmap |-> level_bitmap(line.cmp, level),
                        format |-> CHOOSE f \in FormatNamed(c, line.format) : TRUE,
                        output |-> OutputOf(line), slots |-> specs.slots,
                        fsync_period |-> IF line.sync THEN 0 ELSE c.fsync_period,
                        static_fd |-> IF static THEN LowestFree(t) ELSE 0,
                        pipe_fp |-> IF line.out = "pipe" THEN LowestFree(t) ELSE NoFd]]

\* The descriptors these close; static_fd = 0 stands for "no file", and closing NoFd
\* has no effect.
zlog_rule_del(rule) == ({rule.static_fd} \ {0}) \cup {rule.pipe_fp}

zlog_rotater_del(lock_fd) == {lock_fd} \ {0}

-------------------------------------------------------------------------------
(* zlog_conf_new, zlog_conf_del.                                           *)

ConfDefaults ==
    [strict |-> TRUE, reload |-> 0, fsync_period |-> 0, default_ok |-> TRUE,
     levels |-> zlog_level_list_new, formats |-> <<>>, rules |-> <<>>,
     rotater |-> NoFd, default_format |-> NoFormat, time_cache_count |-> 0]

NoCategories == <<>>

zlog_conf_del(t, c) ==
    CloseFds(t, zlog_rotater_del(c.rotater) \cup
                UNION {zlog_rule_del(c.rules[i]) : i \in 1..Len(c.rules)})

Released(t, c) ==
    /\ fds' = zlog_conf_del(t, c)
    /\ status' = "idle" /\ fp' = NoFd /\ conf' = NULLConf
    /\ section' = 0 /\ nlines' = 0 /\ cats' = NoCategories
    /\ UNCHANGED daemon

\* A line failed for good: the file is closed, then the configuration released.
Fail(t, c) == Released(CloseFd(t, fp), c)

NewTable(asDaemon) == [n \in 0..MaxFd |-> IF ~asDaemon /\ n <= 2 THEN "console" ELSE "closed"]

ConfInit ==
    /\ daemon \in BOOLEAN
    /\ fds = NewTable(daemon)
    /\ status = "idle" /\ fp = NoFd /\ conf = NULLConf
    /\ section = 0 /\ nlines = 0 /\ cats = NoCategories

\* raRt always names a file; lstat and fopen may fail, then nothing is held.
conf_new ==
    /\ status = "idle" /\ HasFree(fds)
    /\ status' = "reading" /\ fp' = LowestFree(fds) /\ fds' = OpenFd(fds, "conf")
    /\ conf' = ConfDefaults
    /\ UNCHANGED <<daemon, section, nlines, cats>>

\* Without a file: default format, rotater, and the rule "*.* >stdout".
zlog_conf_build_without_file ==
    /\ status = "idle" /\ ~daemon /\ HasFree(fds)
    /\ LET f == zlog_spec_new(0, 1)
           c == [ConfDefaults EXCEPT !.default_format = [name |-> "default", slots |-> f.slots],
                                     !.time_cache_count = f.next,
                                     !.rotater = LowestFree(fds)]
           r == zlog_rule_new(c, OpenFd(fds, "lock"),
                    [k |-> "rule", cat |-> <<"*">>, cmp |-> "*", level |-> "*", format |-> "",
                     out |-> "stdout", dynamic |-> FALSE, limit |-> FALSE, sync |-> FALSE,
                     times |-> 0, ok |-> TRUE], TRUE)
       IN  /\ conf' = [c EXCEPT !.rules = <<r.rule>>]
           /\ fds' = r.table
    /\ status' = "built"
    /\ UNCHANGED <<daemon, fp, section, nlines, cats>>

-------------------------------------------------------------------------------
(* zlog_conf_parse_line, one action per section.                           *)

Reads(line) ==
    /\ status = "reading" /\ nlines < MaxLines
    /\ line \in Lines

GoesOn(t, c) ==
    /\ fds' = t /\ conf' = c /\ nlines' = nlines + 1
    /\ UNCHANGED <<daemon, status, fp, section, cats>>

\* What a line that was not understood does.
Ignored(t, c) == IF c.strict THEN Fail(t, c) ELSE GoesOn(t, c)

\* A plausible fault: a section may be opened a second time.
NextSection_Repeats(last, n) == n \in 1..4 /\ last <= n

NextSection(last, n) == n \in 1..4 /\ last < n

FsyncPeriod(c) == IF c.reload # 0 /\ c.fsync_period >= c.reload THEN 0 ELSE c.fsync_period

\* The rotater and the default format are built when [rules] begins.
BeginRules(c, t, locks) ==
    LET timed  == [c EXCEPT !.fsync_period = FsyncPeriod(c)]
        locked == [timed EXCEPT !.rotater = LowestFree(t)]
        f      == zlog_spec_new(c.time_cache_count, 1)
        ready  == [locked EXCEPT !.default_format = [name |-> "default", slots |-> f.slots],
                                 !.time_cache_count = f.next]
    IN  IF ~(locks /\ HasFree(t)) THEN Fail(t, timed)
        ELSE IF ~c.default_ok THEN Fail(OpenFd(t, "lock"), locked)
        ELSE /\ fds' = OpenFd(t, "lock") /\ conf' = ready /\ nlines' = nlines + 1 /\ section' = 4
             /\ UNCHANGED <<daemon, status, fp, cats>>

ParseSection(line, locks) ==
    /\ Reads(line) /\ line.k = "section"
    /\ IF ~NextSection(section, line.n) THEN Fail(fds, conf)
       ELSE IF line.n = 4 THEN BeginRules(conf, fds, locks)
       ELSE /\ section' = line.n /\ nlines' = nlines + 1
            /\ UNCHANGED <<fds, daemon, status, fp, conf, cats>>

\* "name = value": a line of another section has that shape when it holds a "=".
ParseGlobal(line) ==
    /\ Reads(line) /\ line.k # "section" /\ section = 1
    /\ CASE line.k = "option" ->
              GoesOn(fds, CASE line.name = "strict init" -> [conf EXCEPT !.strict = line.value # 0]
                            [] line.name = "reload conf period" -> [conf EXCEPT !.reload = line.value]
                            [] line.name = "fsync period" -> [conf EXCEPT !.fsync_period = line.value]
                            [] line.name = "default format" -> [conf EXCEPT !.default_ok = line.value # 0])
         [] line.k \in {"level", "format"} -> Ignored(fds, conf)
         [] line.k = "rule" -> IF line.cmp = "=" THEN Ignored(fds, conf) ELSE Fail(fds, conf)

ParseLevel(line) ==
    /\ Reads(line) /\ line.k # "section" /\ section = 2
    /\ IF zlog_level_new(line)
       THEN GoesOn(fds, [conf EXCEPT !.levels = zlog_level_list_set(@, line.value, line.name)])
       ELSE Ignored(fds, conf)

ParseFormat(line) ==
    /\ Reads(line) /\ line.k # "section" /\ section = 3
    /\ LET f == zlog_format_new(conf, line)
           c == [conf EXCEPT !.time_cache_count = f.count]
       IN  IF f.ok THEN GoesOn(fds, [c EXCEPT !.formats = Append(@, f.format)])
                   ELSE Ignored(fds, c)

ParseRule(line, opens) ==
    /\ Reads(line) /\ line.k # "section" /\ section = 4
    /\ LET r == zlog_rule_new(conf, fds, line, opens)
           c == [conf EXCEPT !.time_cache_count = r.count]
       IN  IF r.ok THEN GoesOn(r.table, [c EXCEPT !.rules = Append(@, r.rule)])
                   ELSE Ignored(r.table, c)

NotInSection(line) ==
    /\ Reads(line) /\ line.k # "section" /\ section = 0
    /\ Fail(fds, conf)

EndOfFile ==
    /\ status = "reading"
    /\ status' = "built" /\ fp' = NoFd /\ fds' = CloseFd(fds, fp)
    /\ UNCHANGED <<daemon, conf, section, nlines, cats>>

\* zlog_fini and the end of a reload release a built configuration.
ReleaseConf ==
    /\ status = "built"
    /\ Released(fds, conf)

-------------------------------------------------------------------------------
(* Categories.                                                             *)

zlog_rule_is_wastebin(rule) == rule.category = <<"!">>

\* A plausible fault: the bare name is compared with its underscore.
zlog_rule_match_category_NoBare(rule, name) ==
    LET len == Len(rule.category)
    IN  \/ rule.category = <<"*">>
        \/ rule.category = name
        \/ rule.category[len] = "_" /\ len <= Len(name) /\ SubSeq(name, 1, len) = rule.category

\* "aa_" matches aa and whatever begins with aa_.
zlog_rule_match_category(rule, name) ==
    LET len == Len(rule.category)
        n   == IF Len(name) = len - 1 THEN len - 1 ELSE len
    IN  \/ rule.category = <<"*">>
        \/ rule.category = name
        \/ /\ rule.category[len] = "_"
           /\ n <= Len(name) /\ SubSeq(name, 1, n) = SubSeq(rule.category, 1, n)

\* The bits of every rule that fits.
zlog_category_overlap_bitmap(rules) ==
    [i \in 0..31 |-> UNION {rules[j].level_bitmap[i] : j \in DOMAIN rules}]

\* The numbers of I in their order.
InOrder(I) ==
    CHOOSE q \in [1..Cardinality(I) -> I] : \A m, n \in 1..Cardinality(I) : m < n => q[m] < q[n]

\* The loop over the rules: each one that matches is added, the last wastebin kept.
FitRules(rules, name) ==
    LET fit   == {i \in 1..Len(rules) : zlog_rule_match_category(rules[i], name)}
        waste == {i \in 1..Len(rules) : zlog_rule_is_wastebin(rules[i])}
    IN  IF fit = {} /\ waste # {} THEN <<rules[Max(waste)]>>
        ELSE [j \in 1..Cardinality(fit) |-> rules[InOrder(fit)[j]]]

ObtainedRules(rules, name) ==
    [fit_rules |-> FitRules(rules, name),
     level_bitmap |-> zlog_category_overlap_bitmap(FitRules(rules, name))]

zlog_category_new(name) ==
    /\ status = "built" /\ name \notin DOMAIN cats
    /\ cats' = [n \in DOMAIN cats \cup {name} |->
                  IF n = name THEN ObtainedRules(conf.rules, name) ELSE cats[n]]
    /\ UNCHANGED <<fds, daemon, status, fp, conf, section, nlines>>

ConfNext ==
    \/ conf_new
    \/ zlog_conf_build_without_file
    \/ \E line \in Lines, works \in BOOLEAN : ParseSection(line, works)
    \/ \E line \in Lines : ParseGlobal(line)
    \/ \E line \in Lines : ParseLevel(line)
    \/ \E line \in Lines : ParseFormat(line)
    \/ \E line \in Lines, works \in BOOLEAN : ParseRule(line, works)
    \/ \E line \in Lines : NotInSection(line)
    \/ EndOfFile
    \/ ReleaseConf
    \/ \E name \in CategoryNames : zlog_category_new(name)

ConfSpec == ConfInit /\ [][ConfNext]_readVars

-------------------------------------------------------------------------------
(* Properties.                                                             *)

\* The quiet test of a category, which reads one bit, agrees with the comparisons
\* its rules make: no record is lost by the test and none passes it for nothing,
\* for every level, comparison and level name, the undefined name (-1) included.
NeedlessExact ==
    \A name \in DOMAIN cats :
        \A lv \in EventLevels :
            zlog_category_needless_level(cats[name].level_bitmap, lv)
                <=> ~ \E i \in 1..Len(cats[name].fit_rules) :
                          zlog_rule_output(cats[name].fit_rules[i], lv)

\* What the comment in rule.c says of a selector: "aa_ match aa_xx & aa, but not aa1_xx".
Selects(selector, name) ==
    \/ selector = <<"*">> \/ selector = name
    \/ /\ Last(selector) = "_"
       /\ name = Front(selector) \/ IsPrefix(selector, name)

\* A category gets the rules whose selector covers its name, each once and in the
\* order of the file; the last wastebin rule serves exactly the categories without one.
CategoryRules ==
    \A name \in DOMAIN cats :
        LET selected == {i \in 1..Len(conf.rules) : Selects(conf.rules[i].category, name)}
            bin      == {i \in 1..Len(conf.rules) : conf.rules[i].category = <<"!">>}
            mine     == IF selected # {} \/ bin = {} THEN selected ELSE {Max(bin)}
        IN  \E q \in [1..Cardinality(mine) -> mine] :
                /\ \A m, n \in DOMAIN q : m < n => q[m] < q[n]
                /\ cats[name].fit_rules = [j \in DOMAIN q |-> conf.rules[q[j]]]

\* Whatever line failed, and after a release, no descriptor of the configuration,
\* its lock, its files or its pipes is left open, although 0 stands for "none" in
\* zlog_rule_del and zlog_rotater_del and a daemon has 0 free: the file that is
\* being read holds it.
DescriptorsReleased ==
    status = "idle" => \A n \in DOMAIN fds : fds[n] \in {"console", "syslog", "closed"}

\* The slots of the time caches: no two conversions of formats and paths in use
\* share one, and all are below the count that an event allocates.
TimeCachesDistinct ==
    status # "idle" =>
        LET users == <<conf.default_format>> \o conf.formats \o conf.rules
        IN  \A i \in 1..Len(users) :
                /\ \A s \in users[i].slots : s < conf.time_cache_count
                /\ \A j \in 1..(i - 1) : users[i].slots \cap users[j].slots = {}

\* zc_arraylist_set may grow the list to exactly idx slots and then write slot idx:
\* no level a configuration can define is stored outside the array.
LevelsInBounds ==
    status # "idle" => ~conf.levels.outside

\* What a configuration indexes later without a test is in place: the cache of
\* every time conversion and the entry of every level, whatever lines were read and
\* in which order.
SlotsInPlace == TimeCachesDistinct /\ LevelsInBounds
================================================================================

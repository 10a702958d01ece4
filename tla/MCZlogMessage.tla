--------------------------- MODULE MCZlogMessage ---------------------------
(* Formats and messages for ZlogMessage: every write function, direct and  *)
(* reformatted, the texts on both sides of the limits.                     *)
EXTENDS ZlogMessage, TLC

Direct(w) == [write |-> w, reformat |-> FALSE]
Reformat(s, left, min, max) ==
  [s EXCEPT !.reformat = TRUE] @@ [left_adjust |-> left, min_width |-> min, max_width |-> max]
TimeSpec(i) == Direct("time") @@ [time_fmt |-> i, time_cache_index |-> i]
Str(n) == Direct("str") @@ [str |-> Chars("str", n)]

Pattern(target, specs) == [target |-> target, specs |-> specs]

MCFormats ==
  {Pattern("msg_buf", <<TimeSpec(0), Direct("pid"), TimeSpec(1)>>),
   Pattern("msg_buf", <<Direct("usrmsg"), Str(1)>>),
   Pattern("msg_buf", <<Reformat(Direct("usrmsg"), TRUE, 4, 5), Direct("ms")>>),
   Pattern("msg_buf", <<Reformat(Str(5), TRUE, 0, 0)>>),
   Pattern("path_buf", <<Reformat(Str(3), FALSE, 4, 2), Direct("mdc")>>),
   Pattern("archive_path_buf", <<Direct("srcline") @@ [line |-> 42],
                                 Reformat(Direct("us"), FALSE, 3, 3)>>)}

Message(cmd, text, mdc) == [cmd |-> cmd, text |-> text, mdc |-> mdc]

MCUserMessages ==
  {Message("ZLOG_FMT", Chars("usr", 1), Chars("mdc", 2)),
   Message("ZLOG_FMT", Chars("usr", 6), <<>>),
   Message("ZLOG_FMT", CannotConvert, <<>>),
   Message("ZLOG_FMT", NULL, <<>>),
   Message("ZLOG_HEX", <<65, 1, 66>>, <<>>)}

MCTruncateStr == Chars("mark", 2)
=============================================================================

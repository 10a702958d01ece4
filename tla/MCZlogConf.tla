----------------------------- MODULE MCZlogConf -----------------------------
(* ZlogConf for TLC: the lines a configuration file may hold, good and     *)
(* bad ones of every section, and the names of categories they may select. *)
EXTENDS ZlogConf

Rule(cat, cmp, level, format, out, dynamic, limit, times, ok) ==
    [k |-> "rule", cat |-> cat, cmp |-> cmp, level |-> level, format |-> format, out |-> out,
     dynamic |-> dynamic, limit |-> limit, sync |-> limit, times |-> times, ok |-> ok]

MCLines ==
    {[k |-> "section", n |-> n] : n \in 0..4} \cup
    {[k |-> "option", name |-> "strict init", value |-> 0],
     [k |-> "option", name |-> "reload conf period", value |-> 2],
     [k |-> "option", name |-> "fsync period", value |-> 2],
     [k |-> "option", name |-> "default format", value |-> 0],
     [k |-> "level", name |-> "TRACE", value |-> 80, ok |-> TRUE],
     [k |-> "level", name |-> "TRACE", value |-> 300, ok |-> TRUE],
     [k |-> "format", name |-> "simple", times |-> 2, ok |-> TRUE],
     [k |-> "format", name |-> "simple", times |-> 1, ok |-> FALSE],
     Rule(<<"a", "_">>, ".", "TRACE", "", "file", FALSE, TRUE, 0, TRUE),
     Rule(<<"a">>, "=", "!", "simple", "file", TRUE, FALSE, 2, TRUE),
     Rule(<<"*">>, "!", "DEBUG", "", "syslog", FALSE, FALSE, 0, TRUE),
     Rule(<<"!">>, "*", "*", "", "pipe", FALSE, FALSE, 0, TRUE),
     Rule(<<"a">>, "*", "*", "", "record", TRUE, FALSE, 1, FALSE)}

MCCategoryNames == {<<"a">>, <<"a", "_", "x">>, <<"a", "b">>}
=============================================================================

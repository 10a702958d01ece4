------------------------------- MODULE ZlogBuf -------------------------------
(***************************************************************************)
(* buf.c: the growing text buffers that a zlog thread formats into.        *)
(* A buffer is a record                                                    *)
(*   start  whether memory is held (the pointers are not NULL)             *)
(*   text   the characters between start and tail                          *)
(*   size   size_real, one more than the characters that fit               *)
(*   max    size_max, 0 for no limit                                       *)
(*   mark   truncate_str                                                   *)
(* A character is any value, a text a sequence of them. A call returns the *)
(* buffer and its result: 0 done, 1 full and cut, -1 failed. `mem' is the  *)
(* largest block that realloc can provide during the call.                 *)
(***************************************************************************)
EXTENDS Integers, Sequences, FiniteSetsExt

Zero == <<"digit", 0>>
Space == <<"space">>

IsSeq(s) == s \in Seq({s[i] : i \in DOMAIN s})
Repeated(char, n) == [i \in 1..n |-> char]
Prefix(text, n) == SubSeq(text, 1, Min({n, Len(text)}))
Result(b, rc) == [buf |-> b, rc |-> rc]

NoBuffer == [start |-> FALSE, text |-> <<>>, size |-> 0, max |-> 0, mark |-> <<>>]

\* zlog_buf_new: NULL for a minimum of zero, a maximum below the minimum or
\* without memory.
zlog_buf_new(min, max, mark, mem) ==
  IF min = 0 \/ (max # 0 /\ max < min) \/ min > mem
  THEN NoBuffer
  ELSE [start |-> TRUE, text |-> <<>>, size |-> min, max |-> max, mark |-> mark]

\* end - tail: the room that is left for characters.
Left(b) == IF b.start THEN b.size - 1 - Len(b.text) ELSE 0

zlog_buf_restart(b) == [b EXCEPT !.text = <<>>]

\* zlog_buf_truncate: the mark overwrites the last characters.
zlog_buf_truncate(b) ==
  LET len == Min({Len(b.mark), Len(b.text)})
  IN  [b EXCEPT !.text = Prefix(@, Len(@) - len) \o Prefix(b.mark, len)]

\* Fault: size_real is set before realloc is known to succeed.
zlog_buf_resize_SizeFirst(b, increment, mem) ==
  LET wanted == b.size + increment
      new == IF b.max = 0 THEN wanted ELSE Min({wanted, b.max})
  IN  IF b.max # 0 /\ b.size >= b.max THEN Result(b, 1)
      ELSE IF new > mem
      THEN Result([b EXCEPT !.start = FALSE, !.text = <<>>, !.size = new], -1)
      ELSE Result([b EXCEPT !.start = TRUE, !.size = new],
                  IF b.max # 0 /\ wanted > b.max THEN 1 ELSE 0)

\* Fault: a text that just fits the limit is taken for too long.
zlog_buf_resize_Strict(b, increment, mem) ==
  LET wanted == b.size + increment
      new == IF b.max = 0 THEN wanted ELSE Min({wanted, b.max})
  IN  IF b.max # 0 /\ b.size >= b.max THEN Result(b, 1)
      ELSE IF new > mem
      THEN Result([b EXCEPT !.start = FALSE, !.text = <<>>], -1)
      ELSE Result([b EXCEPT !.start = TRUE, !.size = new],
                  IF b.max # 0 /\ wanted >= b.max THEN 1 ELSE 0)

\* zlog_buf_resize: grow by 1.5 times the increment without a limit, by the
\* increment within one, by what the limit leaves otherwise. When realloc
\* fails the memory is released; the size stays.
zlog_buf_resize(b, increment, mem) ==
  LET wanted == b.size + increment
      new == IF b.max = 0 THEN b.size + (3 * increment) \div 2
             ELSE Min({wanted, b.max})
  IN  IF b.max # 0 /\ b.size >= b.max THEN Result(b, 1)
      ELSE IF new > mem
      THEN Result([b EXCEPT !.start = FALSE, !.text = <<>>], -1)
      ELSE Result([b EXCEPT !.start = TRUE, !.size = new],
                  IF b.max # 0 /\ wanted > b.max THEN 1 ELSE 0)

\* What every writer does with its output: resize when it does not fit, and
\* write as much of it as there is room for, and the mark, when the limit was
\* met. Each writer counts what it may copy in its own way; it comes to a
\* prefix of the whole output.
WriteText(b, out, mem) ==
  LET len == Len(out)
      r == IF len > Left(b) THEN zlog_buf_resize(b, len - Left(b), mem)
           ELSE Result(b, 0)
      room == IF r.rc = 0 THEN len ELSE Left(r.buf)
      written == [r.buf EXCEPT !.text = @ \o Prefix(out, room)]
  IN  CASE r.rc < 0 -> r
        [] r.rc > 0 -> Result(zlog_buf_truncate(written), 1)
        [] r.rc = 0 -> Result(written, 0)

\* zlog_buf_append does not look at start: a buffer without memory gets
\* some again.
zlog_buf_append(b, text, mem) == WriteText(b, text, mem)

\* zlog_buf_vprintf: vsnprintf writes at most the room that is left, or
\* fails on a format that it cannot convert.
CannotConvert == <<<<"bad format">>>>

zlog_buf_vprintf(b, text, mem) ==
  IF ~b.start \/ text = CannotConvert THEN Result(b, -1) ELSE WriteText(b, text, mem)

\* What is left of a number after i rounds of the division loops, and the
\* digits they leave in tmp, the last one first. They end at zero.
Quotient(n, base) ==
  LET q[i \in Nat] == IF i = 0 THEN n ELSE q[i - 1] \div base IN q

Digits(n, base) ==
  LET q == Quotient(n, base)
      len == CHOOSE k \in 1..(n + 1) : q[k] = 0 /\ (k > 1 => q[k - 1] # 0)
  IN  [i \in 1..len |-> <<"digit", q[len - i] % base>>]

\* Zeros up to the width and the digits behind them.
PrintDigits(b, digits, width, mem) ==
  LET zero_len == IF width > Len(digits) THEN width - Len(digits) ELSE 0
  IN  IF ~b.start THEN Result(b, -1)
      ELSE WriteText(b, Repeated(Zero, zero_len) \o digits, mem)

\* The three of them differ in the type of the number and in the base.
zlog_buf_printf_dec32(b, n, width, mem) == PrintDigits(b, Digits(n, 10), width, mem)

zlog_buf_printf_dec64(b, n, width, mem) == PrintDigits(b, Digits(n, 10), width, mem)

zlog_buf_printf_hex(b, n, width, mem) == PrintDigits(b, Digits(n, 16), width, mem)

\* zlog_buf_adjust_append: at most out_width characters of the text, padded
\* with spaces to in_width. The text is of length str_len.
zlog_buf_adjust_append(b, text, left_adjust, in_width, out_width, mem) ==
  LET str_len == Len(text)
      source_len == IF out_width = 0 \/ str_len < out_width THEN str_len ELSE out_width
      space_len == IF in_width = 0 \/ source_len >= in_width THEN 0
                   ELSE in_width - source_len
      source == Prefix(text, source_len)
      spaces == Repeated(Space, space_len)
  IN  IF ~b.start THEN Result(b, -1)
      ELSE WriteText(b, IF left_adjust THEN source \o spaces ELSE spaces \o source, mem)

\* One call after another until one does not return 0: calls is a sequence
\* of arguments, [dec64, width], [hex, width] or [text].
WriteCall(b, c, mem) ==
  CASE "dec64" \in DOMAIN c -> zlog_buf_printf_dec64(b, c.dec64, c.width, mem)
    [] "hex" \in DOMAIN c -> zlog_buf_printf_hex(b, c.hex, c.width, mem)
    [] "text" \in DOMAIN c -> zlog_buf_append(b, c.text, mem)

WriteNext(r, c, mem) == IF r.rc # 0 THEN r ELSE WriteCall(r.buf, c, mem)

WriteAll(b, calls, mem) ==
  LET r[i \in 0..Len(calls)] ==
        IF i = 0 THEN Result(b, 0) ELSE WriteNext(r[i - 1], calls[i], mem)
  IN  r[Len(calls)]

\* What the pointers of a buffer may be: the tail stays on the last but one
\* byte, the limit holds, and a buffer without memory is below its limit (so
\* that the next resize gives it memory before anything is written).
WellFormed(b) ==
  /\ b.start => Len(b.text) <= b.size - 1
  /\ b.max # 0 => b.size <= b.max
  /\ ~b.start => b.text = <<>> /\ (b.max # 0 => b.size < b.max)
=============================================================================

------------------------------ MODULE Sectors ------------------------------
(***************************************************************************)
(* What the shell engines under linux-boot/rootfs/usr/lib/securewipe see   *)
(* of a sector: the text that `dd bs=512 count=1 | hexdump -C` prints, up  *)
(* to what their greps tell apart, and the sectors `RANDOM` picks.         *)
(***************************************************************************)
EXTENDS Integers, Sequences

CONSTANT RANDOM_MAX  \* 32767: the largest $RANDOM

\* What a sector holds: the patterns the engines write, and three sorts of
\* old data: without a run of zeros, ending in zeros, a file system header.
Written == {"zero", "p55", "rand"}
Old     == {"old", "oldz", "oldfs"}
Kinds   == Written \cup Old

\* The lines of `hexdump -C`: a line of sixteen equal bytes, a "*" for its
\* repetitions, any other bytes, and the final offset, which holds digits only.
\* Nothing is printed for a sector that could not be read.
Hexdump(kind) ==
    CASE kind = "zero"  -> <<"00", "*", "offset">>
      [] kind = "p55"   -> <<"55", "*", "offset">>
      [] kind = "oldz"  -> <<"mixed", "00", "*", "offset">>
      [] kind = "oldfs" -> <<"FAT", "00", "offset">>
      [] kind \in {"rand", "old"} -> <<"mixed", "offset">>
      [] OTHER -> << >>

Min2(a, b) == IF a < b THEN a ELSE b

\* `head -n`, and `echo "$v"`, which prints an empty line for an empty v.
HeadLines(n, s) == SubSeq(s, 1, Min2(n, Len(s)))
Echo(s) == IF s = << >> THEN <<"">> ELSE s

\* `grep -q` and `grep -qv` for a run of eight equal bytes.
Grep(line, s)  == \E k \in DOMAIN s : s[k] = line
GrepV(line, s) == \E k \in DOMAIN s : s[k] # line

\* `grep -v` for such a run, and in the rest for two hexadecimal digits in a
\* row, which all lines have but "*" and "".
HexDigitsBesides(line, s) == \E k \in DOMAIN s : s[k] \notin {line, "*", ""}

\* bash's remainder of a natural number, b # 0: the sign is the dividend's.
Rem(a, b) == IF b > 0 THEN a % b ELSE a % (-b)

\* $((RANDOM % (size - 2 * margin) + margin)), RANDOM in 0 .. max.
RandomSector(random, size, margin) == Rem(random, size - 2 * margin) + margin

\* What `dd skip=s` reads of the `size` accessible sectors of a disk.
ReadSector(sectors, size, s) == IF s < size THEN sectors[s] ELSE "none"
=============================================================================

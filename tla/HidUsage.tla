------------------------------ MODULE HidUsage -------------------------------
(***************************************************************************)
(* The usages of a HID report descriptor, as the backends of hidapi read   *)
(* them: byte by byte on Linux (the NetBSD backend has the same functions) *)
(* and with get_usage on libusb.  A descriptor is a sequence of bytes;     *)
(* positions count from 0 as in the code.                                  *)
(***************************************************************************)
EXTENDS Integers, Sequences, SequencesExt

Byte(d, pos) == d[pos + 1]
Key(d, pos) == Byte(d, pos) - (Byte(d, pos) % 4)    \* key & 0xfc
IsPage(d, pos) == Key(d, pos) = 4
IsUsage(d, pos) == Key(d, pos) = 8
IsCollection(d, pos) == Key(d, pos) = 160
IsEnd(d, pos) == Key(d, pos) = 192

\* A plausible bug: the two bytes after the key of a long item are forgotten.
ShortOfLongItem(d, pos) ==
  IF Byte(d, pos) >= 240 /\ pos + 1 < Len(d)
  THEN Byte(d, pos + 1) + 1
  ELSE <<0, 1, 2, 4>>[(Byte(d, pos) % 4) + 1] + 1

\* data_len + key_size: a long item is [key, length, tag, data], a short one has
\* the length in its key.  A long item cut off after its key counts as short.
ItemSize(d, pos) ==
  IF Byte(d, pos) >= 240 /\ pos + 1 < Len(d)
  THEN Byte(d, pos + 1) + 3
  ELSE <<0, 1, 2, 4>>[(Byte(d, pos) % 4) + 1] + 1
DataLen(d, pos) == <<0, 1, 2, 4>>[(Byte(d, pos) % 4) + 1]  \* of a short item

\* The value of n bytes after position pos as an unsigned short; 0 when the
\* descriptor ends before it.
ReportBytes(d, n, pos) ==
  IF n = 0 \/ pos + n >= Len(d) THEN 0
  ELSE IF n = 1 THEN Byte(d, pos + 1)
  ELSE Byte(d, pos + 2) * 256 + Byte(d, pos + 1)

NotFound == -1

\* The page and the usage after the item at pos.  A usage of four bytes brings
\* its page along.
PageAfter(d, pos, page) ==
  CASE IsPage(d, pos) -> ReportBytes(d, DataLen(d, pos), pos)
    [] IsUsage(d, pos) /\ DataLen(d, pos) = 4 -> ReportBytes(d, 2, pos + 2)
    [] OTHER -> page
UsageAfter(d, pos, usage) ==
  CASE IsUsage(d, pos) /\ DataLen(d, pos) = 4 -> ReportBytes(d, 2, pos)
    [] IsUsage(d, pos) -> ReportBytes(d, DataLen(d, pos), pos)
    [] OTHER -> usage

\* The position of the end of the collection that begins at pos; NotFound when
\* the descriptor ends before it.
IterateOverCollection(d, pos) ==
  LET End[p \in Nat, level \in Nat] ==
        LET after == CASE IsCollection(d, p) -> level + 1
                       [] IsEnd(d, p) -> level - 1
                       [] OTHER -> level
        IN  CASE p >= Len(d) -> NotFound
              [] p < Len(d) /\ after = 0 -> p
              [] p < Len(d) /\ after > 0 -> End[p + ItemSize(d, p), after]
  IN  End[pos, 0]

Pair(page, usage) == <<page, usage>>
NoPair == Pair(0, 0)

\* One call of get_next_hid_usage from ctx.  A pair is found at the end of a
\* collection; the position stays there, and the next call begins with it.
GetNextUsage(d, ctx) ==
  LET Search[pos \in Nat, page \in Int, usage \in Int] ==
        LET p == PageAfter(d, pos, page)
            u == UsageAfter(d, pos, usage)
            close == IterateOverCollection(d, pos)
            found == u # NotFound /\ p # NotFound
        IN  IF pos >= Len(d)
            THEN [found |-> ctx.pos = 0 /\ usage # NotFound /\ page # NotFound,
                  pair |-> Pair(page, usage), pos |-> pos, page |-> page]
            ELSE IF ~IsCollection(d, pos) THEN Search[pos + ItemSize(d, pos), p, u]
            ELSE IF close = NotFound \/ found
            THEN [found |-> close # NotFound, pair |-> Pair(p, u), page |-> p,
                  pos |-> IF close = NotFound THEN Len(d) ELSE close]
            ELSE Search[close + ItemSize(d, close), p, u]
  IN  Search[ctx.pos, ctx.page, NotFound]
Start == [pos |-> 0, page |-> NotFound]

\* The pairs of the records made for one device: the first record has 0 and 0
\* when no pair is found.
UsagePairs(d) ==
  LET first == GetNextUsage(d, Start)
      Further[pos \in Nat, page \in Int] ==
        LET next == GetNextUsage(d, [pos |-> pos, page |-> page])
        IN  IF next.found THEN <<next.pair>> \o Further[next.pos, next.page] ELSE <<>>
  IN  <<IF first.found THEN first.pair ELSE NoPair>> \o Further[first.pos, first.page]

\* get_usage of the libusb backend: the first page and usage of any item.
GetUsage(d) ==
  LET OrZero(n) == IF n = NotFound THEN 0 ELSE n
      First[pos \in Nat, page \in Int, usage \in Int] ==
        IF pos >= Len(d) \/ (page # NotFound /\ usage # NotFound)
        THEN Pair(OrZero(page), OrZero(usage))
        ELSE First[pos + ItemSize(d, pos), PageAfter(d, pos, page), UsageAfter(d, pos, usage)]
  IN  First[0, NotFound, NotFound]

-----------------------------------------------------------------------------
(* The reference: items, with their places in the tree of collections *)

Page(p) == <<5, p>>
Usage(u) == <<9, u>>
PageAndUsage(p, u) == <<11, u, 0, p, 0>>
Collection == <<161, 1>>
EndCollection == <<192>>
Input == <<129, 2>>
LongItem == <<254, 2, 16, 161, 9>>   \* its data look like items

ReadItem(s, item) ==
  CASE item[1] = 5 -> [s EXCEPT !.page = item[2], !.fresh = TRUE]
    [] item[1] = 9 /\ s.depth = 0 ->
         [s EXCEPT !.usage = Pair(s.page, item[2]), !.plain = s.plain /\ s.fresh
                             /\ s.usage = NoPair]
    [] item[1] = 11 /\ s.depth = 0 ->
         [s EXCEPT !.usage = Pair(item[4], item[2]), !.plain = @ /\ s.usage = NoPair]
    [] item[1] = 161 ->
         [s EXCEPT !.depth = @ + 1,
                   !.pairs = IF s.depth = 0 THEN Append(@, s.usage) ELSE @,
                   !.plain = @ /\ (s.depth > 0 \/ s.usage # NoPair)]
    [] item[1] = 192 ->
         [s EXCEPT !.depth = @ - 1, !.usage = NoPair, !.fresh = FALSE]
    [] OTHER -> s

\* pairs: page and usage of each collection that is inside no other; usage: what
\* is left at the end; plain: every such collection has one usage before it,
\* with a page of its own or one declared since the last collection ended.
Read(items) ==
  FoldLeft(ReadItem, [page |-> 0, usage |-> NoPair, depth |-> 0, pairs |-> <<>>,
                      fresh |-> FALSE, plain |-> TRUE], items)
Declared(items) ==
  LET read == Read(items)
  IN  IF read.pairs = <<>> THEN <<read.usage>> ELSE read.pairs
Plain(items) == Read(items).plain
=============================================================================

---------------------------- MODULE LogFormatter ----------------------------
(***************************************************************************)
(* The formatter of EVA01's log (log.cpp): initItems(), which cuts a       *)
(* pattern such as "[%p] %d{%H:%M}" into items.  A pattern is a sequence   *)
(* of characters; of its letters only that they are keys of FORMATS or not *)
(* matters.                                                                *)
(***************************************************************************)
EXTENDS Naturals, Sequences

CONSTANTS
  FORMATS,    \* the characters that are keys
  Char,       \* the characters of a pattern
  MaxItems,   \* bound: the items of a pattern
  MaxFmt      \* bound: the characters of a format in braces

ASSUME FormatterAssumption == "%" \notin FORMATS /\ MaxItems \in Nat /\ MaxFmt \in Nat

\* A StringLogItem, and an item of FORMATS with the format given in its braces.
StringLogItem(c) == [key |-> "text", fmt |-> <<c>>]
Item(key, fmt)   == [key |-> key, fmt |-> fmt]

\* Mutant of fmtEnd: it looks for the last closing brace.
fmtEndLast(pattern, from) ==
  LET closing == {k \in from..Len(pattern) : pattern[k] = "}"}
  IN  IF closing = {} THEN Len(pattern) + 1 ELSE CHOOSE k \in closing : \A l \in closing : k >= l

\* The place that closes the brace opened before from; past the end without one.
fmtEnd(pattern, from) ==
  LET closing == {k \in from..Len(pattern) : pattern[k] = "}"}
  IN  IF closing = {} THEN Len(pattern) + 1 ELSE CHOOSE k \in closing : \A l \in closing : k <= l

\* A turn of the loop at place it, where parse gives the items of what follows a
\* place: found is "a % was read".  A second %, or a letter that is no key, ends it;
\* an open brace takes what is left as its format.
itemsFrom(pattern, parse, it, found) ==
  IF it > Len(pattern) THEN <<>>
  ELSE LET c == pattern[it] IN
    CASE c = "%" /\ found     -> <<>>
      [] c = "%" /\ ~found    -> parse[it + 1][TRUE]
      [] c # "%" /\ ~found    -> <<StringLogItem(c)>> \o parse[it + 1][FALSE]
      [] c # "%" /\ found /\ c \notin FORMATS -> <<>>
      [] c # "%" /\ found /\ c \in FORMATS ->
           IF it < Len(pattern) /\ pattern[it + 1] = "{"
           THEN LET end == fmtEnd(pattern, it + 2) IN
                <<Item(c, SubSeq(pattern, it + 2, end - 1))>> \o parse[end + 1][FALSE]
           ELSE <<Item(c, <<>>)>> \o parse[it + 1][FALSE]

initItems(pattern) ==
  LET parse[it \in 1..Len(pattern) + 2] ==
        [found \in BOOLEAN |-> itemsFrom(pattern, parse, it, found)]
  IN  parse[1][FALSE]

-----------------------------------------------------------------------------
(* What a pattern means, told from the items to the characters. *)

Fmts == UNION {[1..n -> Char \ {"}"}] : n \in 0..MaxFmt}

\* The pieces a pattern is written in, each with the item it stands for.
Piece ==
  {<< <<c>>, StringLogItem(c) >> : c \in Char \ {"%"}}
    \cup {<< <<"%", k>>, Item(k, <<>>) >> : k \in FORMATS}
    \cup (UNION {{<< <<"%", k, "{">> \o f \o <<"}">>, Item(k, f) >> : f \in Fmts} : k \in FORMATS})

\* What may be wrong at the end of a pattern, and the items that are left of it.
Ending ==
  {<< <<>>, <<>> >>, << <<"%">>, <<>> >>}
    \cup (UNION {{<< <<"%", c>> \o f, <<>> >> : f \in Fmts} : c \in Char \ FORMATS})
    \cup (UNION {{<< <<"%", k, "{">> \o f, <<Item(k, f)>> >> : f \in Fmts} : k \in FORMATS})

VARIABLE m_pattern   \* the pieces of the pattern the loggers are given

\* The characters of a pattern.
Spelling(pieces) ==
  LET upTo[n \in 0..Len(pieces)] == IF n = 0 THEN <<>> ELSE upTo[n - 1] \o pieces[n][1]
  IN  upTo[Len(pieces)]

\* A brace after a key without braces would be read as its own.
Unambiguous(pieces) ==
  \A n \in 1..Len(pieces) - 1 : Len(pieces[n][1]) = 2 => pieces[n + 1][1] # <<"{">>

\* Whoever configures the log writes one more piece.
WritePiece(piece) ==
  /\ Len(m_pattern) < MaxItems
  /\ m_pattern' = Append(m_pattern, piece)
  /\ Unambiguous(m_pattern')

\* initItems() reads the pieces back, whatever error the pattern ends in.
ReadAsWritten(pieces) ==
  \A ending \in Ending :
    initItems(Spelling(pieces) \o ending[1])
      = [n \in DOMAIN pieces |-> pieces[n][2]] \o ending[2]
=============================================================================

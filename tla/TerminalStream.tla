--------------------------- MODULE TerminalStream ---------------------------
(***************************************************************************)
(* The text of the terminal pane (app/cpp/TerminalViewModel.cpp): output   *)
(* of the shell comes in chunks cut anywhere, control sequences are        *)
(* stripped, what is left is typed onto the text.  A chunk is a sequence   *)
(* of characters, already decoded; characters that are treated alike are   *)
(* one character here.                                                     *)
(***************************************************************************)
EXTENDS Integers, SequencesExt

CONSTANTS Char,       \* the characters the shell sends
          MaxPending, \* kMaxPendingControlChars
          MaxText,    \* kMaxChars
          MaxStream   \* bound: characters of output

ASSUME SizesAssumption == MaxPending \in Nat /\ MaxText \in Nat /\ MaxStream \in Nat

VARIABLES pending,   \* a control sequence that is not complete yet
          text,      \* what the pane shows
          received,  \* history: the output so far
          cleared,   \* history: how much of what it shows was cleared
          seam,      \* history: a cut fell where the text shows it
          givenUp    \* history: a control sequence was too long to wait for

vars == <<pending, text, received, cleared, seam, givenUp>>

Esc == "ESC"
Csi == "CSI"
Bel == "BEL"
CR == "CR"
LF == "LF"
BS == "BS"
Controls == {Esc, Bel, CR, LF, BS}
Intermediates == {"("}
Parameters == {"1"}
Letters == {"[", "]", "\\", "P", "a"}

\* isCsiFinal, isEscFinal
CsiFinal == Letters
EscFinal == Letters \cup Parameters

Init ==
  /\ pending = <<>> /\ text = <<>>
  /\ received = <<>> /\ cleared = 0
  /\ seam = FALSE /\ givenUp = FALSE

(***************************************************************************)
(* sanitiseTerminalChunk                                                   *)
(***************************************************************************)
\* The position n after the first of the positions S, 0 if there is none.
After(S, n) == IF S = {} THEN 0 ELSE Min(S) + n

Terminators(s, i) == {j \in i..Len(s) - 1 : s[j] = Esc /\ s[j + 1] = "\\"}

\* Where the control sequence that begins at i has ended; 0 if it goes on
\* in the next chunk.
EndOf(s, i) ==
  LET first(S, from) == After({j \in from..Len(s) : s[j] \in S}, 1)
      next == s[i + 1]
      bell == first({Bel}, i + 2)
      terminator == After(Terminators(s, i + 2), 2)
  IN
  CASE s[i] = Csi -> first(CsiFinal, i + 1)
    [] s[i] = Esc /\ i = Len(s) -> 0
    [] s[i] = Esc /\ i < Len(s) ->
         CASE next = "[" -> first(CsiFinal, i + 2)
           [] next = "]" /\ 0 \in {bell, terminator} -> bell + terminator
           [] next = "]" /\ 0 \notin {bell, terminator} -> Min({bell, terminator})
           [] next = "P" -> terminator
           [] next \in Intermediates -> first(EscFinal, i + 2)
           [] OTHER -> i + 2

\* Mutant: a control sequence that is not complete is dropped.
SanitiseDrops(s) ==
  LET from[i \in 1..Len(s) + 1] ==
        IF i > Len(s) THEN [out |-> <<>>, held |-> <<>>]
        ELSE IF s[i] \notin {Esc, Csi} THEN [from[i + 1] EXCEPT !.out = <<s[i]>> \o @]
        ELSE IF EndOf(s, i) = 0 THEN [out |-> <<>>, held |-> <<>>]
        ELSE from[EndOf(s, i)]
  IN  from[1]

\* What is left of s without its control sequences, and the one it ends in.
Sanitise(s) ==
  LET from[i \in 1..Len(s) + 1] ==
        IF i > Len(s) THEN [out |-> <<>>, held |-> <<>>]
        ELSE IF s[i] \notin {Esc, Csi} THEN [from[i + 1] EXCEPT !.out = <<s[i]>> \o @]
        ELSE IF EndOf(s, i) = 0 THEN [out |-> <<>>, held |-> SubSeq(s, i, Len(s))]
        ELSE from[EndOf(s, i)]
  IN  from[1]

(***************************************************************************)
(* appendBytes, appendText, clear                                          *)
(***************************************************************************)
Printing == Intermediates \cup Parameters \cup Letters \cup {LF}

\* A line break is CR, LF or CR LF; a backspace takes back what was typed on
\* the same line; other control characters do nothing.
Type(s, line, i) ==
  LET second == s[i] = LF /\ i > 1 /\ s[i - 1] = CR IN
  CASE s[i] = CR -> Append(line, LF)
    [] s[i] = BS /\ line # <<>> /\ Last(line) # LF -> Front(line)
    [] s[i] \in Printing /\ ~second -> Append(line, s[i])
    [] OTHER -> line

Typed(s) == FoldLeftDomain(LAMBDA line, i : Type(s, line, i), <<>>, s)

LastOf(s, n) == IF Len(s) <= n THEN s ELSE SubSeq(s, Len(s) - n + 1, Len(s))

\* What the shell has sent without its control sequences, read character by
\* character, and where in a control sequence that ends.
ModeAfter(mode, c) ==
  CASE mode = "text" -> IF c = Esc THEN "escape" ELSE IF c = Csi THEN "control" ELSE "text"
    [] mode = "escape" ->
         CASE c = "[" -> "control" [] c = "]" -> "command"
           [] c = "P" -> "string" [] c \in Intermediates -> "charset"
           [] OTHER -> "text"
    [] mode = "control" -> IF c \in CsiFinal THEN "text" ELSE "control"
    [] mode = "charset" -> IF c \in EscFinal THEN "text" ELSE "charset"
    [] mode \in {"command", "command escape"} ->
         CASE c = Bel \/ (c = "\\" /\ mode = "command escape") -> "text"
           [] c = Esc -> "command escape"
           [] OTHER -> "command"
    [] mode \in {"string", "string escape"} ->
         CASE c = "\\" /\ mode = "string escape" -> "text"
           [] c = Esc -> "string escape"
           [] OTHER -> "string"

ReadChar(acc, c) ==
  [mode |-> ModeAfter(acc.mode, c),
   out |-> IF acc.mode = "text" /\ c \notin {Esc, Csi} THEN Append(acc.out, c) ELSE acc.out]

Parsed(stream) == FoldLeft(ReadChar, [mode |-> "text", out |-> <<>>], stream)

Visible(stream) == Parsed(stream).out

\* A backspace meets the beginning of a chunk, or a cut lies within CR LF.
Seam(before, s) ==
  \/ \E i \in DOMAIN s : s[i] = BS /\ Typed(SubSeq(s, 1, i - 1)) = <<>>
  \/ before # <<>> /\ Last(before) = CR /\ s # <<>> /\ Head(s) = LF

AppendBytes(chunk) ==
  LET clean == Sanitise(pending \o chunk)
      long == Len(clean.held) > MaxPending
  IN
  /\ pending' = IF long THEN <<>> ELSE clean.held
  /\ text' = LastOf(text \o Typed(clean.out), MaxText)
  /\ received' = received \o chunk
  /\ givenUp' = (givenUp \/ long)
  /\ seam' = (seam \/ Seam(Visible(received), clean.out))
  /\ UNCHANGED cleared

\* An incomplete control sequence is kept.
Clear ==
  /\ text # <<>>
  /\ text' = <<>>
  /\ cleared' = Len(Visible(received))
  /\ UNCHANGED <<pending, received, seam, givenUp>>

Next ==
  \/ \E n \in 1..MaxStream - Len(received) :
       \E chunk \in [1..n -> Char] : AppendBytes(chunk)
  \/ Clear

Spec == Init /\ [][Next]_vars

\* However the output is cut into chunks, what is shown is the end of what it
\* is without the cuts, since it was last cleared: no part of a control
\* sequence is shown and nothing else is lost.  The code does not keep a
\* control sequence longer than its limit, nor CR LF and backspaces over a
\* cut: seam and givenUp say so (appendBytes, sanitiseTerminalChunk).
CutsDontShow ==
  ~seam /\ ~givenUp =>
    LET shown == SubSeq(Visible(received), cleared + 1, Len(Visible(received)))
    IN  text = LastOf(Typed(shown), MaxText)
=============================================================================

---------------------------- MODULE EmbedAbstract ----------------------------
(***************************************************************************)
(* What src/host/src/runtime/embed.py promises, without its loop: one     *)
(* step writes the whole header at once, and the header is given in       *)
(* closed form.  The comment above the loop fixes the layout: literal      *)
(* lines '    "' + chars * '\xHH' + '"' within 80 characters, so 18 bytes *)
(* per line.  Numbering the tokens of the body from 1, every line takes   *)
(* 20 of them: the opening, 18 escapes and the closing; token k is in     *)
(* line (k-1) \div 20 at offset (k-1) % 20.  The last line, if the input  *)
(* does not fill it, is the prefix of that pattern and is closed by '";', *)
(* and a full last line is followed by ';' alone.                          *)
(***************************************************************************)
EXTENDS Naturals, Sequences, EmbedTokens

CONSTANTS Bytes, MaxData, MinData

VARIABLES
  data,   \* the concatenated content of the input files
  out,    \* the strings written to outfile
  pc      \* "loop" until the header is written, then "done"

avars == <<data, out, pc>>

(* '# Write it in chunks of 80 chars: ... ==> chars = 18'                 *)
LineBytes == 18

(* Tokens per full literal line: the opening, the escapes, the closing.  *)
LineTokens == LineBytes + 2

(* The k-th token of the body for input d.                                 *)
Tok(d, k) ==
  LET j == (k - 1) \div LineTokens
      r == (k - 1) % LineTokens
  IN  IF r = 0 THEN W("open")
      ELSE IF r = LineTokens - 1 THEN W("close")
      ELSE Escape(d[LineBytes * j + r])

(* The number of body tokens once p bytes are written.                     *)
BodyLen(p) ==
  LineTokens * (p \div LineBytes)
    + (IF p % LineBytes = 0 THEN 0 ELSE (p % LineBytes) + 1)

(* The body once the first p bytes of d are written.                       *)
Body(d, p) == [k \in 1 .. BodyLen(p) |-> Tok(d, k)]

(* The terminator: '";' after a partial line, ';' alone otherwise.         *)
Terminator(d) ==
  IF Len(d) % LineBytes # 0 THEN W("closeSemi") ELSE W("semi")

(* The whole file: header lines, body, terminator, footer lines.           *)
Rendered(d) ==
  <<W("header")>> \o Body(d, Len(d)) \o <<Terminator(d), W("footer")>>

Init ==
  /\ \E n \in MinData .. MaxData : data \in [1 .. n -> Bytes]
  /\ out = <<W("header")>>
  /\ pc = "loop"

(* The script writes the header for its input and ends.                    *)
Emit ==
  /\ pc = "loop"
  /\ out' = Rendered(data)
  /\ pc' = "done"
  /\ UNCHANGED data

Next == Emit

(* The script runs to its end: nothing else runs in its process.          *)
Spec == Init /\ [][Next]_avars /\ WF_avars(Emit)

(* The safety part, which TLAPS can reason about.                          *)
SafeSpec == Init /\ [][Next]_avars
=============================================================================

-------------------------------- MODULE Embed --------------------------------
(***************************************************************************)
(* src/host/src/runtime/embed.py: packs the bytes of its input files into *)
(* a C header declaring 'const char embed_<name>[] = "..." ... ;'.        *)
(*                                                                         *)
(* The output is kept as the sequence of strings the script writes, each  *)
(* abstracted to a token: the header and footer lines, the opening        *)
(* '    "' of a literal line, one '\xHH' escape per byte, and the three   *)
(* endings '"\n', '";\n' and ';\n'.  The script's loop over the bytes is  *)
(* one step per byte.                                                      *)
(***************************************************************************)
EXTENDS Naturals, Sequences, EmbedTokens

CONSTANTS
  Bytes,     \* byte values the input may hold
  MaxData,   \* bound on the number of input bytes
  MinData    \* the least number of input bytes considered

ASSUME EmbedAssumption ==
  /\ Bytes \subseteq 0 .. 255
  /\ MinData \in Nat /\ MaxData \in Nat /\ MinData <= MaxData

(* Mutant: a chunk of 19 bytes, one more than fits in 80 columns.        *)
ChunkTooWide == 19

(* Mutant: one byte fewer per line, still within 80 columns.              *)
ChunkTooNarrow == 17

(* Bytes per literal line: '    "' + 18 * '\xHH' + '"' is 78 characters.  *)
Chunk == 18

VARIABLES
  data,   \* the concatenated content of the input files
  pos,    \* the number of bytes written so far
  index,  \* bytes on the current literal line (the script's 'index')
  out,    \* the strings written to outfile, in order
  pc      \* "loop" while bytes remain to be written, then "done"

evars == <<data, pos, index, out, pc>>

(* The characters a written string puts on its line, newline excluded:    *)
(* '    "', '"', '";', ';', and the escape's own characters.              *)
Width(t) ==
  CASE t.tag = "open"      -> 5
    [] t.tag = "close"     -> 1
    [] t.tag = "closeSemi" -> 2
    [] t.tag = "semi"      -> 1
    [] OTHER               -> Len(t.chars)

(* Strings that end a line.                                                 *)
Ends(t) == t.tag \in {"close", "closeSemi", "semi", "header", "footer"}

(* Reading the inputs (the output file itself, argv[1], just truncated,   *)
(* included) and writing the header: '#ifndef', '#define', the blank line *)
(* and the declaration line.                                              *)
Init ==
  /\ \E n \in MinData .. MaxData : data \in [1 .. n -> Bytes]
  /\ pos = 0
  /\ index = 0
  /\ out = <<W("header")>>
  /\ pc = "loop"

(* Mutant: index is never reset after a full line.                       *)
WriteByteNoReset ==
  /\ pc = "loop"
  /\ pos < Len(data)
  /\ out' = out \o (IF index = 0 THEN <<W("open")>> ELSE <<>>) \o <<Escape(data[pos + 1])>>
               \o (IF index + 1 = Chunk THEN <<W("close")>> ELSE <<>>)
  /\ index' = index + 1
  /\ pos' = pos + 1
  /\ UNCHANGED <<data, pc>>

(* Mutant: the escape indented into the 'if index == 0' block, so only  *)
(* the first byte of each line is written.                                 *)
WriteByteEscapeIndented ==
  /\ pc = "loop"
  /\ pos < Len(data)
  /\ out' = out \o (IF index = 0 THEN <<W("open"), Escape(data[pos + 1])>> ELSE <<>>)
               \o (IF index + 1 = Chunk THEN <<W("close")>> ELSE <<>>)
  /\ index' = IF index + 1 = Chunk THEN 0 ELSE index + 1
  /\ pos' = pos + 1
  /\ UNCHANGED <<data, pc>>

(* One iteration of 'for c in data': open a literal line at index 0,     *)
(* write the escape, close the line after Chunk bytes.                    *)
WriteByte ==
  /\ pc = "loop"
  /\ pos < Len(data)
  /\ LET opened == IF index = 0 THEN <<W("open")>> ELSE <<>>
         closed == IF index + 1 = Chunk THEN <<W("close")>> ELSE <<>>
     IN  out' = out \o opened \o <<Escape(data[pos + 1])>> \o closed
  /\ index' = IF index + 1 = Chunk THEN 0 ELSE index + 1
  /\ pos' = pos + 1
  /\ UNCHANGED <<data, pc>>

(* After the loop: terminate an open literal line with '";', or put the   *)
(* semicolon alone on its line; then the footer.                          *)
Finish ==
  /\ pc = "loop"
  /\ pos = Len(data)
  /\ out' = out \o (IF index # 0 THEN <<W("closeSemi")>> ELSE <<W("semi")>>) \o <<W("footer")>>
  /\ pc' = "done"
  /\ UNCHANGED <<data, pos, index>>

Next == WriteByte \/ Finish

Spec == Init /\ [][Next]_evars

(* The script is a single thread with no waits: once a step is possible   *)
(* it is taken.                                                            *)
FairSpec == Spec /\ WF_evars(Next)

(* The output mapped to the abstract one: the abstract step writes the    *)
(* whole file when the script writes its footer, so until then the       *)
(* abstract output is the header alone.                                    *)
Abs == INSTANCE EmbedAbstract
         WITH out <- IF pc = "done" THEN out ELSE <<W("header")>>

-----------------------------------------------------------------------------
TypeOK ==
  /\ \E n \in MinData .. MaxData : data \in [1 .. n -> Bytes]
  /\ pos \in 0 .. Len(data)
  /\ index \in 0 .. Chunk - 1
  /\ pc \in {"loop", "done"}

(* The escapes of a sequence of written strings, in order: the           *)
(* subsequence SelectSeq(s, LAMBDA t : t.tag = "esc"), written as the      *)
(* recursive function that defines it so that proofs can unfold it.      *)
EscapesOf(s) ==
  LET esc[i \in 0 .. Len(s)] ==
        IF i = 0 THEN << >>
        ELSE IF s[i].tag = "esc" THEN Append(esc[i - 1], s[i]) ELSE esc[i - 1]
  IN  esc[Len(s)]

(* The escapes written, in order.                                          *)
Escapes == EscapesOf(out)

(* The output must be a C initializer of the input: once the script has *)
(* finished, the escapes it wrote spell the input bytes, every one, in    *)
(* order.                                                                  *)
EscapesSpellInput ==
  pc = "done" => Escapes = [i \in 1 .. Len(data) |-> Escape(data[i])]

(* The lines between the header and the footer: the first, and each one  *)
(* after a string that ends a line.                                        *)
LineStarts(body) == {i \in 1 .. Len(body) : i = 1 \/ Ends(body[i - 1])}

(* The line starting at i is '    "', escapes only, and '"' or '";', in 80 *)
(* characters; or it is the ';' alone, the last line.                     *)
LineOK(body, i) ==
  \/ /\ body[i].tag = "open"
     /\ \E j \in i + 2 .. Len(body) :
          /\ body[j].tag \in {"close", "closeSemi"}
          /\ \A k \in i + 1 .. j - 1 : ~Ends(body[k]) /\ body[k].tag # "open"
          /\ Width(body[i]) + Width(body[j]) + 4 * (j - i - 1) <= 80
  \/ body[i].tag = "semi" /\ i = Len(body)

(* A literal initializer: at least one literal line, ended by ';'.         *)
WellFormedBody(body) ==
  /\ Len(body) >= 3
  /\ body[1].tag = "open"
  /\ body[Len(body)].tag \in {"closeSemi", "semi"}
  /\ \A i \in LineStarts(body) : LineOK(body, i)

(* The comment of embed.py promises lines within 80 characters, and the   *)
(* output must be a C initializer: between the header and the footer,    *)
(* every line is '    "' escapes '"', the last one followed by ';', or   *)
(* the ';' alone on the last line.  Checked once the script has finished. *)
LinesWithin80 ==
  pc = "done" => WellFormedBody(SubSeq(out, 2, Len(out) - 1))

(* embed.py implements its closed form: each loop iteration leaves the    *)
(* abstract output unchanged, the final terminator and footer complete    *)
(* exactly the file EmbedAbstract describes, 18 escapes per line, and     *)
(* (under FairSpec) the script reaches that point.                         *)
EmbedRefinesAbstract == Abs!Spec
=============================================================================

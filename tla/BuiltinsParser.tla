---------------------------- MODULE BuiltinsParser ----------------------------
(***************************************************************************)
(* The parser and main program of src/host/src/runtime/builtins.py: class *)
(* Parser and the __main__ block, composed with the generator.            *)
(*                                                                         *)
(* The DSL file is read one line per step; the environment chooses each   *)
(* next line from InputLines, or the end of the file.  A line is           *)
(* abstracted to what parse() tells apart: a 'def' or a 'func'/'native'   *)
(* header (already split into tokens), a line starting with 'end', a      *)
(* header the tokenizer cannot take apart (an IndexError), a line whose   *)
(* first token is a word other than the keywords ("unknown"), or any other *)
(* text (blank, body text).  At the end of the file main() calls          *)
(* Generator.write (BuiltinsGen).                                          *)
(***************************************************************************)
EXTENDS BuiltinsGen
LOCAL INSTANCE SequencesExt

CONSTANTS
  DefNames,    \* names a 'def' line may define
  InputLines,  \* the lines the DSL file may contain
  MaxLines,    \* bound on the number of lines of the file
  NoDef,       \* a name not in self.defs
  NoFunc       \* current_function is None

ASSUME ParserAssumption == MaxLines \in Nat /\ MaxLines <= MaxAdds

VARIABLES
  defs,              \* Parser.defs: name -> expanded token list, or NoDef
  current_function,  \* the Function whose body is being read, or NoFunc
  lines_read,        \* number of lines read so far
  directives,        \* the lines read outside a body, in order (history)
  lines              \* every line read, in order (history)

pvars == <<defs, current_function, lines_read, directives, lines>>
vars == <<gvars, pvars>>

(* A token of a header: a literal type, or a $name reference.             *)
IsVar(tok) == "var" \in DOMAIN tok

(* Parser.replace_variable: a $name token is replaced by the stored list  *)
(* of name, each stored token itself replaced; a literal stays as it is.  *)
RECURSIVE replace_variable(_, _)
replace_variable(tok, d) ==
  IF IsVar(tok)
    THEN FlattenSeq([i \in 1 .. Len(d[tok.var]) |-> replace_variable(d[tok.var][i], d)])
    ELSE <<tok>>

(* self.defs[token[1:]] raises KeyError somewhere in that replacement.     *)
RECURSIVE Undefined(_, _)
Undefined(tok, d) ==
  /\ IsVar(tok)
  /\ \/ d[tok.var] = NoDef
     \/ \E i \in 1 .. Len(d[tok.var]) : Undefined(d[tok.var][i], d)

(* The loop 'for token in tokens[3:]: values.extend(replace_variable(token))'. *)
ExpandTokens(toks, d) == FlattenSeq([i \in 1 .. Len(toks) |-> replace_variable(toks[i], d)])

AnyUndefined(toks, d) == \E i \in 1 .. Len(toks) : Undefined(toks[i], d)

(* Mutant: a defs table that starts with every name defined (empty), as a *)
(* table shared between parser instances would.                           *)
InitPredefined ==
  /\ GenInit
  /\ defs = [n \in DefNames |-> <<>>]
  /\ current_function = NoFunc
  /\ lines_read = 0
  /\ directives = <<>>
  /\ lines = <<>>

Init ==
  /\ GenInit
  /\ defs = [n \in DefNames |-> NoDef]
  /\ current_function = NoFunc
  /\ lines_read = 0
  /\ directives = <<>>
  /\ lines = <<>>

(* A line read while a function body is open: a line starting with 'end'  *)
(* hands the function to the generator, any other is appended to the body *)
(* verbatim.                                                               *)
BodyLine(l) ==
  /\ current_function # NoFunc
  /\ IF l.kind = "end"
       THEN /\ add_function(current_function)
            /\ current_function' = NoFunc
       ELSE /\ current_function' =
                 [current_function EXCEPT !.body = Append(@, l)]
            /\ UNCHANGED gvars
  /\ UNCHANGED <<defs, directives>>

(* Mutant: the tokens of a def stored as written, $names unexpanded.       *)
DefLineLazy(l) ==
  /\ l.kind = "def"
  /\ IF AnyUndefined(l.toks, defs)
       THEN ParseFails /\ UNCHANGED defs
       ELSE /\ defs' = [defs EXCEPT ![l.name] = l.toks]
            /\ UNCHANGED gvars
  /\ UNCHANGED current_function

(* 'def <name> : <tokens>': the tokens are expanded now and stored.        *)
DefLine(l) ==
  /\ l.kind = "def"
  /\ IF AnyUndefined(l.toks, defs)
       THEN ParseFails /\ UNCHANGED defs
       ELSE /\ defs' = [defs EXCEPT ![l.name] = ExpandTokens(l.toks, defs)]
            /\ UNCHANGED gvars
  /\ UNCHANGED current_function

(* 'func|native <ret_type> <name> [types] : [args]': the type tokens are  *)
(* expanded into the instantiation list, the arguments kept as templates. *)
FuncLine(l) ==
  /\ l.kind \in {"func", "native"}
  /\ IF AnyUndefined(l.toks, defs)
       THEN ParseFails /\ UNCHANGED current_function
       ELSE /\ current_function' =
                 [name   |-> l.name,
                  native |-> l.kind = "native",
                  ret    |-> l.ret,
                  args   |-> l.args,
                  types  |-> LET e == ExpandTokens(l.toks, defs)
                             IN  [i \in 1 .. Len(e) |-> e[i].lit],
                  body   |-> <<>>]
            /\ UNCHANGED gvars
  /\ UNCHANGED defs

(* A line outside a body: the stripped line is split on ' ' and its first *)
(* token decides; a header too short for its tokens[i] raises IndexError; *)
(* any other first token (the if/elif has no else) is skipped.            *)
DirectiveLine(l) ==
  /\ current_function = NoFunc
  /\ directives' = Append(directives, l)
  /\ \/ DefLine(l)
     \/ FuncLine(l)
     \/ l.kind = "malformed" /\ ParseFails /\ UNCHANGED <<defs, current_function>>
     \/ l.kind \in {"end", "text", "unknown"} /\ UNCHANGED <<gvars, defs, current_function>>

(* One iteration of 'for line in def_file' in Parser.parse.                *)
ReadLine ==
  /\ phase = "parse"
  /\ lines_read < MaxLines
  /\ lines_read' = lines_read + 1
  /\ \E l \in InputLines :
       /\ lines' = Append(lines, l)
       /\ BodyLine(l) \/ DirectiveLine(l)

(* The end of the file: parse() closes it and returns, whatever function  *)
(* is still open; main() then calls gen.write().                          *)
EndOfFile ==
  /\ ParseDone
  /\ UNCHANGED pvars

(* main(): gen.write() once parse() has returned.                           *)
Write ==
  /\ gen_write
  /\ UNCHANGED pvars

Next == ReadLine \/ EndOfFile \/ Write

Spec == Init /\ [][Next]_vars

-----------------------------------------------------------------------------
Tok == [lit : Type] \cup [var : DefNames]

(* The parser's own state has its types; defs hold only literal tokens.    *)
TypeOK ==
  /\ phase \in {"parse", "write", "done", "failed"}
  /\ defs \in [DefNames -> Seq([lit : Type]) \cup {NoDef}]
  /\ current_function \in {NoFunc} \cup
       [name : FuncNames, native : BOOLEAN, ret : Template, args : Seq(Arg),
        types : Seq(Type), body : Seq(InputLines)]
  /\ lines_read \in 0 .. MaxLines
  /\ directives \in Seq(InputLines)
  /\ lines \in Seq(InputLines)
  /\ adds <= lines_read

(* The header lines (def, func, native) among the directives.              *)
IsHeader(l) == l.kind \in {"def", "func", "native"}

(* spec 3/9: a $name must be defined before it is used.  A run that ends  *)
(* normally read no header whose tokens name something no earlier 'def'   *)
(* line defined: a forward or unknown reference makes the run fail.       *)
NoForwardReference ==
  phase = "done" =>
    \A i \in 1 .. Len(directives) :
      IsHeader(directives[i]) =>
        \A t \in 1 .. Len(directives[i].toks) :
          IsVar(directives[i].toks[t]) =>
            \E j \in 1 .. i - 1 :
              /\ directives[j].kind = "def"
              /\ directives[j].name = directives[i].toks[t].var

(* spec 5/7: a run has no partial-success mode.  A run that ends normally *)
(* has handed one function to the generator per func/native header of    *)
(* the file: neither the end of the file inside a body (parse() returns   *)
(* at builtins.py:369 with current_function open) nor a missing 'end'     *)
(* (the next header appended as body text at builtins.py:333) loses one.  *)
AllHeadersEmitted ==
  phase = "done" =>
    adds = Len(SelectSeq(lines, LAMBDA l : l.kind \in {"func", "native"}))

(* spec 3/8: mangled names are pairwise distinct over the whole run, so   *)
(* the registry never holds one name twice.                                *)
MangledNamesUnique ==
  \A i, j \in 1 .. Len(builtins_def_buffer) :
    i # j => builtins_def_buffer[i].sym # builtins_def_buffer[j].sym
(* spec 4.1/7: a header line with an unknown leading keyword is a fatal   *)
(* Malformed-Directive error.  A run that ends normally read no such line *)
(* outside a body (parse() at builtins.py:338 has no else branch).        *)
UnknownDirectiveFatal ==
  phase = "done" =>
    \A i \in 1 .. Len(directives) : directives[i].kind # "unknown"
=============================================================================

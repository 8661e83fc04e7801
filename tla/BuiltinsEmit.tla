---------------------------- MODULE BuiltinsEmit ----------------------------
(***************************************************************************)
(* The emitter of src/host/src/runtime/builtins.py: class Function.       *)
(*                                                                         *)
(* A DSL function is expanded, for each concrete instantiation type T, into *)
(* up to six C fragments (the KIND_* constants).  This module has no      *)
(* variables: it defines what Function.write(T, kind) returns, with the    *)
(* C text abstracted to records that keep every fact the properties tell   *)
(* apart: return type, symbol, parameter list (type, pointer-ness, name),  *)
(* the body and, for the native stub, the call it makes.                   *)
(*                                                                         *)
(* Type strings are abstracted to a base name (an atom such as "float")    *)
(* followed by its trailing decimal digits, kept digit by digit, and a     *)
(* leading pointer marker '*'.  Templates may hold the placeholders $type *)
(* (the whole base name and digits of T) and $vecdim (after a base name). *)
(***************************************************************************)
EXTENDS Naturals, Sequences

CONSTANTS
  Bases,      \* base type names, e.g. "float", "int"
  FuncNames,  \* DSL function names
  ArgNames,   \* DSL argument names
  TypeVar,    \* the placeholder $type, standing for the base of a template
  VecdimVar,  \* the placeholder $vecdim, standing for the digits of a template
  None        \* absent field

Digit == {"0", "1", "2", "3", "4", "5", "6", "7", "8", "9"}

(* The placeholders are not names or digit strings of the DSL, and None is *)
(* no record.                                                               *)
ASSUME BasesAssumption ==
  /\ TypeVar \notin Bases /\ None \notin Bases /\ "void" \notin Bases
  /\ VecdimVar \notin Seq(Digit)
  /\ None \notin [ptr : BOOLEAN, base : Bases, digits : Seq(Digit)]

(* A concrete instantiation type (current_type), e.g. float4 = [float, <<"4">>]. *)
Type == [base : Bases, digits : Seq(Digit)]

(* A type template as written in the DSL, e.g. "*$type" or "int$vecdim".    *)
Template == [ptr : BOOLEAN, base : Bases \cup {TypeVar},
             dim : Seq(Digit) \cup {VecdimVar}]

(* A resolved type string: optional '*', a base name, trailing digits.     *)
RType == [ptr : BOOLEAN, base : Bases, digits : Seq(Digit)]

(* One rendered C parameter: the name and its type; ptr is the '*'.       *)
Param == [name : ArgNames \cup {"result"}, base : Bases,
          digits : Seq(Digit), ptr : BOOLEAN]

Kinds == {"builtins_impl", "builtins_def", "stdlib_impl", "stdlib_def",
          "stdlib_stub", "stdlib_stub_def"}

(***************************************************************************)
(* Type resolution (Function.process_type_name).                          *)
(***************************************************************************)

(* Mutant: only the last character kept, so a 16-wide type reads as 6.    *)
VecDimLastDigit(T) ==
  IF T.digits = <<>> THEN <<"1">> ELSE SubSeq(T.digits, Len(T.digits), Len(T.digits))

(* The text that replaces $vecdim: the last two characters of T when both *)
(* are digits, else the last one when it is a digit, else "1".            *)
VecDim(T) ==
  IF T.digits = <<>> THEN <<"1">>
  ELSE IF Len(T.digits) >= 2
       THEN SubSeq(T.digits, Len(T.digits) - 1, Len(T.digits))
       ELSE T.digits

(* type_name.replace('$vecdim', vecdim).replace('$type', current_type)    *)
process_type_name(T, tpl) ==
  [ptr    |-> tpl.ptr,
   base   |-> IF tpl.base = TypeVar THEN T.base ELSE tpl.base,
   digits |-> (IF tpl.base = TypeVar THEN T.digits ELSE <<>>)
              \o (IF tpl.dim = VecdimVar THEN VecDim(T) ELSE tpl.dim)]

(* s[-1].isdigit() on a resolved type string.                              *)
EndsInDigit(r) == r.digits # <<>>

(* The return type string 'void' that replaces a vector return.           *)
Void == [ptr |-> FALSE, base |-> "void", digits |-> <<>>]

(* A resolved string fed back as a template: no placeholder is left.       *)
AsTemplate(r) == [ptr |-> r.ptr, base |-> r.base, dim |-> r.digits]

(***************************************************************************)
(* Mangling (Function.mangled_name): return type, '_', name, then '_' and *)
(* the argument types with '*' replaced by 'p', with no separator between *)
(* two argument fragments.  A name is a sequence of atoms.                *)
(***************************************************************************)
ArgFragment(r) == (IF r.ptr THEN <<"p">> ELSE <<>>) \o <<r.base>> \o r.digits

mangled_name(f, T) ==
  LET r   == process_type_name(T, f.ret)
      frag[i \in 0 .. Len(f.args)] ==
        IF i = 0 THEN <<>>
        ELSE frag[i - 1] \o ArgFragment(process_type_name(T, f.args[i].t))
  IN  (IF r.ptr THEN <<"*">> ELSE <<>>) \o <<r.base>> \o r.digits
      \o <<"_", f.name>>
      \o (IF f.args = <<>> THEN <<>> ELSE <<"_">>)
      \o frag[Len(f.args)]

CpuName(f, T) == <<"__cpu_">> \o mangled_name(f, T)

(***************************************************************************)
(* Parameter lists (Function.arg_list).  With handle_first_arg, a vector  *)
(* return becomes a leading "result" argument, and every vector argument  *)
(* loses its digits and is passed through a pointer.                       *)
(***************************************************************************)
ResultArg(f, T) ==
  LET r == process_type_name(T, f.ret)
  IN  IF EndsInDigit(r) THEN <<[name |-> "result", t |-> AsTemplate(r)]>>
      ELSE <<>>

(* One argument rendered by arg_list: '*' stripped and remembered, digits *)
(* stripped (and a pointer added) for a vector when handle_first_arg.     *)
RenderArg(a, T, handle_first_arg) ==
  LET r      == process_type_name(T, a.t)
      vector == handle_first_arg /\ EndsInDigit(r)
  IN  [name   |-> a.name,
       base   |-> r.base,
       digits |-> IF handle_first_arg THEN <<>> ELSE r.digits,
       ptr    |-> vector \/ r.ptr]

arg_list(f, T, handle_first_arg) ==
  LET args == (IF handle_first_arg THEN ResultArg(f, T) ELSE <<>>) \o f.args
  IN  [i \in 1 .. Len(args) |-> RenderArg(args[i], T, handle_first_arg)]

(***************************************************************************)
(* The call a native stub makes (the KIND_STDLIB_STUB branch of write).   *)
(* Each argument is the variable it names, possibly cast to a pointer to  *)
(* the base type, possibly with its address taken.                        *)
(***************************************************************************)
(* Mutant: the address of a vector argument taken even when it already is *)
(* a pointer.                                                               *)
StubCallArgAddrAlways(a, T) ==
  LET r == process_type_name(T, a.t)
  IN  [ref |-> a.name, cast |-> IF EndsInDigit(r) THEN r.base ELSE None,
       addr |-> EndsInDigit(r)]

StubCallArg(a, T) ==
  LET r      == process_type_name(T, a.t)
      vector == EndsInDigit(r)
  IN  [ref  |-> a.name,
       cast |-> IF vector THEN r.base ELSE None,
       addr |-> vector /\ ~r.ptr]

StubCall(f, T) ==
  LET r    == process_type_name(T, f.ret)
      lead == IF EndsInDigit(r)
                THEN <<[ref |-> "result", cast |-> r.base, addr |-> TRUE]>>
                ELSE <<>>
  IN  [callee |-> CpuName(f, T),
       args   |-> lead \o [i \in 1 .. Len(f.args) |-> StubCallArg(f.args[i], T)]]

(* The body copied for T: $type then $vecdim replaced in the template.    *)
BodyOf(f, T) == [text |-> f.body, type |-> T, vecdim |-> VecDim(T)]

(***************************************************************************)
(* Function.write(current_type, kind).                                     *)
(***************************************************************************)
write(f, T, kind) ==
  LET r   == process_type_name(T, f.ret)
      vec == EndsInDigit(r)
      ret == IF kind \in {"builtins_impl", "stdlib_stub_def"} /\ vec
               THEN Void ELSE r
  IN  CASE kind = "builtins_def" ->
             [kind |-> kind, sym |-> CpuName(f, T), target |-> mangled_name(f, T)]
        [] kind = "builtins_impl" ->
             [kind |-> kind, ret |-> ret, sym |-> mangled_name(f, T),
              params |-> arg_list(f, T, TRUE), body |-> BodyOf(f, T)]
        [] kind = "stdlib_stub_def" ->
             [kind |-> kind, ret |-> ret, sym |-> CpuName(f, T),
              params |-> arg_list(f, T, TRUE)]
        [] kind = "stdlib_def" ->
             [kind |-> kind, ret |-> ret, sym |-> <<"OVERLOAD", f.name>>,
              params |-> arg_list(f, T, FALSE)]
        [] kind = "stdlib_impl" ->
             [kind |-> kind, ret |-> ret, sym |-> <<"OVERLOAD", f.name>>,
              params |-> arg_list(f, T, FALSE), body |-> BodyOf(f, T)]
        [] kind = "stdlib_stub" ->
             [kind |-> kind, ret |-> ret, sym |-> <<"OVERLOAD", f.name>>,
              params |-> arg_list(f, T, FALSE),
              temp |-> IF vec THEN r ELSE None,
              call |-> StubCall(f, T)]

=============================================================================

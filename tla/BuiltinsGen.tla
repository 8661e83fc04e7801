----------------------------- MODULE BuiltinsGen -----------------------------
(***************************************************************************)
(* The generator of src/host/src/runtime/builtins.py: class Generator.    *)
(*                                                                         *)
(* Four in-memory buffers grow as add_function is called once per parsed  *)
(* DSL function; write() then replaces the four output files one after    *)
(* the other.  The caller (the parser, module BuiltinsParser) is          *)
(* abstracted here to an environment that calls add_function with any     *)
(* function of FunctionSpace, then either stops parsing normally or       *)
(* raises an error; write() may itself fail on any of its four opens.     *)
(***************************************************************************)
EXTENDS BuiltinsEmit

CONSTANTS
  Functions,  \* the DSL functions the environment may hand to add_function
  MaxAdds,    \* bound on the number of add_function calls
  Stale,      \* the content an output file had before the run
  Bodies      \* the body templates a function may have

ASSUME GenAssumption ==
  /\ MaxAdds \in Nat
  /\ Stale \notin Seq(Kinds)

VARIABLES
  builtins_impl_buffer,  \* builtins_impl.h: static mangled implementations
  builtins_def_buffer,   \* builtins_def.h: the "__cpu_..." registry chain
  stdlib_impl_buffer,    \* stdlib_impl.h: stubs, their callees' prototypes, bodies
  stdlib_def_buffer,     \* stdlib_def.h: public OVERLOAD declarations
  files,                 \* the four output files on disk
  phase,                 \* "parse", "write", "done" or "failed"
  adds                   \* number of add_function calls so far

gvars == <<builtins_impl_buffer, builtins_def_buffer, stdlib_impl_buffer,
           stdlib_def_buffer, files, phase, adds>>

(* The output files in the order write() replaces them.                    *)
OutFiles == <<"stdlib_def.h", "stdlib_impl.h", "builtins_def.h", "builtins_impl.h">>

(* Mutant: write() copy-pasted, the two stdlib buffers written to each   *)
(* other's file.                                                            *)
BufferOfSwapped(i) ==
  CASE i = 1 -> stdlib_impl_buffer
    [] i = 2 -> stdlib_def_buffer
    [] i = 3 -> builtins_def_buffer
    [] i = 4 -> builtins_impl_buffer

(* The buffer each output file receives.                                   *)
BufferOf(i) ==
  CASE i = 1 -> stdlib_def_buffer
    [] i = 2 -> stdlib_impl_buffer
    [] i = 3 -> builtins_def_buffer
    [] i = 4 -> builtins_impl_buffer

(* One entry per instantiation type of f, of the given kind, in order.     *)
PerType(f, kind) == [i \in 1 .. Len(f.types) |-> write(f, f.types[i], kind)]

(* Two entries per instantiation type, the first of kind k1.               *)
PerTypePair(f, k1, k2) ==
  [i \in 1 .. 2 * Len(f.types) |->
     IF i % 2 = 1 THEN write(f, f.types[(i + 1) \div 2], k1)
                  ELSE write(f, f.types[i \div 2], k2)]

GenInit ==
  /\ builtins_impl_buffer = <<>>
  /\ builtins_def_buffer = <<>>
  /\ stdlib_impl_buffer = <<>>
  /\ stdlib_def_buffer = <<>>
  /\ files = [i \in 1 .. 4 |-> Stale]
  /\ phase = "parse"
  /\ adds = 0

(* Generator.add_function: for every type of f, in order, the native      *)
(* kinds or the two non-native ones are appended to their buffers.        *)
add_function(f) ==
  /\ phase = "parse"
  /\ adds < MaxAdds
  /\ IF f.native
       THEN /\ stdlib_impl_buffer' =
                 stdlib_impl_buffer \o PerTypePair(f, "stdlib_stub_def", "stdlib_stub")
            /\ stdlib_def_buffer' = stdlib_def_buffer \o PerType(f, "stdlib_def")
            /\ builtins_impl_buffer' =
                 builtins_impl_buffer \o PerType(f, "builtins_impl")
            /\ builtins_def_buffer' = builtins_def_buffer \o PerType(f, "builtins_def")
       ELSE /\ stdlib_def_buffer' = stdlib_def_buffer \o PerType(f, "stdlib_def")
            /\ stdlib_impl_buffer' = stdlib_impl_buffer \o PerType(f, "stdlib_impl")
            /\ UNCHANGED <<builtins_impl_buffer, builtins_def_buffer>>
  /\ adds' = adds + 1
  /\ UNCHANGED <<files, phase>>

(* Parser.parse returns normally: main() goes on to call write().          *)
ParseDone ==
  /\ phase = "parse"
  /\ phase' = "write"
  /\ UNCHANGED <<builtins_impl_buffer, builtins_def_buffer, stdlib_impl_buffer,
                 stdlib_def_buffer, files, adds>>

(* Parser.parse raises (undefined $name, malformed header, unreadable     *)
(* input): the exception ends the process before write() is reached.      *)
ParseFails ==
  /\ phase = "parse"
  /\ phase' = "failed"
  /\ UNCHANGED <<builtins_impl_buffer, builtins_def_buffer, stdlib_impl_buffer,
                 stdlib_def_buffer, files, adds>>

(* Mutant: write() reached while parsing still goes on (main() calling   *)
(* gen.write() before, or without waiting for, parser.parse()).            *)
gen_writeUnguarded ==
  /\ phase \in {"parse", "write"}
  /\ \E n \in 0 .. 4 :
       /\ files' = [i \in 1 .. 4 |-> IF i <= n THEN BufferOf(i) ELSE files[i]]
       /\ phase' = IF n = 4 THEN "done" ELSE "failed"
  /\ UNCHANGED <<builtins_impl_buffer, builtins_def_buffer, stdlib_impl_buffer,
                 stdlib_def_buffer, adds>>

(* Generator.write: the files are replaced in order; an open() that fails *)
(* raises, leaving the files already written replaced and the rest stale.  *)
(* n is the number of files written before the failure (4: no failure).   *)
gen_write ==
  /\ phase = "write"
  /\ \E n \in 0 .. 4 :
       /\ files' = [i \in 1 .. 4 |-> IF i <= n THEN BufferOf(i) ELSE files[i]]
       /\ phase' = IF n = 4 THEN "done" ELSE "failed"
  /\ UNCHANGED <<builtins_impl_buffer, builtins_def_buffer, stdlib_impl_buffer,
                 stdlib_def_buffer, adds>>

GenNext ==
  \/ \E f \in Functions : add_function(f)
  \/ ParseDone
  \/ ParseFails
  \/ gen_write

GenSpec == GenInit /\ [][GenNext]_gvars

-----------------------------------------------------------------------------
(***************************************************************************)
(* Types.                                                                  *)
(***************************************************************************)
Arg == [name : ArgNames, t : Template]

(* The records the parser builds (class Function).                         *)
FunctionSpace == [name : FuncNames, native : BOOLEAN, ret : Template,
                  args : Seq(Arg), types : Seq(Type), body : Bodies]

ASSUME FunctionsAssumption == Functions \subseteq FunctionSpace

(* The instantiation types of f, as a set.                                  *)
TypesOf(f) == {f.types[i] : i \in 1 .. Len(f.types)}

(* Every fragment Function.write can render for a function of Functions.   *)
Entries == {write(f, T, k) : f \in Functions, T \in UNION {TypesOf(g) : g \in Functions},
                             k \in Kinds}

(* Each buffer, and each output file once written, holds rendered          *)
(* fragments; add_function has been called at most MaxAdds times.          *)
GenTypeOK ==
  /\ phase \in {"parse", "write", "done", "failed"}
  /\ adds \in 0 .. MaxAdds
  /\ builtins_impl_buffer \in Seq(Entries)
  /\ builtins_def_buffer \in Seq(Entries)
  /\ stdlib_impl_buffer \in Seq(Entries)
  /\ stdlib_def_buffer \in Seq(Entries)
  /\ files \in [1 .. 4 -> Seq(Entries) \cup {Stale}]

-----------------------------------------------------------------------------
(***************************************************************************)
(* The native calling contract.  A native stub in stdlib_impl.h calls      *)
(* __cpu_<mangled>; the C compiler needs its prototype (KIND_STDLIB_STUB_DEF) *)
(* earlier in the same file, and at run time getBuiltin resolves the name  *)
(* through the builtins_def.h chain to the static function of             *)
(* builtins_impl.h.  The stub's call, its callee's prototype and the      *)
(* implementation are rendered by three different code paths of write()  *)
(* and arg_list(); they must agree argument by argument.                  *)
(***************************************************************************)

(* The variable the k-th argument of a stub's call names: the vector      *)
(* temporary "result" first when there is one, then the stub's own        *)
(* parameters, as the stub's public signature declares them.               *)
StubVar(stub, k) ==
  IF stub.temp # None
    THEN IF k = 1
           THEN [name |-> "result", base |-> stub.temp.base,
                 digits |-> stub.temp.digits, ptr |-> FALSE]
           ELSE stub.params[k - 1]
    ELSE stub.params[k]

(* The number of pointer levels the k-th argument passes: the variable's  *)
(* own '*' and the '&' taken of it.                                        *)
PtrLevel(stub, k) ==
  (IF StubVar(stub, k).ptr THEN 1 ELSE 0) + (IF stub.call.args[k].addr THEN 1 ELSE 0)

(* The k-th argument of the stub's call is what parameter p expects: it   *)
(* names the right variable, its base type (after any cast) and its       *)
(* digits agree, and it passes a pointer exactly when p is one; a cast is *)
(* only ever to a pointer.                                                 *)
Accepts(p, stub, k) ==
  LET c == stub.call.args[k]
      v == StubVar(stub, k)
  IN  /\ c.ref = v.name
      /\ IF c.cast # None
           THEN /\ p.base = c.cast /\ v.base = c.cast
                /\ p.digits = <<>> /\ p.ptr
                /\ PtrLevel(stub, k) = 1
           ELSE /\ p.base = v.base /\ p.digits = v.digits
                /\ PtrLevel(stub, k) = IF p.ptr THEN 1 ELSE 0

(* A declaration (prototype or implementation) is the one the stub's call  *)
(* needs: same arity, every argument accepted, and a void return exactly  *)
(* when the stub returns its temporary, which has the stub's return type. *)
CallMatches(decl, stub) ==
  /\ Len(stub.call.args) = Len(decl.params)
  /\ \A k \in 1 .. Len(decl.params) : Accepts(decl.params[k], stub, k)
  /\ IF stub.temp # None THEN decl.ret = Void /\ stub.temp = stub.ret
                         ELSE decl.ret = stub.ret

(* Every native stub emitted so far calls a symbol that (1) is prototyped *)
(* earlier in stdlib_impl.h with a matching signature, and (2) is          *)
(* registered in builtins_def.h with a target defined in builtins_impl.h  *)
(* with a matching signature.                                              *)
NativeTiersConsistent ==
  \A i \in 1 .. Len(stdlib_impl_buffer) :
    LET s == stdlib_impl_buffer[i] IN
    s.kind = "stdlib_stub" =>
      /\ \E j \in 1 .. i - 1 :
           /\ stdlib_impl_buffer[j].kind = "stdlib_stub_def"
           /\ stdlib_impl_buffer[j].sym = s.call.callee
           /\ CallMatches(stdlib_impl_buffer[j], s)
      /\ \E k \in 1 .. Len(builtins_def_buffer) :
           /\ builtins_def_buffer[k].sym = s.call.callee
           /\ \E m \in 1 .. Len(builtins_impl_buffer) :
                /\ builtins_impl_buffer[m].sym = builtins_def_buffer[k].target
                /\ CallMatches(builtins_impl_buffer[m], s)
-----------------------------------------------------------------------------
(***************************************************************************)
(* Two statements of the specification (spec.md) about this code.          *)
(***************************************************************************)

(* The integer a string of decimal digits denotes.                         *)
DecimalValue(ds) ==
  LET val(c) == CHOOSE n \in 0 .. 9 : <<"0", "1", "2", "3", "4", "5", "6", "7", "8", "9">>[n + 1] = c
      v[i \in 0 .. Len(ds)] == IF i = 0 THEN 0 ELSE 10 * v[i - 1] + val(ds[i])
  IN  v[Len(ds)]

(* spec 4.2/4.3: the vector width of a type is its trailing number, 1 when *)
(* it has none, and only a return of width at least 2 is turned into a    *)
(* "result" pointer: a native stub allocates a temporary exactly then.     *)
SpecVectorABI ==
  \A i \in 1 .. Len(stdlib_impl_buffer) :
    stdlib_impl_buffer[i].kind = "stdlib_stub" =>
      ((stdlib_impl_buffer[i].temp # None) <=>
         (stdlib_impl_buffer[i].ret.digits # <<>>
          /\ DecimalValue(stdlib_impl_buffer[i].ret.digits) >= 2))

(* spec 5: a run either flushes all four files or fails before any of     *)
(* them is written, so that partial output is never observable.  Once the *)
(* process has ended, the files are all stale or all this run's buffers.  *)
OutputAllOrNothing ==
  phase \in {"done", "failed"} =>
    \/ \A i \in 1 .. 4 : files[i] = Stale
    \/ \A i \in 1 .. 4 : files[i] = BufferOf(i)
(* spec 4.2: $vecdim is the string form of the vector width, the maximal  *)
(* trailing run of digits of the instantiation type, and "1" for a        *)
(* scalar.  Every body copied into builtins_impl.h or stdlib_impl.h       *)
(* resolves $vecdim to that number (process_type_name, builtins.py:89,    *)
(* computes it).                                                           *)
SpecVecdim ==
  \A e \in {builtins_impl_buffer[i] : i \in 1 .. Len(builtins_impl_buffer)}
          \cup {stdlib_impl_buffer[i] : i \in 1 .. Len(stdlib_impl_buffer)} :
    "body" \in DOMAIN e =>
      DecimalValue(e.body.vecdim) =
        IF e.body.type.digits = <<>> THEN 1 ELSE DecimalValue(e.body.type.digits)
-----------------------------------------------------------------------------
(***************************************************************************)
(* What reaches the disk.                                                  *)
(***************************************************************************)

(* The fragment kinds each header may hold: stdlib_def.h the public       *)
(* OVERLOAD prototypes, stdlib_impl.h the plain bodies and the native     *)
(* stubs with their callees' prototypes, builtins_def.h the registry and  *)
(* builtins_impl.h the native implementations.                            *)
FileKinds(name) ==
  CASE name = "stdlib_def.h"    -> {"stdlib_def"}
    [] name = "stdlib_impl.h"   -> {"stdlib_impl", "stdlib_stub_def", "stdlib_stub"}
    [] name = "builtins_def.h"  -> {"builtins_def"}
    [] name = "builtins_impl.h" -> {"builtins_impl"}

(* Every output file this run has written holds only the fragments its    *)
(* name promises: add_function appends each KIND_* fragment to the right  *)
(* one of its four buffers and write() sends each buffer to its own file. *)
FilesHoldTheirKinds ==
  \A i \in 1 .. 4 :
    files[i] # Stale =>
      \A j \in 1 .. Len(files[i]) : files[i][j].kind \in FileKinds(OutFiles[i])

(* A file on disk changes only while write() runs, and only to its own    *)
(* buffer; and no buffer changes once parsing has ended, so what write()  *)
(* sends is the buffers as the whole DSL left them.                       *)
FilesWrittenFromFinalBuffers ==
  [][ /\ phase # "parse" =>
           UNCHANGED <<builtins_impl_buffer, builtins_def_buffer,
                       stdlib_impl_buffer, stdlib_def_buffer>>
      /\ \A i \in 1 .. 4 :
           files'[i] # files[i] => phase = "write" /\ files'[i] = BufferOf(i) ]_gvars

=============================================================================
